---------------------------- MODULE FrameChannel ----------------------------
(***************************************************************************)
(* What the framing of the serial line promises its users: packets arrive  *)
(* whole, at most once and in the order they were written.  Only after a   *)
(* disturbance may packets be missing.  A packet that the reader cannot    *)
(* interpret is passed over.                                               *)
(***************************************************************************)
EXTENDS Integers, Sequences

CONSTANTS
  Packets,       \* what may be written
  Readable(_)    \* can the reader interpret a packet?

VARIABLES
  queue,         \* written, neither received nor passed over
  received,      \* what ReadPacket has returned so far
  disturbed      \* has anything happened to the line yet?

vars == <<queue, received, disturbed>>

Init ==
  /\ queue = <<>>
  /\ received = <<>>
  /\ disturbed = FALSE

Send ==
  /\ \E p \in Packets : queue' = Append(queue, p)
  /\ UNCHANGED <<received, disturbed>>

Disturb ==
  /\ disturbed' = TRUE
  /\ UNCHANGED <<queue, received>>

\* The k-th packet of the queue is received, those before it never will be.
Receive(k) ==
  /\ Readable(queue[k])
  /\ \A i \in 1 .. k - 1 : disturbed \/ ~Readable(queue[i])
  /\ received' = Append(received, queue[k])
  /\ queue' = SubSeq(queue, k + 1, Len(queue))
  /\ UNCHANGED disturbed

Next ==
  \/ Send \/ Disturb
  \/ \E k \in DOMAIN queue : Receive(k)

Spec == Init /\ [][Next]_vars

=============================================================================
