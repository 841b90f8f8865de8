--------------------------- MODULE MessageCounter ---------------------------
(***************************************************************************)
(* The message counter of the BidCoS packets sent to the devices.  There   *)
(* are two sources of it: a counter in each hm.StandardDevice (count()),   *)
(* and a global one in package bidcos that Encode falls back to when a     *)
(* packet's Msgcnt is 0.  0 is also the first value of a device's counter, *)
(* and comes up again each time it wraps.                                  *)
(***************************************************************************)
EXTENDS Integers

CONSTANTS
  Devices,   \* the devices that packets are sent to
  Switches,  \* those that LevelSet is used on: its packets have Msgcnt 0
  Width,     \* counters are bytes: 256
  Step       \* both counters go up by 9

ASSUME DevicesAssumption == Switches \subseteq Devices
ASSUME StepAssumption == Width \in Nat \ {0} /\ Step \in Nat
\* Width and Step have no common divisor: 57 * 9 = 2 * 256 + 1.
ASSUME CoprimeAssumption ==
  \E i \in 0 .. Width - 1 : (i * Step) % Width = 1 % Width

VARIABLES
  global,    \* messageCounter.counter
  own,       \* msgcnt of each device
  last,      \* history: the last packet to each device
  prev,      \* history: the one before it
  used       \* history: what a device's counter put on the air since it was 0

vars == <<global, own, last, prev, used>>

Counts == 0 .. Width - 1

None    == [cnt |-> 0, via |-> "none"]
Packets == [cnt : Counts, via : {"own", "global"}]

\* Faulty variant: the counter advances by one more.
AddOneMore(c) == (c + Step + 1) % Width

\* += 9 on a byte.
Add(c) == (c + Step) % Width

\* Packet.Encode: the counter that goes on the air, and what is left behind.
Encoded(m) == IF m = 0 THEN [cnt |-> global, via |-> "global"]
                       ELSE [cnt |-> m, via |-> "own"]

Send(d, m) ==
  /\ global' = IF m = 0 THEN Add(global) ELSE global
  /\ last' = [last EXCEPT ![d] = Encoded(m)]
  /\ prev' = [prev EXCEPT ![d] = last[d]]

\* Faulty variant: the result is taken after the counter was advanced once
\* more, as if ConfigStart had called count() twice.
ConfigTwice(d) ==
  /\ Send(d, Add(own[d]))
  /\ own' = [own EXCEPT ![d] = Add(Add(own[d]))]
  /\ used' = [used EXCEPT ![d] = @ \cup {Add(own[d])}]

\* Any of the Config... functions of hm.go.
Config(d) ==
  /\ Send(d, own[d])
  /\ own' = [own EXCEPT ![d] = Add(own[d])]
  /\ used' = [used EXCEPT ![d] = IF own[d] = 0 THEN {} ELSE @ \cup {own[d]}]

\* PowerSwitch.LevelSet, which does not set Msgcnt.
LevelSet(d) ==
  /\ Send(d, 0)
  /\ UNCHANGED <<own, used>>

\* The process ends and is started again: all counters start over, the
\* devices remember what they last heard.
Restart ==
  /\ global' = 0
  /\ own' = [d \in Devices |-> 0]
  /\ used' = [d \in Devices |-> {}]
  /\ UNCHANGED <<last, prev>>

Init ==
  /\ global = 0
  /\ own = [d \in Devices |-> 0]
  /\ last = [d \in Devices |-> None]
  /\ prev = [d \in Devices |-> None]
  /\ used = [d \in Devices |-> {}]

Sends ==
  \/ \E d \in Devices : Config(d)
  \/ \E d \in Switches : LevelSet(d)

Next == Sends \/ Restart

Spec == Init /\ [][Next]_vars

\* The same within one life of the process.
OneLifeSpec == Init /\ [][Sends]_vars

----------------------------------------------------------------------------
(* Properties *)

TypeOK ==
  /\ global \in Counts
  /\ own \in [Devices -> Counts]
  /\ last \in [Devices -> Packets \cup {None}]
  /\ prev \in [Devices -> Packets \cup {None}]
  /\ used \in [Devices -> SUBSET Counts]

\* Two packets in a row that took their counters from the device's own are
\* Step apart: nothing sent to other devices, by the HTTP handlers or across
\* a wrap gets between them.
OwnCountersStep ==
  \A d \in Devices :
    (prev[d].via = "own" /\ last[d].via = "own") =>
      last[d].cnt = Add(prev[d].cnt)

\* 9 and 256 have no common divisor: before a device's counter comes round
\* to 0 every other value has been on the air once.
EveryCountIsUsed ==
  \A d \in Devices : own[d] = 0 => used[d] \in {{}, Counts \ {0}}

\* bidcos.go:105 "increments its message counter by 9 between each message":
\* two packets in a row to one device have different counters.  Not so: the
\* first packet to a device has the global counter, and the second has the
\* 9 of the device's counter, which the global one may have handed out just
\* before: it does for the second device that startup writes to.
ConsecutiveCountsDiffer ==
  \A d \in Devices : prev[d].via # "none" => last[d].cnt # prev[d].cnt

=============================================================================
