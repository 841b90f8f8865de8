---------------------------- MODULE PowerControl ----------------------------
(***************************************************************************)
(* What the two HTTP handlers /power/on and /power/off promise: a request  *)
(* that is answered "OK" has switched the power switch, and the requests   *)
(* take effect one at a time, in the order of their answers.               *)
(*                                                                         *)
(* The promise is void (chaos) once two goroutines have used the serial    *)
(* line at the same time.                                                  *)
(***************************************************************************)
CONSTANTS
  Handlers,  \* the requests, each served by a goroutine of its own
  Levels,    \* power.On and power.Off
  NoLevel    \* the request has not been made

VARIABLES
  want,      \* what each request asks for
  applied,   \* the requests that the gateway has passed on to the switch
  level,     \* what the switch was last told
  reply,     \* the answer to each request
  chaos      \* the line was used by two goroutines at once

pcVars == <<want, applied, level, reply, chaos>>

Init ==
  /\ want = [h \in Handlers |-> NoLevel]
  /\ applied = {}
  /\ level \in Levels
  /\ reply = [h \in Handlers |-> "none"]
  /\ chaos = FALSE

Request(h) ==
  /\ want[h] = NoLevel
  /\ \E l \in Levels : want' = [want EXCEPT ![h] = l]
  /\ UNCHANGED <<applied, level, reply>>

\* A request takes effect only when the one before it has been answered.
Apply(h) ==
  /\ want[h] # NoLevel
  /\ h \notin applied
  /\ \A o \in applied : reply[o] = "OK"
  /\ applied' = applied \cup {h}
  /\ level' = want[h]
  /\ UNCHANGED <<want, reply>>

Answer(h) ==
  /\ h \in applied
  /\ reply[h] = "none"
  /\ reply' = [reply EXCEPT ![h] = "OK"]
  /\ UNCHANGED <<want, applied, level>>

Next ==
  \/ chaos'
  \/ /\ ~ chaos'
     /\ \E h \in Handlers : Request(h) \/ Apply(h) \/ Answer(h)

Spec == Init /\ [][Next]_pcVars

=============================================================================
