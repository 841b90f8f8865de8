---------------------------- MODULE MqttPublisher ----------------------------
(***************************************************************************)
(* mqtt.go: the main loop hands decoded events to publishMQTT, which puts  *)
(* them into a buffered channel and drops them when it is full; the        *)
(* goroutine of publisherLoop takes them out and publishes them with the   *)
(* retained flag, so that a subscriber that comes later gets the last one  *)
(* of each topic.  An event is its number: later events have higher ones.  *)
(*                                                                         *)
(* The MQTT client and the broker are external: QoS 0 is best effort.      *)
(***************************************************************************)
EXTENDS Integers, Sequences

CONSTANTS
  Topics,     \* one per kind of event and device
  Capacity,   \* of the channel: 64
  MaxEvents   \* bound: how many events are decoded

ASSUME CapacityAssumption == Capacity \in Nat \ {0}
ASSUME EventsAssumption == MaxEvents \in Nat

VARIABLES
  pub,        \* where publisherLoop stands
  ch,         \* the channel
  next,       \* the number of the next event
  retained,   \* what the broker holds for each topic, 0 for nothing
  topicOf,    \* history: what each event was about when it was decoded
  missed      \* history: events that publishMQTT dropped or the client lost

vars == <<pub, ch, next, retained, topicOf, missed>>

Numbers == 1 .. MaxEvents
Events  == [topic : Topics, no : Numbers]

\* Faulty variant: the topic leaves out the name, so that devices share one.
EventUnnamed(t) == [topic |-> CHOOSE u \in Topics : TRUE, no |-> next]

\* The message made of an event about t.
Event(t) == [topic |-> t, no |-> next]

\* Faulty variant: the oldest message makes room for the new one.
PublishEvicting(t) ==
  /\ next \in Numbers
  /\ next' = next + 1
  /\ topicOf' = Append(topicOf, t)
  /\ ch' = Append(IF Len(ch) < Capacity THEN ch ELSE Tail(ch), Event(t))
  /\ UNCHANGED <<pub, retained, missed>>

\* Faulty variant: the channel has no bound.
PublishUnbounded(t) ==
  /\ next \in Numbers
  /\ next' = next + 1
  /\ topicOf' = Append(topicOf, t)
  /\ ch' = Append(ch, Event(t))
  /\ UNCHANGED <<pub, retained, missed>>

\* publishMQTT, called by the main loop; its select never blocks.
Publish(t) ==
  /\ next \in Numbers
  /\ next' = next + 1
  /\ topicOf' = Append(topicOf, t)
  /\ \/ /\ Len(ch) < Capacity
        /\ ch' = Append(ch, Event(t))
        /\ UNCHANGED missed
     \/ /\ Len(ch) = Capacity
        /\ missed' = missed \cup {Event(t)}
        /\ UNCHANGED ch
  /\ UNCHANGED <<pub, retained>>

\* publisherLoop without a broker: it only empties the channel.
Disable ==
  /\ pub = "starting"
  /\ pub' = "disabled"
  /\ UNCHANGED <<ch, next, retained, topicOf, missed>>

\* The client has connected, which may take any time (ConnectRetry).
Connect ==
  /\ pub = "starting"
  /\ pub' = "publishing"
  /\ UNCHANGED <<ch, next, retained, topicOf, missed>>

\* Connect has reported an error: publisherLoop returns, nobody receives
\* from the channel any more.
ConnectFails ==
  /\ pub = "starting"
  /\ pub' = "returned"
  /\ UNCHANGED <<ch, next, retained, topicOf, missed>>

\* What becomes of a message given to the client.
Reaches(e) ==
  /\ retained' = [retained EXCEPT ![e.topic] = e.no]
  /\ UNCHANGED missed

IsLost(e) ==
  /\ missed' = missed \cup {e}
  /\ UNCHANGED retained

\* Faulty variant: the newest message is taken first.
TakeNewest ==
  /\ pub = "publishing"
  /\ ch # <<>>
  /\ ch' = SubSeq(ch, 1, Len(ch) - 1)
  /\ Reaches(ch[Len(ch)]) \/ IsLost(ch[Len(ch)])
  /\ UNCHANGED <<pub, next, topicOf>>

\* Faulty variant: the loop ends after one message.
TakeOnce ==
  /\ pub = "publishing"
  /\ ch # <<>>
  /\ ch' = Tail(ch)
  /\ Reaches(Head(ch)) \/ IsLost(Head(ch))
  /\ pub' = "returned"
  /\ UNCHANGED <<next, topicOf>>

\* Receive from the channel and call Publish, whose Token is discarded: the
\* message reaches the broker or is lost.
Take ==
  /\ pub = "publishing"
  /\ ch # <<>>
  /\ ch' = Tail(ch)
  /\ Reaches(Head(ch)) \/ IsLost(Head(ch))
  /\ UNCHANGED <<pub, next, topicOf>>

\* "for range requests {}"
Discard ==
  /\ pub = "disabled"
  /\ ch # <<>>
  /\ ch' = Tail(ch)
  /\ missed' = missed \cup {Head(ch)}
  /\ UNCHANGED <<pub, next, retained, topicOf>>

Init ==
  /\ pub = "starting"
  /\ ch = <<>>
  /\ next = 1
  /\ retained = [t \in Topics |-> 0]
  /\ topicOf = <<>>
  /\ missed = {}

Next ==
  \/ \E t \in Topics : Publish(t)
  \/ Disable \/ Connect \/ ConnectFails
  \/ Take \/ Discard

Spec == Init /\ [][Next]_vars

\* The goroutine of publisherLoop keeps receiving.
FairSpec == Spec /\ WF_vars(Take) /\ WF_vars(Discard)

----------------------------------------------------------------------------
(* Properties *)

TypeOK ==
  /\ pub \in {"starting", "disabled", "publishing", "returned"}
  /\ ch \in Seq(Events) /\ Len(ch) <= Capacity
  /\ next \in 1 .. MaxEvents + 1
  /\ retained \in [Topics -> 0 .. MaxEvents]
  /\ topicOf \in Seq(Topics) /\ Len(topicOf) = next - 1
  /\ missed \in SUBSET Events

\* However slow or late the broker is, what it retains for a topic is never
\* replaced by an older event.
NeverGoesBack ==
  [][\A t \in Topics : retained'[t] >= retained[t]]_vars

Queued == {ch[i] : i \in DOMAIN ch}

\* No event disappears and none is filed under another's topic: what the
\* main loop has decoded about a topic is on its way under this topic, was
\* dropped or lost, or the broker holds it for this topic, or a later event
\* that was about the same one.
StaleOnlyIfMissed ==
  \A k \in 1 .. next - 1 :
    LET t == topicOf[k]
        e == [topic |-> t, no |-> k]
    IN  \/ e \in Queued \cup missed
        \/ retained[t] >= k /\ topicOf[retained[t]] = t

\* Once connected, the program does not keep an event for itself: each one
\* accepted into the channel is handed on.
AcceptedIsHandedOn ==
  \A k \in Numbers :
    (/\ \E e \in Queued : e.no = k
     /\ pub \in {"publishing", "disabled"})
      ~> (\A e \in Queued : e.no # k)

==============================================================================
