------------------------- MODULE MqttPublisherProofs -------------------------
(***************************************************************************)
(* Proofs about MqttPublisher, for any topics, capacity and number of      *)
(* events: its type invariant, that retained values never go back, and     *)
(* that no event disappears or is filed under another's topic.             *)
(***************************************************************************)
EXTENDS MqttPublisher, TLAPS

\* What Take and Discard do to the channel.
LEMMA TailEffect ==
  ASSUME TypeOK, ch # <<>>, ch' = Tail(ch)
  PROVE  /\ ch' \in Seq(Events)
         /\ Len(ch') = Len(ch) - 1
         /\ Head(ch) = ch[1] /\ ch[1] \in Events /\ 1 \in DOMAIN ch
         /\ \A i \in DOMAIN ch' : i + 1 \in DOMAIN ch /\ ch'[i] = ch[i + 1]
BY DEF TypeOK

\* The channel never holds more than its capacity, and what is in it are
\* events that have been decoded.
THEOREM TypeCorrect == Spec => []TypeOK
<1>1. Init => TypeOK
  BY CapacityAssumption, EventsAssumption DEF Init, TypeOK
<1>2. TypeOK /\ [Next]_vars => TypeOK'
  <2> SUFFICES ASSUME TypeOK, [Next]_vars PROVE TypeOK'
    OBVIOUS
  <2>1. ASSUME NEW t \in Topics, Publish(t) PROVE TypeOK'
    <3>1. next \in Numbers /\ next' \in 1 .. MaxEvents + 1
      BY <2>1, EventsAssumption DEF Publish, Numbers
    <3>2. Event(t) \in Events
      BY <3>1 DEF Event, Events
    <3>3. ch' \in Seq(Events) /\ Len(ch') <= Capacity
      <4>1. CASE Len(ch) < Capacity /\ ch' = Append(ch, Event(t))
        BY <3>2, <4>1, CapacityAssumption DEF TypeOK
      <4>2. CASE ch' = ch
        BY <4>2 DEF TypeOK
      <4>3. QED
        BY <2>1, <4>1, <4>2 DEF Publish
    <3>4. missed' \in SUBSET Events
      BY <2>1, <3>2 DEF Publish, TypeOK
    <3>5. topicOf' \in Seq(Topics) /\ Len(topicOf') = next' - 1
      BY <2>1, <3>1 DEF Publish, TypeOK
    <3>6. QED
      BY <2>1, <3>1, <3>3, <3>4, <3>5 DEF Publish, TypeOK
  <2>2. CASE Disable \/ Connect \/ ConnectFails
    BY <2>2 DEF Disable, Connect, ConnectFails, TypeOK
  <2>3. CASE Take
    <3>1. /\ retained' \in [Topics -> 0 .. MaxEvents]
          /\ missed' \in SUBSET Events
      <4>1. Head(ch) \in Events
        BY <2>3, TailEffect DEF Take
      <4>2. Head(ch).topic \in Topics /\ Head(ch).no \in 0 .. MaxEvents
        BY <4>1, EventsAssumption DEF Events, Numbers
      <4>3. CASE Reaches(Head(ch))
        BY <4>2, <4>3 DEF Reaches, TypeOK
      <4>4. CASE IsLost(Head(ch))
        BY <4>1, <4>4 DEF IsLost, TypeOK
      <4>5. QED
        BY <2>3, <4>3, <4>4 DEF Take
    <3>2. ch' \in Seq(Events) /\ Len(ch') <= Capacity
      BY <2>3, TailEffect, CapacityAssumption DEF Take, TypeOK
    <3>3. QED
      BY <2>3, <3>1, <3>2 DEF Take, TypeOK
  <2>4. CASE Discard
    BY <2>4, TailEffect, CapacityAssumption DEF Discard, TypeOK
  <2>5. CASE UNCHANGED vars
    BY <2>5 DEF vars, TypeOK
  <2>6. QED
    BY <2>1, <2>2, <2>3, <2>4, <2>5 DEF Next
<1>3. QED
  BY <1>1, <1>2, PTL DEF Spec

----------------------------------------------------------------------------
(* The inductive invariant: the channel is in the order of the events, and *)
(* the broker has nothing that is newer than what is still in it.          *)

InOrder ==
  /\ \A i, j \in DOMAIN ch : i < j => ch[i].no < ch[j].no
  /\ \A i \in DOMAIN ch : ch[i].no < next
  /\ \A t \in Topics : retained[t] < next
  /\ \A t \in Topics, i \in DOMAIN ch : retained[t] < ch[i].no

LEMMA InOrderStep == TypeOK /\ InOrder /\ [Next]_vars => InOrder'
<1> SUFFICES ASSUME TypeOK, InOrder, [Next]_vars PROVE InOrder'
  OBVIOUS
<1>0. /\ next \in Nat
      /\ \A t \in Topics : retained[t] \in Nat
      /\ \A i \in DOMAIN ch : ch[i].no \in Nat
  <2>1. \A i \in DOMAIN ch : ch[i] \in Events
    BY DEF TypeOK
  <2>2. \A e \in Events : e.no \in Nat
    BY EventsAssumption DEF Events, Numbers
  <2>3. QED
    BY <2>1, <2>2, EventsAssumption DEF TypeOK
<1>1. ASSUME NEW t \in Topics, Publish(t) PROVE InOrder'
  <2>1. CASE ch' = ch
    BY <1>0, <1>1, <2>1 DEF Publish, InOrder
  <2>2. CASE ch' = Append(ch, Event(t))
    <3>1. \A i \in DOMAIN ch' :
            \/ i \in DOMAIN ch /\ ch'[i] = ch[i]
            \/ i = Len(ch) + 1 /\ ch'[i].no = next
      BY <2>2 DEF TypeOK, Event
    <3>2. next' = next + 1 /\ retained' = retained
      BY <1>1 DEF Publish
    <3>3. \A i \in DOMAIN ch : i < Len(ch) + 1
      BY DEF TypeOK
    <3>4. \A i \in DOMAIN ch' : i \in Nat
      BY <2>2 DEF TypeOK
    <3>5. QED
      BY <1>0, <3>1, <3>2, <3>3, <3>4 DEF InOrder
  <2>3. QED
    BY <1>1, <2>1, <2>2 DEF Publish
<1>2. CASE Disable \/ Connect \/ ConnectFails \/ UNCHANGED vars
  BY <1>2 DEF Disable, Connect, ConnectFails, vars, InOrder
<1>3. CASE Take \/ Discard
  <2>1. ch # <<>> /\ ch' = Tail(ch) /\ next' = next
    BY <1>3 DEF Take, Discard
  <2>2. \A i \in DOMAIN ch' : /\ i \in Nat
                              /\ i + 1 \in DOMAIN ch
                              /\ 1 < i + 1
                              /\ ch'[i] = ch[i + 1]
    BY <2>1, TailEffect DEF TypeOK
  <2>3. \A t \in Topics : retained'[t] = retained[t] \/ retained'[t] = ch[1].no
    BY <1>3, <2>1, TailEffect DEF Take, Discard, Reaches, IsLost, TypeOK
  <2>4. 1 \in DOMAIN ch
    BY <2>1, TailEffect
  <2>5. \A i, j \in DOMAIN ch' : i < j => ch'[i].no < ch'[j].no
    BY <2>2 DEF InOrder
  <2>6. \A i \in DOMAIN ch' : ch'[i].no < next' /\ ch[1].no < ch'[i].no
    BY <2>1, <2>2, <2>4 DEF InOrder
  <2>7. QED
    BY <2>1, <2>2, <2>3, <2>4, <2>5, <2>6 DEF InOrder
<1>4. QED
  BY <1>1, <1>2, <1>3 DEF Next

\* With a broker that is late, slow or loses messages, and a channel that
\* overflows, a topic's retained value is only ever replaced by a newer one.
THEOREM RetainedNeverGoesBack == Spec => NeverGoesBack
<1>1. Init => InOrder
  BY DEF Init, InOrder
<1>2. TypeOK /\ InOrder /\ [Next]_vars
        => [\A t \in Topics : retained'[t] >= retained[t]]_vars
  <2> SUFFICES ASSUME TypeOK, InOrder, Next, NEW t \in Topics
               PROVE  retained'[t] >= retained[t]
    OBVIOUS
  <2>1. retained[t] \in Nat
    BY EventsAssumption DEF TypeOK
  <2>2. CASE Take
    <3>1. 1 \in DOMAIN ch /\ Head(ch) = ch[1] /\ ch[1].no \in Nat
      BY <2>2, TailEffect, EventsAssumption DEF Take, Events, Numbers
    <3>2. retained[t] < ch[1].no
      BY <3>1 DEF InOrder
    <3>3. retained'[t] = retained[t] \/ retained'[t] = ch[1].no
      BY <2>2, <3>1 DEF Take, Reaches, IsLost, TypeOK
    <3>4. QED
      BY <2>1, <3>1, <3>2, <3>3
  <2>3. CASE ~ Take
    <3>1. retained' = retained
      BY <2>3 DEF Next, Publish, Disable, Connect, ConnectFails, Discard
    <3>2. QED
      BY <2>1, <3>1
  <2>4. QED
    BY <2>2, <2>3
<1>3. QED
  BY <1>1, <1>2, InOrderStep, TypeCorrect, PTL DEF Spec, NeverGoesBack

----------------------------------------------------------------------------
(* No event disappears *)

\* What is in the channel has the topic it was decoded for.
Filed == \A i \in DOMAIN ch : topicOf[ch[i].no] = ch[i].topic

\* Publishing changes nothing of what earlier events were about.
LEMMA PublishTopics ==
  ASSUME TypeOK, NEW t \in Topics, Publish(t)
  PROVE  /\ next \in Nat /\ next' = next + 1
         /\ topicOf'[next] = t
         /\ \A k \in 1 .. next - 1 : topicOf'[k] = topicOf[k]
<1>1. next \in Nat /\ next' = next + 1 /\ topicOf' = Append(topicOf, t)
  BY EventsAssumption DEF Publish, Numbers
<1>2. topicOf \in Seq(Topics) /\ Len(topicOf) = next - 1
  BY DEF TypeOK
<1>3. topicOf'[next] = t
  BY <1>1, <1>2
<1>4. ASSUME NEW k \in 1 .. next - 1
      PROVE  topicOf'[k] = topicOf[k]
  BY <1>1, <1>2
<1>5. QED
  BY <1>1, <1>3, <1>4

\* The numbers of queued events are those of events that were decoded.
LEMMA QueuedNumbers ==
  ASSUME TypeOK, InOrder, NEW i \in DOMAIN ch
  PROVE  ch[i].no \in 1 .. next - 1 /\ ch[i].topic \in Topics
<1>1. ch[i] \in Events
  BY DEF TypeOK
<1>2. ch[i].no \in Nat \ {0} /\ ch[i].topic \in Topics
  BY <1>1, EventsAssumption DEF Events, Numbers
<1>3. ch[i].no < next /\ next \in Nat
  BY EventsAssumption DEF InOrder, TypeOK
<1>4. QED
  BY <1>2, <1>3

LEMMA FiledStep == TypeOK /\ InOrder /\ Filed /\ [Next]_vars => Filed'
<1> SUFFICES ASSUME TypeOK, InOrder, Filed, [Next]_vars PROVE Filed'
  OBVIOUS
<1>1. ASSUME NEW t \in Topics, Publish(t) PROVE Filed'
  <2>1. ASSUME NEW i \in DOMAIN ch
        PROVE  topicOf'[ch[i].no] = ch[i].topic
    BY <1>1, PublishTopics, QueuedNumbers DEF Filed
  <2>2. CASE ch' = ch
    BY <2>1, <2>2 DEF Filed
  <2>3. CASE ch' = Append(ch, Event(t))
    <3>1. \A i \in DOMAIN ch' :
            \/ i \in DOMAIN ch /\ ch'[i] = ch[i]
            \/ ch'[i] = Event(t)
      BY <2>3 DEF TypeOK
    <3>2. topicOf'[Event(t).no] = Event(t).topic
      BY <1>1, PublishTopics DEF Event
    <3>3. QED
      BY <2>1, <3>1, <3>2 DEF Filed
  <2>4. QED
    BY <1>1, <2>2, <2>3 DEF Publish
<1>2. CASE Disable \/ Connect \/ ConnectFails \/ UNCHANGED vars
  BY <1>2 DEF Disable, Connect, ConnectFails, vars, Filed
<1>3. CASE Take \/ Discard
  <2>1. ch # <<>> /\ ch' = Tail(ch) /\ topicOf' = topicOf
    BY <1>3 DEF Take, Discard
  <2>2. \A i \in DOMAIN ch' : i + 1 \in DOMAIN ch /\ ch'[i] = ch[i + 1]
    BY <2>1, TailEffect
  <2>3. QED
    BY <2>1, <2>2 DEF Filed
<1>4. QED
  BY <1>1, <1>2, <1>3 DEF Next

\* Taking the first event out of the channel leaves the others in it.
LEMMA QueuedTail ==
  ASSUME TypeOK, ch # <<>>, ch' = Tail(ch)
  PROVE  \A e \in Queued : e = ch[1] \/ e \in Queued'
<1> SUFFICES ASSUME NEW i \in DOMAIN ch, i # 1 PROVE ch[i] \in Queued'
  BY DEF Queued
<1>1. i - 1 \in DOMAIN ch' /\ (i - 1) + 1 = i
  BY TailEffect DEF TypeOK
<1>2. ch'[i - 1] = ch[i]
  BY <1>1, TailEffect
<1>3. QED
  BY <1>1, <1>2 DEF Queued

\* What is said of the k-th event, for a name.
Accounted(k) ==
  LET t == topicOf[k]
      e == [topic |-> t, no |-> k]
  IN  \/ e \in Queued \cup missed
      \/ retained[t] >= k /\ topicOf[retained[t]] = t

\* While the publisher takes an event out, what replaces a retained value is
\* newer, and about the same.
LEMMA TakeKeeps ==
  ASSUME TypeOK, InOrder, Filed, Take \/ Discard,
         NEW k \in 1 .. next - 1, Accounted(k)
  PROVE  Accounted(k)'
<1> DEFINE t == topicOf[k]
           e == [topic |-> t, no |-> k]
<1>1. /\ ch # <<>> /\ ch' = Tail(ch) /\ missed \subseteq missed'
      /\ topicOf' = topicOf
  BY DEF Take, Discard, Reaches, IsLost
<1>2. 1 \in DOMAIN ch /\ Head(ch) = ch[1]
  BY <1>1, TailEffect
<1>3. /\ ch[1].no \in 1 .. next - 1 /\ ch[1].topic \in Topics
      /\ topicOf[ch[1].no] = ch[1].topic
  BY <1>2, QueuedNumbers DEF Filed
<1>4. t \in Topics /\ next \in Nat /\ k \in Nat
  BY EventsAssumption DEF TypeOK
<1>5. retained[t] \in Nat /\ retained[t] < ch[1].no
  BY <1>2, <1>4, EventsAssumption DEF TypeOK, InOrder
<1>6. \/ retained'[t] = retained[t]
      \/ retained'[t] = ch[1].no /\ ch[1].topic = t
  BY <1>2, <1>3, <1>4 DEF Take, Discard, Reaches, IsLost, TypeOK
<1>7. CASE e \in missed
  BY <1>1, <1>7 DEF Accounted
<1>8. CASE e \in Queued /\ e # ch[1]
  BY <1>1, <1>8, QueuedTail DEF Accounted
<1>9. CASE e = ch[1]
  <2>1. ch[1].no = k /\ ch[1].topic = t
    BY <1>9
  <2>2. e \in missed' \/ retained'[t] = k
    BY <1>2, <1>4, <1>9, <2>1 DEF Take, Discard, Reaches, IsLost, TypeOK
  <2>3. CASE e \in missed'
    BY <1>1, <2>3 DEF Accounted
  <2>4. CASE retained'[t] = k
    BY <1>1, <1>4, <2>4 DEF Accounted
  <2>5. QED
    BY <2>2, <2>3, <2>4
<1>10. CASE retained[t] >= k /\ topicOf[retained[t]] = t
  <2>1. retained'[t] >= k
    BY <1>3, <1>4, <1>5, <1>6, <1>10
  <2>2. topicOf[retained'[t]] = t
    BY <1>3, <1>6, <1>10
  <2>3. QED
    BY <1>1, <2>1, <2>2 DEF Accounted
<1>11. QED
  BY <1>7, <1>8, <1>9, <1>10 DEF Accounted

\* Publishing accounts for the new event and leaves the others where they are.
LEMMA PublishKeeps ==
  ASSUME TypeOK, InOrder, NEW t \in Topics, Publish(t),
         \A k \in 1 .. next - 1 : Accounted(k),
         NEW k \in 1 .. next' - 1
  PROVE  Accounted(k)'
<1>1. Queued \subseteq Queued' /\ missed \subseteq missed'
  <2>1. CASE ch' = Append(ch, Event(t)) /\ missed' = missed
    <3>1. \A i \in DOMAIN ch : i \in DOMAIN ch' /\ ch'[i] = ch[i]
      BY <2>1 DEF TypeOK
    <3>2. QED
      BY <2>1, <3>1 DEF Queued
  <2>2. CASE ch' = ch /\ missed' = missed \cup {Event(t)}
    BY <2>2 DEF Queued
  <2>3. QED
    BY <2>1, <2>2 DEF Publish
<1>2. Event(t) \in Queued' \/ Event(t) \in missed'
  <2>1. CASE ch' = Append(ch, Event(t))
    <3>1. Len(ch) + 1 \in DOMAIN ch' /\ ch'[Len(ch) + 1] = Event(t)
      BY <2>1 DEF TypeOK
    <3>2. QED
      BY <3>1 DEF Queued
  <2>2. CASE missed' = missed \cup {Event(t)}
    BY <2>2
  <2>3. QED
    BY <2>1, <2>2 DEF Publish
<1>3. CASE k = next
  <2>1. topicOf'[k] = t
    BY <1>3, PublishTopics
  <2>2. Event(t) = [topic |-> topicOf'[k], no |-> k]
    BY <1>3, <2>1 DEF Event
  <2>3. QED
    BY <1>2, <2>2 DEF Accounted
<1>4. CASE k # next
  <2>1. k \in 1 .. next - 1 /\ topicOf'[k] = topicOf[k]
    BY <1>4, PublishTopics
  <2> DEFINE u == topicOf[k]
  <2>2. retained' = retained
    BY DEF Publish
  <2>3. CASE [topic |-> u, no |-> k] \in Queued \cup missed
    BY <1>1, <2>1, <2>3 DEF Accounted
  <2>4. CASE retained[u] >= k /\ topicOf[retained[u]] = u
    <3>1. u \in Topics
      BY <2>1 DEF TypeOK
    <3>2. retained[u] \in Nat /\ retained[u] < next /\ k \in Nat \ {0}
      BY <2>1, <3>1, EventsAssumption DEF TypeOK, InOrder
    <3>3. next \in Nat
      BY EventsAssumption DEF TypeOK
    <3>4. retained[u] \in 1 .. next - 1
      BY <2>4, <3>2, <3>3
    <3>5. topicOf'[retained[u]] = topicOf[retained[u]]
      BY <3>4, PublishTopics
    <3>6. QED
      BY <2>1, <2>2, <2>4, <3>5 DEF Accounted
  <2>5. QED
    BY <2>1, <2>3, <2>4 DEF Accounted
<1>5. QED
  BY <1>3, <1>4

LEMMA StaleIsAccounted ==
  StaleOnlyIfMissed <=> \A k \in 1 .. next - 1 : Accounted(k)
BY DEF StaleOnlyIfMissed, Accounted

LEMMA StaleStep ==
  TypeOK /\ InOrder /\ Filed /\ StaleOnlyIfMissed /\ [Next]_vars
    => StaleOnlyIfMissed'
<1> SUFFICES ASSUME TypeOK, InOrder, Filed, StaleOnlyIfMissed, [Next]_vars,
                    NEW k \in 1 .. next' - 1
             PROVE  Accounted(k)'
  BY DEF StaleOnlyIfMissed, Accounted
<1>1. \A n \in 1 .. next - 1 : Accounted(n)
  BY StaleIsAccounted
<1>2. ASSUME NEW t \in Topics, Publish(t) PROVE Accounted(k)'
  BY <1>1, <1>2, PublishKeeps
<1>3. CASE Disable \/ Connect \/ ConnectFails \/ UNCHANGED vars
  BY <1>1, <1>3 DEF Disable, Connect, ConnectFails, vars, Accounted, Queued
<1>4. CASE Take \/ Discard
  <2>1. next' = next
    BY <1>4 DEF Take, Discard
  <2>2. QED
    BY <1>1, <1>4, <2>1, TakeKeeps
<1>5. QED
  BY <1>2, <1>3, <1>4 DEF Next

\* No event disappears or is filed under another's topic: what the main loop
\* decoded about a topic is in the channel under this topic, was dropped or
\* lost, or the broker holds for this topic the event itself or a later one
\* that was decoded about it.
THEOREM NoEventDisappears == Spec => []StaleOnlyIfMissed
<1>1. Init => InOrder /\ Filed /\ StaleOnlyIfMissed
  BY DEF Init, InOrder, Filed, StaleOnlyIfMissed
<1>2. QED
  BY <1>1, InOrderStep, FiledStep, StaleStep, TypeCorrect, PTL DEF Spec

==============================================================================
