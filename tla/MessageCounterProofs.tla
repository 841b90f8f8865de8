------------------------ MODULE MessageCounterProofs ------------------------
(***************************************************************************)
(* Proofs about MessageCounter, for any devices, width and step.           *)
(***************************************************************************)
EXTENDS MessageCounter, TLAPS

LEMMA AddType == \A c \in Counts : Add(c) \in Counts
BY StepAssumption DEF Counts, Add

LEMMA ZeroIsCount == 0 \in Counts
BY StepAssumption DEF Counts

\* Every counter that goes on the air is a byte.
THEOREM TypeCorrect == Spec => []TypeOK
<1>1. Init => TypeOK
  BY ZeroIsCount DEF Init, TypeOK
<1>2. TypeOK /\ [Next]_vars => TypeOK'
  <2> SUFFICES ASSUME TypeOK, [Next]_vars PROVE TypeOK'
    OBVIOUS
  <2>1. \A m \in Counts : Encoded(m) \in Packets
    BY DEF TypeOK, Encoded, Packets
  <2>2. ASSUME NEW d \in Devices, Config(d) PROVE TypeOK'
    BY <2>1, <2>2, AddType DEF Config, Send, TypeOK
  <2>3. ASSUME NEW d \in Switches, LevelSet(d) PROVE TypeOK'
    BY <2>1, <2>3, AddType, ZeroIsCount, DevicesAssumption
    DEF LevelSet, Send, TypeOK
  <2>4. CASE Restart
    BY <2>4, ZeroIsCount DEF Restart, TypeOK
  <2>5. CASE UNCHANGED vars
    BY <2>5 DEF vars, TypeOK
  <2>6. QED
    BY <2>2, <2>3, <2>4, <2>5 DEF Next, Sends
<1>3. QED
  BY <1>1, <1>2, PTL DEF Spec

----------------------------------------------------------------------------
(* The steps of a device's own counter *)

\* The inductive invariant: if the last packet to a device took its counter
\* from the device's own, that counter is now one step further, unless the
\* program was started anew; then the next packet has the global counter.
OwnIsAhead ==
  \A d \in Devices :
    last[d].via = "own" => own[d] = Add(last[d].cnt) \/ own[d] = 0

\* What Config sends when it sends the device's own counter.
LEMMA OwnEncoded ==
  \A m \in Counts :
    Encoded(m).via = "own" => Encoded(m).cnt = m /\ m # 0
BY DEF Encoded

LEMMA OwnStep ==
  TypeOK /\ OwnIsAhead /\ OwnCountersStep /\ [Next]_vars
    => OwnIsAhead' /\ OwnCountersStep'
<1> SUFFICES ASSUME TypeOK, OwnIsAhead, OwnCountersStep, [Next]_vars
             PROVE  OwnIsAhead' /\ OwnCountersStep'
  OBVIOUS
<1>1. ASSUME NEW d \in Devices, Config(d)
      PROVE  OwnIsAhead' /\ OwnCountersStep'
  <2>1. /\ last' = [last EXCEPT ![d] = Encoded(own[d])]
        /\ prev' = [prev EXCEPT ![d] = last[d]]
        /\ own' = [own EXCEPT ![d] = Add(own[d])]
    BY <1>1 DEF Config, Send
  <2>2. own[d] \in Counts
    BY DEF TypeOK
  <2>3. ASSUME NEW e \in Devices, last'[e].via = "own"
        PROVE  own'[e] = Add(last'[e].cnt) \/ own'[e] = 0
    <3>1. CASE e = d
      BY <2>1, <2>2, <2>3, <3>1, OwnEncoded DEF TypeOK
    <3>2. CASE e # d
      BY <2>1, <2>3, <3>2 DEF TypeOK, OwnIsAhead
    <3>3. QED
      BY <3>1, <3>2
  <2>4. ASSUME NEW e \in Devices, prev'[e].via = "own", last'[e].via = "own"
        PROVE  last'[e].cnt = Add(prev'[e].cnt)
    <3>1. CASE e = d
      <4>1. last[d].via = "own" /\ prev'[d] = last[d]
        BY <2>1, <2>4, <3>1 DEF TypeOK
      <4>2. last'[d].cnt = own[d] /\ own[d] # 0
        BY <2>1, <2>2, <2>4, <3>1, OwnEncoded DEF TypeOK
      <4>3. QED
        BY <3>1, <4>1, <4>2 DEF OwnIsAhead
    <3>2. CASE e # d
      BY <2>1, <2>4, <3>2 DEF TypeOK, OwnCountersStep
    <3>3. QED
      BY <3>1, <3>2
  <2>5. QED
    BY <2>3, <2>4 DEF OwnIsAhead, OwnCountersStep, Add
<1>2. ASSUME NEW d \in Switches, LevelSet(d)
      PROVE  OwnIsAhead' /\ OwnCountersStep'
  <2>1. /\ last' = [last EXCEPT ![d] = Encoded(0)]
        /\ prev' = [prev EXCEPT ![d] = last[d]]
        /\ own' = own
    BY <1>2 DEF LevelSet, Send
  <2>2. Encoded(0).via = "global"
    BY DEF Encoded
  <2>3. last'[d].via = "global"
    BY <2>1, <2>2, DevicesAssumption DEF TypeOK
  <2>4. \A e \in Devices : e # d => last'[e] = last[e] /\ prev'[e] = prev[e]
    BY <2>1 DEF TypeOK
  <2>5. QED
    BY <2>1, <2>3, <2>4 DEF OwnIsAhead, OwnCountersStep, Add
<1>3. CASE Restart
  BY <1>3 DEF Restart, OwnIsAhead, OwnCountersStep, Add
<1>4. CASE UNCHANGED vars
  BY <1>4 DEF vars, OwnIsAhead, OwnCountersStep, Add
<1>5. QED
  BY <1>1, <1>2, <1>3, <1>4 DEF Next, Sends

\* Whatever is sent to other devices and through the global counter, and
\* however often the process is restarted, two packets in a row that a
\* device got from its own counter are Step apart.
THEOREM OwnCountersStepAlways == Spec => []OwnCountersStep
<1>1. Init => OwnIsAhead /\ OwnCountersStep
  BY DEF Init, OwnIsAhead, OwnCountersStep, None
<1>2. QED
  BY <1>1, OwnStep, TypeCorrect, PTL DEF Spec

----------------------------------------------------------------------------
(* How often a counter comes round *)

\* Numbers modulo Width: a number has one remainder, which multiples of
\* Width do not change, nor taking it before a sum or a product.
LEMMA OneRemainder ==
  ASSUME NEW w \in Nat \ {0}, NEW q \in Int, NEW p \in Int,
         NEW a \in 0 .. w - 1, NEW b \in 0 .. w - 1, w * q + a = w * p + b
  PROVE  a = b
<1>1. w * (q - p) = b - a
  OBVIOUS
<1>2. q - p >= 1 => w * (q - p) >= w
  OBVIOUS
<1>3. q - p <= -1 => w * (q - p) <= -w
  OBVIOUS
<1>4. q - p = 0
  BY <1>1, <1>2, <1>3
<1>5. QED
  BY <1>1, <1>4

LEMMA AddMultiple ==
  ASSUME NEW w \in Nat \ {0}, NEW q \in Nat, NEW r \in Nat
  PROVE  (w * q + r) % w = r % w
<1> DEFINE n == w * q + r
<1>1. w * q \in Nat /\ n \in Nat
  OBVIOUS
<1>2. /\ r % w \in 0 .. w - 1 /\ r \div w \in Int
      /\ r = w * (r \div w) + (r % w)
  OBVIOUS
<1>3. /\ n % w \in 0 .. w - 1 /\ n \div w \in Int
      /\ n = w * (n \div w) + (n % w)
  BY <1>1
<1>4. n = w * (q + (r \div w)) + (r % w)
  BY <1>2
<1> HIDE DEF n
<1>5. n % w = r % w
  <2>1. PICK x \in Int, y \in 0 .. w - 1 : n % w = y /\ n = w * x + y
    BY <1>3, Zenon
  <2>2. PICK u \in Int, v \in 0 .. w - 1 : r % w = v /\ n = w * u + v
    <3>1. q + (r \div w) \in Int
      BY <1>2
    <3>2. QED
      BY <1>2, <1>4, <3>1, Zenon
  <2>3. y = v
    BY <2>1, <2>2, OneRemainder, Zenon
  <2>4. QED
    BY <2>1, <2>2, <2>3
<1>6. QED
  BY <1>5 DEF n

LEMMA SumRemainder ==
  ASSUME NEW w \in Nat \ {0}, NEW a \in Nat, NEW b \in Nat
  PROVE  ((a % w) + b) % w = (a + b) % w
<1>1. PICK q \in Nat, r \in Nat : r = a % w /\ a = w * q + r
  OBVIOUS
<1>2. a + b = w * q + (r + b) /\ r + b \in Nat
  BY <1>1
<1>3. (w * q + (r + b)) % w = (r + b) % w
  BY <1>2, AddMultiple
<1>4. QED
  BY <1>1, <1>2, <1>3

LEMMA ProductRemainder ==
  ASSUME NEW w \in Nat \ {0}, NEW a \in Nat, NEW b \in Nat
  PROVE  (a * (b % w)) % w = (a * b) % w
<1>1. /\ b % w \in Nat /\ b \div w \in Nat
      /\ b = w * (b \div w) + (b % w)
  OBVIOUS
<1> DEFINE q == b \div w
           r == b % w
<1>2. q \in Nat /\ r \in Nat /\ b = w * q + r
  BY <1>1
<1> HIDE DEF q, r
<1>3. a * b = w * (a * q) + a * r
  BY <1>2
<1>4. a * q \in Nat /\ a * r \in Nat
  BY <1>2
<1>5. (w * (a * q) + a * r) % w = (a * r) % w
  BY <1>4, AddMultiple
<1>6. QED
  BY <1>3, <1>5 DEF r

\* The number of steps from 0 to a count, modulo Width.
Inverse == CHOOSE i \in 0 .. Width - 1 : (i * Step) % Width = 1 % Width
StepsTo(c) == (Inverse * c) % Width

LEMMA InverseFacts ==
  Inverse \in Nat /\ (Inverse * Step) % Width = 1 % Width
BY CoprimeAssumption DEF Inverse

LEMMA StepsToNext ==
  ASSUME NEW c \in Counts
  PROVE  StepsTo(Add(c)) = (StepsTo(c) + 1) % Width
<1> DEFINE I == Inverse
<1>1. /\ Width \in Nat \ {0} /\ Step \in Nat /\ c \in Nat /\ I \in Nat
      /\ (I * Step) % Width = 1 % Width
  BY InverseFacts, StepAssumption DEF Counts
<1> HIDE DEF I
<1>2. I * c \in Nat /\ I * Step \in Nat /\ c + Step \in Nat
      /\ I * (c + Step) = I * Step + I * c
  BY <1>1
<1>3. (I * ((c + Step) % Width)) % Width = (I * Step + I * c) % Width
  <2>1. (I * ((c + Step) % Width)) % Width = (I * (c + Step)) % Width
    BY <1>1, <1>2, ProductRemainder
  <2>2. QED
    BY <1>2, <2>1
<1>4. (I * Step + I * c) % Width = ((1 % Width) + I * c) % Width
  BY <1>1, <1>2, SumRemainder
<1>5. ((1 % Width) + I * c) % Width = (1 + I * c) % Width
  BY <1>1, <1>2, SumRemainder
<1>6. (1 + I * c) % Width = (((I * c) % Width) + 1) % Width
  <2>1. (((I * c) % Width) + 1) % Width = (I * c + 1) % Width
    BY <1>1, <1>2, SumRemainder
  <2>2. I * c + 1 = 1 + I * c
    BY <1>2
  <2>3. QED
    BY <2>1, <2>2
<1>7. QED
  BY <1>3, <1>4, <1>5, <1>6 DEF StepsTo, Add, I

LEMMA StepsBack ==
  ASSUME NEW c \in Counts
  PROVE  (Step * StepsTo(c)) % Width = c
<1> DEFINE I == Inverse
<1>1. /\ Width \in Nat \ {0} /\ Step \in Nat /\ c \in Nat /\ I \in Nat
      /\ (I * Step) % Width = 1 % Width
  BY InverseFacts, StepAssumption DEF Counts
<1>2. c % Width = c
  BY StepAssumption DEF Counts
<1> HIDE DEF I
<1>3. I * c \in Nat /\ I * Step \in Nat
  BY <1>1
<1>4. Step * (I * c) = c * (I * Step)
  BY <1>1
<1>5. (Step * ((I * c) % Width)) % Width = (Step * (I * c)) % Width
  BY <1>1, <1>3, ProductRemainder
<1>6. (c * (I * Step)) % Width = (c * ((I * Step) % Width)) % Width
  BY <1>1, <1>3, ProductRemainder
<1>7. (c * (1 % Width)) % Width = (c * 1) % Width
  BY <1>1, ProductRemainder
<1>8. c * 1 = c
  BY <1>1
<1>9. QED
  BY <1>1, <1>2, <1>4, <1>5, <1>6, <1>7, <1>8 DEF StepsTo, I

LEMMA StepsToFacts ==
  /\ \A c \in Counts : StepsTo(c) \in Counts
  /\ StepsTo(0) = 0
  /\ \A a, b \in Counts : StepsTo(a) = StepsTo(b) => a = b
<1>1. \A c \in Counts : StepsTo(c) \in Counts
  <2> SUFFICES ASSUME NEW c \in Counts PROVE StepsTo(c) \in Counts
    OBVIOUS
  <2>1. Inverse * c \in Nat
    BY InverseFacts, StepAssumption DEF Counts
  <2>2. \A x \in Nat : x % Width \in 0 .. Width - 1
    BY StepAssumption
  <2>3. QED
    BY <2>1, <2>2 DEF StepsTo, Counts
<1>2. StepsTo(0) = 0
  <2>1. Inverse * 0 = 0 /\ 0 % Width = 0
    BY InverseFacts, StepAssumption
  <2>2. QED
    BY <2>1 DEF StepsTo
<1>3. \A a, b \in Counts : StepsTo(a) = StepsTo(b) => a = b
  BY StepsBack
<1>4. QED
  BY <1>1, <1>2, <1>3

\* The inductive invariant: what a device's counter put on the air since it
\* was 0 are the counts on the way from there to where it is now.
UsedOnTheWay ==
  \A d \in Devices :
    \/ used[d] = {c \in Counts : 0 < StepsTo(c) /\ StepsTo(c) < StepsTo(own[d])}
    \/ own[d] = 0 /\ used[d] = Counts \ {0}

\* One packet from a device's own counter m, which used up U so far.
LEMMA UseOne ==
  ASSUME NEW m \in Counts, NEW U,
         \/ U = {c \in Counts : 0 < StepsTo(c) /\ StepsTo(c) < StepsTo(m)}
         \/ m = 0
  PROVE  LET V == IF m = 0 THEN {} ELSE U \cup {m}
         IN  \/ V = {c \in Counts : /\ 0 < StepsTo(c)
                                    /\ StepsTo(c) < StepsTo(Add(m))}
             \/ Add(m) = 0 /\ V = Counts \ {0}
<1> DEFINE V == IF m = 0 THEN {} ELSE U \cup {m}
           p == StepsTo(m)
           q == StepsTo(Add(m))
<1>1. /\ Width \in Nat \ {0} /\ 0 \in Counts /\ Add(m) \in Counts
      /\ p \in Counts /\ q = (p + 1) % Width
  BY StepsToFacts, StepsToNext, AddType, ZeroIsCount, StepAssumption
<1>2. \A c \in Counts : /\ StepsTo(c) \in Counts
                        /\ StepsTo(c) = p <=> c = m
                        /\ StepsTo(c) = 0 <=> c = 0
                        /\ StepsTo(c) = q <=> c = Add(m)
  BY <1>1, StepsToFacts
<1>3. \/ p + 1 < Width /\ q = p + 1
      \/ p + 1 = Width /\ q = 0
  BY <1>1 DEF Counts
<1> HIDE DEF p, q
<1>4. CASE m = 0
  <2>1. p = 0 /\ V = {}
    BY <1>1, <1>2, <1>4
  <2>2. \A c \in Counts : ~ (0 < StepsTo(c) /\ StepsTo(c) < q)
    BY <1>1, <1>2, <1>3, <2>1 DEF Counts
  <2>3. V = {c \in Counts : 0 < StepsTo(c) /\ StepsTo(c) < q}
    BY <2>1, <2>2
  <2>4. QED
    BY <2>3 DEF q
<1>5. CASE m # 0
  <2>1. p # 0 /\ V = U \cup {m}
    BY <1>2, <1>5
  <2>2. U = {c \in Counts : 0 < StepsTo(c) /\ StepsTo(c) < p}
    BY <1>5 DEF p
  <2>3. V = {c \in Counts : 0 < StepsTo(c) /\ StepsTo(c) <= p}
    <3>1. \A c \in Counts : StepsTo(c) <= p <=> (StepsTo(c) < p \/ c = m)
      BY <1>1, <1>2 DEF Counts
    <3>2. 0 < StepsTo(m) /\ m \in Counts
      BY <1>1, <1>2, <1>5 DEF Counts
    <3>3. QED
      BY <2>1, <2>2, <3>1, <3>2
  <2>4. CASE q = p + 1
    <3>1. \A c \in Counts : StepsTo(c) <= p <=> StepsTo(c) < q
      BY <1>1, <1>2, <2>4 DEF Counts
    <3>2. V = {c \in Counts : 0 < StepsTo(c) /\ StepsTo(c) < q}
      BY <2>3, <3>1
    <3>3. QED
      BY <3>2 DEF q
  <2>5. CASE p + 1 = Width /\ q = 0
    <3>1. \A c \in Counts : 0 < StepsTo(c) /\ StepsTo(c) <= p <=> c # 0
      BY <1>1, <1>2, <2>5 DEF Counts
    <3>2. V = Counts \ {0} /\ Add(m) = 0
      BY <1>1, <1>2, <2>3, <2>5, <3>1
    <3>3. QED
      BY <3>2
  <2>6. QED
    BY <1>3, <2>4, <2>5
<1>6. QED
  BY <1>4, <1>5 DEF q

LEMMA UsedStep == TypeOK /\ UsedOnTheWay /\ [Next]_vars => UsedOnTheWay'
<1> SUFFICES ASSUME TypeOK, UsedOnTheWay, [Next]_vars, NEW e \in Devices
             PROVE  \/ used'[e] = {c \in Counts :
                                     0 < StepsTo(c) /\ StepsTo(c) < StepsTo(own'[e])}
                    \/ own'[e] = 0 /\ used'[e] = Counts \ {0}
  BY DEF UsedOnTheWay, StepsTo
<1>1. ASSUME NEW d \in Devices, Config(d), e = d
      PROVE  \/ used'[e] = {c \in Counts :
                              0 < StepsTo(c) /\ StepsTo(c) < StepsTo(own'[e])}
             \/ own'[e] = 0 /\ used'[e] = Counts \ {0}
  <2>1. PICK m \in Counts : m = own[d]
    BY DEF TypeOK
  <2>2. PICK U : U = used[d]
    OBVIOUS
  <2>3. \/ U = {c \in Counts : 0 < StepsTo(c) /\ StepsTo(c) < StepsTo(m)}
        \/ m = 0
    BY <2>1, <2>2 DEF UsedOnTheWay
  <2>4. /\ own'[d] = Add(m)
        /\ used'[d] = IF m = 0 THEN {} ELSE U \cup {m}
    BY <1>1, <2>1, <2>2 DEF Config, TypeOK
  <2>5. QED
    BY <1>1, <2>3, <2>4, UseOne
<1>2. CASE Restart
  <2>1. own'[e] = 0 /\ used'[e] = {}
    BY <1>2 DEF Restart
  <2>2. \A c \in Counts : ~ (0 < StepsTo(c) /\ StepsTo(c) < StepsTo(0))
    BY StepsToFacts DEF Counts
  <2>3. QED
    BY <2>1, <2>2
<1>3. CASE own'[e] = own[e] /\ used'[e] = used[e]
  BY <1>3 DEF UsedOnTheWay
<1>4. ASSUME NEW d \in Devices, Config(d), e # d
      PROVE  own'[e] = own[e] /\ used'[e] = used[e]
  BY <1>4 DEF Config, TypeOK
<1>5. ASSUME NEW d \in Switches, LevelSet(d)
      PROVE  own'[e] = own[e] /\ used'[e] = used[e]
  BY <1>5 DEF LevelSet
<1>6. CASE UNCHANGED vars
  BY <1>3, <1>6 DEF vars
<1>7. QED
  BY <1>1, <1>2, <1>3, <1>4, <1>5, <1>6 DEF Next, Sends

\* A step that has no divisor in common with the width, as 9 has none with
\* 256, takes a device's counter over every other value before it is 0
\* again, whatever is sent to the other devices in between.
THEOREM EveryCountIsUsedAlways == Spec => []EveryCountIsUsed
<1>1. Init => UsedOnTheWay
  <2>1. \A c \in Counts : ~ (0 < StepsTo(c) /\ StepsTo(c) < StepsTo(0))
    BY StepsToFacts DEF Counts
  <2>2. QED
    BY <2>1 DEF Init, UsedOnTheWay
<1>2. UsedOnTheWay => EveryCountIsUsed
  <2>1. \A c \in Counts : ~ (0 < StepsTo(c) /\ StepsTo(c) < StepsTo(0))
    BY StepsToFacts DEF Counts
  <2>2. QED
    BY <2>1 DEF UsedOnTheWay, EveryCountIsUsed
<1>3. QED
  BY <1>1, <1>2, UsedStep, TypeCorrect, PTL DEF Spec

=============================================================================
