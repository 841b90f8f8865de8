--------------------------- MODULE MainLoopProofs ---------------------------
(***************************************************************************)
(* Proofs about MainLoop, for any number of HTTP requests: the type        *)
(* invariant; that while only one goroutine at a time uses the line, the   *)
(* line is clean between commands and nothing but an event in the wrong    *)
(* place ends the process; and that main loop and handlers implement       *)
(* PowerControl.                                                           *)
(***************************************************************************)
EXTENDS MainLoop, FiniteSetTheorems, TLAPS

----------------------------------------------------------------------------
(* The inductive invariant *)

\* Who holds readMu (until a read that ends the process), and which requests
\* have been made.
Places ==
  /\ pc[Main] \in {"top", "lock", "read", "start", "writing", "await"}
  /\ alive => (pc[Main] = "read" <=> readMu = Main)
  /\ \A h \in Handlers :
       /\ pc[h] \in {"idle", "lock", "start", "writing", "await", "done"}
       /\ pc[h] \in {"start", "writing", "await"} <=> readMu = h
       /\ pc[h] = "idle" <=> want[h] = NoLevel
  /\ \A i \in DOMAIN toGW : toGW[i] \in Handlers => want[toGW[i]] # NoLevel

NoAck(q)  == \A i \in DOMAIN q : q[i] # "ack"
OneAck(q) == \E i \in DOMAIN q : /\ q[i] = "ack"
                                 /\ \A j \in DOMAIN q : q[j] = "ack" => j = i

\* What is on the line while one goroutine at a time uses it: nothing, or
\* the command of that goroutine, or the one ack for it.
Quiet == open = NoOne /\ toGW = <<>> /\ NoAck(toHost)

OneUser ==
  /\ \A g, o \in Using(pc) : g = o
  /\ ~torn /\ fatal \in {"no", "event"}
  /\ Using(pc) = {} => Quiet
  /\ \A g \in Goroutines :
       /\ pc[g] = "writing" => open = g /\ toGW = <<>> /\ NoAck(toHost)
       /\ pc[g] = "await" => /\ open = NoOne
                             /\ \/ toGW = <<g>> /\ NoAck(toHost)
                                \/ toGW = <<>> /\ OneAck(toHost)

\* How far the requests have come.
Answers ==
  \A h \in Handlers :
    /\ reply[h] = IF pc[h] = "done" THEN "OK" ELSE "none"
    /\ pc[h] = "done" => h \in delivered
    /\ h \in delivered => pc[h] \in {"await", "done"}
    /\ pc[h] = "await" => (h \in delivered <=> toGW = <<>>)

Clean == ~ collided => OneUser /\ Answers

----------------------------------------------------------------------------
(* Lemmas about queues *)

\* Reading takes the first element and keeps the order of the others.
LEMMA TailEffect ==
  ASSUME NEW S, NEW q \in Seq(S), q # <<>>
  PROVE  /\ Tail(q) \in Seq(S)
         /\ Len(q) \in Nat \ {0} /\ Len(Tail(q)) = Len(q) - 1
         /\ 1 \in DOMAIN q /\ Head(q) = q[1] /\ Head(q) \in S
         /\ \A i \in DOMAIN Tail(q) :
              i \in Nat \ {0} /\ i + 1 \in DOMAIN q /\ Tail(q)[i] = q[i + 1]
         /\ \A i \in DOMAIN q : i # 1 => i - 1 \in DOMAIN Tail(q)
                                        /\ i \in Nat \ {0}
OBVIOUS

\* Writing adds an element at the end.
LEMMA AppendEffect ==
  ASSUME NEW S, NEW q \in Seq(S), NEW e \in S
  PROVE  /\ Append(q, e) \in Seq(S)
         /\ Len(q) + 1 \in DOMAIN Append(q, e) /\ Append(q, e)[Len(q) + 1] = e
         /\ \A i \in DOMAIN q : i \in DOMAIN Append(q, e)
                                /\ Append(q, e)[i] = q[i]
         /\ \A i \in DOMAIN Append(q, e) : i \in DOMAIN q \/ i = Len(q) + 1
         /\ Len(q) + 1 \notin DOMAIN q
OBVIOUS

Packets == {"ack", "event", "peerRequest"}

\* Reading an ack, or anything else, from a queue with at most one ack.
LEMMA AckTail ==
  ASSUME NEW q \in Seq(Packets), q # <<>>
  PROVE  /\ NoAck(q) => NoAck(Tail(q)) /\ Head(q) # "ack"
         /\ OneAck(q) /\ Head(q) = "ack" => NoAck(Tail(q))
         /\ OneAck(q) /\ Head(q) # "ack" => OneAck(Tail(q))
<1>1. NoAck(q) => NoAck(Tail(q)) /\ Head(q) # "ack"
  BY TailEffect DEF NoAck
<1>2. ASSUME OneAck(q), Head(q) = "ack" PROVE NoAck(Tail(q))
  <2>1. \A i \in DOMAIN q : q[i] = "ack" => i = 1
    BY <1>2, TailEffect DEF OneAck
  <2>2. \A i \in DOMAIN Tail(q) : i + 1 # 1
    BY TailEffect
  <2>3. QED
    BY <2>1, <2>2, TailEffect DEF NoAck
<1>3. ASSUME OneAck(q), Head(q) # "ack" PROVE OneAck(Tail(q))
  <2>1. PICK i \in DOMAIN q : /\ q[i] = "ack"
                              /\ \A j \in DOMAIN q : q[j] = "ack" => j = i
    BY <1>3 DEF OneAck
  <2>2. i # 1 /\ i \in Nat \ {0} /\ i - 1 \in DOMAIN Tail(q)
    BY <1>3, <2>1, TailEffect
  <2>3. Tail(q)[i - 1] = "ack"
    BY <2>1, <2>2, TailEffect
  <2>4. \A j \in DOMAIN Tail(q) : Tail(q)[j] = "ack" => j = i - 1
    <3> SUFFICES ASSUME NEW j \in DOMAIN Tail(q), Tail(q)[j] = "ack"
                 PROVE  j = i - 1
      OBVIOUS
    <3>1. j \in Nat /\ j + 1 \in DOMAIN q /\ q[j + 1] = "ack"
      BY TailEffect
    <3>2. QED
      BY <2>1, <2>2, <3>1
  <2>5. QED
    BY <2>2, <2>3, <2>4 DEF OneAck
<1>4. QED
  BY <1>1, <1>2, <1>3

\* The gateway's ack and the packets received by radio join the queue.
LEMMA AckAppend ==
  ASSUME NEW q \in Seq(Packets), NEW e \in Packets
  PROVE  /\ NoAck(q) /\ e = "ack" => OneAck(Append(q, e))
         /\ NoAck(q) /\ e # "ack" => NoAck(Append(q, e))
         /\ OneAck(q) /\ e # "ack" => OneAck(Append(q, e))
<1>1. NoAck(q) /\ e = "ack" => OneAck(Append(q, e))
  BY AppendEffect DEF NoAck, OneAck
<1>2. NoAck(q) /\ e # "ack" => NoAck(Append(q, e))
  BY AppendEffect DEF NoAck
<1>3. ASSUME OneAck(q), e # "ack" PROVE OneAck(Append(q, e))
  <2>1. PICK i \in DOMAIN q : /\ q[i] = "ack"
                              /\ \A j \in DOMAIN q : q[j] = "ack" => j = i
    BY <1>3 DEF OneAck
  <2>2. i \in DOMAIN Append(q, e) /\ Append(q, e)[i] = "ack"
    BY <2>1, AppendEffect
  <2>3. \A j \in DOMAIN Append(q, e) : Append(q, e)[j] = "ack" => j = i
    BY <1>3, <2>1, AppendEffect
  <2>4. QED
    BY <2>2, <2>3 DEF OneAck
<1>4. QED
  BY <1>1, <1>2, <1>3

\* At the start there is no ack.
LEMMA EmptyQueues == NoAck(<<>>)
BY DEF NoAck

----------------------------------------------------------------------------
(* Type correctness *)

TypeInv == TypeOK /\ Places

\* The goroutine that waited for an answer goes on: the main loop to its
\* next command, a handler out of the mutex.
LEMMA ReturnEffect ==
  ASSUME TypeInv, alive, NEW g \in Goroutines, pc[g] = "await",
         NEW r \in {"OK", "error"}, Return(g, r)
  PROVE  /\ g = Main => /\ todo' \in Seq({"strict", "confirm"})
                        /\ \/ pc' = [pc EXCEPT ![g] = "start"] /\ todo' # <<>>
                           \/ pc' = [pc EXCEPT ![g] = "lock"] /\ todo' = <<>>
                           \/ pc' = [pc EXCEPT ![g] = "top"] /\ todo' = <<>>
                        /\ UNCHANGED <<readMu, reply>>
         /\ g # Main => /\ g \in Handlers
                        /\ pc' = [pc EXCEPT ![g] = "done"] /\ readMu' = NoOne
                        /\ reply' = [reply EXCEPT ![g] = r]
                        /\ UNCHANGED todo
         /\ UNCHANGED <<tick, fatal, want, delivered, level>>
<1>1. CASE g = Main
  <2>1. todo \in Seq({"strict", "confirm"}) /\ todo # <<>>
    BY <1>1 DEF TypeInv, TypeOK
  <2>2. /\ todo' = Tail(todo) /\ todo' \in Seq({"strict", "confirm"})
        /\ Len(todo) \in Nat \ {0} /\ Len(todo') = Len(todo) - 1
    <3>1. todo' = Tail(todo)
      BY <1>1 DEF Return, MainGoesOn
    <3>2. QED
      BY <2>1, <3>1, TailEffect
  <2>3. Len(todo) > 1 <=> todo' # <<>>
    <3>1. Len(todo') = 0 <=> todo' = <<>>
      BY <2>2
    <3>2. QED
      BY <2>2, <3>1
  <2>4. todo = SetTime => ~(Len(todo) > 1)
    BY DEF SetTime
  <2>5. \/ pc' = [pc EXCEPT ![g] = "start"] /\ todo' # <<>>
        \/ pc' = [pc EXCEPT ![g] = "lock"] /\ todo' = <<>>
        \/ pc' = [pc EXCEPT ![g] = "top"] /\ todo' = <<>>
    BY <1>1, <2>3, <2>4 DEF Return, MainGoesOn, Goto
  <2>6. QED
    BY <1>1, <2>2, <2>5 DEF Return, MainGoesOn, sync, effects
<1>2. CASE g # Main
  BY <1>2 DEF Return, Goto, Goroutines
<1>3. QED
  BY <1>1, <1>2

\* Types are preserved when a goroutine returns with an answer.
LEMMA ReturnType ==
  ASSUME TypeInv, alive, NEW g \in Goroutines, pc[g] = "await",
         NEW r \in {"OK", "error"}, Return(g, r),
         toGW' = toGW, open' = open,
         toHost' \in Seq({"ack", "event", "peerRequest"}),
         torn' \in BOOLEAN, collided' \in BOOLEAN
  PROVE  TypeInv'
<1>1. CASE g = Main
  <2>1. \/ pc' = [pc EXCEPT ![Main] = "start"] /\ todo' # <<>>
        \/ pc' = [pc EXCEPT ![Main] = "lock"] /\ todo' = <<>>
        \/ pc' = [pc EXCEPT ![Main] = "top"] /\ todo' = <<>>
    BY <1>1, ReturnEffect
  <2>2. /\ todo' \in Seq({"strict", "confirm"})
        /\ UNCHANGED <<readMu, reply, tick, fatal, want, delivered, level>>
    BY <1>1, ReturnEffect
  <2>3. TypeOK'
    BY <2>1, <2>2, GoroutinesAssumption DEF TypeInv, TypeOK, Goroutines
  <2>4. Places'
    BY <1>1, <2>1, <2>2, GoroutinesAssumption
    DEF TypeInv, TypeOK, Places, Goroutines, alive
  <2>5. QED
    BY <2>3, <2>4 DEF TypeInv
<1>2. CASE g # Main
  <2>1. /\ g \in Handlers
        /\ pc' = [pc EXCEPT ![g] = "done"] /\ readMu' = NoOne
        /\ reply' = [reply EXCEPT ![g] = r]
        /\ UNCHANGED <<todo, tick, fatal, want, delivered, level>>
    BY <1>2, ReturnEffect
  <2>2. TypeOK'
    BY <1>2, <2>1, GoroutinesAssumption DEF TypeInv, TypeOK, Goroutines
  <2>3. Places'
    BY <1>2, <2>1, GoroutinesAssumption
    DEF TypeInv, TypeOK, Places, Goroutines, alive
  <2>4. QED
    BY <2>2, <2>3 DEF TypeInv
<1>3. QED
  BY <1>1, <1>2

\* The end of the process leaves everything in place.
LEMMA DieType ==
  ASSUME TypeInv, alive, NEW why \in {"event", "mangled"}, Die(why),
         toGW' = toGW, open' = open,
         toHost' \in Seq({"ack", "event", "peerRequest"}),
         torn' \in BOOLEAN, collided' \in BOOLEAN
  PROVE  TypeInv'
<1>1. TypeOK'
  BY DEF Die, TypeInv, TypeOK, sync, effects
<1>2. Places'
  BY DEF Die, TypeInv, Places, sync, effects, alive
<1>3. QED
  BY <1>1, <1>2 DEF TypeInv

LEMMA CommandType ==
  ASSUME TypeInv, NEW g \in Goroutines, Command(g)
  PROVE  TypeInv'
<1>0. collided' \in BOOLEAN
  BY DEF Command, WriteStart, WriteFinish, ReadAnswer, MangledRead, NoteOverlap
<1>1. CASE WriteStart(g)
  <2>1. TypeOK'
    BY <1>0, <1>1, GoroutinesAssumption
    DEF WriteStart, Goto, TypeInv, TypeOK, Goroutines, sync, effects
  <2>2. Places'
    BY <1>1, GoroutinesAssumption
    DEF WriteStart, Goto, TypeInv, TypeOK, Places, Goroutines, sync, effects,
        alive
  <2>3. QED
    BY <2>1, <2>2 DEF TypeInv
<1>2. CASE WriteFinish(g)
  <2>1. /\ toGW' \in Seq(Goroutines)
        /\ \A i \in DOMAIN toGW' : \/ i \in DOMAIN toGW /\ toGW'[i] = toGW[i]
                                   \/ toGW'[i] = g
    BY <1>2, AppendEffect DEF WriteFinish, TypeInv, TypeOK
  <2>2. TypeOK'
    BY <1>0, <1>2, <2>1, GoroutinesAssumption
    DEF WriteFinish, Goto, TypeInv, TypeOK, Goroutines, sync, effects
  <2>3. \A i \in DOMAIN toGW' : toGW'[i] \in Handlers => want'[toGW'[i]] # NoLevel
    BY <1>2, <2>1 DEF WriteFinish, TypeInv, Places, effects
  <2>4. Places'
    BY <1>2, <2>3, GoroutinesAssumption
    DEF WriteFinish, Goto, TypeInv, TypeOK, Places, Goroutines, sync, effects,
        alive
  <2>5. QED
    BY <2>2, <2>4 DEF TypeInv
<1>3. CASE ReadAnswer(g)
  <2>1. toHost' \in Seq({"ack", "event", "peerRequest"})
    BY <1>3, TailEffect DEF ReadAnswer, TypeInv, TypeOK
  <2>2. alive /\ pc[g] = "await" /\ UNCHANGED <<toGW, open, torn>>
    BY <1>3 DEF ReadAnswer
  <2>3. torn' \in BOOLEAN
    BY <2>2 DEF TypeInv, TypeOK
  <2>4. CASE Return(g, "OK")
    BY <1>0, <2>1, <2>2, <2>3, <2>4, ReturnType
  <2>5. CASE UNCHANGED <<pc, sync, todo, fatal, effects>>
    <3>1. TypeOK'
      BY <1>0, <2>1, <2>2, <2>5 DEF TypeInv, TypeOK, sync, effects
    <3>2. Places'
      BY <2>2, <2>5 DEF TypeInv, Places, sync, effects, alive
    <3>3. QED
      BY <3>1, <3>2 DEF TypeInv
  <2>6. CASE Die("event")
    BY <1>0, <2>1, <2>2, <2>3, <2>6, DieType
  <2>7. QED
    BY <1>3, <2>4, <2>5, <2>6 DEF ReadAnswer
<1>4. CASE MangledRead(g)
  <2>1. toHost' \in Seq({"ack", "event", "peerRequest"})
    BY <1>4, TailEffect DEF MangledRead, TypeInv, TypeOK
  <2>2. alive /\ UNCHANGED <<toGW, open>> /\ torn' \in BOOLEAN
    BY <1>4 DEF MangledRead
  <2>3. CASE UNCHANGED <<pc, sync, todo, fatal, effects>>
    <3>1. TypeOK'
      BY <1>0, <2>1, <2>2, <2>3 DEF TypeInv, TypeOK, sync, effects
    <3>2. Places'
      BY <2>2, <2>3 DEF TypeInv, Places, sync, effects, alive
    <3>3. QED
      BY <3>1, <3>2 DEF TypeInv
  <2>4. CASE Die("mangled")
    BY <1>0, <2>1, <2>2, <2>4, DieType
  <2>5. CASE g # Main /\ Return(g, "error")
    <3>1. pc[g] = "await"
      BY <1>4, <2>5 DEF MangledRead, Readers, TypeInv, Places, Goroutines
    <3>2. QED
      BY <1>0, <2>1, <2>2, <2>5, <3>1, ReturnType
  <2>6. QED
    BY <1>4, <2>3, <2>4, <2>5 DEF MangledRead
<1>5. QED
  BY <1>1, <1>2, <1>3, <1>4 DEF Command

LEMMA OthersType ==
  ASSUME TypeInv,
         \/ MainTop \/ MainLock \/ MainRead \/ Tick
         \/ \E h \in Handlers : Request(h) \/ HandlerLock(h)
         \/ GwHandle \/ GwRadio \/ UNCHANGED vars
  PROVE  TypeInv'
<1>1. CASE MainTop
  <2>0. SetTime \in Seq({"strict", "confirm"}) /\ SetTime # <<>>
    BY DEF SetTime
  <2>1. TypeOK'
    BY <1>1, <2>0, GoroutinesAssumption
    DEF MainTop, Goto, TypeInv, TypeOK, Goroutines, line, effects
  <2>2. Places'
    BY <1>1, GoroutinesAssumption
    DEF MainTop, Goto, TypeInv, TypeOK, Places, Goroutines, line, effects, alive
  <2>3. QED
    BY <2>1, <2>2 DEF TypeInv
<1>2. CASE MainLock
  <2>1. TypeOK'
    BY <1>2, GoroutinesAssumption
    DEF MainLock, Goto, TypeInv, TypeOK, Goroutines, line, effects
  <2>2. Places'
    BY <1>2, GoroutinesAssumption
    DEF MainLock, Goto, TypeInv, TypeOK, Places, Goroutines, line, effects, alive
  <2>3. QED
    BY <2>1, <2>2 DEF TypeInv
<1>3. CASE MainRead
  <2>1. toHost' \in Seq({"ack", "event", "peerRequest"})
    BY <1>3, TailEffect DEF MainRead, TypeInv, TypeOK
  <2>2. PairCommands \in Seq({"strict", "confirm"}) /\ PairCommands # <<>>
    BY DEF PairCommands
  <2>3. TypeOK'
    BY <1>3, <2>1, <2>2, GoroutinesAssumption
    DEF MainRead, Goto, TypeInv, TypeOK, Goroutines, effects
  <2>4. Places'
    BY <1>3, GoroutinesAssumption
    DEF MainRead, Goto, TypeInv, TypeOK, Places, Goroutines, effects, alive
  <2>5. QED
    BY <2>3, <2>4 DEF TypeInv
<1>4. CASE Tick \/ UNCHANGED vars
  <2>1. TypeOK'
    BY <1>4 DEF Tick, TypeInv, TypeOK, vars, sync, line, effects
  <2>2. Places'
    BY <1>4 DEF Tick, TypeInv, Places, vars, sync, line, effects, alive
  <2>3. QED
    BY <2>1, <2>2 DEF TypeInv
<1>5. ASSUME NEW h \in Handlers, Request(h) PROVE TypeInv'
  <2>1. TypeOK'
    BY <1>5, GoroutinesAssumption
    DEF Request, Goto, TypeInv, TypeOK, Goroutines, sync, line
  <2>2. Places'
    BY <1>5, GoroutinesAssumption
    DEF Request, Goto, TypeInv, TypeOK, Places, Goroutines, sync, line, alive
  <2>3. QED
    BY <2>1, <2>2 DEF TypeInv
<1>6. ASSUME NEW h \in Handlers, HandlerLock(h) PROVE TypeInv'
  <2>1. TypeOK'
    BY <1>6, GoroutinesAssumption
    DEF HandlerLock, Goto, TypeInv, TypeOK, Goroutines, line, effects
  <2>2. Places'
    BY <1>6, GoroutinesAssumption
    DEF HandlerLock, Goto, TypeInv, TypeOK, Places, Goroutines, line, effects,
        alive
  <2>3. QED
    BY <2>1, <2>2 DEF TypeInv
<1>7. CASE GwHandle
  <2>1. /\ toGW' = Tail(toGW) /\ toGW' \in Seq(Goroutines)
        /\ 1 \in DOMAIN toGW /\ Head(toGW) = toGW[1]
        /\ \A i \in DOMAIN toGW' : i + 1 \in DOMAIN toGW /\ toGW'[i] = toGW[i + 1]
    BY <1>7, TailEffect DEF GwHandle, TypeInv, TypeOK
  <2>2. toHost' \in Seq({"ack", "event", "peerRequest"})
    BY <1>7, AppendEffect DEF GwHandle, TypeInv, TypeOK
  <2>3. level' \in Levels /\ delivered' \in SUBSET Handlers
    BY <1>7, <2>1 DEF GwHandle, TypeInv, TypeOK, Places
  <2>4. TypeOK'
    BY <1>7, <2>1, <2>2, <2>3 DEF GwHandle, TypeInv, TypeOK, sync
  <2>5. Places'
    BY <1>7, <2>1 DEF GwHandle, TypeInv, Places, sync, alive
  <2>6. QED
    BY <2>4, <2>5 DEF TypeInv
<1>8. CASE GwRadio
  <2>1. toHost' \in Seq({"ack", "event", "peerRequest"})
    BY <1>8, AppendEffect DEF GwRadio, TypeInv, TypeOK
  <2>2. TypeOK'
    BY <1>8, <2>1 DEF GwRadio, TypeInv, TypeOK, sync, effects
  <2>3. Places'
    BY <1>8 DEF GwRadio, TypeInv, Places, sync, effects, alive
  <2>4. QED
    BY <2>2, <2>3 DEF TypeInv
<1>9. QED
  BY <1>1, <1>2, <1>3, <1>4, <1>5, <1>6, <1>7, <1>8

LEMMA TypeInvStep == TypeInv /\ [Next]_vars => TypeInv'
<1> SUFFICES ASSUME TypeInv, [Next]_vars PROVE TypeInv'
  OBVIOUS
<1>1. ASSUME NEW g \in Goroutines, Command(g) PROVE TypeInv'
  BY <1>1, CommandType
<1>2. CASE \/ MainTop \/ MainLock \/ MainRead \/ Tick
           \/ \E h \in Handlers : Request(h) \/ HandlerLock(h)
           \/ GwHandle \/ GwRadio \/ UNCHANGED vars
  BY <1>2, OthersType
<1>3. QED
  BY <1>1, <1>2 DEF Next, MainNext, Goroutines

LEMMA TypeInvInit == Init => TypeInv
<1> SUFFICES ASSUME Init PROVE TypeInv
  OBVIOUS
<1>1. TypeOK
  <2>1. <<>> \in Seq({"strict", "confirm"}) /\ <<>> \in Seq(Goroutines)
        /\ <<>> \in Seq({"ack", "event", "peerRequest"})
    OBVIOUS
  <2>2. pc[Main] = "top"
    BY DEF Init, Goroutines
  <2>3. pc \in [Goroutines -> {"top", "lock", "read", "start", "writing",
                              "await", "idle", "done"}]
    BY DEF Init
  <2>4. QED
    BY <2>1, <2>2, <2>3 DEF Init, TypeOK
<1>2. Places
  BY GoroutinesAssumption DEF Init, Places, Goroutines, alive
<1>3. QED
  BY <1>1, <1>2 DEF TypeInv

LEMMA TypeInvAlways == Spec => []TypeInv
BY TypeInvInit, TypeInvStep, PTL DEF Spec

\* The main loop has commands to send exactly while it sends them, readMu is
\* held by goroutines only, and only requests that have been made are
\* delivered: for any number of requests.
THEOREM TypeCorrect == Spec => []TypeOK
<1>1. TypeInv => TypeOK
  BY DEF TypeInv
<1>2. QED
  BY <1>1, TypeInvAlways, PTL

----------------------------------------------------------------------------
(* One user of the line *)

\* A step after which no two goroutines have used the line at once.
LEMMA NoOverlap ==
  ASSUME NoteOverlap, ~ collided'
  PROVE  ~ collided /\ \A g, o \in Using(pc') : g = o
BY DEF NoteOverlap

\* While no two goroutines have used the line at once, there is one reader:
\* the main loop holds readMu when it reads, a handler when it waits.
LEMMA OneReader ==
  ASSUME TypeInv, OneUser, alive
  PROVE  ~ (torn \/ Cardinality(Readers) > 1)
<1>1. \A g, o \in Readers : g = o
  <2> SUFFICES ASSUME NEW g \in Readers, NEW o \in Readers PROVE g = o
    OBVIOUS
  <2>1. CASE pc[g] = "await" /\ pc[o] = "await"
    BY <2>1 DEF OneUser, Using, Readers
  <2>2. \A r \in Goroutines : pc[r] = "read" => r = Main /\ readMu = Main
    BY DEF TypeInv, Places, Goroutines
  <2>3. \A h \in Handlers : pc[h] = "await" => readMu = h
    BY DEF TypeInv, Places
  <2>4. QED
    BY <2>1, <2>2, <2>3, GoroutinesAssumption DEF Readers, Goroutines
<1>2. CASE Readers = {}
  BY <1>2, FS_EmptySet DEF OneUser
<1>3. CASE Readers # {}
  <2>1. PICK g \in Readers : Readers = {g}
    BY <1>1, <1>3
  <2>2. Cardinality(Readers) = 1
    BY <2>1, FS_Singleton
  <2>3. QED
    BY <2>2 DEF OneUser
<1>4. QED
  BY <1>2, <1>3

\* The goroutine that has been answered leaves the line as it found it.
LEMMA ReturnClean ==
  ASSUME TypeInv, OneUser, Answers, alive, NEW g \in Goroutines,
         pc[g] = "await", Return(g, "OK"),
         toGW' = toGW, open' = open, torn' = torn,
         toHost # <<>>, toHost' = Tail(toHost), Head(toHost) = "ack"
  PROVE  OneUser' /\ Answers'
<1>1. toHost \in Seq(Packets)
  BY DEF TypeInv, TypeOK, Packets
<1>2. toGW = <<>> /\ open = NoOne /\ NoAck(toHost')
  BY <1>1, AckTail DEF OneUser
<1>3. /\ \E where \in {"start", "lock", "top", "done"} :
           pc' = [pc EXCEPT ![g] = where]
      /\ g # Main => pc' = [pc EXCEPT ![g] = "done"]
      /\ UNCHANGED <<fatal, delivered>>
  BY ReturnEffect
<1>4. OneUser'
  <2>1. \A o \in Using(pc) : o = g
    BY DEF OneUser, Using
  <2>2. Using(pc') = {}
    BY <1>3, <2>1 DEF Using, TypeInv, TypeOK
  <2>3. QED
    BY <1>2, <1>3, <2>2 DEF OneUser, Quiet, Using
<1>5. Answers'
  <2>1. CASE g = Main
    <3>1. UNCHANGED reply
      BY <2>1, ReturnEffect
    <3>2. QED
      BY <1>3, <2>1, <3>1, GoroutinesAssumption
      DEF Answers, TypeInv, TypeOK, Goroutines
  <2>2. CASE g # Main
    <3>1. g \in Handlers /\ g \in delivered
      BY <1>2, <2>2 DEF Answers, Goroutines
    <3>2. reply' = [reply EXCEPT ![g] = "OK"]
      BY <2>2, ReturnEffect
    <3>3. QED
      BY <1>3, <2>2, <3>1, <3>2 DEF Answers, TypeInv, TypeOK, Goroutines
  <2>3. QED
    BY <2>1, <2>2
<1>6. QED
  BY <1>4, <1>5

LEMMA CommandClean ==
  ASSUME TypeInv, Clean, NEW g \in Goroutines, Command(g), ~ collided'
  PROVE  OneUser' /\ Answers'
<1>0. NoteOverlap /\ alive
  BY DEF Command, WriteStart, WriteFinish, ReadAnswer, MangledRead
<1>a. /\ ~ collided /\ OneUser /\ Answers
      /\ \A o, u \in Using(pc') : o = u
  BY <1>0, NoOverlap DEF Clean
<1>b. toHost \in Seq(Packets)
  BY DEF TypeInv, TypeOK, Packets
<1>1. CASE WriteStart(g)
  <2>1. pc[g] = "start" /\ pc' = [pc EXCEPT ![g] = "writing"]
    BY <1>1 DEF WriteStart, Goto
  <2>2. g \in Using(pc')
    BY <2>1 DEF Using, TypeInv, TypeOK
  <2>3. \A o \in Goroutines : o # g => pc[o] \notin {"writing", "await"}
    BY <1>a, <2>1, <2>2 DEF Using, TypeInv, TypeOK
  <2>4. Using(pc) = {}
    BY <2>1, <2>3 DEF Using
  <2>5. Quiet
    BY <1>a, <2>4 DEF OneUser
  <2>6. OneUser'
    BY <1>1, <1>a, <2>1, <2>2, <2>3, <2>5
    DEF OneUser, Quiet, WriteStart, TypeInv, TypeOK
  <2>7. Answers'
    BY <1>1, <1>a, <2>1
    DEF Answers, WriteStart, effects, TypeInv, TypeOK, Goroutines
  <2>8. QED
    BY <2>6, <2>7
<1>2. CASE WriteFinish(g)
  <2>1. pc[g] = "writing" /\ pc' = [pc EXCEPT ![g] = "await"]
    BY <1>2 DEF WriteFinish, Goto
  <2>2. open = g /\ toGW = <<>> /\ NoAck(toHost)
    BY <1>a, <2>1 DEF OneUser
  <2>3. toGW' = <<g>> /\ open' = NoOne /\ toHost' = toHost
    BY <1>2, <2>2 DEF WriteFinish
  <2>4. \A o \in Goroutines : o # g => pc[o] \notin {"writing", "await"}
    BY <1>a, <2>1 DEF OneUser, Using
  <2>5. g \in Using(pc')
    BY <2>1 DEF Using, TypeInv, TypeOK
  <2>6. /\ pc'[g] = "await"
        /\ \A o \in Goroutines : o # g => /\ pc'[o] = pc[o]
                                         /\ pc'[o] \notin {"writing", "await"}
    BY <2>1, <2>4 DEF TypeInv, TypeOK
  <2>7. OneUser'
    <3>1. torn' = torn /\ fatal' = fatal
      BY <1>2 DEF WriteFinish
    <3>2. QED
      BY <1>a, <2>2, <2>3, <2>5, <2>6, <3>1 DEF OneUser
  <2>8. Answers'
    <3>1. UNCHANGED <<reply, delivered>>
      BY <1>2 DEF WriteFinish, effects
    <3>2. toGW' # <<>>
      BY <2>3
    <3>3. ASSUME NEW h \in Handlers, h = g
          PROVE  reply[h] = "none" /\ h \notin delivered
      BY <1>a, <2>1, <3>3 DEF Answers
    <3>4. QED
      BY <1>a, <2>6, <3>1, <3>2, <3>3 DEF Answers, Goroutines
  <2>9. QED
    BY <2>7, <2>8
<1>3. CASE ReadAnswer(g)
  <2>1. /\ pc[g] = "await" /\ toHost # <<>> /\ toHost' = Tail(toHost)
        /\ UNCHANGED <<toGW, open, torn>>
    BY <1>3 DEF ReadAnswer
  <2>2. CASE Head(toHost) = "ack" /\ Return(g, "OK")
    BY <1>0, <1>a, <2>1, <2>2, ReturnClean
  <2>3. CASE Head(toHost) # "ack" /\ UNCHANGED <<pc, reply, delivered>>
              /\ fatal' \in {"no", "event"}
    <3>1. /\ NoAck(toHost) => NoAck(toHost')
          /\ OneAck(toHost) => OneAck(toHost')
      BY <1>b, <2>1, <2>3, AckTail
    <3>2. OneUser'
      BY <1>a, <2>1, <2>3, <3>1 DEF OneUser, Quiet
    <3>3. Answers'
      BY <1>a, <2>1, <2>3 DEF Answers
    <3>4. QED
      BY <3>2, <3>3
  <2>4. QED
    BY <1>3, <1>a, <2>2, <2>3 DEF ReadAnswer, Die, effects, OneUser
<1>4. CASE MangledRead(g)
  BY <1>0, <1>4, <1>a, OneReader DEF MangledRead
<1>5. QED
  BY <1>1, <1>2, <1>3, <1>4 DEF Command

\* Between its commands the main loop reads with the mutex, and so alone.
LEMMA OthersClean ==
  ASSUME TypeInv, Clean, ~ collided',
         \/ MainTop \/ MainLock \/ MainRead \/ Tick
         \/ \E h \in Handlers : Request(h) \/ HandlerLock(h)
         \/ GwHandle \/ GwRadio \/ UNCHANGED vars
  PROVE  OneUser' /\ Answers'
<1>a. ~ collided /\ OneUser /\ Answers
  BY DEF MainTop, MainLock, MainRead, Tick, Request, HandlerLock, GwHandle,
         GwRadio, vars, Clean
<1>b. toHost \in Seq(Packets)
  BY DEF TypeInv, TypeOK, Packets
<1>1. ASSUME NEW g \in Goroutines, NEW where,
             pc[g] \notin {"writing", "await", "done"},
             where \notin {"writing", "await", "done"},
             pc' = [pc EXCEPT ![g] = where], fatal' \in {"no", "event"},
             UNCHANGED <<open, toGW, torn, reply, delivered>>,
             NoAck(toHost) => NoAck(toHost'), OneAck(toHost) => OneAck(toHost')
      PROVE  OneUser' /\ Answers'
  <2>1. \A o \in Goroutines :
           \/ pc'[o] = pc[o]
           \/ /\ pc[o] \notin {"writing", "await", "done"}
              /\ pc'[o] \notin {"writing", "await", "done"}
    BY <1>1 DEF TypeInv, TypeOK
  <2>2. Using(pc') = Using(pc)
    BY <2>1 DEF Using
  <2>3. OneUser'
    BY <1>1, <1>a, <2>1, <2>2 DEF OneUser, Quiet
  <2>4. Answers'
    BY <1>1, <1>a, <2>1 DEF Answers, Goroutines
  <2>5. QED
    BY <2>3, <2>4
<1>2. Main \in Goroutines /\ Handlers \subseteq Goroutines /\ fatal \in {"no", "event"}
  BY <1>a DEF Goroutines, OneUser
<1>3. CASE MainTop
  <2>1. /\ pc[Main] = "top"
        /\ \E where \in {"start", "lock"} : pc' = [pc EXCEPT ![Main] = where]
        /\ UNCHANGED <<open, toGW, toHost, torn, reply, delivered, fatal>>
    BY <1>3 DEF MainTop, Goto, line, effects
  <2>2. QED
    BY <1>1, <1>2, <2>1
<1>4. CASE MainLock
  <2>1. /\ pc[Main] = "lock" /\ pc' = [pc EXCEPT ![Main] = "read"]
        /\ UNCHANGED <<open, toGW, toHost, torn, reply, delivered, fatal>>
    BY <1>4 DEF MainLock, Goto, line, effects
  <2>2. QED
    BY <1>1, <1>2, <2>1
<1>5. CASE MainRead
  <2>1. pc[Main] = "read" /\ readMu = Main
    BY <1>5 DEF MainRead, TypeInv, Places
  <2>2. \A h \in Handlers : pc[h] \notin {"writing", "await"}
    BY <2>1, GoroutinesAssumption DEF TypeInv, Places
  <2>3. Using(pc) = {}
    BY <2>1, <2>2 DEF Using, Goroutines
  <2>4. NoAck(toHost)
    BY <1>a, <2>3 DEF OneUser, Quiet
  <2>5. Head(toHost) # "ack" /\ NoAck(toHost')
    BY <1>5, <1>b, <2>4, AckTail DEF MainRead
  <2>6. /\ \E where \in {"start", "top"} : pc' = [pc EXCEPT ![Main] = where]
        /\ fatal' = fatal
        /\ UNCHANGED <<open, toGW, torn, reply, delivered>>
    BY <1>5, <2>5 DEF MainRead, Goto, effects
  <2>7. OneUser' /\ Answers'
    <3>1. \A o \in Goroutines :
             \/ pc'[o] = pc[o]
             \/ o = Main /\ pc'[o] \notin {"writing", "await", "done"}
      BY <2>6 DEF TypeInv, TypeOK
    <3>2. \A o \in Goroutines : pc'[o] \notin {"writing", "await"}
      BY <2>1, <2>2, <3>1 DEF Goroutines
    <3>3. OneUser'
      BY <1>a, <2>3, <2>5, <2>6, <3>2 DEF OneUser, Quiet, Using
    <3>4. Answers'
      BY <1>a, <2>6, <3>1, GoroutinesAssumption DEF Answers, Goroutines
    <3>5. QED
      BY <3>3, <3>4
  <2>8. QED
    BY <2>7
<1>6. ASSUME NEW h \in Handlers, Request(h) PROVE OneUser' /\ Answers'
  <2>1. /\ pc[h] = "idle" /\ pc' = [pc EXCEPT ![h] = "lock"]
        /\ UNCHANGED <<open, toGW, toHost, torn, reply, delivered, fatal>>
    BY <1>6 DEF Request, Goto, line
  <2>2. QED
    BY <1>1, <1>2, <2>1
<1>7. ASSUME NEW h \in Handlers, HandlerLock(h) PROVE OneUser' /\ Answers'
  <2>1. /\ pc[h] = "lock" /\ pc' = [pc EXCEPT ![h] = "start"]
        /\ UNCHANGED <<open, toGW, toHost, torn, reply, delivered, fatal>>
    BY <1>7 DEF HandlerLock, Goto, line, effects
  <2>2. QED
    BY <1>1, <1>2, <2>1
<1>8. CASE GwHandle
  <2>1. PICK g \in Using(pc) : toGW = <<g>> /\ NoAck(toHost) /\ pc[g] = "await"
    BY <1>8, <1>a DEF GwHandle, OneUser, Quiet, Using
  <2>2. /\ toGW' = <<>> /\ OneAck(toHost')
        /\ UNCHANGED <<pc, open, torn, fatal, reply>>
        /\ delivered' = IF g \in Handlers THEN delivered \cup {g} ELSE delivered
    BY <1>8, <1>b, <2>1, AckAppend DEF GwHandle, Packets
  <2>3. \A o \in Goroutines : pc[o] \in {"writing", "await"} => o = g
    BY <1>a, <2>1 DEF OneUser, Using
  <2>4. OneUser'
    BY <1>a, <2>1, <2>2, <2>3 DEF OneUser, Using
  <2>5. Answers'
    BY <1>a, <2>1, <2>2, <2>3 DEF Answers, Goroutines
  <2>6. QED
    BY <2>4, <2>5
<1>9. CASE GwRadio
  <2>1. /\ NoAck(toHost) => NoAck(toHost')
        /\ OneAck(toHost) => OneAck(toHost')
    <3>1. PICK k \in {"event", "peerRequest"} : toHost' = Append(toHost, k)
      BY <1>9 DEF GwRadio
    <3>2. QED
      BY <1>b, <3>1, AckAppend DEF Packets
  <2>2. UNCHANGED <<pc, open, toGW, torn, fatal, reply, delivered>>
    BY <1>9 DEF GwRadio, effects
  <2>3. OneUser'
    BY <1>a, <2>1, <2>2 DEF OneUser, Quiet
  <2>4. Answers'
    BY <1>a, <2>2 DEF Answers
  <2>5. QED
    BY <2>3, <2>4
<1>10. CASE Tick \/ UNCHANGED vars
  <2>1. UNCHANGED <<pc, open, toGW, toHost, torn, fatal, reply, delivered>>
    BY <1>10 DEF Tick, vars, line, effects
  <2>2. OneUser'
    BY <1>a, <2>1 DEF OneUser, Quiet
  <2>3. Answers'
    BY <1>a, <2>1 DEF Answers
  <2>4. QED
    BY <2>2, <2>3
<1>11. QED
  BY <1>3, <1>4, <1>5, <1>6, <1>7, <1>8, <1>9, <1>10

LEMMA CleanStep == TypeInv /\ Clean /\ [Next]_vars => Clean'
<1> SUFFICES ASSUME TypeInv, Clean, [Next]_vars, ~ collided'
             PROVE  OneUser' /\ Answers'
  BY DEF Clean
<1>1. ASSUME NEW g \in Goroutines, Command(g) PROVE OneUser' /\ Answers'
  BY <1>1, CommandClean
<1>2. CASE \/ MainTop \/ MainLock \/ MainRead \/ Tick
           \/ \E h \in Handlers : Request(h) \/ HandlerLock(h)
           \/ GwHandle \/ GwRadio \/ UNCHANGED vars
  BY <1>2, OthersClean
<1>3. QED
  BY <1>1, <1>2 DEF Next, MainNext, Goroutines

LEMMA CleanInit == Init => Clean
<1> SUFFICES ASSUME Init PROVE OneUser /\ Answers
  BY DEF Clean
<1>1. \A g \in Goroutines : pc[g] \notin {"writing", "await", "done"}
  BY DEF Init
<1>2. Quiet
  BY EmptyQueues DEF Init, Quiet
<1>3. OneUser
  BY <1>1, <1>2 DEF Init, OneUser, Using
<1>4. Answers
  BY <1>1 DEF Init, Answers, Goroutines
<1>5. QED
  BY <1>3, <1>4

LEMMA CleanAlways == Spec => [](TypeInv /\ Clean)
BY TypeInvInit, TypeInvStep, CleanInit, CleanStep, PTL DEF Spec

\* While one goroutine at a time uses the line, the process ends only when
\* an event arrives while SetTime or AddPeer waits for an ack; no ack is
\* left for the main loop to read and no read is mangled.
THEOREM ProcessDiesOnlyOfEvents == Spec => []DiesOnlyOfEvents
<1>1. Clean => DiesOnlyOfEvents
  BY DEF Clean, OneUser, DiesOnlyOfEvents
<1>2. QED
  BY <1>1, CleanAlways, PTL

\* And whoever locks readMu finds the line as if nothing had ever been sent.
THEOREM LineQuietWhenFree == Spec => []QuietWhenFree
<1>1. Clean => QuietWhenFree
  BY DEF Clean, OneUser, Quiet, NoAck, QuietWhenFree
<1>2. QED
  BY <1>1, CleanAlways, PTL

----------------------------------------------------------------------------
(* The promise to the HTTP clients *)

\* Steps in which no request is made, delivered or answered.
LEMMA Unnoticed ==
  ASSUME TypeInv, TypeInv', ~ collided, ~ collided',
         UNCHANGED <<want, delivered, level, reply>>
  PROVE  UNCHANGED Promise!pcVars
<1>1. collided' = collided
  BY DEF TypeInv, TypeOK
<1>2. QED
  BY <1>1 DEF Promise!pcVars

LEMMA CommandKeepsPromise ==
  ASSUME TypeInv, Clean, TypeInv', NEW g \in Goroutines, Command(g),
         ~ collided'
  PROVE  [Promise!Next]_(Promise!pcVars)
<1>0. NoteOverlap /\ alive
  BY DEF Command, WriteStart, WriteFinish, ReadAnswer, MangledRead
<1>1. ~ collided /\ OneUser /\ Answers
  BY <1>0, NoOverlap DEF Clean
<1>2. CASE WriteStart(g) \/ WriteFinish(g)
  BY <1>1, <1>2, Unnoticed DEF WriteStart, WriteFinish, effects
<1>3. CASE ReadAnswer(g)
  <2>1. pc[g] = "await" /\ toHost # <<>> /\ toGW' = toGW
    BY <1>3 DEF ReadAnswer
  <2>2. CASE Head(toHost) = "ack" /\ Return(g, "OK")
    <3>1. CASE g = Main
      BY <1>0, <1>1, <2>1, <2>2, <3>1, ReturnEffect, Unnoticed
    <3>2. CASE g # Main
      <4>1. /\ g \in Handlers /\ reply' = [reply EXCEPT ![g] = "OK"]
            /\ UNCHANGED <<want, delivered, level>>
        BY <1>0, <2>1, <2>2, <3>2, ReturnEffect
      <4>2. toHost \in Seq(Packets)
        BY DEF TypeInv, TypeOK, Packets
      <4>3. toGW = <<>>
        BY <1>1, <2>1, <2>2, <4>2, AckTail DEF OneUser
      <4>4. g \in delivered /\ reply[g] = "none"
        BY <1>1, <2>1, <4>1, <4>3 DEF Answers
      <4>5. Promise!Answer(g)
        BY <4>1, <4>4 DEF Promise!Answer
      <4>6. QED
        BY <4>1, <4>5 DEF Promise!Next
    <3>3. QED
      BY <3>1, <3>2
  <2>3. CASE Head(toHost) # "ack" /\ UNCHANGED effects
    BY <1>1, <2>3, Unnoticed DEF effects
  <2>4. QED
    BY <1>3, <2>2, <2>3 DEF ReadAnswer, Die
<1>4. CASE MangledRead(g)
  BY <1>0, <1>1, <1>4, OneReader DEF MangledRead
<1>5. QED
  BY <1>2, <1>3, <1>4 DEF Command

LEMMA OthersKeepPromise ==
  ASSUME TypeInv, Clean, TypeInv', ~ collided',
         \/ MainTop \/ MainLock \/ MainRead \/ Tick
         \/ \E h \in Handlers : Request(h) \/ HandlerLock(h)
         \/ GwHandle \/ GwRadio \/ UNCHANGED vars
  PROVE  [Promise!Next]_(Promise!pcVars)
<1>0. ~ collided /\ OneUser /\ Answers
  BY DEF MainTop, MainLock, MainRead, Tick, Request, HandlerLock, GwHandle,
         GwRadio, vars, Clean
<1>1. CASE \/ MainTop \/ MainLock \/ MainRead \/ Tick
           \/ \E h \in Handlers : HandlerLock(h)
           \/ GwRadio \/ UNCHANGED vars
  <2>1. UNCHANGED <<want, delivered, level, reply>>
    BY <1>1 DEF MainTop, MainLock, MainRead, Tick, HandlerLock, GwRadio, vars,
                effects
  <2>2. QED
    BY <1>0, <2>1, Unnoticed
<1>2. ASSUME NEW h \in Handlers, Request(h)
      PROVE  [Promise!Next]_(Promise!pcVars)
  <2>1. want[h] = NoLevel
    BY <1>2 DEF Request, TypeInv, Places
  <2>2. Promise!Request(h)
    BY <1>2, <2>1 DEF Request, Promise!Request
  <2>3. QED
    BY <2>2 DEF Promise!Next
<1>3. CASE GwHandle
  <2>1. PICK g \in Using(pc) : toGW = <<g>> /\ pc[g] = "await"
    BY <1>0, <1>3 DEF GwHandle, OneUser, Quiet, Using
  <2>2. Head(toGW) = g /\ toGW # <<>> /\ 1 \in DOMAIN toGW /\ toGW[1] = g
    BY <2>1
  <2>3. CASE g \in Handlers
    <3>1. want[g] # NoLevel
      BY <2>2, <2>3 DEF TypeInv, Places
    <3>2. g \notin delivered
      BY <1>0, <2>1, <2>2, <2>3 DEF Answers
    <3>3. \A o \in delivered : reply[o] = "OK"
      <4>1. \A o \in delivered : o \in Handlers /\ pc[o] \in {"await", "done"}
        BY <1>0 DEF Answers, TypeInv, TypeOK
      <4>2. \A o \in Handlers : pc[o] = "await" => o = g
        BY <1>0, <2>1 DEF OneUser, Using, Goroutines
      <4>3. QED
        BY <1>0, <3>2, <4>1, <4>2 DEF Answers
    <3>4. Promise!Apply(g)
      BY <1>3, <2>2, <2>3, <3>1, <3>2, <3>3 DEF GwHandle, Promise!Apply
    <3>5. QED
      BY <2>3, <3>4 DEF Promise!Next
  <2>4. CASE g \notin Handlers
    BY <1>0, <1>3, <2>2, <2>4, Unnoticed DEF GwHandle
  <2>5. QED
    BY <2>3, <2>4
<1>4. QED
  BY <1>1, <1>2, <1>3

\* The handlers, the mutex, the main loop and the gateway together implement
\* PowerControl: a LevelSet takes effect once, before its "OK" and after the
\* "OK" of the one before it, as long as the line has one user at a time.
THEOREM RefinesPowerControl == Spec => KeepsPromise
<1>1. Init => Promise!Init
  BY DEF Init, Promise!Init
<1>2. TypeInv /\ Clean /\ TypeInv' /\ [Next]_vars
        => [Promise!Next]_(Promise!pcVars)
  <2> SUFFICES ASSUME TypeInv, Clean, TypeInv', [Next]_vars
               PROVE  [Promise!Next]_(Promise!pcVars)
    OBVIOUS
  <2>1. CASE collided'
    BY <2>1 DEF Promise!Next
  <2>2. CASE ~ collided'
    <3>1. ASSUME NEW g \in Goroutines, Command(g)
          PROVE  [Promise!Next]_(Promise!pcVars)
      BY <2>2, <3>1, CommandKeepsPromise
    <3>2. CASE \/ MainTop \/ MainLock \/ MainRead \/ Tick
               \/ \E h \in Handlers : Request(h) \/ HandlerLock(h)
               \/ GwHandle \/ GwRadio \/ UNCHANGED vars
      BY <2>2, <3>2, OthersKeepPromise
    <3>3. QED
      BY <3>1, <3>2 DEF Next, MainNext, Goroutines
  <2>3. QED
    BY <2>1, <2>2
<1>3. QED
  BY <1>1, <1>2, CleanAlways, PTL DEF Spec, KeepsPromise, Promise!Spec

=============================================================================
