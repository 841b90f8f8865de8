------------------------------ MODULE MainLoop ------------------------------
(***************************************************************************)
(* The goroutines of ccu.go that share the gateway after startup: the main *)
(* loop, and one goroutine per HTTP request to /power/on or /power/off.    *)
(*                                                                         *)
(* readMu is held by the handlers while they write a command and wait for  *)
(* its confirmation, and by the main loop while it waits for a packet; but *)
(* not by the main loop when it sets the time, adds a peer or pairs a      *)
(* device.  WritePacket and ReadPacket consist of several system calls, so *)
(* two goroutines that use the line at once interleave bytes of frames.    *)
(*                                                                         *)
(* Frames are whole here; what interleaved bytes do to them is in          *)
(* WriteStart, WriteFinish and MangledRead.  The message counter is left   *)
(* out: nothing reads the counter of an answer.  The gateway is external.  *)
(***************************************************************************)
EXTENDS Integers, Sequences, FiniteSets

CONSTANTS
  Main,       \* the goroutine running main
  Handlers,   \* HTTP requests, each with a goroutine of its own
  NoOne,      \* readMu is free; no frame is open
  Levels,     \* power.On and power.Off
  NoLevel,    \* the request has not been made
  MaxQueue    \* bound: no radio packet is received into a fuller queue

ASSUME GoroutinesAssumption ==
  /\ Main \notin Handlers
  /\ NoOne \notin Handlers \cup {Main}
  /\ NoLevel \notin Levels
ASSUME QueueAssumption == MaxQueue \in Nat

Goroutines == Handlers \cup {Main}

VARIABLES
  pc,         \* where each goroutine stands
  readMu,     \* the goroutine holding the mutex, or NoOne
  tick,       \* the one-element buffer of time.Tick
  todo,       \* the gateway commands the main loop has still to send
  open,       \* who wrote the start of the frame the gateway is parsing
  toGW,       \* complete frames on their way to the gateway, by writer
  toHost,     \* frames on their way to the program
  torn,       \* two readers have shared the bytes of a frame
  fatal,      \* why log.Fatal was called, or "no"
  want, reply,        \* what each request asks for and how it was answered
  delivered, level,   \* requests the gateway has obeyed; the switch's level
  collided    \* history: two goroutines have used the line at once

sync    == <<readMu, tick>>
line    == <<toGW, toHost, open, torn>>
effects == <<want, reply, delivered, level>>
vars    == <<pc, sync, todo, line, fatal, effects, collided>>

alive == fatal = "no"

\* Goroutines between the first byte of a command and the end of the read
\* that answers it.
Using(st) == {g \in Goroutines : st[g] \in {"writing", "await"}}

\* Every step records whether it made two goroutines use the line at once.
NoteOverlap ==
  collided' = (collided \/ \E g, o \in Using(pc') : g # o)

Goto(g, where) == pc' = [pc EXCEPT ![g] = where]

----------------------------------------------------------------------------
(* Commands: what WritePacket and the read of the answer do *)

\* The commands of one AddPeer and one Pair.  The read after a strict one
\* fails on any packet but an ack; the one after a confirmed one (Confirm)
\* skips packets received by radio.
SetTime     == << "strict" >>
PairCommands ==
  << "strict", "strict", "strict", "strict", "strict",   \* AddPeer
     "confirm", "confirm", "confirm" >>                   \* Pair

ModeOf(g) == IF g = Main THEN Head(todo) ELSE "confirm"

\* log.Fatal: the process is gone, with all its goroutines.
Die(why) ==
  /\ fatal' = why
  /\ UNCHANGED <<pc, sync, todo, effects>>

\* The main loop sends its next command, or goes on to ReadPacket after
\* SetTime and back to its top after Pair.
MainGoesOn ==
  /\ todo' = Tail(todo)
  /\ Goto(Main, CASE Len(todo) > 1   -> "start"
                  [] todo = SetTime -> "lock"
                  [] OTHER          -> "top")
  /\ UNCHANGED <<sync, effects>>

\* Faulty variant: the handler does not unlock readMu.
ReturnKeepingLock(g, result) ==
  /\ UNCHANGED fatal
  /\ IF g = Main
     THEN MainGoesOn
     ELSE /\ reply' = [reply EXCEPT ![g] = result]
          /\ Goto(g, "done")
          /\ UNCHANGED <<sync, todo, want, delivered, level>>

\* The function that waited for an answer returns.  A handler replies and
\* its deferred Unlock runs.
Return(g, result) ==
  /\ UNCHANGED fatal
  /\ IF g = Main
     THEN MainGoesOn
     ELSE /\ reply' = [reply EXCEPT ![g] = result]
          /\ Goto(g, "done")
          /\ readMu' = NoOne
          /\ UNCHANGED <<tick, todo, want, delivered, level>>

\* The first write of WritePacket, the delimiter 0xfd: wherever the
\* gateway's parser was, it starts on a new frame.
WriteStart(g) ==
  /\ alive
  /\ pc[g] = "start"
  /\ Goto(g, "writing")
  /\ open' = g
  /\ NoteOverlap
  /\ UNCHANGED <<sync, todo, toGW, toHost, torn, fatal, effects>>

\* Faulty variant: the command is written and not confirmed.
WriteFinishUnconfirmed(g) ==
  /\ alive
  /\ pc[g] = "writing"
  /\ toGW' = IF open = g THEN Append(toGW, g) ELSE toGW
  /\ open' = NoOne
  /\ Return(g, "OK")
  /\ NoteOverlap
  /\ UNCHANGED <<toHost, torn>>

\* The other writes.  The frame is whole if no other goroutine wrote since;
\* otherwise these bytes spoil the frame they end up in.
WriteFinish(g) ==
  /\ alive
  /\ pc[g] = "writing"
  /\ Goto(g, "await")
  /\ toGW' = IF open = g THEN Append(toGW, g) ELSE toGW
  /\ open' = NoOne
  /\ NoteOverlap
  /\ UNCHANGED <<sync, todo, toHost, torn, fatal, effects>>

\* Faulty variant: whatever is read is taken for the confirmation.
ReadAnswerAny(g) ==
  /\ alive
  /\ pc[g] = "await"
  /\ toHost # <<>>
  /\ toHost' = Tail(toHost)
  /\ UNCHANGED <<toGW, open, torn>>
  /\ Return(g, "OK")
  /\ NoteOverlap

\* ReadPacket returns the next frame to g, which waits for an ack.
ReadAnswer(g) ==
  /\ alive
  /\ pc[g] = "await"
  /\ toHost # <<>>
  /\ toHost' = Tail(toHost)
  /\ UNCHANGED <<toGW, open, torn>>
  /\ \/ /\ Head(toHost) = "ack"
        /\ Return(g, "OK")
     \/ /\ Head(toHost) # "ack"            \* an AppRecv
        /\ ModeOf(g) = "confirm"           \* Confirm drops it and reads on
        /\ UNCHANGED <<pc, sync, todo, fatal, effects>>
     \/ /\ Head(toHost) # "ack"
        /\ ModeOf(g) = "strict"
        /\ Die("event")
  /\ NoteOverlap

\* Two readers share the bytes of a frame, or one still holds the beginning
\* of an earlier frame: g skips what it gets as garbage, or its checksum is
\* wrong and ReadPacket returns an error.
Readers == {g \in Goroutines : pc[g] \in {"read", "await"}}

MangledRead(g) ==
  /\ alive
  /\ g \in Readers
  /\ torn \/ Cardinality(Readers) > 1
  /\ toHost # <<>>
  /\ toHost' = Tail(toHost)
  /\ torn' = TRUE
  /\ UNCHANGED <<toGW, open>>
  /\ \/ UNCHANGED <<pc, sync, todo, fatal, effects>>
     \/ g = Main /\ Die("mangled")
     \/ g # Main /\ Return(g, "error")
  /\ NoteOverlap

----------------------------------------------------------------------------
(* The main loop *)

\* The select at its top: set the time if the ticker has fired.
MainTop ==
  /\ alive
  /\ pc[Main] = "top"
  /\ tick' = FALSE
  /\ IF tick
     THEN todo' = SetTime /\ Goto(Main, "start")
     ELSE todo' = todo /\ Goto(Main, "lock")
  /\ UNCHANGED <<readMu, line, fatal, effects, collided>>

MainLock ==
  /\ alive
  /\ pc[Main] = "lock"
  /\ readMu = NoOne
  /\ readMu' = Main
  /\ Goto(Main, "read")
  /\ UNCHANGED <<tick, todo, line, fatal, effects, collided>>

\* Faulty variant: after a peering request the list of commands is not set.
MainReadNoCommands ==
  /\ alive
  /\ pc[Main] = "read"
  /\ toHost # <<>>
  /\ toHost' = Tail(toHost)
  /\ readMu' = NoOne
  /\ Goto(Main, IF Head(toHost) = "peerRequest" THEN "start" ELSE "top")
  /\ UNCHANGED <<tick, todo, toGW, open, torn, fatal, effects, collided>>

\* ReadPacket returns and the mutex is released.  A peering request of a
\* configured device is answered by AddPeer and Pair, without the mutex; any
\* other packet received by radio is decoded and the loop starts over; any
\* other packet is fatal.
MainRead ==
  /\ alive
  /\ pc[Main] = "read"
  /\ toHost # <<>>
  /\ toHost' = Tail(toHost)
  /\ readMu' = NoOne
  /\ \/ /\ Head(toHost) = "peerRequest"
        /\ todo' = PairCommands
        /\ Goto(Main, "start")
        /\ UNCHANGED fatal
     \/ /\ Head(toHost) = "event"
        /\ Goto(Main, "top")
        /\ UNCHANGED <<todo, fatal>>
     \/ /\ Head(toHost) = "ack"
        /\ fatal' = "strayAck"
        /\ UNCHANGED <<pc, todo>>
  /\ UNCHANGED <<tick, toGW, open, torn, effects, collided>>

\* time.Tick fires; it drops ticks while its buffer is full.
Tick ==
  /\ alive
  /\ ~ tick
  /\ tick' = TRUE
  /\ UNCHANGED <<pc, readMu, todo, line, fatal, effects, collided>>

----------------------------------------------------------------------------
(* An HTTP request *)

Request(h) ==
  /\ alive
  /\ pc[h] = "idle"
  /\ Goto(h, "lock")
  /\ \E l \in Levels : want' = [want EXCEPT ![h] = l]
  /\ UNCHANGED <<sync, todo, line, fatal, reply, delivered, level, collided>>

\* Faulty variant: the handler does not take readMu.
HandlerNoLock(h) ==
  /\ alive
  /\ pc[h] = "lock"
  /\ Goto(h, "start")
  /\ UNCHANGED <<sync, todo, line, fatal, effects, collided>>

HandlerLock(h) ==
  /\ alive
  /\ pc[h] = "lock"
  /\ readMu = NoOne
  /\ readMu' = h
  /\ Goto(h, "start")
  /\ UNCHANGED <<tick, todo, line, fatal, effects, collided>>

----------------------------------------------------------------------------
(* The gateway *)

\* It acks each whole frame; a LevelSet reaches the switch.
GwHandle ==
  /\ toGW # <<>>
  /\ toGW' = Tail(toGW)
  /\ toHost' = Append(toHost, "ack")
  /\ IF Head(toGW) \in Handlers
     THEN /\ level' = want[Head(toGW)]
          /\ delivered' = delivered \cup {Head(toGW)}
     ELSE UNCHANGED <<level, delivered>>
  /\ UNCHANGED <<pc, sync, todo, open, torn, fatal, want, reply, collided>>

\* A device sends an event or, while one is being paired, a peering request.
GwRadio ==
  /\ Len(toHost) < MaxQueue
  /\ \E k \in {"event", "peerRequest"} : toHost' = Append(toHost, k)
  /\ UNCHANGED <<pc, sync, todo, toGW, open, torn, fatal, effects, collided>>

----------------------------------------------------------------------------

Init ==
  /\ pc = [g \in Goroutines |-> IF g = Main THEN "top" ELSE "idle"]
  /\ readMu = NoOne
  /\ tick = FALSE
  /\ todo = <<>>
  /\ open = NoOne /\ toGW = <<>> /\ toHost = <<>> /\ torn = FALSE
  /\ fatal = "no"
  /\ want = [h \in Handlers |-> NoLevel]
  /\ reply = [h \in Handlers |-> "none"]
  /\ delivered = {}
  /\ level \in Levels
  /\ collided = FALSE

Command(g) == WriteStart(g) \/ WriteFinish(g) \/ ReadAnswer(g) \/ MangledRead(g)

MainNext == MainTop \/ MainLock \/ MainRead \/ Command(Main)

Next ==
  \/ MainNext \/ Tick
  \/ \E h \in Handlers : Request(h) \/ HandlerLock(h) \/ Command(h)
  \/ GwHandle \/ GwRadio

Spec == Init /\ [][Next]_vars

\* Goroutines run on, the gateway answers, the devices send now and then,
\* and a sync.Mutex that is released again and again is eventually acquired
\* by each goroutine waiting for it (its starvation mode).
FairSpec ==
  /\ Spec
  /\ WF_vars(MainNext) /\ WF_vars(GwHandle) /\ WF_vars(GwRadio)
  /\ SF_vars(MainLock)
  /\ \A h \in Handlers : SF_vars(HandlerLock(h)) /\ WF_vars(Command(h))

----------------------------------------------------------------------------
(* Properties *)

TypeOK ==
  /\ pc \in [Goroutines -> {"top", "lock", "read", "start", "writing",
                            "await", "idle", "done"}]
  /\ readMu \in Goroutines \cup {NoOne}
  /\ todo \in Seq({"strict", "confirm"})
  /\ pc[Main] \in {"start", "writing", "await"} <=> todo # <<>>
  /\ open \in Goroutines \cup {NoOne}
  /\ toGW \in Seq(Goroutines)
  /\ toHost \in Seq({"ack", "event", "peerRequest"})
  /\ {tick, torn, collided} \subseteq BOOLEAN
  /\ fatal \in {"no", "event", "strayAck", "mangled"}
  /\ want \in [Handlers -> Levels \cup {NoLevel}]
  /\ reply \in [Handlers -> {"none", "OK", "error"}]
  /\ delivered \in SUBSET Handlers
  /\ level \in Levels

\* Handlers and main loop give the client the promise of PowerControl: each
\* LevelSet takes effect once, before its "OK" and after the previous "OK",
\* as long as SetTime, AddPeer and Pair do not run while a handler does.
Promise == INSTANCE PowerControl
             WITH applied <- delivered, chaos <- collided
KeepsPromise == Promise!Spec

\* As long as the line is used by one goroutine at a time, no ack is left
\* for the main loop to trip over, no read is mangled, and the only thing
\* that ends the process is an event that arrives while SetTime or AddPeer
\* waits for its ack.
DiesOnlyOfEvents == ~ collided => fatal \in {"no", "event"}

\* While only one goroutine at a time uses the line: when no LevelSet is
\* under way the line is quiet, no frame half written, no command
\* unanswered; whoever locks readMu next starts from a clean line.
QuietWhenFree ==
  (~ collided /\ Using(pc) = {}) =>
    /\ open = NoOne
    /\ toGW = <<>>
    /\ \A i \in DOMAIN toHost : toHost[i] # "ack"

\* A power request is answered, unless the process dies or two goroutines
\* get into each other's way.  It may have to wait for the next packet from
\* a device: the main loop holds readMu while it reads.
EveryRequestAnswered ==
  \A h \in Handlers :
    pc[h] = "lock" ~> (pc[h] = "done" \/ ~ alive \/ collided)

\* bidcos.Sender "automatically confirms outgoing packets" (bidcos.go:154):
\* when a handler answers "OK", the gateway has obeyed its LevelSet or at
\* least has the whole frame before it.  Not so: SetTime or AddPeer of the
\* main loop may spoil the frame, and Confirm accept the ack of theirs.
OkMeansReceived ==
  \A h \in Handlers :
    reply[h] = "OK" => h \in delivered \/ \E i \in DOMAIN toGW : toGW[i] = h

=============================================================================
