---------------------------- MODULE DeviceConfig ----------------------------
(***************************************************************************)
(* hm.go: what startup does to one device.  EnsureConfigured reads a       *)
(* parameter list, lets a callback change a copy and writes the bytes that *)
(* differ; EnsurePeeredWith reads the list of peers and replaces the peer. *)
(*                                                                         *)
(* Every command is confirmed by the gateway, not by the device.  Answers  *)
(* are told from other packets by their source and first byte only, the    *)
(* acks of the peer commands not even by their source.  Any error is fatal *)
(* (log.Fatal) and the process starts over.                                *)
(*                                                                         *)
(* An answer carries one byte of memory or one peer: how many share a      *)
(* packet, and whether pairs or sequences of bytes, makes no difference to *)
(* the code.  Device, radio and gateway are external; a packet may be      *)
(* lost, other devices send what they like, the process may die anywhere.  *)
(***************************************************************************)
EXTENDS Integers, Sequences, FiniteSets

CONSTANTS
  Size,         \* bytes of the parameter list: at most 256
  Values,       \* of a byte
  Program,      \* what the callback sets: a function of some of the indices
  Block,        \* pairs in a ConfigWriteIndex packet: 7
  Devices,      \* addresses that can be a peer
  Wanted,       \* the address EnsurePeeredWith is called with
  MaxLeft,      \* bound: answers to the last process when the next starts
  MaxTrouble    \* bound: losses, crashes and unasked-for packets

Index == 1 .. Size
Zero  == 0
NothingRead == [i \in Index |-> Zero]     \* make([]byte, 256)

\* SetPrograms and the valve offset never set a byte to 0.
ASSUME ProgramAssumption ==
  /\ Size \in Nat /\ Block \in Nat \ {0} /\ Zero \in Values
  /\ DOMAIN Program \subseteq Index
  /\ \A i \in DOMAIN Program : Program[i] \in Values \ {Zero}
ASSUME PeerAssumption == Wanted \in Devices /\ IsFiniteSet(Devices)
ASSUME BoundAssumption == MaxLeft \in Nat /\ MaxTrouble \in Nat

VARIABLES
  pc,         \* what the program is doing about the command
  step,       \* which Config command it is at
  devmem,     \* EnsureConfigured: the memory as read
  pairs,      \* EnsureConfigured: index/value pairs still to be written
  peers,      \* EnsurePeeredWith: the peers as read
  toGW,       \* the command on its way to the gateway and the device
  unacked,    \* the gateway has sent the command and not yet acked it
  toHost,     \* packets the program has not read
  mem, linked,    \* the device's parameters and peers
  session,    \* the device is between ConfigStart and ConfigEnd
  answers,    \* what the device has still to send
  dropped,    \* history: this process has not got an answer of the device
  lost,       \* history: commands of this process the device has not got
  fooled,     \* history: this process took a foreign packet for an ack
  late,       \* history: the device still had answers when it started
  trouble     \* how much went wrong so far

reading == <<devmem, pairs, peers>>
line    == <<toGW, unacked, toHost>>
device  == <<mem, linked, session, answers>>
history == <<dropped, lost, fooled, late, trouble>>
vars    == <<pc, step, reading, line, device, history>>

Asking  == {"paramReq", "peerReq", "remove", "add"}   \* the device answers
Writing == {"start", "write", "end"}

\* Kinds of packets by what the code can tell apart: "ack" is an Ack and
\* "info" an Info that starts with 0; "warm" is an event that starts with 1
\* and ends too soon for a peer (a temperature from 25.6 degrees on).
Packet(k, mine, a) == [kind |-> k, own |-> mine, payload |-> a]

\* The answers the program waits for: no ack of a writing command.
Needed(p) ==
  /\ p.own
  /\ \/ p.kind \in {"param", "paramEnd", "peer", "peerEnd", "info"}
     \/ p.kind = "ack" /\ p.payload = Wanted

Unasked ==
  {Packet(k, TRUE, Zero) : k \in {"event", "warm"}} \cup
  {Packet(k, FALSE, Zero) :
     k \in {"event", "ack", "info", "paramEnd", "peerEnd"}} \cup
  {Packet("param", FALSE, p) : p \in Index \X Values} \cup
  {Packet("peer", FALSE, d) : d \in Devices}

----------------------------------------------------------------------------
(* The program: commands *)

\* The pairs with the lowest indices.
NextBlock ==
  {p \in pairs : Cardinality({q \in pairs : q[1] < p[1]}) < Block}

\* Faulty variant: the offset is not advanced.
RestSame == pairs

Rest == pairs \ NextBlock

\* Faulty variant: one block too many.
AfterBlockLate == IF pairs = {} THEN "end" ELSE "write"

AfterBlock == IF Rest = {} THEN "end" ELSE "write"

\* The Config... functions.
Send ==
  /\ pc = "send"
  /\ pc' = "confirm"
  /\ toGW' = << [cmd |-> step,
                 data |-> CASE step = "write"  -> NextBlock
                           [] step = "remove" -> Head(peers)
                           [] step = "add"    -> Wanted
                           [] OTHER           -> Zero] >>
  /\ UNCHANGED <<step, reading, unacked, toHost, device, history>>

Receive ==
  /\ toHost # <<>>
  /\ toHost' = Tail(toHost)
  /\ UNCHANGED <<toGW, unacked, device, lost, late, trouble>>

\* A packet is read and thrown away; it may be an answer of the device.
Drop ==
  /\ Receive
  /\ dropped' = (dropped \/ Needed(Head(toHost)))
  /\ UNCHANGED <<pc, step, reading, fooled>>

\* Confirm waits for the ack of the gateway.
ConfirmDrops ==
  /\ pc = "confirm"
  /\ toHost # <<>> /\ Head(toHost).kind # "appAck"
  /\ Drop

Continue(p, s) == pc' = p /\ step' = s

\* ... and its caller goes on: it reads the device's answer, or sends the
\* next command of EnsureConfigured.
ConfirmAcked ==
  /\ pc = "confirm"
  /\ toHost # <<>> /\ Head(toHost).kind = "appAck"
  /\ Receive
  /\ pairs' = IF step = "write" THEN Rest ELSE pairs
  /\ CASE step \in Asking  -> Continue("read", step)
       [] step = "start"   -> Continue("send", "write")
       [] step = "write"   -> Continue("send", AfterBlock)
       [] step = "end"     -> Continue("others", "peerReq")
  /\ devmem' = IF step = "end" THEN NothingRead ELSE devmem
  /\ UNCHANGED <<peers, dropped, fooled>>

Fail == Continue("down", "paramReq")

----------------------------------------------------------------------------
(* The program: answers *)

\* Faulty variant: the target does not start as a copy of what was read.
TargetFromZero(m) ==
  [i \in Index |-> IF i \in DOMAIN Program THEN Program[i] ELSE Zero]

\* What the callback makes of the copy.
Target(m) ==
  [i \in Index |-> IF i \in DOMAIN Program THEN Program[i] ELSE m[i]]

\* Faulty variant: everything is written, changed or not.
DifferencesAll(m, t) == {<<i, t[i]>> : i \in DOMAIN Program}

Differences(m, t) == {<<i, t[i]>> : i \in {j \in Index : m[j] # t[j]}}

\* Faulty variant: packets of other devices are not dropped.
ForeignNever(p) == FALSE

Foreign(p) == ~ p.own /\ p.kind # "appAck"

\* LoadConfig, and EnsureConfigured up to its first command.
ReadParams ==
  /\ pc = "read" /\ step = "paramReq"
  /\ Receive
  /\ LET p == Head(toHost)
     IN  \/ /\ Foreign(p)
            /\ UNCHANGED <<pc, step, devmem, pairs>>
         \/ /\ ~ Foreign(p) /\ p.kind = "param"
            /\ devmem' = [devmem EXCEPT ![p.payload[1]] = p.payload[2]]
            /\ UNCHANGED <<pc, step, pairs>>
         \/ /\ ~ Foreign(p) /\ p.kind = "paramEnd"
            /\ pairs' = Differences(devmem, Target(devmem))
            /\ IF pairs' = {} THEN Continue("others", "peerReq")
                                ELSE Continue("send", "start")
            /\ devmem' = IF pairs' = {} THEN NothingRead ELSE devmem
         \/ /\ ~ Foreign(p) /\ p.kind \notin {"param", "paramEnd"}
            /\ Fail
            /\ UNCHANGED <<devmem, pairs>>
  /\ UNCHANGED <<peers, dropped, fooled>>

\* Main configures other devices before it comes to the peers of this one;
\* what this one sends meanwhile is dropped.
OthersRead == pc = "others" /\ Drop

OthersDone ==
  /\ pc = "others"
  /\ Continue("send", step)
  /\ UNCHANGED <<reading, line, device, history>>

\* Faulty variant: a peer is added next to the one that is there.
ChoosePeerCommandNoRemove ==
  IF Len(peers) > 1 THEN Fail
  ELSE IF peers = << Wanted >> THEN Continue("done", step)
  ELSE Continue("send", "add")

\* Faulty variant: a single peer is one too many.
ChoosePeerCommandNone ==
  IF Len(peers) > 0 THEN Fail ELSE Continue("send", "add")

\* One peer at most: unpeering more is not implemented.
ChoosePeerCommand ==
  IF Len(peers) > 1 THEN Fail
  ELSE IF peers = << >> THEN Continue("send", "add")
  ELSE IF peers = << Wanted >> THEN Continue("done", step)
  ELSE Continue("send", "remove")

\* The loop of EnsurePeeredWith.
ReadPeers ==
  /\ pc = "read" /\ step = "peerReq"
  /\ Receive
  /\ LET p == Head(toHost)
     IN  \/ /\ Foreign(p) \/ p.kind = "warm"
            /\ UNCHANGED <<pc, step, peers>>
         \/ /\ ~ Foreign(p) /\ p.kind = "peer"
            /\ peers' = Append(peers, p.payload)
            /\ UNCHANGED <<pc, step>>
         \/ /\ ~ Foreign(p) /\ p.kind = "peerEnd"
            /\ ChoosePeerCommand
            /\ UNCHANGED peers
         \/ /\ ~ Foreign(p) /\ p.kind \notin {"peer", "peerEnd", "warm"}
            /\ Fail
            /\ UNCHANGED peers
  /\ UNCHANGED <<devmem, pairs, dropped, fooled>>

\* Faulty variant: the packet is not looked at.
IsPeerAckAny(p) == TRUE

IsPeerAck(p) == p.kind = (IF step = "remove" THEN "info" ELSE "ack")

\* The reads after ConfigPeerRemove and ConfigPeerAdd: the next packet, of
\* whatever device, is the ack or an error.
ReadPeerAck ==
  /\ pc = "read" /\ step \in {"remove", "add"}
  /\ Receive
  /\ LET p == Head(toHost)
         good == IsPeerAck(p)
     IN  /\ fooled' = (fooled \/ (good /\ ~ p.own))
         /\ \/ good /\ step = "remove" /\ Continue("send", "add")
            \/ good /\ step = "add" /\ Continue("done", step)
            \/ ~ good /\ Fail
  /\ UNCHANGED <<reading, dropped>>

\* The process has died and the next one has got this far: it has reset the
\* gateway and emptied the input buffer.
Start ==
  /\ pc = "down"
  /\ Len(answers) <= MaxLeft
  /\ Continue("send", "paramReq")
  /\ devmem' = NothingRead /\ pairs' = {} /\ peers' = <<>>
  /\ toGW' = <<>> /\ unacked' = FALSE /\ toHost' = <<>>
  /\ dropped' = FALSE /\ lost' = {} /\ fooled' = FALSE
  /\ late' = (answers # <<>>)
  /\ UNCHANGED <<device, trouble>>

----------------------------------------------------------------------------
(* Gateway, radio and device *)

Reply(k, a) == << [kind |-> k, payload |-> a] >>
Dump == [i \in Index |-> [kind |-> "param", payload |-> i]]

\* The peers of the device in some order.
Listings ==
  {l \in [1 .. Cardinality(linked) -> linked] :
     \A d \in linked : \E i \in DOMAIN l : l[i] = d}

PeerList(l) == [i \in DOMAIN l |-> [kind |-> "peer", payload |-> l[i]]]

\* The device gets command c.  It may ack the writing ones.
Obey(c) ==
  /\ mem' = IF c.cmd = "write" /\ session
            THEN [i \in Index |->
                    IF \E v \in Values : <<i, v>> \in c.data
                    THEN CHOOSE v \in Values : <<i, v>> \in c.data
                    ELSE mem[i]]
            ELSE mem
  /\ linked' = CASE c.cmd = "remove" -> linked \ {c.data}
                 [] c.cmd = "add"    -> linked \cup {c.data}
                 [] OTHER            -> linked
  /\ session' = (c.cmd = "start" \/ (session /\ c.cmd # "end"))
  /\ \/ c.cmd = "paramReq" /\ answers' = (answers \o Dump) \o Reply("paramEnd", Zero)
     \/ /\ c.cmd = "peerReq"
        /\ \E l \in Listings :
             answers' = (answers \o PeerList(l)) \o Reply("peerEnd", Zero)
     \/ c.cmd = "remove" /\ answers' = answers \o Reply("info", Zero)
     \/ c.cmd = "add" /\ answers' = answers \o Reply("ack", c.data)
     \/ c.cmd \in Writing /\ answers' = answers \o Reply("ack", Zero)
     \/ c.cmd \in Writing /\ UNCHANGED answers

MoreTrouble == trouble < MaxTrouble /\ trouble' = trouble + 1

\* The gateway sends the command; the device gets it or not.
Transmit ==
  /\ toGW # <<>>
  /\ toGW' = <<>>
  /\ unacked' = TRUE
  /\ \/ Obey(Head(toGW)) /\ UNCHANGED <<lost, trouble>>
     \/ /\ MoreTrouble
        /\ lost' = lost \cup {Head(toGW).cmd}
        /\ UNCHANGED device
  /\ UNCHANGED <<pc, step, reading, toHost, dropped, fooled, late>>

\* What arrives while the process is down will be flushed.
Arrives(p) == toHost' = IF pc = "down" THEN toHost ELSE Append(toHost, p)

Ack ==
  /\ unacked /\ pc # "done"
  /\ unacked' = FALSE
  /\ Arrives(Packet("appAck", FALSE, Zero))
  /\ UNCHANGED <<pc, step, reading, toGW, device, history>>

\* The device sends the next answer; it arrives or not.
Answer ==
  /\ answers # <<>> /\ pc # "done"
  /\ answers' = Tail(answers)
  /\ LET a == Head(answers)
         p == Packet(a.kind, TRUE, IF a.kind = "param"
                                   THEN <<a.payload, mem[a.payload]>>
                                   ELSE a.payload)
     IN  \/ /\ Arrives(p)
            /\ UNCHANGED <<dropped, trouble>>
         \/ /\ MoreTrouble
            /\ dropped' = (dropped \/ Needed(p))
            /\ UNCHANGED toHost
  /\ UNCHANGED <<pc, step, reading, toGW, unacked, mem, linked, session,
                 lost, fooled, late>>

Event ==
  /\ pc \notin {"down", "done"}
  /\ MoreTrouble
  /\ \E p \in Unasked : Arrives(p)
  /\ UNCHANGED <<pc, step, reading, toGW, unacked, device,
                 dropped, lost, fooled, late>>

Crash ==
  /\ pc \notin {"down", "done"}
  /\ MoreTrouble
  /\ Fail
  /\ UNCHANGED <<reading, line, device, dropped, lost, fooled, late>>

----------------------------------------------------------------------------

Init ==
  /\ pc = "send" /\ step = "paramReq"
  /\ devmem = NothingRead /\ pairs = {} /\ peers = <<>>
  /\ toGW = <<>> /\ unacked = FALSE /\ toHost = <<>>
  /\ mem \in [Index -> Values] /\ linked \in SUBSET Devices
  /\ session = FALSE /\ answers = <<>>
  /\ dropped = FALSE /\ lost = {} /\ fooled = FALSE /\ late = FALSE
  /\ trouble = 0

Process ==
  \/ Send \/ ConfirmDrops \/ ConfirmAcked
  \/ ReadParams \/ OthersRead \/ OthersDone \/ ReadPeers \/ ReadPeerAck
  \/ Start

Next == Process \/ Transmit \/ Ack \/ Answer \/ Event \/ Crash

Spec == Init /\ [][Next]_vars

\* The process runs, is started again when it has died, and goes on to the
\* next device; gateway and device do not fall silent for good.
FairSpec ==
  Spec /\ WF_vars(Process)
       /\ WF_vars(Transmit) /\ WF_vars(Ack) /\ WF_vars(Answer)

----------------------------------------------------------------------------
(* Properties *)

Commands ==
  [cmd : {"write"}, data : SUBSET (Index \X Values)] \cup
  [cmd : {"remove", "add"}, data : Devices] \cup
  [cmd : {"paramReq", "peerReq", "start", "end"}, data : {Zero}]

Answers ==
  [kind : {"param"}, payload : Index] \cup
  [kind : {"peer", "ack"}, payload : Devices] \cup
  [kind : {"ack", "paramEnd", "peerEnd", "info"}, payload : {Zero}]

Packets ==
  [kind : {"param"}, own : BOOLEAN, payload : Index \X Values] \cup
  [kind : {"peer", "ack"}, own : BOOLEAN, payload : Devices] \cup
  [kind : {"ack", "paramEnd", "peerEnd", "info", "event", "warm", "appAck"},
   own : BOOLEAN, payload : {Zero}]

TypeOK ==
  /\ pc \in {"send", "confirm", "read", "others", "done", "down"}
  /\ step \in Asking \cup Writing
  /\ pc = "others" => step = "peerReq"
  /\ pc = "down" => step = "paramReq"
  /\ devmem \in [Index -> Values] /\ mem \in [Index -> Values]
  /\ pairs \in SUBSET (Index \X Values)
  /\ (pc # "down" /\ step \in {"start", "write"}) => pairs # {}
  /\ peers \in Seq(Devices)
  /\ (pc = "send" /\ step = "remove") => peers # <<>>
  /\ toGW \in Seq(Commands) /\ Len(toGW) <= 1
  /\ toHost \in Seq(Packets)
  /\ answers \in Seq(Answers)
  /\ linked \in SUBSET Devices
  /\ {unacked, session, dropped, fooled, late} \subseteq BOOLEAN
  /\ lost \in SUBSET (Asking \cup Writing)
  /\ trouble \in 0 .. MaxTrouble

\* Once EnsureConfigured has returned nil, the device holds the program:
\* whatever other devices send, even if Confirm has dropped part of the
\* memory dump or it ended with an answer to an earlier process; unless a
\* command has not reached the device, which nobody notices.
Configured ==
  (/\ step \in {"peerReq", "remove", "add"}
   /\ lost \cap {"start", "write"} = {}) =>
     \A i \in DOMAIN Program : mem[i] = Program[i]

\* However incomplete the dump is, no byte that the callback leaves alone
\* changes; the others go from old to new value with nothing in between.
OnlyProgramChanges ==
  [][\A i \in Index : mem'[i] # mem[i] =>
       i \in DOMAIN Program /\ mem'[i] = Program[i]]_vars

\* The device's memory wears: a byte that has its value already is written
\* again only if LoadConfig has not seen it.
WritesOnlyDifferences ==
  (pc = "send" /\ step \in {"start", "write"}) =>
     \A p \in pairs : mem[p[1]] # p[2] \/ devmem[p[1]] = Zero

\* The ack of a peer command may be another device's, or one the device
\* owes to an earlier process.
Misled == fooled \/ late

\* When EnsurePeeredWith has returned nil the device has the wanted peer
\* and no other, wherever earlier processes died and even if the list was an
\* answer to one of them; unless an answer with a peer was dropped, or a
\* command was lost and something else taken for its ack.
PeeredExactly ==
  pc = "done" => \/ linked = {Wanted} \/ dropped
                 \/ Misled /\ lost \cap {"remove", "add"} # {}

\* A device with more than one peer can never be configured again: every
\* start fails.  The program brings one into that state only after it
\* missed an answer, or took something else for the ack of a removal that
\* was lost.
NeverTwoPeers ==
  [][Cardinality(linked') > Cardinality(linked) /\ linked # {} =>
       dropped \/ (Misled /\ "remove" \in lost)]_vars

\* A device comes to be configured and peered, through events that are read
\* as errors and through crashes: unless a command is lost, or answers are
\* lost or dropped again and again (reads have no deadline), or each start
\* finds answers to an earlier process, or the device has more peers than
\* the code can handle.
Converges ==
  \/ []<>dropped
  \/ []<>(pc = "down" /\ answers # <<>>)
  \/ <>(pc = "done" \/ lost # {} \/ Cardinality(linked) > 1)

=============================================================================
