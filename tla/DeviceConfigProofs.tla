------------------------- MODULE DeviceConfigProofs -------------------------
(***************************************************************************)
(* Proofs about DeviceConfig, for any memory, program, block size, devices *)
(* and number of mishaps.                                                  *)
(***************************************************************************)
EXTENDS DeviceConfig, FiniteSetTheorems, TLAPS

Steps == Asking \cup Writing

\* What reading a packet does to the queue.
LEMMA ReceiveEffect ==
  ASSUME TypeOK, Receive
  PROVE  /\ Head(toHost) \in Packets
         /\ toHost' \in Seq(Packets)
BY DEF TypeOK, Receive

\* What the payload of a packet can be.
LEMMA PayloadType ==
  ASSUME NEW p \in Packets
  PROVE  /\ p.kind = "param" => p.payload \in Index \X Values
         /\ p.kind = "peer" => p.payload \in Devices
         /\ p.own \in BOOLEAN
BY DEF Packets

LEMMA UnaskedType ==
  ASSUME NEW p \in Unasked
  PROVE  /\ p \in Packets /\ p.kind # "appAck"
         /\ p.own => p.kind # "param"
<1>1. CASE p \in {Packet(k, TRUE, Zero) : k \in {"event", "warm"}}
  <2>1. PICK k \in {"event", "warm"} : p = Packet(k, TRUE, Zero)
    BY <1>1
  <2>2. QED
    BY <2>1 DEF Packet, Packets
<1>2. CASE p \in {Packet(k, FALSE, Zero) :
               k \in {"event", "ack", "info", "paramEnd", "peerEnd"}}
  <2>1. PICK k \in {"event", "ack", "info", "paramEnd", "peerEnd"} :
          p = Packet(k, FALSE, Zero)
    BY <1>2
  <2>2. QED
    BY <2>1 DEF Packet, Packets
<1>3. CASE p \in {Packet("param", FALSE, q) : q \in Index \X Values}
  <2>1. PICK q \in Index \X Values : p = Packet("param", FALSE, q)
    BY <1>3
  <2>2. QED
    BY <2>1 DEF Packet, Packets
<1>4. CASE p \in {Packet("peer", FALSE, d) : d \in Devices}
  <2>1. PICK d \in Devices : p = Packet("peer", FALSE, d)
    BY <1>4
  <2>2. QED
    BY <2>1 DEF Packet, Packets
<1>5. QED
  BY <1>1, <1>2, <1>3, <1>4 DEF Unasked

LEMMA AnswerType ==
  ASSUME NEW a \in Answers, mem \in [Index -> Values]
  PROVE  Packet(a.kind, TRUE, IF a.kind = "param"
                              THEN <<a.payload, mem[a.payload]>>
                              ELSE a.payload) \in Packets
BY DEF Answers, Packets, Packet

LEMMA ArrivesType ==
  ASSUME TypeOK, NEW p \in Packets, Arrives(p)
  PROVE  toHost' \in Seq(Packets)
BY DEF TypeOK, Arrives

LEMMA NothingReadType == NothingRead \in [Index -> Values]
BY ProgramAssumption DEF NothingRead

LEMMA DifferencesType ==
  ASSUME NEW m \in [Index -> Values]
  PROVE  Differences(m, Target(m)) \in SUBSET (Index \X Values)
<1>1. Target(m) \in [Index -> Values]
  BY ProgramAssumption DEF Target
<1>2. QED
  BY <1>1 DEF Differences

\* What the device makes of a command.
LEMMA ObeyType ==
  ASSUME TypeOK, NEW c \in Commands, Obey(c)
  PROVE  /\ mem' \in [Index -> Values]
         /\ linked' \in SUBSET Devices
         /\ session' \in BOOLEAN
         /\ answers' \in Seq(Answers)
<1>1. mem' \in [Index -> Values]
  <2>1. CASE c.cmd = "write" /\ session
    <3>1. \A i \in Index :
            (\E v \in Values : <<i, v>> \in c.data) =>
              (CHOOSE v \in Values : <<i, v>> \in c.data) \in Values
      OBVIOUS
    <3>2. QED
      BY <2>1, <3>1 DEF Obey, TypeOK
  <2>2. CASE ~ (c.cmd = "write" /\ session)
    BY <2>2 DEF Obey, TypeOK
  <2>3. QED
    BY <2>1, <2>2
<1>2. linked' \in SUBSET Devices
  <2>1. c.cmd \in {"remove", "add"} => c.data \in Devices
    BY DEF Commands
  <2>2. QED
    BY <2>1 DEF Obey, TypeOK
<1>3. session' \in BOOLEAN
  BY DEF Obey, TypeOK
<1>4. answers' \in Seq(Answers)
  <2>1. CASE answers' = (answers \o Dump) \o Reply("paramEnd", Zero)
    <3>1. Dump \in Seq(Answers)
      BY ProgramAssumption DEF Dump, Answers, Index
    <3>2. Reply("paramEnd", Zero) \in Seq(Answers)
      BY DEF Reply, Answers
    <3>3. QED
      BY <2>1, <3>1, <3>2 DEF TypeOK
  <2>2. ASSUME NEW l \in Listings,
               answers' = (answers \o PeerList(l)) \o Reply("peerEnd", Zero)
        PROVE  answers' \in Seq(Answers)
    <3>1. Cardinality(linked) \in Nat
      BY PeerAssumption, FS_Subset, FS_CardinalityType DEF TypeOK
    <3>2. l \in [1 .. Cardinality(linked) -> linked]
      BY DEF Listings
    <3>3. \A i \in DOMAIN l : [kind |-> "peer", payload |-> l[i]] \in Answers
      BY <3>2 DEF Answers, TypeOK
    <3>4. PeerList(l) \in Seq(Answers)
      BY <3>1, <3>2, <3>3 DEF PeerList
    <3>5. Reply("peerEnd", Zero) \in Seq(Answers)
      BY DEF Reply, Answers
    <3>6. QED
      BY <2>2, <3>4, <3>5 DEF TypeOK
  <2>3. CASE answers' = answers \o Reply("info", Zero)
    BY <2>3 DEF Reply, Answers, TypeOK
  <2>4. CASE c.cmd = "add" /\ answers' = answers \o Reply("ack", c.data)
    <3>1. c.data \in Devices
      BY <2>4 DEF Commands
    <3>2. QED
      BY <2>4, <3>1 DEF Reply, Answers, TypeOK
  <2>5. CASE answers' = answers \o Reply("ack", Zero)
    BY <2>5 DEF Reply, Answers, TypeOK
  <2>6. CASE answers' = answers
    BY <2>6 DEF TypeOK
  <2>7. QED
    BY <2>1, <2>2, <2>3, <2>4, <2>5, <2>6 DEF Obey
<1>5. QED
  BY <1>1, <1>2, <1>3, <1>4
----------------------------------------------------------------------------
(* The type invariant *)

LEMMA InitType == Init => TypeOK
<1>1. SUFFICES ASSUME Init PROVE TypeOK
  OBVIOUS
<1>2. devmem \in [Index -> Values] /\ mem \in [Index -> Values]
  BY <1>1, NothingReadType DEF Init
<1>3. pairs \in SUBSET (Index \X Values) /\ linked \in SUBSET Devices
  BY <1>1 DEF Init
<1>4. /\ toGW \in Seq(Commands) /\ Len(toGW) <= 1
      /\ peers \in Seq(Devices) /\ toHost \in Seq(Packets)
      /\ answers \in Seq(Answers)
  BY <1>1 DEF Init
<1>5. {unacked, session, dropped, fooled} \subseteq BOOLEAN
  BY <1>1 DEF Init
<1>6. trouble \in 0 .. MaxTrouble /\ lost \in SUBSET (Asking \cup Writing)
  BY <1>1, BoundAssumption DEF Init
<1>7. QED
  BY <1>1, <1>2, <1>3, <1>4, <1>5, <1>6 DEF Init, TypeOK, Asking, Writing

LEMMA SendType == TypeOK /\ Send => TypeOK'
<1>1. SUFFICES ASSUME TypeOK, Send PROVE TypeOK'
  OBVIOUS
<1>2. NextBlock \in SUBSET (Index \X Values)
  BY <1>1 DEF NextBlock, TypeOK
<1>3. step = "remove" => Head(peers) \in Devices
  BY <1>1 DEF TypeOK, Send
<1>4. PICK d : /\ toGW' = << [cmd |-> step, data |-> d] >>
               /\ d = CASE step = "write"  -> NextBlock
                        [] step = "remove" -> Head(peers)
                        [] step = "add"    -> Wanted
                        [] OTHER           -> Zero
  BY <1>1 DEF Send
<1>5. step \in {"paramReq", "peerReq", "remove", "add", "start", "write", "end"}
  BY <1>1 DEF TypeOK, Asking, Writing
<1>6. [cmd |-> step, data |-> d] \in Commands
  <2>1. CASE step = "write"
    BY <1>2, <1>4, <2>1 DEF Commands
  <2>2. CASE step \in {"remove", "add"}
    BY <1>3, <1>4, <2>2, PeerAssumption DEF Commands
  <2>3. CASE step \in {"paramReq", "peerReq", "start", "end"}
    BY <1>4, <2>3 DEF Commands
  <2>4. QED
    BY <1>5, <2>1, <2>2, <2>3
<1>7. toGW' \in Seq(Commands) /\ Len(toGW') <= 1
  BY <1>4, <1>6
<1>8. QED
  BY <1>1, <1>7 DEF Send, TypeOK, reading, device, history

\* The actions that read a packet.
LEMMA DropType == TypeOK /\ Drop => TypeOK'
<1>1. SUFFICES ASSUME TypeOK, Drop PROVE TypeOK'
  OBVIOUS
<1>2. toHost' \in Seq(Packets) /\ Head(toHost) \in Packets
  BY <1>1, ReceiveEffect DEF Drop
<1>3. dropped' \in BOOLEAN
  BY <1>1, <1>2, PayloadType DEF Drop, Needed, TypeOK
<1>4. QED
  BY <1>1, <1>2, <1>3 DEF Drop, Receive, TypeOK, reading, device

LEMMA ConfirmAckedType == TypeOK /\ ConfirmAcked => TypeOK'
<1>1. SUFFICES ASSUME TypeOK, ConfirmAcked PROVE TypeOK'
  OBVIOUS
<1>2. toHost' \in Seq(Packets)
  BY <1>1, ReceiveEffect DEF ConfirmAcked
<1>3. pairs' \in SUBSET (Index \X Values)
  BY <1>1 DEF ConfirmAcked, Rest, TypeOK
<1>4. devmem' \in [Index -> Values]
  BY <1>1, NothingReadType DEF ConfirmAcked, TypeOK
<1>5. /\ pc' \in {"read", "send", "others"}
      /\ step' \in Asking \cup Writing
      /\ (pc' # "down" /\ step' \in {"start", "write"}) => pairs' # {}
      /\ ~ (pc' = "send" /\ step' = "remove")
      /\ pc' = "others" => step' = "peerReq"
  BY <1>1
     DEF ConfirmAcked, Continue, AfterBlock, TypeOK, Asking, Writing
<1>6. QED
  BY <1>1, <1>2, <1>3, <1>4, <1>5 DEF ConfirmAcked, Receive, TypeOK, device

LEMMA ReadParamsType == TypeOK /\ ReadParams => TypeOK'
<1>1. SUFFICES ASSUME TypeOK, ReadParams PROVE TypeOK'
  OBVIOUS
<1>2. toHost' \in Seq(Packets) /\ Head(toHost) \in Packets
  BY <1>1, ReceiveEffect DEF ReadParams
<1>3. devmem' \in [Index -> Values]
  BY <1>1, <1>2, PayloadType, NothingReadType DEF ReadParams, TypeOK
<1>4. pairs' \in SUBSET (Index \X Values)
  <2>1. Differences(devmem, Target(devmem)) \in SUBSET (Index \X Values)
    BY <1>1, DifferencesType DEF TypeOK
  <2>2. QED
    BY <1>1, <2>1 DEF ReadParams, TypeOK
<1>5. /\ pc' \in {"send", "read", "others", "down"}
      /\ step' \in {"paramReq", "peerReq", "start"}
      /\ (pc' # "down" /\ step' \in {"start", "write"}) => pairs' # {}
      /\ ~ (pc' = "send" /\ step' = "remove")
      /\ pc' = "others" => step' = "peerReq"
      /\ pc' = "down" => step' = "paramReq"
  BY <1>1 DEF ReadParams, Continue, Fail
<1>6. QED
  BY <1>1, <1>2, <1>3, <1>4, <1>5
     DEF ReadParams, Receive, TypeOK, device, Asking, Writing

LEMMA ReadPeersType == TypeOK /\ ReadPeers => TypeOK'
<1>1. SUFFICES ASSUME TypeOK, ReadPeers PROVE TypeOK'
  OBVIOUS
<1>2. toHost' \in Seq(Packets) /\ Head(toHost) \in Packets
  BY <1>1, ReceiveEffect DEF ReadPeers
<1>3. peers' \in Seq(Devices)
  <2>1. \/ UNCHANGED peers
        \/ /\ Head(toHost).kind = "peer"
           /\ peers' = Append(peers, Head(toHost).payload)
    BY <1>1 DEF ReadPeers
  <2>2. peers \in Seq(Devices)
    BY <1>1 DEF TypeOK
  <2>3. Head(toHost).kind = "peer" => Head(toHost).payload \in Devices
    BY <1>2, PayloadType
  <2>4. QED
    BY <2>1, <2>2, <2>3
<1>4. /\ pc' \in {"send", "read", "done", "down"}
      /\ step' \in {"paramReq", "peerReq", "add", "remove"}
      /\ (pc' = "send" /\ step' = "remove") => peers' # <<>>
      /\ step' \notin {"start", "write"}
      /\ pc' = "down" => step' = "paramReq"
  BY <1>1 DEF ReadPeers, ChoosePeerCommand, Continue, Fail
<1>5. QED
  BY <1>1, <1>2, <1>3, <1>4
     DEF ReadPeers, Receive, TypeOK, device, Asking, Writing

LEMMA ReadPeerAckType == TypeOK /\ ReadPeerAck => TypeOK'
<1>1. SUFFICES ASSUME TypeOK, ReadPeerAck PROVE TypeOK'
  OBVIOUS
<1>2. toHost' \in Seq(Packets) /\ Head(toHost) \in Packets
  BY <1>1, ReceiveEffect DEF ReadPeerAck
<1>3. fooled' \in BOOLEAN
  BY <1>1, <1>2, PayloadType DEF ReadPeerAck, IsPeerAck, TypeOK
<1>4. /\ pc' \in {"send", "done", "down"}
      /\ step' \in {"paramReq", "add"}
      /\ pc' = "down" => step' = "paramReq"
  BY <1>1 DEF ReadPeerAck, Continue, Fail
<1>5. QED
  BY <1>1, <1>2, <1>3, <1>4
     DEF ReadPeerAck, Receive, TypeOK, device, reading, Asking, Writing

LEMMA StartType == TypeOK /\ Start => TypeOK'
<1>1. SUFFICES ASSUME TypeOK, Start PROVE TypeOK'
  OBVIOUS
<1>2. devmem' \in [Index -> Values]
  BY <1>1, NothingReadType DEF Start
<1>3. /\ toGW' \in Seq(Commands) /\ Len(toGW') <= 1
      /\ peers' \in Seq(Devices) /\ toHost' \in Seq(Packets)
  BY <1>1 DEF Start
<1>4. QED
  BY <1>1, <1>2, <1>3 DEF Start, Continue, TypeOK, device, Asking

LEMMA TransmitType == TypeOK /\ Transmit => TypeOK'
<1>1. SUFFICES ASSUME TypeOK, Transmit PROVE TypeOK'
  OBVIOUS
<1>2. Head(toGW) \in Commands
  BY <1>1 DEF Transmit, TypeOK
<1>3. Head(toGW).cmd \in Asking \cup Writing
  BY <1>2 DEF Commands, Asking, Writing
<1>4. /\ mem' \in [Index -> Values] /\ linked' \in SUBSET Devices
      /\ session' \in BOOLEAN /\ answers' \in Seq(Answers)
  <2>1. CASE Obey(Head(toGW))
    BY <1>1, <1>2, <2>1, ObeyType
  <2>2. CASE UNCHANGED device
    BY <1>1, <2>2 DEF TypeOK, device
  <2>3. QED
    BY <1>1, <2>1, <2>2 DEF Transmit
<1>5. trouble' \in 0 .. MaxTrouble /\ lost' \in SUBSET (Asking \cup Writing)
  BY <1>1, <1>3, BoundAssumption DEF Transmit, MoreTrouble, TypeOK
<1>6. toGW' \in Seq(Commands) /\ Len(toGW') <= 1
  BY <1>1 DEF Transmit
<1>7. QED
  BY <1>1, <1>4, <1>5, <1>6 DEF Transmit, TypeOK, reading

LEMMA AckType == TypeOK /\ Ack => TypeOK'
<1>1. SUFFICES ASSUME TypeOK, Ack PROVE TypeOK'
  OBVIOUS
<1>2. Packet("appAck", FALSE, Zero) \in Packets
  BY DEF Packet, Packets
<1>3. toHost' \in Seq(Packets)
  BY <1>1, <1>2, ArrivesType DEF Ack
<1>4. QED
  BY <1>1, <1>3 DEF Ack, TypeOK, reading, device, history

LEMMA AnswerActionType == TypeOK /\ Answer => TypeOK'
<1>1. SUFFICES ASSUME TypeOK, Answer PROVE TypeOK'
  OBVIOUS
<1>2. Head(answers) \in Answers /\ answers' \in Seq(Answers)
  BY <1>1 DEF Answer, TypeOK
<1>3. PICK p \in Packets :
        \/ Arrives(p) /\ UNCHANGED <<dropped, trouble>>
        \/ MoreTrouble /\ dropped' = (dropped \/ Needed(p)) /\ UNCHANGED toHost
  BY <1>1, <1>2, AnswerType DEF Answer, TypeOK
<1>4. toHost' \in Seq(Packets)
  BY <1>1, <1>3, ArrivesType DEF TypeOK
<1>5. dropped' \in BOOLEAN
  BY <1>1, <1>3, PayloadType DEF Needed, TypeOK
<1>6. trouble' \in 0 .. MaxTrouble
  BY <1>1, <1>3, BoundAssumption DEF MoreTrouble, TypeOK
<1>7. QED
  BY <1>1, <1>2, <1>4, <1>5, <1>6 DEF Answer, TypeOK, reading

LEMMA EventType == TypeOK /\ Event => TypeOK'
<1>1. SUFFICES ASSUME TypeOK, Event PROVE TypeOK'
  OBVIOUS
<1>2. toHost' \in Seq(Packets)
  BY <1>1, UnaskedType, ArrivesType DEF Event
<1>3. trouble' \in 0 .. MaxTrouble
  BY <1>1, BoundAssumption DEF Event, MoreTrouble, TypeOK
<1>4. QED
  BY <1>1, <1>2, <1>3 DEF Event, TypeOK, reading, device

LEMMA OtherType == TypeOK /\ (OthersDone \/ Crash \/ UNCHANGED vars) => TypeOK'
<1>1. SUFFICES ASSUME TypeOK, OthersDone \/ Crash \/ UNCHANGED vars
               PROVE  TypeOK'
  OBVIOUS
<1>2. trouble' \in 0 .. MaxTrouble
  BY <1>1, BoundAssumption
     DEF OthersDone, Crash, MoreTrouble, TypeOK, vars, history
<1>3. CASE OthersDone
  BY <1>1, <1>2, <1>3
     DEF OthersDone, Continue, TypeOK, reading, line, device, history
<1>4. CASE Crash
  BY <1>1, <1>2, <1>4
     DEF Crash, Fail, Continue, TypeOK, reading, line, device, Asking
<1>5. CASE UNCHANGED vars
  BY <1>1, <1>5 DEF vars, TypeOK, reading, line, device, history
<1>6. QED
  BY <1>1, <1>3, <1>4, <1>5

LEMMA StepType == TypeOK /\ [Next]_vars => TypeOK'
BY SendType, DropType, ConfirmAckedType, ReadParamsType, ReadPeersType,
   ReadPeerAckType, StartType, TransmitType, AckType, AnswerActionType,
   EventType, OtherType
   DEF Next, Process, ConfirmDrops, OthersRead

\* Every packet and command is well formed, a block of pairs is never empty
\* when it is sent, and there is a peer to remove when one is removed.
THEOREM TypeCorrect == Spec => []TypeOK
BY InitType, StepType, PTL DEF Spec

----------------------------------------------------------------------------
(* The inductive invariant behind Configured and OnlyProgramChanges *)

ProgramPairs == {<<i, Program[i]>> : i \in DOMAIN Program}

\* Nothing but bytes of the program is ever on its way to the device.
PairsInv ==
  /\ pairs \subseteq ProgramPairs
  /\ \A k \in DOMAIN toGW :
       toGW[k].cmd = "write" => toGW[k].data \subseteq ProgramPairs

NoAck(q)  == \A k \in DOMAIN q : q[k].kind # "appAck"
OneAck(q) ==
  \A j, k \in DOMAIN q : q[j].kind = "appAck" /\ q[k].kind = "appAck" => j = k

\* A command is with the gateway, or its ack is due, or its ack is on its
\* way, or none of them; and only while Confirm waits.
LineInv ==
  pc # "down" =>
    /\ OneAck(toHost)
    /\ toGW # <<>> =>
         /\ pc = "confirm" /\ ~ unacked /\ NoAck(toHost)
         /\ toGW[1].cmd = step
         /\ step = "write" => toGW[1].data = NextBlock
    /\ unacked => pc = "confirm" /\ toGW = <<>> /\ NoAck(toHost)
    /\ pc # "confirm" => NoAck(toHost)

\* The gateway has transmitted the command Confirm waits for.
Transmitted == pc = "confirm" /\ toGW = <<>>

\* While LoadConfig runs, what it has read and what is on its way to it is
\* what the device has.
DumpInv ==
  (pc # "down" /\ step = "paramReq") =>
    /\ \A k \in DOMAIN toHost :
         (toHost[k].own /\ toHost[k].kind = "param") =>
            toHost[k].payload[2] = mem[toHost[k].payload[1]]
    /\ \A i \in Index : devmem[i] \in {Zero, mem[i]}

\* After that, each byte of the program is in the device or still to be
\* written, and the device lets it be written.
WriteInv ==
  (pc # "down" /\ step # "paramReq" /\ lost \cap {"start", "write"} = {}) =>
    /\ \A i \in DOMAIN Program :
         mem[i] = Program[i] \/ <<i, Program[i]>> \in pairs
    /\ step \notin {"start", "write"} => pairs = {}
    /\ (step = "write" \/ (step = "start" /\ Transmitted)) => session
    /\ (step = "write" /\ Transmitted) =>
         \A p \in NextBlock : mem[p[1]] = p[2]

ConfigInv == TypeOK /\ PairsInv /\ LineInv /\ DumpInv /\ WriteInv

----------------------------------------------------------------------------
(* What goes to the device *)

LEMMA DifferencesAre ==
  ASSUME NEW m \in [Index -> Values]
  PROVE  /\ Differences(m, Target(m)) \subseteq ProgramPairs
         /\ \A i \in DOMAIN Program :
              m[i] = Program[i] \/ <<i, Program[i]>> \in Differences(m, Target(m))
<1>1. \A i \in Index : Target(m)[i] = IF i \in DOMAIN Program THEN Program[i] ELSE m[i]
  BY DEF Target
<1>2. ASSUME NEW p \in Differences(m, Target(m)) PROVE p \in ProgramPairs
  <2>1. PICK i \in Index : m[i] # Target(m)[i] /\ p = <<i, Target(m)[i]>>
    BY <1>2 DEF Differences
  <2>2. QED
    BY <1>1, <2>1 DEF ProgramPairs
<1>3. ASSUME NEW i \in DOMAIN Program, m[i] # Program[i]
      PROVE  <<i, Program[i]>> \in Differences(m, Target(m))
  <2>1. i \in Index
    BY ProgramAssumption
  <2>2. QED
    BY <1>1, <1>3, <2>1 DEF Differences
<1>4. QED
  BY <1>2, <1>3

LEMMA PairsInvStep == TypeOK /\ PairsInv /\ [Next]_vars => PairsInv'
<1>1. SUFFICES ASSUME TypeOK, PairsInv, [Next]_vars PROVE PairsInv'
  OBVIOUS
<1>2. CASE Send
  <2>1. NextBlock \subseteq ProgramPairs
    BY <1>1 DEF NextBlock, PairsInv
  <2>2. PICK d : /\ toGW' = << [cmd |-> step, data |-> d] >>
                 /\ step = "write" => d = NextBlock
    BY <1>2 DEF Send
  <2>3. \A k \in DOMAIN toGW' : k = 1
    BY <2>2
  <2>4. toGW'[1].cmd = step /\ toGW'[1].data = d
    BY <2>2
  <2>5. QED
    BY <1>1, <1>2, <2>1, <2>2, <2>3, <2>4 DEF PairsInv, Send, reading
<1>3. CASE ConfirmAcked
  BY <1>1, <1>3 DEF ConfirmAcked, Receive, Rest, PairsInv
<1>4. CASE ReadParams
  BY <1>1, <1>4, DifferencesAre DEF ReadParams, Receive, PairsInv, TypeOK
<1>5. CASE Start
  BY <1>5 DEF Start, PairsInv
<1>6. CASE Transmit
  BY <1>1, <1>6 DEF Transmit, reading, PairsInv
<1>7. CASE UNCHANGED <<pairs, toGW>>
  BY <1>1, <1>7 DEF PairsInv
<1>8. ConfirmDrops \/ OthersRead \/ OthersDone \/ ReadPeers \/ ReadPeerAck
      \/ Ack \/ Answer \/ Event \/ Crash \/ UNCHANGED vars
        => UNCHANGED <<pairs, toGW>>
  BY DEF ConfirmDrops, OthersRead, Drop, Receive, OthersDone, ReadPeers,
         ReadPeerAck, Ack, Answer, Event, Crash, vars, reading, line
<1>9. QED
  BY <1>1, <1>2, <1>3, <1>4, <1>5, <1>6, <1>7, <1>8 DEF Next, Process

\* The effect of a command on the device's memory.
LEMMA ObeyMem ==
  ASSUME TypeOK, PairsInv, toGW # <<>>, Obey(Head(toGW))
  PROVE  /\ \A i \in Index : mem'[i] = mem[i]
                               \/ (i \in DOMAIN Program /\ mem'[i] = Program[i])
         /\ (toGW[1].cmd = "write" /\ session) =>
              \A p \in toGW[1].data : mem'[p[1]] = p[2]
         /\ toGW[1].cmd # "write" => mem' = mem
         /\ \A i \in Index : mem'[i] # mem[i] => \E p \in toGW[1].data : p[1] = i
<1> DEFINE c == toGW[1]
<1>1. Head(toGW) = c /\ c \in Commands /\ 1 \in DOMAIN toGW
  BY DEF TypeOK
<1>2. CASE c.cmd = "write" /\ session
  <2>1. c.data \subseteq ProgramPairs
    BY <1>1, <1>2 DEF PairsInv
  <2>2. mem' = [i \in Index |->
                  IF \E v \in Values : <<i, v>> \in c.data
                  THEN CHOOSE v \in Values : <<i, v>> \in c.data
                  ELSE mem[i]]
    BY <1>1, <1>2 DEF Obey
  <2>3. ASSUME NEW i \in Index, NEW v \in Values, <<i, v>> \in c.data
        PROVE  i \in DOMAIN Program /\ v = Program[i]
    BY <2>1, <2>3 DEF ProgramPairs
  <2>4. ASSUME NEW i \in Index, \E v \in Values : <<i, v>> \in c.data
        PROVE  i \in DOMAIN Program /\ mem'[i] = Program[i]
    <3>1. mem'[i] = CHOOSE v \in Values : <<i, v>> \in c.data
      BY <2>2, <2>4
    <3>2. mem'[i] \in Values /\ <<i, mem'[i]>> \in c.data
      BY <2>4, <3>1
    <3>3. QED
      BY <2>3, <3>2
  <2>5. ASSUME NEW i \in Index, ~ \E v \in Values : <<i, v>> \in c.data
        PROVE  mem'[i] = mem[i]
    BY <2>2, <2>5
  <2>6. ASSUME NEW p \in c.data PROVE mem'[p[1]] = p[2]
    <3>1. PICK i \in DOMAIN Program : p = <<i, Program[i]>>
      BY <2>1 DEF ProgramPairs
    <3>2. i \in Index /\ Program[i] \in Values
      BY ProgramAssumption
    <3>3. mem'[i] = Program[i]
      BY <2>4, <3>1, <3>2
    <3>4. QED
      BY <3>1, <3>3
  <2>7. ASSUME NEW i \in Index, mem'[i] # mem[i]
        PROVE  \E p \in c.data : p[1] = i
    <3>1. PICK v \in Values : <<i, v>> \in c.data
      BY <2>5, <2>7
    <3>2. <<i, v>>[1] = i
      OBVIOUS
    <3>3. QED
      BY <3>1, <3>2
  <2>8. QED
    BY <1>2, <2>4, <2>5, <2>6, <2>7
<1>3. CASE ~ (c.cmd = "write" /\ session)
  BY <1>1, <1>3 DEF Obey
<1>4. QED
  BY <1>2, <1>3

\* Only Transmit changes the memory.
LEMMA MemChanges ==
  ASSUME [Next]_vars, mem' # mem
  PROVE  Transmit /\ Obey(Head(toGW)) /\ toGW # <<>>
<1>1. CASE Process
  BY <1>1 DEF Process, Send, ConfirmDrops, ConfirmAcked, ReadParams, OthersRead,
     OthersDone, ReadPeers, ReadPeerAck, Start, Drop, Receive, device
<1>2. CASE Ack \/ Answer \/ Event \/ Crash \/ UNCHANGED vars
  BY <1>2 DEF Ack, Answer, Event, Crash, vars, device
<1>3. CASE Transmit
  BY <1>3 DEF Transmit, device
<1>4. QED
  BY <1>1, <1>2, <1>3 DEF Next

LEMMA ProgramChanges ==
  TypeOK /\ PairsInv /\ [Next]_vars =>
    \A i \in Index : mem'[i] # mem[i] =>
      i \in DOMAIN Program /\ mem'[i] = Program[i]
BY MemChanges, ObeyMem

\* However incomplete the dump and wherever the process dies, no byte that
\* the callback leaves alone changes, and the others get only their new
\* value.
THEOREM OnlyProgramChangesAlways == Spec => OnlyProgramChanges
<1>1. Init => TypeOK /\ PairsInv
  BY InitType DEF Init, PairsInv
<1>2. TypeOK /\ PairsInv /\ [Next]_vars => TypeOK' /\ PairsInv'
  BY StepType, PairsInvStep
<1>3. TypeOK /\ PairsInv /\ [Next]_vars =>
        [\A i \in Index : mem'[i] # mem[i] =>
           i \in DOMAIN Program /\ mem'[i] = Program[i]]_vars
  BY ProgramChanges
<1>4. QED
  BY <1>1, <1>2, <1>3, PTL DEF Spec, OnlyProgramChanges

----------------------------------------------------------------------------
(* One command at a time *)

LEMMA TailAcks ==
  ASSUME NEW q \in Seq(Packets), q # <<>>
  PROVE  /\ NoAck(q) => NoAck(Tail(q))
         /\ OneAck(q) => OneAck(Tail(q))
         /\ OneAck(q) /\ Head(q).kind = "appAck" => NoAck(Tail(q))
         /\ Head(q).kind = "appAck" => ~ NoAck(q)
<1>1. /\ Head(q) = q[1] /\ 1 \in DOMAIN q
      /\ \A k \in DOMAIN Tail(q) :
           k + 1 \in DOMAIN q /\ Tail(q)[k] = q[k + 1] /\ k \in Nat \ {0}
  OBVIOUS
<1>2. QED
  BY <1>1 DEF NoAck, OneAck

LEMMA AppendAcks ==
  ASSUME NEW q \in Seq(Packets), NEW p \in Packets
  PROVE  /\ NoAck(q) => OneAck(Append(q, p))
         /\ p.kind # "appAck" /\ NoAck(q) => NoAck(Append(q, p))
         /\ p.kind # "appAck" /\ OneAck(q) => OneAck(Append(q, p))
<1>1. \A k \in DOMAIN Append(q, p) :
        \/ k = Len(q) + 1 /\ Append(q, p)[k] = p
        \/ k \in DOMAIN q /\ Append(q, p)[k] = q[k]
  OBVIOUS
<1>2. QED
  BY <1>1 DEF NoAck, OneAck

LEMMA NoAckIsOneAck ==
  ASSUME NEW q, NoAck(q) PROVE OneAck(q)
BY DEF NoAck, OneAck

\* Nothing but the command and its ack is under way outside Confirm.
LEMMA Quiet ==
  ASSUME LineInv, pc # "down", pc # "confirm"
  PROVE  toGW = <<>> /\ ~ unacked /\ NoAck(toHost)
BY DEF LineInv

\* A packet that is neither a command's ack nor read by the program.
LEMMA LineArrives ==
  ASSUME TypeOK, LineInv, NEW p \in Packets, p.kind # "appAck",
         Arrives(p) \/ UNCHANGED toHost,
         UNCHANGED <<pc, step, pairs, toGW, unacked>>
  PROVE  LineInv'
<1>1. SUFFICES ASSUME pc # "down" PROVE LineInv'
  BY DEF LineInv
<1>2. NextBlock' = NextBlock
  BY DEF NextBlock
<1>3. toHost \in Seq(Packets)
  BY DEF TypeOK
<1>4. (NoAck(toHost) => NoAck(toHost')) /\ (OneAck(toHost) => OneAck(toHost'))
  BY <1>1, <1>3, AppendAcks DEF Arrives
<1>5. QED
  BY <1>1, <1>2, <1>4 DEF LineInv

LEMMA LineReads ==
  ASSUME TypeOK, LineInv, pc # "down", pc # "confirm", pc' # "confirm", Receive
  PROVE  LineInv'
<1>1. NoAck(toHost) /\ toGW' = <<>> /\ ~ unacked'
  BY Quiet DEF Receive
<1>2. NoAck(toHost')
  BY <1>1, TailAcks DEF Receive, TypeOK
<1>3. QED
  BY <1>1, <1>2, NoAckIsOneAck DEF LineInv

LEMMA AnswerPacket ==
  ASSUME TypeOK, Answer
  PROVE  \E p \in Packets :
           /\ Arrives(p) \/ UNCHANGED toHost
           /\ p.kind # "appAck"
           /\ (p.own /\ p.kind = "param") => p.payload[2] = mem[p.payload[1]]
<1> DEFINE a == Head(answers)
<1> DEFINE p == Packet(a.kind, TRUE, IF a.kind = "param"
                                     THEN <<a.payload, mem[a.payload]>>
                                     ELSE a.payload)
<1>1. a \in Answers
  BY DEF Answer, TypeOK
<1>2. p \in Packets
  BY <1>1, AnswerType DEF TypeOK
<1>3. p.kind = a.kind /\ a.kind # "appAck"
  BY <1>1 DEF Packet, Answers
<1>4. p.kind = "param" => p.payload[2] = mem[p.payload[1]]
  BY <1>3 DEF Packet
<1>5. Arrives(p) \/ UNCHANGED toHost
  BY DEF Answer
<1>6. QED
  BY <1>2, <1>3, <1>4, <1>5

LEMMA LineInvStep == TypeOK /\ LineInv /\ [Next]_vars => LineInv'
<1>1. SUFFICES ASSUME TypeOK, LineInv, [Next]_vars PROVE LineInv'
  OBVIOUS
<1>2. toHost \in Seq(Packets)
  BY <1>1 DEF TypeOK
<1>3. CASE Send
  <2>1. ~ unacked /\ NoAck(toHost) /\ pc # "down"
    BY <1>1, <1>3, Quiet DEF Send
  <2>2. PICK d : /\ toGW' = << [cmd |-> step, data |-> d] >>
                 /\ step = "write" => d = NextBlock
    BY <1>3 DEF Send
  <2>3. toGW'[1].cmd = step /\ toGW'[1].data = d
    BY <2>2
  <2>4. NextBlock' = NextBlock
    BY <1>3 DEF Send, reading, NextBlock
  <2>5. QED
    BY <1>3, <2>1, <2>2, <2>3, <2>4, NoAckIsOneAck DEF Send, LineInv
<1>4. CASE ConfirmDrops
  <2>1. NextBlock' = NextBlock
    BY <1>4 DEF ConfirmDrops, Drop, reading, NextBlock
  <2>2. (NoAck(toHost) => NoAck(toHost')) /\ (OneAck(toHost) => OneAck(toHost'))
    BY <1>2, <1>4, TailAcks DEF ConfirmDrops, Drop, Receive
  <2>3. QED
    BY <1>1, <1>4, <2>1, <2>2 DEF ConfirmDrops, Drop, Receive, LineInv
<1>5. CASE ConfirmAcked
  <2>1. toGW = <<>> /\ ~ unacked /\ NoAck(toHost')
    BY <1>1, <1>2, <1>5, TailAcks DEF ConfirmAcked, Receive, LineInv
  <2>2. QED
    BY <1>5, <2>1, NoAckIsOneAck DEF ConfirmAcked, Receive, LineInv
<1>6. CASE ReadParams
  <2>1. pc' # "confirm"
    BY <1>6 DEF ReadParams, Continue, Fail
  <2>2. QED
    BY <1>1, <1>6, <2>1, LineReads DEF ReadParams
<1>7. CASE OthersRead
  <2>1. pc' # "confirm"
    BY <1>7 DEF OthersRead, Drop
  <2>2. QED
    BY <1>1, <1>7, <2>1, LineReads DEF OthersRead, Drop
<1>8. CASE OthersDone
  BY <1>1, <1>8, Quiet, NoAckIsOneAck DEF OthersDone, Continue, line, LineInv
<1>9. CASE ReadPeers
  <2>1. pc' # "confirm"
    BY <1>9 DEF ReadPeers, ChoosePeerCommand, Continue, Fail
  <2>2. QED
    BY <1>1, <1>9, <2>1, LineReads DEF ReadPeers
<1>10. CASE ReadPeerAck
  <2>1. pc' # "confirm"
    BY <1>10 DEF ReadPeerAck, Continue, Fail
  <2>2. QED
    BY <1>1, <1>10, <2>1, LineReads DEF ReadPeerAck
<1>11. CASE Start
  BY <1>11 DEF Start, Continue, LineInv, NoAck, OneAck
<1>12. CASE Transmit
  BY <1>1, <1>12 DEF Transmit, LineInv
<1>13. CASE Ack
  <2>1. Packet("appAck", FALSE, Zero) \in Packets
    BY DEF Packet, Packets
  <2>2. pc # "down" => OneAck(toHost')
    BY <1>1, <1>2, <1>13, <2>1, AppendAcks DEF Ack, Arrives, LineInv
  <2>3. QED
    BY <1>1, <1>13, <2>2 DEF Ack, LineInv
<1>14. CASE Answer
  BY <1>1, <1>14, AnswerPacket, LineArrives DEF Answer, reading
<1>15. CASE Event
  BY <1>1, <1>15, UnaskedType, LineArrives DEF Event, reading
<1>16. CASE Crash
  BY <1>16 DEF Crash, Fail, Continue, LineInv
<1>17. CASE UNCHANGED vars
  BY <1>1, <1>17 DEF vars, reading, line, LineInv, NextBlock
<1>18. QED
  BY <1>1, <1>3, <1>4, <1>5, <1>6, <1>7, <1>8, <1>9, <1>10, <1>11, <1>12,
     <1>13, <1>14, <1>15, <1>16, <1>17 DEF Next, Process

----------------------------------------------------------------------------
(* What LoadConfig reads *)

Fresh(q, m) ==
  \A k \in DOMAIN q :
    q[k].own /\ q[k].kind = "param" => q[k].payload[2] = m[q[k].payload[1]]

LEMMA FreshTail ==
  ASSUME NEW q \in Seq(Packets), q # <<>>, NEW m, Fresh(q, m)
  PROVE  /\ Fresh(Tail(q), m)
         /\ Head(q).own /\ Head(q).kind = "param" =>
              Head(q).payload[2] = m[Head(q).payload[1]]
<1>1. /\ Head(q) = q[1] /\ 1 \in DOMAIN q
      /\ \A k \in DOMAIN Tail(q) : k + 1 \in DOMAIN q /\ Tail(q)[k] = q[k + 1]
  OBVIOUS
<1>2. QED
  BY <1>1 DEF Fresh

LEMMA FreshAppend ==
  ASSUME NEW q \in Seq(Packets), NEW m, NEW p \in Packets, Fresh(q, m),
         p.own /\ p.kind = "param" => p.payload[2] = m[p.payload[1]]
  PROVE  Fresh(Append(q, p), m)
<1>1. \A k \in DOMAIN Append(q, p) :
        \/ k = Len(q) + 1 /\ Append(q, p)[k] = p
        \/ k \in DOMAIN q /\ Append(q, p)[k] = q[k]
  OBVIOUS
<1>2. QED
  BY <1>1 DEF Fresh

LEMMA DumpIs ==
  DumpInv <=>
    (pc # "down" /\ step = "paramReq" =>
       Fresh(toHost, mem) /\ \A i \in Index : devmem[i] \in {Zero, mem[i]})
BY DEF DumpInv, Fresh

LEMMA DumpIsNext ==
  DumpInv' <=>
    (pc' # "down" /\ step' = "paramReq" =>
       Fresh(toHost', mem') /\ \A i \in Index : devmem'[i] \in {Zero, mem'[i]})
BY DEF DumpInv, Fresh

LEMMA DumpInvStep ==
  TypeOK /\ PairsInv /\ LineInv /\ DumpInv /\ [Next]_vars => DumpInv'
<1>1. SUFFICES ASSUME TypeOK, PairsInv, LineInv, DumpInv, [Next]_vars,
                      pc' # "down", step' = "paramReq"
               PROVE  /\ Fresh(toHost', mem')
                      /\ \A i \in Index : devmem'[i] \in {Zero, mem'[i]}
  BY DumpIsNext
<1>2. toHost \in Seq(Packets) /\ devmem \in [Index -> Values]
  BY <1>1 DEF TypeOK
<1>3. CASE Start
  BY <1>3 DEF Start, NothingRead, Fresh
<1>4. SUFFICES ASSUME ~ Start
               PROVE  /\ Fresh(toHost', mem')
                      /\ \A i \in Index : devmem'[i] \in {Zero, mem'[i]}
  BY <1>3
<1>5. step = "paramReq" /\ pc # "down"
  <2>1. CASE Process
    <3>1. Send \/ ConfirmDrops \/ OthersRead \/ OthersDone =>
            step' = step /\ pc # "down"
      BY DEF Send, ConfirmDrops, OthersRead, OthersDone, Drop, Continue
    <3>2. ConfirmAcked => step = "paramReq" /\ pc # "down"
      <4>1. SUFFICES ASSUME ConfirmAcked PROVE step = "paramReq"
        BY DEF ConfirmAcked
      <4>2. step \in Asking => step' = step
        BY <4>1 DEF ConfirmAcked, Continue, Asking
      <4>3. step \in Writing => step' \in {"write", "end", "peerReq"}
        BY <4>1 DEF ConfirmAcked, Continue, AfterBlock, Asking, Writing
      <4>4. QED
        BY <1>1, <4>2, <4>3 DEF TypeOK
    <3>3. ReadParams => step = "paramReq" /\ pc # "down"
      BY DEF ReadParams
    <3>4. ~ (ReadPeers \/ ReadPeerAck)
      BY <1>1 DEF ReadPeers, ReadPeerAck, ChoosePeerCommand, Continue, Fail
    <3>5. QED
      BY <1>1, <1>4, <2>1, <3>1, <3>2, <3>3, <3>4 DEF Process
  <2>2. CASE Transmit \/ Ack \/ Answer \/ Event \/ Crash \/ UNCHANGED vars
    BY <1>1, <2>2 DEF Transmit, Ack, Answer, Event, Crash, Fail, Continue, vars
  <2>3. QED
    BY <1>1, <2>1, <2>2 DEF Next
<1>6. Fresh(toHost, mem) /\ \A i \in Index : devmem[i] \in {Zero, mem[i]}
  BY <1>1, <1>5, DumpIs
<1>7. mem' = mem
  <2>1. ASSUME mem' # mem PROVE FALSE
    <3>1. Transmit /\ Obey(Head(toGW)) /\ toGW # <<>>
      BY <1>1, <2>1, MemChanges
    <3>2. toGW[1].cmd = "paramReq"
      BY <1>1, <1>5, <3>1 DEF LineInv
    <3>3. QED
      BY <1>1, <2>1, <3>1, <3>2, ObeyMem
  <2>2. QED
    BY <2>1
<1>8. CASE ReadParams
  <2>1. Fresh(toHost', mem')
    BY <1>2, <1>6, <1>7, <1>8, FreshTail DEF ReadParams, Receive
  <2>2. Head(toHost) \in Packets
    BY <1>1, <1>8, ReceiveEffect DEF ReadParams
  <2>3. \/ devmem' = devmem
        \/ /\ Head(toHost).own /\ Head(toHost).kind = "param"
           /\ devmem' = [devmem EXCEPT ![Head(toHost).payload[1]] =
                                          Head(toHost).payload[2]]
    BY <1>1, <1>8, <2>2, PayloadType
       DEF ReadParams, Foreign, Continue, Fail
  <2>4. (Head(toHost).own /\ Head(toHost).kind = "param") =>
          Head(toHost).payload[2] = mem[Head(toHost).payload[1]]
    BY <1>2, <1>6, <1>8, FreshTail DEF ReadParams, Receive
  <2>5. \A i \in Index : devmem'[i] \in {Zero, mem[i]}
    BY <1>2, <1>6, <2>3, <2>4
  <2>6. QED
    BY <1>7, <2>1, <2>5
<1>9. CASE UNCHANGED <<toHost, devmem>>
  BY <1>6, <1>7, <1>9
<1>10. CASE /\ UNCHANGED devmem
            /\ \E p \in Packets :
                 /\ Arrives(p) \/ UNCHANGED toHost
                 /\ p.own /\ p.kind = "param" => p.payload[2] = mem[p.payload[1]]
  <2>1. PICK p \in Packets :
          /\ Arrives(p) \/ UNCHANGED toHost
          /\ p.own /\ p.kind = "param" => p.payload[2] = mem[p.payload[1]]
    BY <1>10
  <2>2. Fresh(Append(toHost, p), mem)
    BY <1>2, <1>6, <2>1, FreshAppend
  <2>3. QED
    BY <1>6, <1>7, <1>10, <2>1, <2>2 DEF Arrives
<1>11. CASE UNCHANGED devmem /\ Receive
  BY <1>2, <1>6, <1>7, <1>11, FreshTail DEF Receive
<1>12. Send \/ Transmit \/ UNCHANGED vars => UNCHANGED <<toHost, devmem>>
  BY DEF Send, Transmit, vars, reading, line
<1>13. ConfirmDrops \/ ConfirmAcked \/ OthersRead => UNCHANGED devmem /\ Receive
  BY <1>5 DEF ConfirmDrops, ConfirmAcked, OthersRead, Drop, reading
<1>14. ~ (OthersDone \/ ReadPeers \/ ReadPeerAck \/ Crash)
  BY <1>1, <1>5 DEF OthersDone, ReadPeers, ReadPeerAck, Crash, Fail, Continue,
     TypeOK
<1>15. Ack => UNCHANGED devmem /\ \E p \in Packets :
                 /\ Arrives(p) \/ UNCHANGED toHost
                 /\ p.own /\ p.kind = "param" => p.payload[2] = mem[p.payload[1]]
  <2>1. /\ Packet("appAck", FALSE, Zero) \in Packets
        /\ Packet("appAck", FALSE, Zero).kind # "param"
    BY DEF Packet, Packets
  <2>2. QED
    BY <2>1 DEF Ack, reading
<1>16. Answer => UNCHANGED devmem /\ \E p \in Packets :
                 /\ Arrives(p) \/ UNCHANGED toHost
                 /\ p.own /\ p.kind = "param" => p.payload[2] = mem[p.payload[1]]
  BY <1>1, AnswerPacket DEF Answer, reading
<1>17. Event => UNCHANGED devmem /\ \E p \in Packets :
                 /\ Arrives(p) \/ UNCHANGED toHost
                 /\ p.own /\ p.kind = "param" => p.payload[2] = mem[p.payload[1]]
  BY <1>1, UnaskedType DEF Event, reading
<1>18. QED
  BY <1>1, <1>4, <1>8, <1>9, <1>10, <1>11, <1>12, <1>13, <1>14, <1>15, <1>16,
     <1>17 DEF Next, Process

----------------------------------------------------------------------------
(* What has been written *)

\* Actions that leave alone everything WriteInv speaks of.
LEMMA WriteStutters ==
  ASSUME WriteInv, UNCHANGED <<pc, step, pairs, toGW, mem, session, lost>>
  PROVE  WriteInv'
BY DEF WriteInv, Transmitted, NextBlock

\* Actions after the pairs are written.
LEMMA WriteOver ==
  ASSUME WriteInv, pc # "down", step \in {"peerReq", "remove", "add"},
         step' \in {"peerReq", "remove", "add"},
         UNCHANGED <<pairs, mem, lost>>
  PROVE  WriteInv'
BY DEF WriteInv

LEMMA WriteReadParams ==
  TypeOK /\ DumpInv /\ WriteInv /\ ReadParams => WriteInv'
<1>1. SUFFICES ASSUME TypeOK, DumpInv, ReadParams, pc' # "down",
                      step' # "paramReq"
               PROVE  WriteInv'
  BY DEF WriteInv
<1>2. /\ pairs' = Differences(devmem, Target(devmem))
      /\ \/ pairs' = {} /\ step' = "peerReq"
         \/ pc' = "send" /\ step' = "start"
      /\ mem' = mem
  BY <1>1 DEF ReadParams, Continue, Fail, Receive, device
<1>3. devmem \in [Index -> Values] /\ pc # "down" /\ step = "paramReq"
  BY <1>1 DEF TypeOK, ReadParams
<1>4. ASSUME NEW i \in DOMAIN Program
      PROVE  mem[i] = Program[i] \/ <<i, Program[i]>> \in pairs'
  <2>1. i \in Index /\ Program[i] # Zero
    BY ProgramAssumption
  <2>2. devmem[i] \in {Zero, mem[i]}
    BY <1>1, <1>3, <2>1 DEF DumpInv
  <2>3. devmem[i] = Program[i] \/ <<i, Program[i]>> \in pairs'
    BY <1>2, <1>3, DifferencesAre
  <2>4. QED
    BY <2>1, <2>2, <2>3
<1>5. QED
  BY <1>2, <1>4 DEF WriteInv, Transmitted

LEMMA WriteConfirmAcked ==
  TypeOK /\ LineInv /\ PairsInv /\ WriteInv /\ ConfirmAcked => WriteInv'
<1>1. SUFFICES ASSUME TypeOK, LineInv, PairsInv, WriteInv, ConfirmAcked,
                      lost \cap {"start", "write"} = {}
               PROVE  WriteInv'
  BY DEF WriteInv, ConfirmAcked, Receive
<1>2. pc = "confirm" /\ toGW = <<>> /\ UNCHANGED <<mem, session, lost>>
  <2>1. ~ NoAck(toHost)
    BY <1>1, TailAcks DEF ConfirmAcked, TypeOK
  <2>2. QED
    BY <1>1, <2>1 DEF ConfirmAcked, Receive, LineInv, device
<1>3. Transmitted
  BY <1>2 DEF Transmitted
<1>4. CASE step \in Asking
  <2>1. step' = step /\ pc' = "read" /\ pairs' = pairs
    BY <1>1, <1>4 DEF ConfirmAcked, Continue, Asking
  <2>2. step \notin {"start", "write"}
    BY <1>4 DEF Asking
  <2>3. QED
    BY <1>1, <1>2, <2>1, <2>2 DEF WriteInv
<1>5. CASE step = "start"
  <2>1. step' = "write" /\ pc' = "send" /\ pairs' = pairs
    BY <1>1, <1>5 DEF ConfirmAcked, Continue, Asking
  <2>2. QED
    BY <1>1, <1>2, <1>3, <1>5, <2>1 DEF WriteInv, Transmitted
<1>6. CASE step = "write"
  <2>1. /\ pairs' = Rest /\ pc' = "send"
        /\ step' = IF Rest = {} THEN "end" ELSE "write"
    BY <1>1, <1>6 DEF ConfirmAcked, Continue, Asking, AfterBlock
  <2>2. ASSUME NEW i \in DOMAIN Program
        PROVE  mem[i] = Program[i] \/ <<i, Program[i]>> \in Rest
    <3>1. mem[i] = Program[i] \/ <<i, Program[i]>> \in pairs
      BY <1>1, <1>2, <1>6 DEF WriteInv
    <3>2. \A p \in NextBlock : mem[p[1]] = p[2]
      BY <1>1, <1>2, <1>3, <1>6 DEF WriteInv
    <3>3. <<i, Program[i]>> \in NextBlock => mem[i] = Program[i]
      BY <3>2
    <3>4. QED
      BY <3>1, <3>3 DEF Rest
  <2>3. session
    BY <1>1, <1>2, <1>6 DEF WriteInv
  <2>4. QED
    BY <1>2, <2>1, <2>2, <2>3 DEF WriteInv, Transmitted
<1>7. CASE step = "end"
  <2>1. step' = "peerReq" /\ pc' = "others" /\ pairs' = pairs
    BY <1>1, <1>7 DEF ConfirmAcked, Continue, Asking
  <2>2. QED
    BY <1>1, <1>2, <1>7, <2>1 DEF WriteInv
<1>8. QED
  BY <1>1, <1>4, <1>5, <1>6, <1>7 DEF TypeOK, Writing

LEMMA WriteTransmit ==
  TypeOK /\ LineInv /\ PairsInv /\ WriteInv /\ Transmit => WriteInv'
<1>1. SUFFICES ASSUME TypeOK, LineInv, PairsInv, WriteInv, Transmit,
                      pc # "down", step # "paramReq",
                      lost' \cap {"start", "write"} = {}
               PROVE  WriteInv'
  BY DEF WriteInv, Transmit
<1>2. /\ toGW[1].cmd = step /\ Head(toGW) = toGW[1]
      /\ step = "write" => toGW[1].data = NextBlock
  BY <1>1 DEF LineInv, Transmit, TypeOK
<1>3. UNCHANGED <<pc, step, pairs>> /\ NextBlock' = NextBlock
  BY <1>1 DEF Transmit, reading, NextBlock
<1>4. CASE MoreTrouble /\ lost' = lost \cup {Head(toGW).cmd} /\ UNCHANGED device
  <2>1. step \notin {"start", "write"} /\ lost \cap {"start", "write"} = {}
    BY <1>1, <1>2, <1>4
  <2>2. QED
    BY <1>1, <1>3, <1>4, <2>1 DEF WriteInv, device
<1>5. CASE Obey(Head(toGW)) /\ UNCHANGED lost
  <2>1. /\ \A i \in DOMAIN Program : mem[i] = Program[i]
                                       \/ <<i, Program[i]>> \in pairs
        /\ step \notin {"start", "write"} => pairs = {}
        /\ step = "write" => session
    BY <1>1, <1>5 DEF WriteInv
  <2>2. \A i \in DOMAIN Program : mem'[i] = mem[i] \/ mem'[i] = Program[i]
    BY <1>1, <1>5, ObeyMem, ProgramAssumption DEF Transmit
  <2>3. step \in {"start", "write"} => session'
    BY <1>2, <1>5, <2>1 DEF Obey
  <2>4. step = "write" => \A p \in NextBlock : mem'[p[1]] = p[2]
    BY <1>1, <1>2, <1>5, <2>1, ObeyMem DEF Transmit
  <2>5. QED
    BY <1>3, <2>1, <2>2, <2>3, <2>4 DEF WriteInv
<1>6. QED
  BY <1>1, <1>4, <1>5 DEF Transmit

LEMMA WriteInvStep ==
  TypeOK /\ PairsInv /\ LineInv /\ DumpInv /\ WriteInv /\ [Next]_vars
    => WriteInv'
<1>1. SUFFICES ASSUME TypeOK, PairsInv, LineInv, DumpInv, WriteInv, [Next]_vars
               PROVE  WriteInv'
  OBVIOUS
<1>2. CASE Send
  <2>1. /\ pc = "send" /\ pc' = "confirm" /\ toGW' # <<>>
        /\ UNCHANGED <<step, pairs, mem, session, lost>>
    BY <1>2 DEF Send, reading, device, history
  <2>2. QED
    BY <1>1, <2>1 DEF WriteInv, Transmitted
<1>3. CASE ConfirmDrops \/ OthersRead
  BY <1>1, <1>3, WriteStutters
     DEF ConfirmDrops, OthersRead, Drop, Receive, reading, device
<1>4. CASE ConfirmAcked
  BY <1>1, <1>4, WriteConfirmAcked
<1>5. CASE ReadParams
  BY <1>1, <1>5, WriteReadParams
<1>6. CASE OthersDone
  <2>1. step = "peerReq" /\ UNCHANGED <<step, pairs, mem, lost>> /\ pc # "down"
    BY <1>1, <1>6
       DEF OthersDone, Continue, TypeOK, reading, device, history
  <2>2. QED
    BY <1>1, <2>1, WriteOver
<1>7. CASE ReadPeers \/ ReadPeerAck
  <2>1. /\ step \in {"peerReq", "remove", "add"} /\ pc # "down"
        /\ UNCHANGED <<pairs, mem, lost>>
    BY <1>7 DEF ReadPeers, ReadPeerAck, Receive, reading, device
  <2>2. step' \in {"peerReq", "remove", "add"} \/ pc' = "down"
    BY <1>7 DEF ReadPeers, ReadPeerAck, ChoosePeerCommand, Continue, Fail
  <2>3. CASE pc' = "down"
    BY <2>3 DEF WriteInv
  <2>4. QED
    BY <1>1, <2>1, <2>2, <2>3, WriteOver
<1>8. CASE Start \/ Crash
  BY <1>8 DEF Start, Crash, Fail, Continue, WriteInv
<1>9. CASE Transmit
  BY <1>1, <1>9, WriteTransmit
<1>10. CASE Ack \/ Answer \/ Event
  BY <1>1, <1>10, WriteStutters
     DEF Ack, Answer, Event, reading, device, history
<1>11. CASE UNCHANGED vars
  BY <1>1, <1>11, WriteStutters DEF vars, reading, line, device, history
<1>12. QED
  BY <1>1, <1>2, <1>3, <1>4, <1>5, <1>6, <1>7, <1>8, <1>9, <1>10, <1>11
     DEF Next, Process

\* A device whose parameters startup has written holds the program, whatever
\* the size of its memory and of the blocks it is written in, and wherever
\* earlier processes died, unless a command did not reach it.
THEOREM ConfiguredAlways == Spec => []Configured
<1>1. Init => ConfigInv
  <2>1. SUFFICES ASSUME Init PROVE ConfigInv
    OBVIOUS
  <2>2. TypeOK
    BY <2>1, InitType
  <2>3. PairsInv /\ LineInv /\ WriteInv
    BY <2>1 DEF Init, PairsInv, LineInv, WriteInv, NoAck, OneAck
  <2>4. DumpInv
    BY <2>1 DEF Init, DumpInv, NothingRead
  <2>5. QED
    BY <2>2, <2>3, <2>4 DEF ConfigInv
<1>2. ConfigInv /\ [Next]_vars => ConfigInv'
  BY StepType, PairsInvStep, LineInvStep, DumpInvStep, WriteInvStep
     DEF ConfigInv
<1>3. ConfigInv => Configured
  <2>1. SUFFICES ASSUME ConfigInv, step \in {"peerReq", "remove", "add"},
                        lost \cap {"start", "write"} = {},
                        NEW i \in DOMAIN Program
                 PROVE  mem[i] = Program[i]
    BY DEF Configured
  <2>2. pc # "down"
    BY <2>1 DEF ConfigInv, TypeOK
  <2>3. QED
    BY <2>1, <2>2 DEF ConfigInv, WriteInv
<1>4. QED
  BY <1>1, <1>2, <1>3, PTL DEF Spec

----------------------------------------------------------------------------
(* Nothing is written twice *)

\* The pairs that have not reached the device.
Pending == IF step = "write" /\ Transmitted THEN Rest ELSE pairs

\* Stronger than WritesOnlyDifferences: also while Confirm waits.
PendingInv ==
  (pc # "down" /\ step \in {"start", "write"}) =>
     \A p \in Pending : mem[p[1]] # p[2] \/ devmem[p[1]] = Zero

LEMMA PendingStutters ==
  ASSUME PendingInv, UNCHANGED <<pc, step, devmem, pairs, toGW, mem>>
  PROVE  PendingInv'
BY DEF PendingInv, Pending, Transmitted, Rest, NextBlock

LEMMA PendingReadParams ==
  TypeOK /\ DumpInv /\ ReadParams => PendingInv'
<1>1. SUFFICES ASSUME TypeOK, DumpInv, ReadParams, pc' # "down",
                      step' \in {"start", "write"}
               PROVE  PendingInv'
  BY DEF PendingInv
<1>2. /\ pairs' = Differences(devmem, Target(devmem)) /\ devmem' = devmem
      /\ step' = "start" /\ mem' = mem
  BY <1>1 DEF ReadParams, Continue, Fail, Receive, device
<1>3. devmem \in [Index -> Values] /\ pc # "down" /\ step = "paramReq"
  BY <1>1 DEF TypeOK, ReadParams
<1>4. ASSUME NEW p \in pairs'
      PROVE  mem[p[1]] # p[2] \/ devmem[p[1]] = Zero
  <2>1. PICK i \in Index : /\ devmem[i] # Target(devmem)[i]
                           /\ p = <<i, Target(devmem)[i]>>
    BY <1>2 DEF Differences
  <2>2. devmem[i] \in {Zero, mem[i]}
    BY <1>1, <1>3 DEF DumpInv
  <2>3. QED
    BY <2>1, <2>2
<1>5. QED
  BY <1>2, <1>4 DEF PendingInv, Pending

LEMMA PendingConfirmAcked ==
  TypeOK /\ LineInv /\ PendingInv /\ ConfirmAcked => PendingInv'
<1>1. SUFFICES ASSUME TypeOK, LineInv, PendingInv, ConfirmAcked,
                      step' \in {"start", "write"}
               PROVE  PendingInv'
  BY DEF PendingInv
<1>2. pc = "confirm" /\ toGW = <<>> /\ mem' = mem
  <2>1. ~ NoAck(toHost)
    BY <1>1, TailAcks DEF ConfirmAcked, TypeOK
  <2>2. QED
    BY <1>1, <2>1 DEF ConfirmAcked, Receive, LineInv, device
<1>3. ~ (step \in Asking) /\ step # "end"
  BY <1>1 DEF ConfirmAcked, Continue, Asking
<1>4. CASE step = "start"
  <2>1. step' = "write" /\ pc' = "send" /\ UNCHANGED <<pairs, devmem>>
    BY <1>1, <1>4 DEF ConfirmAcked, Continue, Asking
  <2>2. QED
    BY <1>1, <1>2, <1>4, <2>1 DEF PendingInv, Pending, Transmitted
<1>5. CASE step = "write"
  <2>1. pc' = "send" /\ pairs' = Rest /\ devmem' = devmem
    BY <1>1, <1>5 DEF ConfirmAcked, Continue, Asking
  <2>2. QED
    BY <1>1, <1>2, <1>5, <2>1 DEF PendingInv, Pending, Transmitted
<1>6. QED
  BY <1>1, <1>3, <1>4, <1>5 DEF TypeOK, Writing

LEMMA PendingTransmit ==
  TypeOK /\ LineInv /\ PairsInv /\ PendingInv /\ Transmit => PendingInv'
<1>1. SUFFICES ASSUME TypeOK, LineInv, PairsInv, PendingInv, Transmit,
                      pc # "down", step \in {"start", "write"}
               PROVE  PendingInv'
  BY DEF PendingInv, Transmit
<1>2. /\ toGW[1].cmd = step /\ toGW # <<>>
      /\ step = "write" => toGW[1].data = NextBlock
  BY <1>1 DEF LineInv, Transmit
<1>3. UNCHANGED <<pc, step, pairs, devmem>> /\ Rest' = Rest
  BY <1>1 DEF Transmit, reading, Rest, NextBlock
<1>4. \A p \in pairs : mem[p[1]] # p[2] \/ devmem[p[1]] = Zero
  BY <1>1, <1>2 DEF PendingInv, Pending, Transmitted
<1>5. \A p \in Pending' : p \in pairs
  BY <1>3 DEF Pending, Rest
<1>6. CASE mem' = mem
  BY <1>3, <1>4, <1>5, <1>6 DEF PendingInv
<1>7. CASE mem' # mem
  <2>1. Obey(Head(toGW))
    BY <1>1, <1>7 DEF Transmit, device
  <2>2. step = "write" /\ toGW[1].data = NextBlock
    BY <1>1, <1>2, <1>7, <2>1, ObeyMem
  <2>3. Pending' = Rest
    BY <1>1, <1>3, <2>2 DEF Pending, Transmitted, Transmit, LineInv
  <2>4. ASSUME NEW p \in Rest PROVE mem'[p[1]] = mem[p[1]]
    <3>1. PICK i \in DOMAIN Program : p = <<i, Program[i]>>
      BY <1>1, <2>4 DEF Rest, PairsInv, ProgramPairs
    <3>2. ASSUME NEW q \in NextBlock, q[1] = i PROVE FALSE
      <4>1. PICK j \in DOMAIN Program : q = <<j, Program[j]>>
        BY <1>1, <3>2 DEF NextBlock, PairsInv, ProgramPairs
      <4>2. q = p
        BY <3>1, <3>2, <4>1
      <4>3. QED
        BY <2>4, <3>2, <4>2 DEF Rest
    <3>3. i \in Index
      BY ProgramAssumption
    <3>4. mem'[i] = mem[i]
      BY <1>1, <1>2, <2>1, <2>2, <3>2, <3>3, ObeyMem
    <3>5. QED
      BY <3>1, <3>4
  <2>5. QED
    BY <1>3, <1>4, <1>5, <2>3, <2>4 DEF PendingInv
<1>8. QED
  BY <1>6, <1>7

LEMMA PendingInvStep ==
  TypeOK /\ PairsInv /\ LineInv /\ DumpInv /\ PendingInv /\ [Next]_vars
    => PendingInv'
<1>1. SUFFICES ASSUME TypeOK, PairsInv, LineInv, DumpInv, PendingInv,
                      [Next]_vars
               PROVE  PendingInv'
  OBVIOUS
<1>2. CASE Send
  <2>1. pc = "send" /\ toGW' # <<>> /\ UNCHANGED <<step, devmem, pairs, mem>>
    BY <1>2 DEF Send, reading, device
  <2>2. QED
    BY <1>1, <2>1 DEF PendingInv, Pending, Transmitted
<1>3. CASE ConfirmDrops \/ OthersRead
  BY <1>1, <1>3, PendingStutters
     DEF ConfirmDrops, OthersRead, Drop, Receive, reading, device
<1>4. CASE ConfirmAcked
  BY <1>1, <1>4, PendingConfirmAcked
<1>5. CASE ReadParams
  BY <1>1, <1>5, PendingReadParams
<1>6. CASE OthersDone \/ ReadPeers \/ ReadPeerAck \/ Start \/ Crash
  <2>1. step' \notin {"start", "write"}
    BY <1>1, <1>6 DEF OthersDone, ReadPeers, ReadPeerAck, Start, Crash,
       ChoosePeerCommand, Continue, Fail, TypeOK
  <2>2. QED
    BY <2>1 DEF PendingInv
<1>7. CASE Transmit
  BY <1>1, <1>7, PendingTransmit
<1>8. CASE Ack \/ Answer \/ Event
  BY <1>1, <1>8, PendingStutters DEF Ack, Answer, Event, reading, device
<1>9. CASE UNCHANGED vars
  BY <1>1, <1>9, PendingStutters DEF vars, reading, line, device
<1>10. QED
  BY <1>1, <1>2, <1>3, <1>4, <1>5, <1>6, <1>7, <1>8, <1>9 DEF Next, Process

\* Startup writes a byte only if the device does not have it, or if its part
\* of the dump was dropped, lost or late.
THEOREM WritesOnlyDifferencesAlways == Spec => []WritesOnlyDifferences
<1> DEFINE Inv == TypeOK /\ PairsInv /\ LineInv /\ DumpInv /\ PendingInv
<1>1. Init => Inv
  <2>1. SUFFICES ASSUME Init PROVE Inv
    OBVIOUS
  <2>2. TypeOK
    BY <2>1, InitType
  <2>3. PairsInv /\ LineInv /\ PendingInv
    BY <2>1 DEF Init, PairsInv, LineInv, PendingInv, NoAck, OneAck
  <2>4. DumpInv
    BY <2>1 DEF Init, DumpInv, NothingRead
  <2>5. QED
    BY <2>2, <2>3, <2>4
<1>2. Inv /\ [Next]_vars => Inv'
  BY StepType, PairsInvStep, LineInvStep, DumpInvStep, PendingInvStep
<1>3. Inv => WritesOnlyDifferences
  BY DEF PendingInv, Pending, Transmitted, WritesOnlyDifferences
<1> HIDE DEF Inv
<1>4. QED
  BY <1>1, <1>2, <1>3, PTL DEF Spec


----------------------------------------------------------------------------
(* The inductive invariant behind PeeredExactly and NeverTwoPeers *)

\* The device's answers as the packets they will arrive as, but for the
\* bytes of a dump, which are read when they are sent.
Coming == [i \in DOMAIN answers |->
             Packet(answers[i].kind, TRUE, answers[i].payload)]

\* An answer of the device after which no list goes on; packets that
\* ReadPeers passes over are not.
Stop(p)    == p.own /\ p.kind \notin {"peer", "event", "warm"}
Ends(p)    == p.own /\ p.kind = "peerEnd"
Lists(p, d) == p.own /\ p.kind = "peer" /\ p.payload = d

\* Position k of q belongs to the list that q begins with, or is listed
\* after d in the same list.
Leads(q, k) == \A i \in DOMAIN q : i < k => ~ Stop(q[i])
Listed(q, d, k) ==
  \E i \in DOMAIN q :
    /\ i < k /\ Lists(q[i], d)
    /\ \A n \in DOMAIN q : i <= n /\ n < k => ~ Stop(q[n])
Last(q) == Len(q) + 1

\* The peers that are there and must go.  Nobody adds one.
Unwanted == linked \ {Wanted}
Read(d)  == \E i \in DOMAIN peers : peers[i] = d

\* Whatever list is still to come names every unwanted peer, unless it is
\* the rest of one whose beginning an earlier process has read.
ComingLists ==
  \A d \in Unwanted : \A k \in DOMAIN Coming :
    Ends(Coming[k]) /\ ~ Leads(Coming, k) => Listed(Coming, d, k)

\* So does every list that begins with this process.
WholeLists ==
  \A d \in Unwanted :
    /\ \A k \in DOMAIN toHost :
         Ends(toHost[k]) /\ ~ Leads(toHost, k) => Listed(toHost, d, k)
    /\ \A k \in DOMAIN Coming :
         /\ Ends(Coming[k]) /\ Leads(Coming, k)
         /\ ~ Leads(toHost, Last(toHost))
         => Listed(Coming, d, k) \/ Listed(toHost, d, Last(toHost))

\* Once LoadConfig has read to the end of a dump, every list does.
FirstList ==
  \A d \in Unwanted :
    /\ \A k \in DOMAIN toHost :
         Ends(toHost[k]) /\ Leads(toHost, k) => Read(d) \/ Listed(toHost, d, k)
    /\ \A k \in DOMAIN Coming :
         Ends(Coming[k]) /\ Leads(Coming, k) /\ Leads(toHost, Last(toHost))
         => Read(d) \/ Listed(Coming, d, k) \/ Listed(toHost, d, Last(toHost))

ListInv ==
  /\ ComingLists
  /\ pc # "down" /\ ~ dropped => WholeLists
  /\ pc # "down" /\ ~ dropped /\ step \in Writing \cup {"peerReq"} => FirstList

\* Who lists the wanted peer has it.
WantedInv ==
  Wanted \notin linked =>
    /\ \A k \in DOMAIN toHost : ~ Lists(toHost[k], Wanted)
    /\ \A k \in DOMAIN Coming : ~ Lists(Coming[k], Wanted)
    /\ ~ Read(Wanted)

\* The commands about peers: a peer that is removed is not the wanted one.
CommandInv ==
  /\ \A k \in DOMAIN toGW :
       /\ toGW[k].cmd = "remove" => toGW[k].data # Wanted
       /\ toGW[k].cmd = "add" => toGW[k].data = Wanted
       /\ (toGW[k].cmd = "remove" /\ pc # "down") => toGW[k].data = peers[1]
  /\ (pc # "down" /\ step = "remove") => Len(peers) = 1 /\ peers[1] # Wanted

\* The command of this step has been transmitted.
Sent == Transmitted \/ pc \in {"read", "done"}

\* What the removal and the addition have achieved so far.
PeerInv ==
  (pc # "down" /\ ~ dropped) =>
    /\ step = "remove" => Unwanted \subseteq {peers[1]}
    /\ (step = "remove" /\ Sent /\ "remove" \notin lost) => Unwanted = {}
    /\ step = "add" => Unwanted = {} \/ "remove" \in lost
    /\ (step = "add" /\ Sent /\ "add" \notin lost) => Wanted \in linked
    /\ pc = "done" /\ step = "peerReq" => linked = {Wanted}
    /\ pc = "done" => step \in {"peerReq", "add"}

\* A command that is not yet transmitted is not lost.
LostInv ==
  pc # "down" =>
    /\ (step \notin {"remove", "add"} \/ (step = "remove" /\ ~ Sent))
         => "remove" \notin lost
    /\ (step # "add" \/ ~ Sent) => "add" \notin lost

OwnOf(q, k, kind) == q[k].own /\ q[k].kind = kind
None(kind) == /\ \A k \in DOMAIN toHost : ~ OwnOf(toHost, k, kind)
              /\ \A k \in DOMAIN Coming : ~ OwnOf(Coming, k, kind)

\* One list of peers is under way, and no ack after it.
AckOrEnd(p) == p.own /\ p.kind \in {"peerEnd", "ack"}
EndLastIn(q) == \A j, k \in DOMAIN q : Ends(q[j]) /\ AckOrEnd(q[k]) => k <= j
EndLast ==
  /\ EndLastIn(toHost) /\ EndLastIn(Coming)
  /\ \A j \in DOMAIN toHost, k \in DOMAIN Coming :
       ~ (Ends(toHost[j]) /\ AckOrEnd(Coming[k]))

\* A process that found the device silent gets acks to its own commands
\* only, and those of EnsureConfigured before the list of peers.
AckInv ==
  (pc # "down" /\ ~ late) =>
    /\ (step # "peerReq" \/ ~ Sent) => None("peerEnd")
    /\ EndLast
    /\ (step \notin {"remove", "add"} \/ (step = "remove" /\ ~ Sent)
          \/ "remove" \in lost) => None("info")
    /\ (step = "remove" \/ (step = "add" /\ ~ Sent) \/ "add" \in lost)
         => None("ack")

\* So one that is not misled knows of every loss.
NoticedInv ==
  (pc # "down" /\ ~ Misled) =>
    /\ step = "add" => "remove" \notin lost
    /\ pc = "done" => lost \cap {"remove", "add"} = {}

\* An addition on its way brings no second peer, even if the process that
\* sent it is gone.
AddInv ==
  \A k \in DOMAIN toGW : toGW[k].cmd = "add" =>
    Unwanted = {} \/ dropped \/ (Misled /\ "remove" \in lost)

----------------------------------------------------------------------------
(* Lists in a queue *)

\* A queue is read from its head.
LEMMA TailList ==
  ASSUME NEW T, NEW q \in Seq(T), q # <<>>, NEW d,
         NEW k \in 1 .. Last(Tail(q))
  PROVE  /\ ~ Leads(Tail(q), k) => ~ Leads(q, k + 1)
         /\ ~ Leads(Tail(q), k) /\ Listed(q, d, k + 1) => Listed(Tail(q), d, k)
         /\ Leads(Tail(q), k) /\ ~ Stop(q[1]) => Leads(q, k + 1)
         /\ Stop(q[1]) => ~ Leads(q, k + 1)
         /\ ~ Lists(q[1], d) /\ Listed(q, d, k + 1) => Listed(Tail(q), d, k)
<1> DEFINE t == Tail(q)
<1>1. /\ Len(q) \in Nat \ {0} /\ DOMAIN q = 1 .. Len(q)
      /\ DOMAIN t = 1 .. Len(q) - 1
      /\ \A i \in DOMAIN t : t[i] = q[i + 1]
      /\ k \in 1 .. Len(q)
  BY DEF Last
<1> HIDE DEF t
<1>2. \A i \in DOMAIN t : i \in Nat /\ i + 1 \in DOMAIN q
  BY <1>1
<1>3. \A i \in DOMAIN q : i = 1 \/ (i - 1 \in DOMAIN t /\ t[i - 1] = q[i])
  BY <1>1
<1>4. ASSUME ~ Leads(t, k)
      PROVE  \E i \in DOMAIN q : i > 1 /\ i < k + 1 /\ Stop(q[i])
  <2>1. PICK i \in DOMAIN t : i < k /\ Stop(t[i])
    BY <1>4 DEF Leads
  <2>2. i + 1 \in DOMAIN q /\ i + 1 > 1 /\ i + 1 < k + 1 /\ Stop(q[i + 1])
    BY <2>1, <1>1, <1>2
  <2>3. QED
    BY <2>2
<1>5. ~ Leads(t, k) => ~ Leads(q, k + 1)
  BY <1>4 DEF Leads
<1>6. ASSUME NEW i \in DOMAIN q, i > 1, i < k + 1, Lists(q[i], d),
             \A n \in DOMAIN q : i <= n /\ n < k + 1 => ~ Stop(q[n])
      PROVE  Listed(t, d, k)
  <2>1. i - 1 \in DOMAIN t /\ i - 1 < k /\ Lists(t[i - 1], d)
    BY <1>1, <1>3, <1>6
  <2>2. ASSUME NEW n \in DOMAIN t, i - 1 <= n, n < k
        PROVE  ~ Stop(t[n])
    <3>1. n + 1 \in DOMAIN q /\ i <= n + 1 /\ n + 1 < k + 1 /\ t[n] = q[n + 1]
      BY <1>1, <1>2, <2>2
    <3>2. QED
      BY <3>1, <1>6
  <2>3. QED
    BY <2>1, <2>2 DEF Listed
<1>7. ASSUME ~ Leads(t, k), Listed(q, d, k + 1)
      PROVE  Listed(t, d, k)
  <2>1. PICK m \in DOMAIN q : m > 1 /\ m < k + 1 /\ Stop(q[m])
    BY <1>4, <1>7
  <2>2. PICK i \in DOMAIN q :
          /\ i < k + 1 /\ Lists(q[i], d)
          /\ \A n \in DOMAIN q : i <= n /\ n < k + 1 => ~ Stop(q[n])
    BY <1>7 DEF Listed
  <2>3. i > 1
    BY <2>1, <2>2, <1>1
  <2>4. QED
    BY <2>2, <2>3, <1>6
<1>8. ASSUME Leads(t, k), ~ Stop(q[1]) PROVE Leads(q, k + 1)
  <2> SUFFICES ASSUME NEW i \in DOMAIN q, i < k + 1
               PROVE  ~ Stop(q[i])
    BY DEF Leads
  <2>1. CASE i = 1
    BY <2>1, <1>8
  <2>2. CASE i # 1
    <3>1. i - 1 \in DOMAIN t /\ t[i - 1] = q[i] /\ i - 1 < k
      BY <2>2, <1>1, <1>3
    <3>2. QED
      BY <3>1, <1>8 DEF Leads
  <2>3. QED
    BY <2>1, <2>2
<1>9. Stop(q[1]) => ~ Leads(q, k + 1)
  BY <1>1 DEF Leads
<1>10. ASSUME ~ Lists(q[1], d), Listed(q, d, k + 1)
       PROVE  Listed(t, d, k)
  <2>1. PICK i \in DOMAIN q :
          /\ i < k + 1 /\ Lists(q[i], d)
          /\ \A n \in DOMAIN q : i <= n /\ n < k + 1 => ~ Stop(q[n])
    BY <1>10 DEF Listed
  <2>2. i > 1
    BY <2>1, <1>1, <1>10
  <2>3. QED
    BY <2>1, <2>2, <1>6
<1>11. QED
  BY <1>5, <1>7, <1>8, <1>9, <1>10 DEF t

\* A queue grows at its end.
LEMMA LongerList ==
  ASSUME NEW T, NEW q \in Seq(T), NEW x \in Seq(T), NEW d,
         NEW k \in 1 .. Last(q)
  PROVE  /\ Leads(q \o x, k) <=> Leads(q, k)
         /\ Listed(q \o x, d, k) <=> Listed(q, d, k)
<1> DEFINE a == q \o x
<1>1. /\ Len(q) \in Nat /\ DOMAIN q = 1 .. Len(q)
      /\ Len(x) \in Nat /\ DOMAIN a = 1 .. Len(q) + Len(x)
      /\ \A i \in DOMAIN q : a[i] = q[i]
      /\ k \in 1 .. Len(q) + 1
  BY DEF Last
<1> HIDE DEF a
<1>2. /\ \A i \in DOMAIN a : i < k => i \in DOMAIN q /\ a[i] = q[i]
      /\ \A i \in DOMAIN q : i \in DOMAIN a /\ a[i] = q[i]
  BY <1>1
<1>3. Leads(a, k) <=> Leads(q, k)
  BY <1>2 DEF Leads
<1>4. Listed(a, d, k) <=> Listed(q, d, k)
  BY <1>2 DEF Listed
<1>5. QED
  BY <1>3, <1>4 DEF a

LEMMA AppendList ==
  ASSUME NEW T, NEW q \in Seq(T), NEW p \in T, NEW d
  PROVE  /\ \A k \in 1 .. Last(q) : /\ Leads(Append(q, p), k) <=> Leads(q, k)
                                    /\ Listed(Append(q, p), d, k)
                                         <=> Listed(q, d, k)
         /\ Leads(Append(q, p), Last(Append(q, p)))
              <=> Leads(q, Last(q)) /\ ~ Stop(p)
         /\ ~ Stop(p) /\ Listed(q, d, Last(q))
              => Listed(Append(q, p), d, Last(Append(q, p)))
         /\ Lists(p, d) => Listed(Append(q, p), d, Last(Append(q, p)))
<1> DEFINE a == Append(q, p)
           l == Len(q)
<1>1. /\ l \in Nat /\ DOMAIN q = 1 .. l /\ DOMAIN a = 1 .. l + 1
      /\ \A i \in DOMAIN q : a[i] = q[i]
      /\ a[l + 1] = p /\ Last(q) = l + 1 /\ Last(a) = l + 2
  BY DEF Last
<1> HIDE DEF a, l
<1>2. \A i \in DOMAIN a : i = l + 1 \/ (i \in DOMAIN q /\ i < l + 1)
  BY <1>1
<1>3. \A k \in 1 .. l + 1 :
        /\ \A i \in DOMAIN a : i < k => i \in DOMAIN q /\ a[i] = q[i]
        /\ \A i \in DOMAIN q : i \in DOMAIN a /\ a[i] = q[i]
  BY <1>1
<1>4. \A k \in 1 .. l + 1 : Leads(a, k) <=> Leads(q, k)
  BY <1>3 DEF Leads
<1>5. \A k \in 1 .. l + 1 : Listed(a, d, k) <=> Listed(q, d, k)
  BY <1>3 DEF Listed
<1>6. Leads(a, l + 2) <=> Leads(q, l + 1) /\ ~ Stop(p)
  BY <1>1, <1>2 DEF Leads
<1>7. ASSUME ~ Stop(p), Listed(q, d, l + 1)
      PROVE  Listed(a, d, l + 2)
  <2>1. PICK i \in DOMAIN q :
          /\ i < l + 1 /\ Lists(q[i], d)
          /\ \A n \in DOMAIN q : i <= n /\ n < l + 1 => ~ Stop(q[n])
    BY <1>7 DEF Listed
  <2>2. i \in DOMAIN a /\ i < l + 2 /\ Lists(a[i], d)
    BY <2>1, <1>1
  <2>3. \A n \in DOMAIN a : i <= n /\ n < l + 2 => ~ Stop(a[n])
    BY <2>1, <1>1, <1>2, <1>7
  <2>4. QED
    BY <2>2, <2>3 DEF Listed
<1>8. ASSUME Lists(p, d)
      PROVE  Listed(a, d, l + 2)
  <2>1. l + 1 \in DOMAIN a /\ l + 1 < l + 2 /\ Lists(a[l + 1], d)
    BY <1>1, <1>8
  <2>2. ~ Stop(p)
    BY <1>8 DEF Lists, Stop
  <2>3. \A n \in DOMAIN a : l + 1 <= n /\ n < l + 2 => ~ Stop(a[n])
    BY <2>2, <1>1
  <2>4. QED
    BY <2>1, <2>3 DEF Listed
<1>9. QED
  BY <1>1, <1>4, <1>5, <1>6, <1>7, <1>8 DEF a

ComingPackets == {Packet(a.kind, TRUE, a.payload) : a \in Answers}

LEMMA ComingType ==
  ASSUME TypeOK
  PROVE  /\ Coming \in Seq(ComingPackets) /\ DOMAIN Coming = DOMAIN answers
         /\ \A k \in DOMAIN Coming :
              /\ Coming[k].own /\ Coming[k].kind = answers[k].kind
              /\ Coming[k].payload = answers[k].payload
<1>1. answers \in Seq(Answers)
  BY DEF TypeOK
<1>2. Len(answers) \in Nat /\ DOMAIN answers = 1 .. Len(answers)
      /\ \A k \in DOMAIN answers : answers[k] \in Answers
  BY <1>1
<1>3. Coming \in [1 .. Len(answers) -> ComingPackets]
  BY <1>2 DEF Coming, ComingPackets
<1>4. Coming \in Seq(ComingPackets)
  BY <1>2, <1>3
<1>5. QED
  BY <1>4 DEF Coming, Packet

LEMMA SeqOf ==
  ASSUME NEW T, NEW n \in Nat, NEW f \in [1 .. n -> T]
  PROVE  f \in Seq(T) /\ Len(f) = n /\ DOMAIN f = 1 .. n
OBVIOUS

LEMMA ConcatIs ==
  ASSUME NEW T, NEW q \in Seq(T), NEW x \in Seq(T)
  PROVE  /\ q \o x \in Seq(T) /\ Len(q \o x) = Len(q) + Len(x)
         /\ \A k \in 1 .. Len(q) + Len(x) :
              (q \o x)[k] = IF k <= Len(q) THEN q[k] ELSE x[k - Len(q)]
OBVIOUS

LEMMA SameSeq ==
  ASSUME NEW T, NEW q \in Seq(T), NEW x \in Seq(T), Len(q) = Len(x),
         \A i \in 1 .. Len(q) : q[i] = x[i]
  PROVE  q = x
OBVIOUS

\* An answer that arrives is what was expected.
LEMMA AnswerArrives ==
  ASSUME TypeOK, Answer
  PROVE  \E p \in Packets :
           /\ \/ Arrives(p) /\ UNCHANGED dropped
              \/ dropped' = (dropped \/ Needed(p)) /\ UNCHANGED toHost
           /\ Coming # <<>> /\ Coming' = Tail(Coming)
           /\ p.own /\ p.kind = Coming[1].kind
           /\ p.kind # "param" => p.payload = Coming[1].payload
<1> DEFINE a == Head(answers)
           p == Packet(a.kind, TRUE, IF a.kind = "param"
                                     THEN <<a.payload, mem[a.payload]>>
                                     ELSE a.payload)
<1>1. a \in Answers /\ answers # <<>> /\ answers \in Seq(Answers)
      /\ a = answers[1]
  BY DEF Answer, TypeOK
<1>2. p \in Packets
  BY <1>1, AnswerType DEF TypeOK
<1>3. \/ Arrives(p) /\ UNCHANGED dropped
      \/ dropped' = (dropped \/ Needed(p)) /\ UNCHANGED toHost
  BY DEF Answer
<1>4. 1 \in DOMAIN Coming /\ Coming # <<>>
  BY <1>1, ComingType
<1>5. /\ p.own /\ p.kind = Coming[1].kind
      /\ p.kind # "param" => p.payload = Coming[1].payload
  BY <1>1, <1>4, ComingType DEF Packet
<1>6. Coming' = Tail(Coming)
  <2>1. answers' = Tail(answers)
    BY DEF Answer
  <2>2. /\ Len(answers) \in Nat \ {0} /\ DOMAIN answers = 1 .. Len(answers)
        /\ DOMAIN answers' = 1 .. Len(answers) - 1
        /\ \A k \in DOMAIN answers' : answers'[k] = answers[k + 1]
    BY <1>1, <2>1
  <2>3. /\ Len(Coming) = Len(answers) /\ Coming \in Seq(ComingPackets)
        /\ DOMAIN Coming = DOMAIN answers
    BY <2>2, ComingType
  <2>4. Coming' \in Seq(ComingPackets) /\ Len(Coming') = Len(answers) - 1
    <3>1. \A k \in DOMAIN answers' : answers'[k] \in Answers
      BY <1>1, <2>2
    <3>2. Coming' \in [1 .. Len(answers) - 1 -> ComingPackets]
      BY <2>2, <3>1 DEF Coming, ComingPackets
    <3>3. Len(answers) - 1 \in Nat
      BY <2>2
    <3>4. QED
      BY <3>2, <3>3, SeqOf
  <2>5. ASSUME NEW k \in 1 .. Len(answers) - 1
        PROVE  Coming'[k] = Coming[k + 1]
    <3>1. Coming'[k] = Packet(answers'[k].kind, TRUE, answers'[k].payload)
      BY <2>2 DEF Coming
    <3>2. k + 1 \in DOMAIN answers /\ answers'[k] = answers[k + 1]
      BY <2>2
    <3>3. QED
      BY <3>1, <3>2 DEF Coming
  <2>6. Tail(Coming) \in Seq(ComingPackets) /\ Len(Tail(Coming)) = Len(answers) - 1
        /\ \A k \in 1 .. Len(answers) - 1 : Tail(Coming)[k] = Coming[k + 1]
    BY <2>2, <2>3
  <2>7. QED
    BY <2>4, <2>5, <2>6, SameSeq
<1> HIDE DEF p
<1>7. QED
  BY <1>2, <1>3, <1>4, <1>5, <1>6

LEMMA ComingGrows ==
  ASSUME TypeOK, NEW x \in Seq(Answers), answers' = answers \o x
  PROVE  Coming' = Coming \o [i \in DOMAIN x |->
                                Packet(x[i].kind, TRUE, x[i].payload)]
<1> DEFINE y == [i \in DOMAIN x |-> Packet(x[i].kind, TRUE, x[i].payload)]
<1>1. answers \in Seq(Answers)
  BY DEF TypeOK
<1>2. /\ Len(answers) \in Nat /\ DOMAIN answers = 1 .. Len(answers)
      /\ Len(x) \in Nat /\ DOMAIN x = 1 .. Len(x)
      /\ DOMAIN answers' = 1 .. Len(answers) + Len(x)
      /\ \A k \in DOMAIN answers' :
           answers'[k] = IF k <= Len(answers) THEN answers[k]
                         ELSE x[k - Len(answers)]
  BY <1>1
<1>3. y \in Seq(ComingPackets) /\ Len(y) = Len(x) /\ DOMAIN y = 1 .. Len(x)
  <2>1. \A i \in DOMAIN x : x[i] \in Answers
    BY <1>2
  <2>2. y \in [1 .. Len(x) -> ComingPackets]
    BY <1>2, <2>1 DEF ComingPackets
  <2>3. QED
    BY <1>2, <2>2, SeqOf
<1>4. /\ Len(Coming) = Len(answers) /\ Coming \in Seq(ComingPackets)
      /\ DOMAIN Coming = DOMAIN answers
  BY <1>2, ComingType
<1>5. Coming' \in Seq(ComingPackets) /\ Len(Coming') = Len(answers) + Len(x)
  <2>1. \A k \in DOMAIN answers' : answers'[k] \in Answers
    BY <1>1, <1>2
  <2>2. Coming' \in [1 .. Len(answers) + Len(x) -> ComingPackets]
    BY <1>2, <2>1 DEF Coming, ComingPackets
  <2>3. Len(answers) + Len(x) \in Nat
    BY <1>2
  <2>4. QED
    BY <2>2, <2>3, SeqOf
<1>6. ASSUME NEW k \in DOMAIN x
      PROVE  y[k] = Packet(x[k].kind, TRUE, x[k].payload)
  OBVIOUS
<1> HIDE DEF y
<1>7. /\ Coming \o y \in Seq(ComingPackets)
      /\ Len(Coming \o y) = Len(Coming) + Len(y)
      /\ \A k \in 1 .. Len(Coming) + Len(y) :
           (Coming \o y)[k] = IF k <= Len(Coming) THEN Coming[k]
                              ELSE y[k - Len(Coming)]
  <2>1. Coming \in Seq(ComingPackets) /\ y \in Seq(ComingPackets)
    BY <1>3, <1>4
  <2>2. QED
    BY ONLY <2>1, ConcatIs
<1>8. ASSUME NEW k \in 1 .. Len(answers) + Len(x)
      PROVE  Coming'[k] = (Coming \o y)[k]
  <2>1. Coming'[k] = Packet(answers'[k].kind, TRUE, answers'[k].payload)
    BY <1>2 DEF Coming
  <2>2. CASE k <= Len(answers)
    <3>1. Coming'[k] = Coming[k]
      BY <2>1, <2>2, <1>2 DEF Coming
    <3>2. QED
      BY <3>1, <2>2, <1>2, <1>3, <1>4, <1>7
  <2>3. CASE ~ (k <= Len(answers))
    <3>1. k - Len(answers) \in DOMAIN x
      BY <2>3, <1>2
    <3>2. Coming'[k] = y[k - Len(answers)]
      BY <2>1, <2>3, <3>1, <1>2, <1>6
    <3>3. QED
      BY <3>2, <2>3, <1>2, <1>3, <1>4, <1>7
  <2>4. QED
    BY <2>2, <2>3
<1>9. Len(Coming \o y) = Len(Coming')
  BY <1>3, <1>4, <1>5, <1>7
<1>10. Coming' = Coming \o y
  BY <1>5, <1>7, <1>8, <1>9, SameSeq
<1>11. QED
  BY <1>10 DEF y

----------------------------------------------------------------------------
(* The peers of the device *)

LEMMA LinkedChanges ==
  ASSUME [Next]_vars, linked' # linked
  PROVE  Transmit /\ Obey(Head(toGW)) /\ toGW # <<>>
<1>1. CASE Process
  BY <1>1 DEF Process, Send, ConfirmDrops, ConfirmAcked, ReadParams, OthersRead,
     OthersDone, ReadPeers, ReadPeerAck, Start, Drop, Receive, device
<1>2. CASE Ack \/ Answer \/ Event \/ Crash \/ UNCHANGED vars
  BY <1>2 DEF Ack, Answer, Event, Crash, vars, device
<1>3. CASE Transmit
  BY <1>3 DEF Transmit, device
<1>4. QED
  BY <1>1, <1>2, <1>3 DEF Next

\* The program adds no other peer and never removes the wanted one.
LEMMA PeersShrink ==
  ASSUME TypeOK, CommandInv, [Next]_vars
  PROVE  /\ Unwanted' \subseteq Unwanted
         /\ Wanted \in linked => Wanted \in linked'
<1>1. CASE linked' = linked
  BY <1>1 DEF Unwanted
<1>2. CASE linked' # linked
  <2>1. Obey(toGW[1]) /\ 1 \in DOMAIN toGW
    BY <1>2, LinkedChanges DEF TypeOK
  <2>2. \/ linked' = linked
        \/ linked' = linked \ {toGW[1].data} /\ toGW[1].data # Wanted
        \/ linked' = linked \cup {Wanted}
    BY <2>1 DEF Obey, CommandInv
  <2>3. QED
    BY <2>2 DEF Unwanted
<1>3. QED
  BY <1>1, <1>2

----------------------------------------------------------------------------
(* Lists on their way *)

\* What reading a packet leaves of the lists.
LEMMA ReadingLists ==
  ASSUME TypeOK, Receive, WholeLists,
         \A d : Read(d) \/ Lists(Head(toHost), d) => Read(d)'
  PROVE  /\ WholeLists'
         /\ Stop(Head(toHost)) \/ FirstList => FirstList'
<1> DEFINE q == toHost
           t == Tail(toHost)
<1>1. /\ q \in Seq(Packets) /\ q # <<>> /\ toHost' = t /\ Head(q) = q[1]
      /\ Coming' = Coming /\ Unwanted' = Unwanted
  BY DEF TypeOK, Receive, device, Coming, Unwanted
<1>2. /\ Last(t) + 1 = Last(q) /\ Last(t) \in 1 .. Last(t)
      /\ \A k \in DOMAIN t : /\ k \in 1 .. Last(t) /\ k + 1 \in DOMAIN q
                             /\ t[k] = q[k + 1]
  BY <1>1 DEF Last
<1>3. \A d : \A k \in 1 .. Last(t) :
        /\ ~ Leads(t, k) => ~ Leads(q, k + 1)
        /\ ~ Leads(t, k) /\ Listed(q, d, k + 1) => Listed(t, d, k)
        /\ Leads(t, k) /\ ~ Stop(q[1]) => Leads(q, k + 1)
        /\ Stop(q[1]) => ~ Leads(q, k + 1)
        /\ ~ Lists(q[1], d) /\ Listed(q, d, k + 1) => Listed(t, d, k)
  BY <1>1, TailList
<1>4. \A d : Stop(q[1]) => ~ Lists(q[1], d)
  BY DEF Stop, Lists
<1>5. WholeLists'
  <2> SUFFICES
        ASSUME NEW d \in Unwanted
        PROVE  /\ \A k \in DOMAIN t :
                    Ends(t[k]) /\ ~ Leads(t, k) => Listed(t, d, k)
               /\ \A k \in DOMAIN Coming :
                    /\ Ends(Coming[k]) /\ Leads(Coming, k)
                    /\ ~ Leads(t, Last(t))
                    => Listed(Coming, d, k) \/ Listed(t, d, Last(t))
    BY <1>1 DEF WholeLists
  <2>1. /\ \A k \in DOMAIN q :
             Ends(q[k]) /\ ~ Leads(q, k) => Listed(q, d, k)
        /\ \A k \in DOMAIN Coming :
             /\ Ends(Coming[k]) /\ Leads(Coming, k) /\ ~ Leads(q, Last(q))
             => Listed(Coming, d, k) \/ Listed(q, d, Last(q))
    BY DEF WholeLists
  <2> HIDE DEF q, t
  <2>2. QED
    BY <2>1, <1>2, <1>3
<1>6. ASSUME Stop(Head(toHost)) \/ FirstList
      PROVE  FirstList'
  <2> SUFFICES
        ASSUME NEW d \in Unwanted
        PROVE  /\ \A k \in DOMAIN t :
                    Ends(t[k]) /\ Leads(t, k) => Read(d)' \/ Listed(t, d, k)
               /\ \A k \in DOMAIN Coming :
                    Ends(Coming[k]) /\ Leads(Coming, k) /\ Leads(t, Last(t))
                    => \/ Read(d)' \/ Listed(Coming, d, k)
                       \/ Listed(t, d, Last(t))
    BY <1>1 DEF FirstList
  <2>1. CASE Stop(q[1])
    <3>1. /\ \A k \in DOMAIN q :
               Ends(q[k]) /\ ~ Leads(q, k) => Listed(q, d, k)
          /\ \A k \in DOMAIN Coming :
               /\ Ends(Coming[k]) /\ Leads(Coming, k) /\ ~ Leads(q, Last(q))
               => Listed(Coming, d, k) \/ Listed(q, d, Last(q))
      BY DEF WholeLists
    <3> HIDE DEF q, t
    <3>2. QED
      BY <3>1, <2>1, <1>2, <1>3, <1>4
  <2>2. CASE ~ Stop(q[1])
    <3>1. /\ \A k \in DOMAIN q :
               Ends(q[k]) /\ Leads(q, k) => Read(d) \/ Listed(q, d, k)
          /\ \A k \in DOMAIN Coming :
               Ends(Coming[k]) /\ Leads(Coming, k) /\ Leads(q, Last(q))
               => \/ Read(d) \/ Listed(Coming, d, k)
                  \/ Listed(q, d, Last(q))
      BY <1>1, <1>6, <2>2 DEF FirstList
    <3>2. Read(d) \/ Lists(q[1], d) => Read(d)'
      BY <1>1
    <3> HIDE DEF q, t
    <3>3. QED
      BY <3>1, <3>2, <2>2, <1>2, <1>3
  <2>3. QED
    BY <2>1, <2>2
<1>7. QED
  BY <1>5, <1>6

\* A packet that ReadPeers will pass over, and the ack of the gateway.
LEMMA PassingLists ==
  ASSUME TypeOK, NEW p \in Packets, ~ Stop(p), ~ (p.own /\ p.kind = "peer"),
         Arrives(p), pc # "down", UNCHANGED <<answers, linked, peers>>
  PROVE  /\ WholeLists => WholeLists'
         /\ FirstList => FirstList'
<1> DEFINE q == toHost
           a == Append(q, p)
<1>1. /\ q \in Seq(Packets) /\ toHost' = a /\ ~ Ends(p)
      /\ Coming' = Coming /\ Unwanted' = Unwanted /\ \A d : Read(d)' = Read(d)
  BY DEF TypeOK, Arrives, Coming, Unwanted, Read, Ends, Stop
<1>2. \A d :
        /\ \A k \in 1 .. Last(q) : /\ Leads(a, k) <=> Leads(q, k)
                                   /\ Listed(a, d, k) <=> Listed(q, d, k)
        /\ Leads(a, Last(a)) <=> Leads(q, Last(q))
        /\ Listed(q, d, Last(q)) => Listed(a, d, Last(a))
  BY <1>1, AppendList
<1>3. \A k \in DOMAIN a : Ends(a[k]) =>
        k \in DOMAIN q /\ k \in 1 .. Last(q) /\ a[k] = q[k]
  BY <1>1 DEF Last
<1>4. WholeLists => WholeLists'
  <2> HIDE DEF q, a
  <2>1. QED
    BY <1>1, <1>2, <1>3 DEF WholeLists, q
<1>5. FirstList => FirstList'
  <2> HIDE DEF q, a
  <2>1. QED
    BY <1>1, <1>2, <1>3 DEF FirstList, q
<1>6. QED
  BY <1>4, <1>5

\* An answer goes from the device to the process, or is lost.
LEMMA AnswerLists ==
  ASSUME TypeOK, Answer, ComingLists
  PROVE  /\ ComingLists'
         /\ pc # "down" /\ ~ dropped' /\ WholeLists =>
              WholeLists' /\ (FirstList => FirstList')
<1> DEFINE q == toHost
           c == Coming
           t == Tail(c)
<1>1. PICK p \in Packets :
        /\ \/ Arrives(p) /\ UNCHANGED dropped
           \/ dropped' = (dropped \/ Needed(p)) /\ UNCHANGED toHost
        /\ c # <<>> /\ Coming' = t
        /\ p.own /\ p.kind = c[1].kind
        /\ p.kind # "param" => p.payload = c[1].payload
  BY AnswerArrives
<1>2. /\ q \in Seq(Packets) /\ c \in Seq(ComingPackets) /\ c[1].own
      /\ Unwanted' = Unwanted /\ \A d : Read(d)' = Read(d)
  <2>1. c \in Seq(ComingPackets) /\ \A k \in DOMAIN c : c[k].own
    BY ComingType
  <2>2. 1 \in DOMAIN c
    BY <2>1, <1>1
  <2>3. UNCHANGED <<linked, peers>>
    BY DEF Answer, reading
  <2>4. QED
    BY <2>1, <2>2, <2>3 DEF TypeOK, Unwanted, Read
<1>3. /\ Stop(p) <=> Stop(c[1])
      /\ Ends(p) <=> Ends(c[1])
      /\ \A d : Lists(p, d) <=> Lists(c[1], d)
      /\ Ends(p) => Stop(p)
      /\ \A d : Lists(p, d) => ~ Stop(p)
  BY <1>1, <1>2 DEF Stop, Ends, Lists
<1>4. /\ \A k \in DOMAIN t : /\ k \in 1 .. Last(t) /\ k + 1 \in DOMAIN c
                             /\ t[k] = c[k + 1]
      /\ 1 \in DOMAIN c
  BY <1>1, <1>2 DEF Last
<1>5. \A d : \A k \in 1 .. Last(t) :
        /\ ~ Leads(t, k) => ~ Leads(c, k + 1)
        /\ ~ Leads(t, k) /\ Listed(c, d, k + 1) => Listed(t, d, k)
        /\ Leads(t, k) /\ ~ Stop(p) => Leads(c, k + 1)
        /\ Stop(p) => ~ Leads(c, k + 1)
        /\ ~ Lists(p, d) /\ Listed(c, d, k + 1) => Listed(t, d, k)
  BY <1>1, <1>2, <1>3, TailList
<1>6. Leads(c, 1) /\ \A d : ~ Listed(c, d, 1)
  BY <1>2 DEF Leads, Listed
<1>7. \A d \in Unwanted : \A k \in DOMAIN c :
        Ends(c[k]) /\ ~ Leads(c, k) => Listed(c, d, k)
  BY DEF ComingLists
<1>8. ComingLists'
  <2> SUFFICES ASSUME NEW d \in Unwanted, NEW k \in DOMAIN t,
                      Ends(t[k]), ~ Leads(t, k)
               PROVE  Listed(t, d, k)
    BY <1>1, <1>2 DEF ComingLists
  <2> HIDE DEF c, t
  <2>1. QED
    BY <1>4, <1>5, <1>7
<1>9. ASSUME Arrives(p), pc # "down", WholeLists
      PROVE  WholeLists' /\ (FirstList => FirstList')
  <2> DEFINE a == Append(q, p)
  <2>1. toHost' = a
    BY <1>9 DEF Arrives
  <2>2. \A d :
          /\ \A k \in 1 .. Last(q) : /\ Leads(a, k) <=> Leads(q, k)
                                     /\ Listed(a, d, k) <=> Listed(q, d, k)
          /\ Leads(a, Last(a)) <=> Leads(q, Last(q)) /\ ~ Stop(p)
          /\ ~ Stop(p) /\ Listed(q, d, Last(q)) => Listed(a, d, Last(a))
          /\ Lists(p, d) => Listed(a, d, Last(a))
    BY <1>2, AppendList
  <2>3. /\ \A k \in DOMAIN a : \/ k \in DOMAIN q /\ k \in 1 .. Last(q) /\ a[k] = q[k]
                               \/ k = Last(q) /\ a[k] = p
        /\ Last(q) \in 1 .. Last(q)
    BY <1>2 DEF Last
  <2>4. \A d \in Unwanted :
          /\ \A k \in DOMAIN q :
               Ends(q[k]) /\ ~ Leads(q, k) => Listed(q, d, k)
          /\ \A k \in DOMAIN c :
               /\ Ends(c[k]) /\ Leads(c, k) /\ ~ Leads(q, Last(q))
               => Listed(c, d, k) \/ Listed(q, d, Last(q))
    BY <1>9 DEF WholeLists
  <2>5. WholeLists'
    <3> SUFFICES
          ASSUME NEW d \in Unwanted
          PROVE  /\ \A k \in DOMAIN a :
                      Ends(a[k]) /\ ~ Leads(a, k) => Listed(a, d, k)
                 /\ \A k \in DOMAIN t :
                      Ends(t[k]) /\ Leads(t, k) /\ ~ Leads(a, Last(a))
                      => Listed(t, d, k) \/ Listed(a, d, Last(a))
      BY <1>1, <1>2, <2>1 DEF WholeLists
    <3> HIDE DEF a, c, q, t
    <3>1. ASSUME NEW k \in DOMAIN a, Ends(a[k]), ~ Leads(a, k)
          PROVE  Listed(a, d, k)
      BY <3>1, <2>2, <2>3, <2>4, <1>3, <1>4, <1>6
    <3>2. ASSUME NEW k \in DOMAIN t, Ends(t[k]), Leads(t, k),
                 ~ Leads(a, Last(a))
          PROVE  Listed(t, d, k) \/ Listed(a, d, Last(a))
      <4>1. k \in 1 .. Last(t) /\ k + 1 \in DOMAIN c /\ t[k] = c[k + 1]
        BY <1>4
      <4>2. CASE Stop(p)
        BY <4>1, <4>2, <3>2, <1>3, <1>5, <1>7
      <4>3. CASE ~ Stop(p)
        BY <4>1, <4>3, <3>2, <2>2, <2>4, <1>5
      <4>4. QED
        BY <4>2, <4>3
    <3>3. QED
      BY <3>1, <3>2
  <2>6. ASSUME FirstList PROVE FirstList'
    <3>1. \A d \in Unwanted :
            /\ \A k \in DOMAIN q :
                 Ends(q[k]) /\ Leads(q, k) => Read(d) \/ Listed(q, d, k)
            /\ \A k \in DOMAIN c :
                 Ends(c[k]) /\ Leads(c, k) /\ Leads(q, Last(q))
                 => Read(d) \/ Listed(c, d, k) \/ Listed(q, d, Last(q))
      BY <2>6 DEF FirstList
    <3> SUFFICES
          ASSUME NEW d \in Unwanted
          PROVE  /\ \A k \in DOMAIN a :
                      Ends(a[k]) /\ Leads(a, k) => Read(d) \/ Listed(a, d, k)
                 /\ \A k \in DOMAIN t :
                      Ends(t[k]) /\ Leads(t, k) /\ Leads(a, Last(a))
                      => Read(d) \/ Listed(t, d, k) \/ Listed(a, d, Last(a))
      BY <1>1, <1>2, <2>1 DEF FirstList
    <3> HIDE DEF a, c, q, t
    <3>2. ASSUME NEW k \in DOMAIN a, Ends(a[k]), Leads(a, k)
          PROVE  Read(d) \/ Listed(a, d, k)
      BY <3>1, <3>2, <2>2, <2>3, <1>3, <1>4, <1>6
    <3>3. ASSUME NEW k \in DOMAIN t, Ends(t[k]), Leads(t, k),
                 Leads(a, Last(a))
          PROVE  Read(d) \/ Listed(t, d, k) \/ Listed(a, d, Last(a))
      <4>1. k \in 1 .. Last(t) /\ k + 1 \in DOMAIN c /\ t[k] = c[k + 1]
        BY <1>4
      <4>2. ~ Stop(p) /\ Leads(q, Last(q))
        BY <3>3, <2>2
      <4>3. QED
        BY <4>1, <4>2, <3>1, <3>3, <2>2, <1>5
    <3>4. QED
      BY <3>2, <3>3
  <2>7. QED
    BY <2>5, <2>6
<1>10. ASSUME dropped' = (dropped \/ Needed(p)), UNCHANGED toHost,
              ~ dropped', WholeLists
       PROVE  WholeLists' /\ (FirstList => FirstList')
  <2>1. p.kind \in {"param", "paramEnd", "peer", "peerEnd", "info", "ack"}
    <3>1. 1 \in DOMAIN answers /\ answers[1] \in Answers
          /\ p.kind = answers[1].kind
      BY <1>1, <1>4, ComingType DEF TypeOK
    <3>2. QED
      BY <3>1 DEF Answers
  <2>2. p.own /\ ~ Needed(p)
    BY <1>1, <1>10
  <2>3. Stop(p)
    BY <2>1, <2>2 DEF Needed, Stop
  <2>4. WholeLists'
    <3> SUFFICES
          ASSUME NEW d \in Unwanted
          PROVE  /\ \A k \in DOMAIN q :
                      Ends(q[k]) /\ ~ Leads(q, k) => Listed(q, d, k)
                 /\ \A k \in DOMAIN t :
                      Ends(t[k]) /\ Leads(t, k) /\ ~ Leads(q, Last(q))
                      => Listed(t, d, k) \/ Listed(q, d, Last(q))
      BY <1>1, <1>2, <1>10 DEF WholeLists
    <3>1. \A k \in DOMAIN q : Ends(q[k]) /\ ~ Leads(q, k) => Listed(q, d, k)
      BY <1>10 DEF WholeLists
    <3> HIDE DEF c, q, t
    <3>2. QED
      BY <3>1, <2>3, <1>3, <1>4, <1>5, <1>7
  <2>5. ASSUME FirstList PROVE FirstList'
    <3> SUFFICES
          ASSUME NEW d \in Unwanted
          PROVE  /\ \A k \in DOMAIN q :
                      Ends(q[k]) /\ Leads(q, k) => Read(d) \/ Listed(q, d, k)
                 /\ \A k \in DOMAIN t :
                      Ends(t[k]) /\ Leads(t, k) /\ Leads(q, Last(q))
                      => Read(d) \/ Listed(t, d, k) \/ Listed(q, d, Last(q))
      BY <1>1, <1>2, <1>10 DEF FirstList
    <3>1. \A k \in DOMAIN q :
            Ends(q[k]) /\ Leads(q, k) => Read(d) \/ Listed(q, d, k)
      BY <2>5 DEF FirstList
    <3> HIDE DEF c, q, t
    <3>2. QED
      BY <3>1, <2>3, <1>3, <1>4, <1>5, <1>7
  <2>6. QED
    BY <2>4, <2>5
<1>11. QED
  BY <1>1, <1>8, <1>9, <1>10

LEMMA ConcatAssoc ==
  ASSUME NEW T, NEW q \in Seq(T), NEW x \in Seq(T), NEW y \in Seq(T)
  PROVE  (q \o x) \o y = q \o (x \o y)
OBVIOUS

\* What the device answers to a command: the end of a list only to the
\* question for its peers, and after all of them.
LEMMA ObeySends ==
  ASSUME TypeOK, NEW c \in Commands, Obey(c)
  PROVE  \E x \in Seq(Answers) :
           /\ answers' = answers \o x
           /\ \A k \in DOMAIN x :
                /\ x[k].kind = "peerEnd" =>
                     /\ c.cmd = "peerReq" /\ \A m \in DOMAIN x : m <= k
                     /\ \A d \in linked : \E i \in DOMAIN x :
                          /\ i < k /\ x[i].kind = "peer" /\ x[i].payload = d
                          /\ \A n \in DOMAIN x :
                               i <= n /\ n < k => x[n].kind = "peer"
                /\ x[k].kind = "peer" =>
                     c.cmd = "peerReq" /\ x[k].payload \in linked
                /\ x[k].kind = "info" => c.cmd = "remove"
                /\ x[k].kind = "ack" => c.cmd \in Writing \cup {"add"}
<1>1. answers \in Seq(Answers) /\ linked \in SUBSET Devices
  BY DEF TypeOK
<1>2. CASE c.cmd = "paramReq" /\ answers' = (answers \o Dump) \o Reply("paramEnd", Zero)
  <2>1. Dump \in Seq(Answers) /\ Len(Dump) = Size
        /\ \A k \in 1 .. Size : Dump[k].kind = "param"
    BY ProgramAssumption DEF Dump, Answers, Index
  <2>2. Reply("paramEnd", Zero) \in Seq(Answers) /\ Len(Reply("paramEnd", Zero)) = 1
        /\ Reply("paramEnd", Zero)[1].kind = "paramEnd"
    BY DEF Reply, Answers
  <2> DEFINE r == Reply("paramEnd", Zero)
             x == Dump \o r
  <2> HIDE DEF r
  <2>3. answers' = answers \o x
    <3>1. answers \in Seq(Answers) /\ Dump \in Seq(Answers) /\ r \in Seq(Answers)
      BY <1>1, <2>1, <2>2 DEF r
    <3>2. (answers \o Dump) \o r = answers \o (Dump \o r)
      BY ONLY <3>1, ConcatAssoc
    <3>3. answers' = (answers \o Dump) \o r
      BY <1>2 DEF r
    <3>4. QED
      BY ONLY <3>2, <3>3
  <2>4. x \in Seq(Answers) /\ DOMAIN x = 1 .. Size + 1
        /\ \A k \in DOMAIN x : x[k].kind \in {"param", "paramEnd"}
    <3>1. x \in Seq(Answers) /\ Len(x) = Size + 1
          /\ \A k \in 1 .. Size + 1 :
               x[k] = IF k <= Size THEN Dump[k] ELSE r[k - Size]
      <4>1. Dump \in Seq(Answers) /\ r \in Seq(Answers)
            /\ Len(Dump) = Size /\ Len(r) = 1
        BY <2>1, <2>2 DEF r
      <4>2. x \in Seq(Answers) /\ Len(x) = Len(Dump) + Len(r)
            /\ \A k \in 1 .. Len(Dump) + Len(r) :
                 x[k] = IF k <= Len(Dump) THEN Dump[k] ELSE r[k - Len(Dump)]
        BY ONLY <4>1, ConcatIs
      <4> HIDE DEF x
      <4>3. QED
        BY ONLY <4>1, <4>2
    <3> HIDE DEF x
    <3>2. DOMAIN x = 1 .. Size + 1
      BY <3>1
    <3>3. \A k \in 1 .. Size + 1 : k <= Size \/ k - Size = 1
      BY ProgramAssumption
    <3>4. r[1].kind = "paramEnd"
      BY <2>2 DEF r
    <3>5. QED
      BY <3>1, <3>2, <3>3, <3>4, <2>1, ProgramAssumption
  <2> HIDE DEF x
  <2>5. QED
    BY <2>3, <2>4
<1>3. ASSUME c.cmd = "peerReq", NEW l \in Listings,
             answers' = (answers \o PeerList(l)) \o Reply("peerEnd", Zero)
      PROVE  \E x \in Seq(Answers) :
               /\ answers' = answers \o x
               /\ \A k \in DOMAIN x :
                    /\ x[k].kind \in {"peer", "peerEnd"}
                    /\ x[k].kind = "peer" => x[k].payload \in linked
                    /\ x[k].kind = "peerEnd" => \A m \in DOMAIN x : m <= k
                    /\ x[k].kind = "peerEnd" =>
                         \A d \in linked : \E i \in DOMAIN x :
                           /\ i < k /\ x[i].kind = "peer" /\ x[i].payload = d
                           /\ \A n \in DOMAIN x :
                                i <= n /\ n < k => x[n].kind = "peer"
  <2> DEFINE n == Cardinality(linked)
             r == Reply("peerEnd", Zero)
             y == PeerList(l)
             x == y \o r
  <2>1. n \in Nat
    BY <1>1, PeerAssumption, FS_Subset, FS_CardinalityType
  <2>2. l \in [1 .. n -> linked] /\ \A d \in linked : \E i \in 1 .. n : l[i] = d
    BY DEF Listings
  <2> HIDE DEF n
  <2>3. /\ DOMAIN y = 1 .. n
        /\ \A i \in 1 .. n : y[i].kind = "peer" /\ y[i].payload = l[i]
                             /\ y[i] \in Answers
    BY <1>1, <2>2 DEF PeerList, Answers
  <2>4. y \in [1 .. n -> Answers]
    BY <1>1, <2>2 DEF PeerList, Answers
  <2>5. y \in Seq(Answers) /\ Len(y) = n
    BY <2>1, <2>4, SeqOf
  <2>6. r \in Seq(Answers) /\ Len(r) = 1 /\ r[1].kind = "peerEnd"
    BY DEF Reply, Answers
  <2> HIDE DEF r, y
  <2>7. answers' = answers \o x
    <3>1. answers \in Seq(Answers) /\ y \in Seq(Answers) /\ r \in Seq(Answers)
      BY <1>1, <2>5, <2>6
    <3>2. (answers \o y) \o r = answers \o (y \o r)
      BY ONLY <3>1, ConcatAssoc
    <3>3. answers' = (answers \o y) \o r
      BY <1>3 DEF r, y
    <3>4. QED
      BY ONLY <3>2, <3>3
  <2>8. /\ x \in Seq(Answers) /\ DOMAIN x = 1 .. n + 1
        /\ \A i \in 1 .. n : x[i] = y[i]
        /\ x[n + 1].kind = "peerEnd"
    <3>1. x \in Seq(Answers) /\ Len(x) = n + 1
          /\ \A k \in 1 .. n + 1 : x[k] = IF k <= n THEN y[k] ELSE r[k - n]
      <4>1. x \in Seq(Answers) /\ Len(x) = Len(y) + Len(r)
            /\ \A k \in 1 .. Len(y) + Len(r) :
                 x[k] = IF k <= Len(y) THEN y[k] ELSE r[k - Len(y)]
        BY <2>5, <2>6, ConcatIs
      <4> HIDE DEF x
      <4>2. QED
        BY <4>1, <2>5, <2>6
    <3> HIDE DEF x
    <3>2. DOMAIN x = 1 .. n + 1
      BY <3>1
    <3>3. n + 1 \in 1 .. n + 1 /\ ~ (n + 1 <= n) /\ (n + 1) - n = 1
      BY <2>1
    <3>4. x[n + 1] = r[1]
      BY <3>1, <3>3
    <3>5. QED
      BY <3>1, <3>2, <3>4, <2>1, <2>6
  <2> HIDE DEF x
  <2>9. ASSUME NEW k \in DOMAIN x
        PROVE  /\ x[k].kind \in {"peer", "peerEnd"}
               /\ x[k].kind = "peer" => x[k].payload \in linked
               /\ x[k].kind = "peerEnd" => \A m \in DOMAIN x : m <= k
               /\ x[k].kind = "peerEnd" =>
                    \A d \in linked : \E i \in DOMAIN x :
                      /\ i < k /\ x[i].kind = "peer" /\ x[i].payload = d
                      /\ \A m \in DOMAIN x :
                           i <= m /\ m < k => x[m].kind = "peer"
    <3>1. CASE k \in 1 .. n
      BY <3>1, <2>2, <2>3, <2>8
    <3>2. CASE k = n + 1
      <4> SUFFICES ASSUME NEW d \in linked
                   PROVE  \E i \in DOMAIN x :
                            /\ i < k /\ x[i].kind = "peer" /\ x[i].payload = d
                            /\ \A m \in DOMAIN x :
                                 i <= m /\ m < k => x[m].kind = "peer"
        BY <3>2, <2>1, <2>8
      <4>1. PICK i \in 1 .. n : l[i] = d
        BY <2>2
      <4>2. i \in DOMAIN x /\ i < k /\ x[i].kind = "peer" /\ x[i].payload = d
        BY <4>1, <3>2, <2>1, <2>3, <2>8
      <4>3. \A m \in DOMAIN x : m < k => x[m].kind = "peer"
        BY <3>2, <2>1, <2>3, <2>8
      <4>4. QED
        BY <4>2, <4>3
    <3>3. QED
      BY <3>1, <3>2, <2>1, <2>8
  <2>10. QED
    BY <2>7, <2>8, <2>9
<1>4. ASSUME NEW a \in Answers, answers' = answers \o <<a>>,
             a.kind \in {"info", "ack"},
             a.kind = "info" => c.cmd = "remove",
             a.kind = "ack" => c.cmd \in Writing \cup {"add"}
      PROVE  \E x \in Seq(Answers) :
               /\ answers' = answers \o x
               /\ \A k \in DOMAIN x :
                    /\ x[k].kind \in {"info", "ack"}
                    /\ x[k].kind = "info" => c.cmd = "remove"
                    /\ x[k].kind = "ack" => c.cmd \in Writing \cup {"add"}
  <2>1. <<a>> \in Seq(Answers) /\ \A k \in DOMAIN <<a>> : <<a>>[k] = a
    OBVIOUS
  <2>2. QED
    BY <2>1, <1>4
<1>5. CASE c.cmd = "remove" /\ answers' = answers \o Reply("info", Zero)
  <2>1. [kind |-> "info", payload |-> Zero] \in Answers
    BY DEF Answers
  <2>2. QED
    BY <1>5, <2>1, <1>4 DEF Reply
<1>6. CASE c.cmd = "add" /\ answers' = answers \o Reply("ack", c.data)
  <2>1. [kind |-> "ack", payload |-> c.data] \in Answers
    BY <1>6 DEF Answers, Commands
  <2>2. QED
    BY <1>6, <2>1, <1>4 DEF Reply
<1>7. CASE c.cmd \in Writing /\ answers' = answers \o Reply("ack", Zero)
  <2>1. [kind |-> "ack", payload |-> Zero] \in Answers
    BY DEF Answers
  <2>2. QED
    BY <1>7, <2>1, <1>4 DEF Reply
<1>8. CASE UNCHANGED answers
  <2>1. <<>> \in Seq(Answers) /\ answers \o <<>> = answers /\ DOMAIN <<>> = {}
    BY <1>1
  <2>2. QED
    BY <1>8, <2>1
<1>9. QED
  BY <1>2, <1>3, <1>5, <1>6, <1>7, <1>8 DEF Obey

\* The same of what is still to come.
LEMMA ComingObeys ==
  ASSUME TypeOK, NEW c \in Commands, Obey(c)
  PROVE  \E y \in Seq(ComingPackets) :
           /\ Coming' = Coming \o y
           /\ \A k \in DOMAIN y :
                /\ Ends(y[k]) => /\ c.cmd = "peerReq"
                                 /\ \A m \in DOMAIN y : m <= k
                                 /\ \A d \in linked : Listed(y, d, k)
                /\ \A d : Lists(y[k], d) => c.cmd = "peerReq" /\ d \in linked
                /\ OwnOf(y, k, "info") => c.cmd = "remove"
                /\ OwnOf(y, k, "ack") => c.cmd \in Writing \cup {"add"}
<1>1. PICK x \in Seq(Answers) :
        /\ answers' = answers \o x
        /\ \A k \in DOMAIN x :
             /\ x[k].kind = "peerEnd" =>
                  /\ c.cmd = "peerReq" /\ \A m \in DOMAIN x : m <= k
                  /\ \A d \in linked : \E i \in DOMAIN x :
                       /\ i < k /\ x[i].kind = "peer" /\ x[i].payload = d
                       /\ \A n \in DOMAIN x :
                            i <= n /\ n < k => x[n].kind = "peer"
             /\ x[k].kind = "peer" =>
                  c.cmd = "peerReq" /\ x[k].payload \in linked
             /\ x[k].kind = "info" => c.cmd = "remove"
             /\ x[k].kind = "ack" => c.cmd \in Writing \cup {"add"}
  BY ObeySends
<1> DEFINE y == [i \in DOMAIN x |-> Packet(x[i].kind, TRUE, x[i].payload)]
<1>2. Coming' = Coming \o y
  BY <1>1, ComingGrows
<1>3. y \in Seq(ComingPackets) /\ DOMAIN y = DOMAIN x
  <2>1. /\ DOMAIN x = 1 .. Len(x) /\ Len(x) \in Nat
        /\ \A i \in DOMAIN x : x[i] \in Answers
    OBVIOUS
  <2>2. y \in [1 .. Len(x) -> ComingPackets]
    BY <2>1 DEF ComingPackets
  <2>3. QED
    BY <2>1, <2>2, SeqOf
<1>4. \A k \in DOMAIN x : /\ y[k].kind = x[k].kind /\ y[k].own
                          /\ y[k].payload = x[k].payload
  BY DEF Packet
<1> HIDE DEF y
<1>5. ASSUME NEW k \in DOMAIN y, Ends(y[k]), NEW d \in linked
      PROVE  c.cmd = "peerReq" /\ Listed(y, d, k)
  <2>1. PICK i \in DOMAIN x :
          /\ i < k /\ x[i].kind = "peer" /\ x[i].payload = d
          /\ \A n \in DOMAIN x : i <= n /\ n < k => x[n].kind = "peer"
    <3>1. k \in DOMAIN x /\ x[k].kind = "peerEnd"
      BY <1>3, <1>4, <1>5 DEF Ends
    <3>2. QED
      BY <3>1, <1>1
  <2>2. i < k /\ Lists(y[i], d)
        /\ \A n \in DOMAIN y : i <= n /\ n < k => ~ Stop(y[n])
    BY <2>1, <1>3, <1>4 DEF Lists, Stop
  <2>3. QED
    BY <2>1, <2>2, <1>1, <1>3, <1>4, <1>5 DEF Listed, Ends
<1>6. ASSUME NEW k \in DOMAIN y
      PROVE  /\ Ends(y[k]) =>
                  c.cmd = "peerReq" /\ \A m \in DOMAIN y : m <= k
             /\ \A d : Lists(y[k], d) => c.cmd = "peerReq" /\ d \in linked
             /\ OwnOf(y, k, "info") => c.cmd = "remove"
             /\ OwnOf(y, k, "ack") => c.cmd \in Writing \cup {"add"}
  <2>1. /\ k \in DOMAIN x /\ y[k].own
        /\ y[k].kind = x[k].kind /\ y[k].payload = x[k].payload
    BY <1>3, <1>4
  <2>2. /\ x[k].kind = "peerEnd" =>
             c.cmd = "peerReq" /\ \A m \in DOMAIN x : m <= k
        /\ x[k].kind = "peer" => c.cmd = "peerReq" /\ x[k].payload \in linked
        /\ x[k].kind = "info" => c.cmd = "remove"
        /\ x[k].kind = "ack" => c.cmd \in Writing \cup {"add"}
    BY <1>1, <2>1
  <2>3. QED
    BY <1>3, <2>1, <2>2 DEF Ends, Lists, OwnOf
<1>7. QED
  BY <1>2, <1>3, <1>5, <1>6

LEMMA LaterList ==
  ASSUME NEW T, NEW q \in Seq(T), NEW x \in Seq(T), NEW d,
         NEW k \in DOMAIN x, Listed(x, d, k)
  PROVE  Listed(q \o x, d, Len(q) + k)
<1> DEFINE a == q \o x
           l == Len(q)
<1>1. /\ l \in Nat /\ Len(x) \in Nat /\ DOMAIN x = 1 .. Len(x)
      /\ DOMAIN a = 1 .. l + Len(x)
      /\ \A i \in DOMAIN a : a[i] = IF i <= l THEN q[i] ELSE x[i - l]
  OBVIOUS
<1> HIDE DEF a, l
<1>2. /\ \A i \in DOMAIN x : l + i \in DOMAIN a /\ a[l + i] = x[i]
      /\ \A i \in DOMAIN a : i > l => i - l \in DOMAIN x /\ a[i] = x[i - l]
  <2>1. ASSUME NEW i \in DOMAIN x
        PROVE  l + i \in DOMAIN a /\ a[l + i] = x[i]
    <3>1. l + i \in DOMAIN a /\ ~ (l + i <= l) /\ (l + i) - l = i
      BY ONLY <1>1, <2>1
    <3>2. QED
      BY ONLY <1>1, <3>1
  <2>2. ASSUME NEW i \in DOMAIN a, i > l
        PROVE  i - l \in DOMAIN x /\ a[i] = x[i - l]
    <3>1. i - l \in DOMAIN x /\ ~ (i <= l)
      BY ONLY <1>1, <2>2
    <3>2. QED
      BY ONLY <1>1, <3>1, <2>2
  <2>3. QED
    BY <2>1, <2>2
<1>3. PICK i \in DOMAIN x :
        /\ i < k /\ Lists(x[i], d)
        /\ \A n \in DOMAIN x : i <= n /\ n < k => ~ Stop(x[n])
  BY DEF Listed
<1>4. l + i \in DOMAIN a /\ l + i < l + k /\ Lists(a[l + i], d)
  BY <1>1, <1>2, <1>3
<1>5. ASSUME NEW n \in DOMAIN a, l + i <= n, n < l + k
      PROVE  ~ Stop(a[n])
  <2>1. n - l \in DOMAIN x /\ i <= n - l /\ n - l < k /\ a[n] = x[n - l]
    BY <1>1, <1>2, <1>3, <1>5
  <2>2. QED
    BY <2>1, <1>3
<1>6. QED
  BY <1>4, <1>5 DEF Listed, a, l

\* A command gives the device new answers, or the device is as before.
LEMMA TransmitLists ==
  ASSUME TypeOK, CommandInv, Transmit
  PROVE  /\ ComingLists => ComingLists'
         /\ WholeLists => WholeLists'
         /\ FirstList => FirstList'
<1> DEFINE c == Coming
           q == toHost
<1>1. CASE UNCHANGED device
  <2>1. /\ Coming' = Coming /\ Unwanted' = Unwanted /\ toHost' = toHost
        /\ \A d : Read(d)' = Read(d)
    BY <1>1 DEF Transmit, device, reading, Coming, Unwanted, Read
  <2>2. QED
    BY <2>1 DEF ComingLists, WholeLists, FirstList
<1>2. CASE Obey(Head(toGW))
  <2>1. Head(toGW) \in Commands
    BY DEF Transmit, TypeOK
  <2>2. PICK y \in Seq(ComingPackets) :
          /\ c' = c \o y
          /\ \A k \in DOMAIN y :
               Ends(y[k]) => \A d \in linked : Listed(y, d, k)
    BY <1>2, <2>1, ComingObeys
  <2>3. /\ Unwanted' \subseteq Unwanted /\ Unwanted \subseteq linked
        /\ toHost' = toHost /\ \A d : Read(d)' = Read(d)
    BY PeersShrink DEF Transmit, reading, Read, Next, Unwanted
  <2>4. c \in Seq(ComingPackets)
    BY ComingType
  <2>5. ASSUME NEW d \in Unwanted', NEW k \in DOMAIN c', Ends(c'[k])
        PROVE  \/ /\ k \in DOMAIN c /\ c'[k] = c[k]
                  /\ Leads(c', k) <=> Leads(c, k)
                  /\ Listed(c', d, k) <=> Listed(c, d, k)
               \/ Listed(c', d, k)
    <3>1. /\ Len(c) \in Nat /\ Len(y) \in Nat /\ DOMAIN c = 1 .. Len(c)
          /\ DOMAIN y = 1 .. Len(y) /\ DOMAIN c' = 1 .. Len(c) + Len(y)
          /\ \A i \in DOMAIN c' : c'[i] = IF i <= Len(c) THEN c[i]
                                          ELSE y[i - Len(c)]
      BY <2>2, <2>4
    <3> HIDE DEF c
    <3>2. CASE k <= Len(c)
      <4>1. k \in DOMAIN c /\ c'[k] = c[k] /\ k \in 1 .. Last(c)
        BY <3>1, <3>2 DEF Last
      <4>2. QED
        BY <4>1, <2>2, <2>4, LongerList
    <3>3. CASE ~ (k <= Len(c))
      <4>1. k - Len(c) \in DOMAIN y /\ c'[k] = y[k - Len(c)]
            /\ Len(c) + (k - Len(c)) = k
        BY <3>1, <3>3
      <4>2. Listed(y, d, k - Len(c))
        BY <4>1, <2>2, <2>3, <2>5
      <4>3. QED
        BY <4>1, <4>2, <2>2, <2>4, LaterList
    <3>4. QED
      BY <3>2, <3>3
  <2> HIDE DEF c
  <2>6. ComingLists => ComingLists'
    BY <2>3, <2>5 DEF ComingLists, c
  <2>7. WholeLists => WholeLists'
    BY <2>3, <2>5 DEF WholeLists, c
  <2>8. FirstList => FirstList'
    BY <2>3, <2>5 DEF FirstList, c
  <2>9. QED
    BY <2>6, <2>7, <2>8
<1>3. QED
  BY <1>1, <1>2 DEF Transmit

\* Steps of the process leave what is to come alone.
LEMMA ComingStays ==
  ASSUME UNCHANGED <<answers, linked>>, ComingLists PROVE ComingLists'
<1>1. Coming' = Coming /\ Unwanted' = Unwanted
  BY DEF Coming, Unwanted
<1>2. QED
  BY <1>1 DEF ComingLists

LEMMA ListsStay ==
  ASSUME UNCHANGED <<answers, linked, toHost, peers>>
  PROVE  (WholeLists => WholeLists') /\ (FirstList => FirstList')
<1>1. /\ Coming' = Coming /\ Unwanted' = Unwanted /\ toHost' = toHost
      /\ \A d : Read(d)' = Read(d)
  BY DEF Coming, Unwanted, Read
<1>2. QED
  BY <1>1 DEF WholeLists, FirstList

\* The process reads a packet that is not one of its device's peers.
LEMMA OtherRead ==
  ASSUME TypeOK, Receive, UNCHANGED peers, WholeLists,
         ~ (Head(toHost).own /\ Head(toHost).kind = "peer")
  PROVE  WholeLists' /\ (Stop(Head(toHost)) \/ FirstList => FirstList')
<1>1. \A d : Read(d) \/ Lists(Head(toHost), d) => Read(d)'
  BY DEF Read, Lists
<1>2. QED
  BY <1>1, ReadingLists

LEMMA ListInvInit == Init => ListInv
<1>1. SUFFICES ASSUME Init PROVE ListInv
  OBVIOUS
<1>2. DOMAIN Coming = {} /\ DOMAIN toHost = {}
  BY <1>1 DEF Init, Coming
<1>3. QED
  BY <1>2 DEF ListInv, ComingLists, WholeLists, FirstList

\* The invariant about the lists.  What a process reads belongs to a whole
\* list from the end of a dump on, for the dump is asked for first.
LEMMA ListInvStep == TypeOK /\ CommandInv /\ ListInv /\ [Next]_vars => ListInv'
<1>1. SUFFICES ASSUME TypeOK, CommandInv, ListInv, [Next]_vars PROVE ListInv'
  OBVIOUS
<1>2. Process => UNCHANGED <<answers, linked>>
  BY DEF Process, Send, ConfirmDrops, ConfirmAcked, ReadParams, OthersRead,
     OthersDone, ReadPeers, ReadPeerAck, Start, Drop, Receive, device
<1>3. Process => ComingLists'
  BY <1>1, <1>2, ComingStays DEF ListInv
<1>4. CASE Send \/ OthersDone \/ Crash \/ UNCHANGED vars
  <2>1. /\ UNCHANGED <<answers, linked, toHost, peers, dropped>>
        /\ pc' # "down" => pc # "down" /\ step' = step
    BY <1>1, <1>4 DEF Send, OthersDone, Crash, Fail, Continue, vars, reading, line,
       device, history, TypeOK
  <2>2. QED
    BY <2>1, <1>1, ComingStays, ListsStay DEF ListInv
<1>5. CASE Start
  <2>1. toHost' = <<>> /\ step' = "paramReq"
    BY <1>5 DEF Start, Continue
  <2>2. Leads(toHost', Last(toHost'))
    BY <2>1 DEF Leads
  <2>3. DOMAIN toHost' = {}
    BY <2>1
  <2>4. WholeLists'
    BY <2>2, <2>3 DEF WholeLists
  <2>5. ComingLists'
    BY <1>3, <1>5 DEF Process
  <2>6. step' \notin Writing \cup {"peerReq"}
    BY <2>1 DEF Writing
  <2>7. QED
    BY <2>4, <2>5, <2>6 DEF ListInv
<1>6. CASE ConfirmDrops \/ OthersRead
  <2>1. /\ Drop /\ Receive /\ UNCHANGED <<peers, pc, step>>
        /\ dropped' = (dropped \/ Needed(Head(toHost)))
    BY <1>6 DEF ConfirmDrops, OthersRead, Drop, reading
  <2>2. ~ dropped' => /\ ~ (Head(toHost).own /\ Head(toHost).kind = "peer")
                      /\ ~ dropped
    BY <2>1 DEF Needed
  <2>3. ComingLists'
    BY <1>3, <1>6 DEF Process
  <2>4. QED
    BY <2>1, <2>2, <2>3, <1>1, OtherRead DEF ListInv
<1>7. CASE ConfirmAcked
  <2>1. /\ Receive /\ UNCHANGED <<peers, dropped>> /\ pc # "down"
        /\ Head(toHost).kind = "appAck"
    BY <1>7 DEF ConfirmAcked
  <2>2. step' \in Writing \cup {"peerReq"} => step \in Writing \cup {"peerReq"}
    BY <1>1, <1>7 DEF ConfirmAcked, Continue, Asking, Writing, TypeOK
  <2>3. ComingLists'
    BY <1>3, <1>7 DEF Process
  <2>4. QED
    BY <2>1, <2>2, <2>3, <1>1, OtherRead DEF ListInv
<1>8. CASE ReadParams
  <2>1. Receive /\ UNCHANGED <<peers, dropped>> /\ pc # "down" /\ step = "paramReq"
    BY <1>8 DEF ReadParams
  <2>2. pc' # "down" => ~ (Head(toHost).own /\ Head(toHost).kind = "peer")
    BY <1>8 DEF ReadParams, Foreign, Fail, Continue
  <2>3. pc' # "down" /\ step' \in Writing \cup {"peerReq"} => Stop(Head(toHost))
    <3>1. pc' # "down" /\ step' # step =>
            ~ Foreign(Head(toHost)) /\ Head(toHost).kind = "paramEnd"
      BY <1>8 DEF ReadParams, Fail, Continue
    <3>2. step' = step => step' \notin Writing \cup {"peerReq"}
      BY <2>1 DEF Writing
    <3>3. QED
      BY <3>1, <3>2, <1>1, <2>1 DEF Foreign, Stop, Receive, TypeOK
  <2>4. ComingLists'
    BY <1>3, <1>8 DEF Process
  <2>5. QED
    BY <2>1, <2>2, <2>3, <2>4, <1>1, OtherRead DEF ListInv
<1>9. CASE ReadPeers
  <2>1. Receive /\ UNCHANGED dropped /\ pc # "down" /\ step = "peerReq"
    BY <1>9 DEF ReadPeers
  <2>2. \A d : Read(d) \/ Lists(Head(toHost), d) => Read(d)'
    <3>1. CASE peers' = Append(peers, Head(toHost).payload)
      <4>1. /\ \A i \in DOMAIN peers : i \in DOMAIN peers' /\ peers'[i] = peers[i]
            /\ Len(peers) + 1 \in DOMAIN peers'
            /\ peers'[Len(peers) + 1] = Head(toHost).payload
        BY <3>1, <1>1 DEF TypeOK
      <4>2. QED
        BY <4>1 DEF Read, Lists
    <3>2. CASE UNCHANGED peers /\ (Foreign(Head(toHost)) \/ Head(toHost).kind # "peer")
      BY <3>2 DEF Read, Lists, Foreign
    <3>3. QED
      BY <3>1, <3>2, <1>9 DEF ReadPeers
  <2>3. ComingLists'
    BY <1>3, <1>9 DEF Process
  <2>4. WholeLists => WholeLists' /\ (FirstList => FirstList')
    BY <2>1, <2>2, <1>1, ReadingLists
  <2>5. QED
    BY <2>1, <2>3, <2>4, <1>1 DEF ListInv
<1>10. CASE ReadPeerAck
  <2>1. Receive /\ UNCHANGED <<peers, dropped>> /\ pc # "down"
    BY <1>10 DEF ReadPeerAck, reading
  <2>2. pc' # "down" => Head(toHost).kind # "peer" /\ step' = "add"
    BY <1>10 DEF ReadPeerAck, IsPeerAck, Fail, Continue
  <2>3. ComingLists'
    BY <1>3, <1>10 DEF Process
  <2>4. "add" \notin Writing \cup {"peerReq"}
    BY DEF Writing
  <2>5. QED
    BY <2>1, <2>2, <2>3, <2>4, <1>1, OtherRead DEF ListInv
<1>11. CASE Transmit
  <2>1. UNCHANGED <<pc, step, dropped>>
    BY <1>11 DEF Transmit
  <2>2. QED
    BY <2>1, <1>1, <1>11, TransmitLists DEF ListInv
<1>12. CASE Ack
  <2>1. /\ UNCHANGED <<pc, step, dropped, answers, linked, peers>>
        /\ Arrives(Packet("appAck", FALSE, Zero))
    BY <1>12 DEF Ack, reading, device, history
  <2>2. /\ Packet("appAck", FALSE, Zero) \in Packets
        /\ ~ Packet("appAck", FALSE, Zero).own
    BY DEF Packet, Packets
  <2>3. ~ Stop(Packet("appAck", FALSE, Zero))
    BY <2>2 DEF Stop
  <2>4. pc # "down" => (WholeLists => WholeLists') /\ (FirstList => FirstList')
    BY <2>1, <2>2, <2>3, <1>1, PassingLists
  <2>5. QED
    BY <2>1, <2>4, <1>1, ComingStays DEF ListInv
<1>13. CASE Answer
  <2>1. UNCHANGED <<pc, step>> /\ (~ dropped' => ~ dropped)
    <3>1. UNCHANGED <<pc, step>>
      BY <1>13 DEF Answer
    <3>2. ~ dropped' => ~ dropped
      BY <1>1, <1>13, AnswerArrives
    <3>3. QED
      BY <3>1, <3>2
  <2>2. QED
    BY <2>1, <1>1, <1>13, AnswerLists DEF ListInv
<1>14. CASE Event
  <2>1. /\ UNCHANGED <<pc, step, dropped, answers, linked, peers>> /\ pc # "down"
        /\ \E p \in Unasked : Arrives(p)
    BY <1>14 DEF Event, reading, device
  <2>2. PICK p \in Unasked : Arrives(p)
    BY <2>1
  <2>3. p \in Packets /\ ~ Stop(p) /\ ~ (p.own /\ p.kind = "peer")
    <3>1. p.own => p.kind \in {"event", "warm"}
      BY DEF Unasked, Packet
    <3>2. QED
      BY <3>1, UnaskedType DEF Stop
  <2>4. (WholeLists => WholeLists') /\ (FirstList => FirstList')
    BY <2>1, <2>2, <2>3, <1>1, PassingLists
  <2>5. QED
    BY <2>1, <2>4, <1>1, ComingStays DEF ListInv
<1>15. QED
  BY <1>1, <1>4, <1>5, <1>6, <1>7, <1>8, <1>9, <1>10, <1>11, <1>12, <1>13, <1>14
     DEF Next, Process

----------------------------------------------------------------------------
(* The peers as the process knows them *)

LEMMA TailIs ==
  ASSUME NEW T, NEW q \in Seq(T), q # <<>>
  PROVE  /\ 1 \in DOMAIN q /\ Head(q) = q[1]
         /\ \A k \in DOMAIN Tail(q) : k + 1 \in DOMAIN q /\ Tail(q)[k] = q[k + 1]
OBVIOUS

LEMMA AppendIs ==
  ASSUME NEW T, NEW q \in Seq(T), NEW p \in T
  PROVE  \A k \in DOMAIN Append(q, p) :
           \/ k \in DOMAIN q /\ Append(q, p)[k] = q[k]
           \/ k = Len(q) + 1 /\ Append(q, p)[k] = p
OBVIOUS

LEMMA ConcatHas ==
  ASSUME NEW T, NEW q \in Seq(T), NEW x \in Seq(T)
  PROVE  \A k \in DOMAIN (q \o x) :
           \/ k \in DOMAIN q /\ (q \o x)[k] = q[k]
           \/ k - Len(q) \in DOMAIN x /\ (q \o x)[k] = x[k - Len(q)]
OBVIOUS

\* How the queues change: what the process finds there next, and what the
\* device has still to send.
LEMMA QueueSteps ==
  ASSUME TypeOK, [Next]_vars
  PROVE  \/ UNCHANGED <<toHost, Coming>>
         \/ toHost' = <<>> /\ Coming' = Coming
         \/ Receive /\ Coming' = Coming
         \/ /\ Coming' = Coming
            /\ \E p \in Packets :
                 /\ toHost' = Append(toHost, p)
                 /\ p.own => p.kind \in {"event", "warm"}
         \/ /\ Coming # <<>> /\ Coming' = Tail(Coming)
            /\ \/ UNCHANGED toHost
               \/ \E p \in Packets :
                    /\ toHost' = Append(toHost, p)
                    /\ p.own /\ p.kind = Coming[1].kind
                    /\ p.kind # "param" => p.payload = Coming[1].payload
         \/ /\ Transmit /\ Obey(Head(toGW)) /\ Head(toGW) \in Commands
            /\ UNCHANGED <<toHost, lost>>
<1>1. UNCHANGED answers => Coming' = Coming
  BY DEF Coming
<1>2. CASE Process
  BY <1>1, <1>2 DEF Process, Send, ConfirmDrops, ConfirmAcked, ReadParams, OthersRead,
     OthersDone, ReadPeers, ReadPeerAck, Start, Drop, Receive, line, device
<1>3. CASE Crash \/ UNCHANGED vars
  BY <1>1, <1>3 DEF Crash, vars, line, device
<1>4. CASE Transmit
  BY <1>1, <1>4 DEF Transmit, device, TypeOK
<1>5. CASE Ack
  <2>1. /\ Packet("appAck", FALSE, Zero) \in Packets
        /\ ~ Packet("appAck", FALSE, Zero).own
    BY DEF Packet, Packets
  <2>2. Arrives(Packet("appAck", FALSE, Zero)) /\ Coming' = Coming
    BY <1>1, <1>5 DEF Ack, device
  <2>3. QED
    BY <2>1, <2>2 DEF Arrives
<1>6. CASE Event
  <2>1. PICK p \in Unasked : Arrives(p)
    BY <1>6 DEF Event
  <2>2. p \in Packets /\ (p.own => p.kind \in {"event", "warm"})
    <3>1. p.own => p.kind \in {"event", "warm"}
      BY DEF Unasked, Packet
    <3>2. QED
      BY <3>1, UnaskedType
  <2>3. Coming' = Coming
    BY <1>1, <1>6 DEF Event, device
  <2>4. QED
    BY <2>1, <2>2, <2>3 DEF Arrives
<1>7. CASE Answer
  <2>1. PICK p \in Packets :
          /\ \/ Arrives(p) /\ UNCHANGED dropped
             \/ dropped' = (dropped \/ Needed(p)) /\ UNCHANGED toHost
          /\ Coming # <<>> /\ Coming' = Tail(Coming)
          /\ p.own /\ p.kind = Coming[1].kind
          /\ p.kind # "param" => p.payload = Coming[1].payload
    BY <1>7, AnswerArrives
  <2>2. UNCHANGED toHost \/ toHost' = Append(toHost, p)
    BY <2>1 DEF Arrives
  <2>3. QED
    BY <2>1, <2>2
<1>8. QED
  BY <1>2, <1>3, <1>4, <1>5, <1>6, <1>7 DEF Next

\* A kind of answer that is not under way stays so until a command asks
\* for it.
Asks(c, kind) ==
  CASE kind = "peerEnd" -> c.cmd = "peerReq"
    [] kind = "info"    -> c.cmd = "remove"
    [] kind = "ack"     -> c.cmd \in Writing \cup {"add"}

LEMMA NoneStays ==
  ASSUME TypeOK, [Next]_vars, NEW kind \in {"peerEnd", "info", "ack"}, None(kind),
         Transmit /\ Obey(Head(toGW)) /\ UNCHANGED lost =>
           ~ Asks(Head(toGW), kind)
  PROVE  None(kind)'
<1>1. toHost \in Seq(Packets) /\ Coming \in Seq(ComingPackets)
      /\ \A k \in DOMAIN Coming : Coming[k].own
  BY ComingType DEF TypeOK
<1>2. /\ \A k \in DOMAIN toHost : ~ OwnOf(toHost, k, kind)
      /\ \A k \in DOMAIN Coming : ~ OwnOf(Coming, k, kind)
  BY DEF None
<1> SUFFICES /\ \A k \in DOMAIN toHost' : ~ OwnOf(toHost', k, kind)
             /\ \A k \in DOMAIN Coming' : ~ OwnOf(Coming', k, kind)
  BY DEF None, OwnOf
<1>3. CASE UNCHANGED <<toHost, Coming>>
  BY <1>2, <1>3
<1>4. CASE toHost' = <<>> /\ Coming' = Coming
  <2>1. DOMAIN toHost' = {}
    BY <1>4
  <2>2. QED
    BY <2>1, <1>2, <1>4
<1>5. CASE Receive /\ Coming' = Coming
  BY <1>1, <1>2, <1>5, TailIs DEF Receive, OwnOf
<1>6. CASE /\ Coming' = Coming
           /\ \E p \in Packets : /\ toHost' = Append(toHost, p)
                                 /\ p.own => p.kind \in {"event", "warm"}
  <2>1. PICK p \in Packets : /\ toHost' = Append(toHost, p)
                             /\ p.own => p.kind \in {"event", "warm"}
    BY <1>6
  <2>2. QED
    BY <1>1, <1>2, <1>6, <2>1, AppendIs DEF OwnOf
<1>7. CASE /\ Coming # <<>> /\ Coming' = Tail(Coming)
           /\ \/ UNCHANGED toHost
              \/ \E p \in Packets : /\ toHost' = Append(toHost, p)
                                    /\ p.own /\ p.kind = Coming[1].kind
  <2>1. \A k \in DOMAIN Coming' : ~ OwnOf(Coming', k, kind)
    BY <1>1, <1>2, <1>7, TailIs DEF OwnOf
  <2>2. 1 \in DOMAIN Coming /\ Coming[1].own
    BY <1>1, <1>7, TailIs
  <2>3. ASSUME NEW p \in Packets, toHost' = Append(toHost, p),
               p.kind = Coming[1].kind
        PROVE  \A k \in DOMAIN toHost' : ~ OwnOf(toHost', k, kind)
    BY <1>1, <1>2, <2>2, <2>3, AppendIs DEF OwnOf
  <2>4. QED
    BY <1>2, <1>7, <2>1, <2>3
<1>8. CASE /\ Transmit /\ Obey(Head(toGW)) /\ Head(toGW) \in Commands
           /\ UNCHANGED <<toHost, lost>>
  <2> DEFINE c == Head(toGW)
  <2>1. PICK y \in Seq(ComingPackets) :
          /\ Coming' = Coming \o y
          /\ \A k \in DOMAIN y :
               /\ Ends(y[k]) => c.cmd = "peerReq"
               /\ OwnOf(y, k, "info") => c.cmd = "remove"
               /\ OwnOf(y, k, "ack") => c.cmd \in Writing \cup {"add"}
    BY <1>8, ComingObeys
  <2>2. ~ Asks(c, kind)
    BY <1>8
  <2>3. \A k \in DOMAIN y : ~ OwnOf(y, k, kind)
    <3>1. CASE kind = "peerEnd"
      BY <3>1, <2>1, <2>2 DEF Asks, Ends, OwnOf
    <3>2. CASE kind = "info"
      BY <3>2, <2>1, <2>2 DEF Asks
    <3>3. CASE kind = "ack"
      BY <3>3, <2>1, <2>2 DEF Asks
    <3>4. QED
      BY <3>1, <3>2, <3>3
  <2>4. \A k \in DOMAIN Coming' : ~ OwnOf(Coming', k, kind)
    BY <1>1, <1>2, <2>1, <2>3, ConcatHas DEF OwnOf
  <2>5. QED
    BY <1>2, <1>8, <2>4
<1>9. QED
  BY <1>3, <1>4, <1>5, <1>6, <1>7, <1>8, QueueSteps

\* The wanted peer is listed only by a device that has it.
LEMMA WantedInvStep == TypeOK /\ CommandInv /\ WantedInv /\ [Next]_vars => WantedInv'
<1>1. SUFFICES ASSUME TypeOK, CommandInv, WantedInv, [Next]_vars,
                      Wanted \notin linked'
               PROVE  /\ \A k \in DOMAIN toHost' : ~ Lists(toHost'[k], Wanted)
                      /\ \A k \in DOMAIN Coming' : ~ Lists(Coming'[k], Wanted)
                      /\ \A i \in DOMAIN peers' : peers'[i] # Wanted
  BY DEF WantedInv, Read
<1>2. /\ Wanted \notin linked
      /\ \A k \in DOMAIN toHost : ~ Lists(toHost[k], Wanted)
      /\ \A k \in DOMAIN Coming : ~ Lists(Coming[k], Wanted)
      /\ \A i \in DOMAIN peers : peers[i] # Wanted
  BY <1>1, PeersShrink DEF WantedInv, Read
<1>3. /\ toHost \in Seq(Packets) /\ Coming \in Seq(ComingPackets)
      /\ peers \in Seq(Devices) /\ \A k \in DOMAIN Coming : Coming[k].own
  BY <1>1, ComingType DEF TypeOK
<1>4. \A i \in DOMAIN peers' : peers'[i] # Wanted
  <2>1. CASE UNCHANGED peers \/ peers' = <<>>
    <3>1. DOMAIN <<>> = {}
      OBVIOUS
    <3>2. QED
      BY <2>1, <3>1, <1>2
  <2>2. CASE ReadPeers /\ ~ UNCHANGED peers
    <3>1. /\ peers' = Append(peers, Head(toHost).payload)
          /\ toHost # <<>> /\ ~ Foreign(Head(toHost)) /\ Head(toHost).kind = "peer"
      BY <2>2 DEF ReadPeers, Receive
    <3>2. 1 \in DOMAIN toHost /\ toHost[1] = Head(toHost)
      BY <1>3, <3>1, TailIs
    <3>3. toHost[1] \in Packets /\ toHost[1].kind = "peer"
      BY <1>3, <3>1, <3>2
    <3>4. toHost[1].payload \in Devices
      BY <3>3 DEF Packets
    <3>5. toHost[1].payload # Wanted
      <4>1. toHost[1].own
        BY <3>1, <3>2 DEF Foreign
      <4>2. QED
        BY <4>1, <3>2, <3>3, <1>2 DEF Lists
    <3>6. QED
      BY <1>2, <1>3, <3>1, <3>2, <3>4, <3>5, AppendIs
  <2>3. QED
    BY <1>1, <2>1, <2>2 DEF Next, Process, Send, ConfirmDrops, ConfirmAcked,
       ReadParams, OthersRead, OthersDone, ReadPeers, ReadPeerAck, Start, Drop,
       Transmit, Ack, Answer, Event, Crash, vars, reading
<1>5. CASE UNCHANGED <<toHost, Coming>>
  BY <1>2, <1>4, <1>5
<1>6. CASE toHost' = <<>> /\ Coming' = Coming
  <2>1. DOMAIN toHost' = {}
    BY <1>6
  <2>2. QED
    BY <2>1, <1>2, <1>4, <1>6
<1>7. CASE Receive /\ Coming' = Coming
  BY <1>2, <1>3, <1>4, <1>7, TailIs DEF Receive
<1>8. CASE /\ Coming' = Coming
           /\ \E p \in Packets : /\ toHost' = Append(toHost, p)
                                 /\ p.own => p.kind \in {"event", "warm"}
  <2>1. PICK p \in Packets : /\ toHost' = Append(toHost, p)
                             /\ p.own => p.kind \in {"event", "warm"}
    BY <1>8
  <2>2. ~ Lists(p, Wanted)
    BY <2>1 DEF Lists
  <2>3. QED
    BY <1>2, <1>3, <1>4, <1>8, <2>1, <2>2, AppendIs
<1>9. CASE /\ Coming # <<>> /\ Coming' = Tail(Coming)
           /\ \/ UNCHANGED toHost
              \/ \E p \in Packets :
                   /\ toHost' = Append(toHost, p)
                   /\ p.own /\ p.kind = Coming[1].kind
                   /\ p.kind # "param" => p.payload = Coming[1].payload
  <2>1. \A k \in DOMAIN Coming' : ~ Lists(Coming'[k], Wanted)
    BY <1>2, <1>3, <1>9, TailIs
  <2>2. 1 \in DOMAIN Coming /\ Coming[1].own /\ ~ Lists(Coming[1], Wanted)
    BY <1>2, <1>3, <1>9, TailIs
  <2>3. ASSUME NEW p \in Packets, toHost' = Append(toHost, p),
               p.kind = Coming[1].kind,
               p.kind # "param" => p.payload = Coming[1].payload
        PROVE  \A k \in DOMAIN toHost' : ~ Lists(toHost'[k], Wanted)
    <3>1. ~ Lists(p, Wanted)
      BY <2>2, <2>3 DEF Lists
    <3>2. QED
      BY <1>2, <1>3, <2>3, <3>1, AppendIs
  <2>4. QED
    BY <1>2, <1>4, <1>9, <2>1, <2>3
<1>10. CASE Transmit /\ Obey(Head(toGW)) /\ Head(toGW) \in Commands /\ UNCHANGED toHost
  <2>1. PICK y \in Seq(ComingPackets) :
          /\ Coming' = Coming \o y
          /\ \A k \in DOMAIN y : \A d : Lists(y[k], d) => d \in linked
    BY <1>1, <1>10, ComingObeys
  <2>2. \A k \in DOMAIN y : ~ Lists(y[k], Wanted)
    BY <2>1, <1>2
  <2>3. \A k \in DOMAIN Coming' : ~ Lists(Coming'[k], Wanted)
    BY <1>2, <1>3, <2>1, <2>2, ConcatHas
  <2>4. QED
    BY <1>2, <1>4, <1>10, <2>3
<1>11. QED
  BY <1>1, <1>5, <1>6, <1>7, <1>8, <1>9, <1>10, QueueSteps

\* A command that is with the gateway is the one the process is at.
LEMMA InFlight ==
  ASSUME TypeOK, LineInv, pc # "down", toGW # <<>>
  PROVE  /\ pc = "confirm" /\ ~ Sent
         /\ 1 \in DOMAIN toGW /\ Head(toGW) = toGW[1] /\ toGW[1] \in Commands
         /\ toGW[1].cmd = step
<1>1. pc = "confirm" /\ toGW[1].cmd = step
  BY DEF LineInv
<1>2. 1 \in DOMAIN toGW /\ Head(toGW) = toGW[1] /\ toGW[1] \in Commands
  BY DEF TypeOK
<1>3. QED
  BY <1>1, <1>2 DEF Sent, Transmitted

\* Once it is acked it has been transmitted.
LEMMA AckedIsSent ==
  ASSUME TypeOK, LineInv, ConfirmAcked
  PROVE  Transmitted
<1>1. pc = "confirm" /\ toHost # <<>> /\ Head(toHost).kind = "appAck"
  BY DEF ConfirmAcked
<1>2. ~ NoAck(toHost)
  BY <1>1, TailAcks DEF TypeOK
<1>3. QED
  BY <1>1, <1>2 DEF LineInv, Transmitted

\* What the steps of a process that stays up do to where it is.
LEMMA StepChanges ==
  ASSUME TypeOK, LineInv, [Next]_vars, pc # "down", pc' # "down"
  PROVE  \/ UNCHANGED <<step, peers, lost>> /\ (Sent' <=> Sent) /\ pc' = pc
         \/ /\ Send \/ OthersDone
            /\ UNCHANGED <<step, peers, lost, linked>>
            /\ ~ Sent' /\ ~ Sent /\ pc' # "done"
         \/ /\ ConfirmAcked /\ UNCHANGED <<peers, lost, linked>> /\ Sent /\ pc' # "done"
            /\ \/ step' = step /\ step \in Asking /\ Sent'
               \/ step \in Writing /\ step' \in Writing \cup {"peerReq"} /\ ~ Sent'
         \/ /\ ReadParams /\ UNCHANGED <<peers, lost, linked>> /\ pc' # "done"
            /\ step = "paramReq" /\ step' \in {"paramReq", "start", "peerReq"}
            /\ step' = "peerReq" => ~ Sent'
         \/ ReadPeers /\ UNCHANGED <<lost, linked>> /\ step = "peerReq" /\ Sent
         \/ /\ ReadPeerAck /\ UNCHANGED <<peers, lost, linked>> /\ Sent
            /\ \/ step = "remove" /\ step' = "add" /\ ~ Sent' /\ pc' = "send"
               \/ step = "add" /\ step' = "add" /\ Sent' /\ pc' = "done"
         \/ /\ Transmit /\ UNCHANGED <<pc, step, peers>> /\ toGW # <<>>
            /\ ~ Sent /\ Sent' /\ pc' # "done"
<1>1. CASE Send \/ OthersDone
  BY <1>1 DEF Send, OthersDone, Continue, reading, device, history, line, Sent,
     Transmitted
<1>2. CASE ConfirmDrops \/ OthersRead
  BY <1>2 DEF ConfirmDrops, OthersRead, Drop, Receive, reading, Sent, Transmitted
<1>3. CASE ConfirmAcked
  <2>1. UNCHANGED <<peers, lost, linked>>
    BY <1>3 DEF ConfirmAcked, Receive, device
  <2>2. Sent
    BY <1>3, AckedIsSent DEF Sent
  <2>3. step \in Asking \cup Writing
    BY DEF TypeOK
  <2>4. \/ step' = step /\ step \in Asking /\ pc' = "read"
        \/ /\ step \in Writing /\ step' \in Writing \cup {"peerReq"}
           /\ pc' \in {"send", "others"}
    BY <1>3, <2>3 DEF ConfirmAcked, Continue, Asking, Writing, AfterBlock
  <2>5. QED
    BY <1>3, <2>1, <2>2, <2>4 DEF Sent, Transmitted
<1>4. CASE ReadParams
  <2>1. UNCHANGED <<peers, lost, linked>> /\ step = "paramReq" /\ pc = "read"
    BY <1>4 DEF ReadParams, Receive, device
  <2>2. \/ UNCHANGED <<pc, step>>
        \/ pc' = "others" /\ step' = "peerReq"
        \/ pc' = "send" /\ step' = "start"
    BY <1>4 DEF ReadParams, Fail, Continue
  <2>3. QED
    BY <1>4, <2>1, <2>2 DEF Sent, Transmitted
<1>5. CASE ReadPeers
  BY <1>5 DEF ReadPeers, Receive, device, Sent
<1>6. CASE ReadPeerAck
  <2>1. /\ UNCHANGED <<peers, lost, linked>> /\ Sent
    BY <1>6 DEF ReadPeerAck, Receive, reading, device, Sent
  <2>2. \/ step = "remove" /\ pc' = "send" /\ step' = "add"
        \/ step = "add" /\ pc' = "done" /\ step' = "add"
    BY <1>6 DEF ReadPeerAck, Fail, Continue
  <2>3. QED
    BY <1>6, <2>1, <2>2 DEF Sent, Transmitted
<1>7. CASE Transmit
  <2>1. pc = "confirm" /\ ~ Sent /\ toGW # <<>>
    BY <1>7, InFlight DEF Transmit
  <2>2. UNCHANGED <<pc, step, peers>> /\ toGW' = <<>>
    BY <1>7 DEF Transmit, reading
  <2>3. QED
    BY <1>7, <2>1, <2>2 DEF Sent, Transmitted
<1>8. CASE Ack \/ Answer \/ Event \/ UNCHANGED vars
  BY <1>8 DEF Ack, Answer, Event, vars, reading, line, history, Sent, Transmitted
<1>9. CASE Start \/ Crash
  BY <1>9 DEF Start, Crash, Fail, Continue
<1>10. QED
  BY <1>1, <1>2, <1>3, <1>4, <1>5, <1>6, <1>7, <1>8, <1>9 DEF Next, Process

LEMMA OneLong ==
  ASSUME NEW T, NEW q \in Seq(T), q # <<>>, ~ (Len(q) > 1)
  PROVE  Len(q) = 1
<1>1. Len(q) \in Nat /\ 1 \in DOMAIN q /\ DOMAIN q = 1 .. Len(q)
  BY TailIs
<1>2. QED
  BY <1>1

\* Only Start brings a process up, and only it forgets.
LEMMA SameProcess ==
  ASSUME TypeOK, [Next]_vars, ~ Start
  PROVE  /\ pc' # "down" => pc # "down"
         /\ UNCHANGED late
         /\ fooled => fooled'
         /\ dropped => dropped'
         /\ lost \subseteq lost'
<1>1. pc' # "down" => pc # "down"
  BY DEF Next, Process, Send, ConfirmDrops, ConfirmAcked, ReadParams, OthersRead,
     OthersDone, ReadPeers, ReadPeerAck, Transmit, Ack, Answer, Event, Crash, vars
<1>2. UNCHANGED late
  BY DEF Next, Process, Send, ConfirmDrops, ConfirmAcked, ReadParams, OthersRead,
     OthersDone, ReadPeers, ReadPeerAck, Drop, Receive, Transmit, Ack, Answer, Event,
     Crash, vars, history
<1>3. fooled => fooled'
  <2>1. CASE ReadPeerAck
    <3>1. PICK good \in BOOLEAN : fooled' = (fooled \/ good)
      <4>1. fooled' = (fooled \/ (IsPeerAck(Head(toHost)) /\ ~ Head(toHost).own))
        BY <2>1 DEF ReadPeerAck
      <4>2. QED
        BY <4>1
    <3>2. QED
      BY <3>1
  <2>2. CASE ~ ReadPeerAck
    <3>1. UNCHANGED fooled
      BY <2>2 DEF Next, Process, Send, ConfirmDrops, ConfirmAcked, ReadParams,
         OthersRead, OthersDone, ReadPeers, Drop, Receive, Transmit, Ack, Answer,
         Event, Crash, vars, history
    <3>2. QED
      BY <3>1
  <2>3. QED
    BY <2>1, <2>2
<1>4. dropped => dropped'
  <2>1. CASE Drop
    BY <2>1 DEF Drop
  <2>2. CASE Answer
    BY <2>2, AnswerArrives
  <2>3. CASE ~ Drop /\ ~ Answer
    <3>1. UNCHANGED dropped
      BY <2>3 DEF Next, Process, Send, ConfirmDrops, ConfirmAcked, ReadParams,
         OthersRead, OthersDone, ReadPeers, ReadPeerAck, Receive, Transmit, Ack,
         Event, Crash, vars, history
    <3>2. QED
      BY <3>1
  <2>4. QED
    BY <2>1, <2>2, <2>3
<1>5. lost \subseteq lost'
  BY DEF Next, Process, Send, ConfirmDrops, ConfirmAcked, ReadParams, OthersRead,
     OthersDone, ReadPeers, ReadPeerAck, Drop, Receive, Transmit, Ack, Answer, Event,
     Crash, vars, history
<1>6. QED
  BY <1>1, <1>2, <1>3, <1>4, <1>5

LEMMA LostInvStep == TypeOK /\ LineInv /\ LostInv /\ [Next]_vars => LostInv'
<1>1. SUFFICES ASSUME TypeOK, LineInv, LostInv, [Next]_vars, pc' # "down"
               PROVE  LostInv'
  BY DEF LostInv
<1>2. CASE pc = "down"
  <2>1. lost' = {}
    BY <1>1, <1>2 DEF Next, Process, Send, ConfirmDrops, ConfirmAcked, ReadParams,
       OthersRead, OthersDone, ReadPeers, ReadPeerAck, Start, Transmit, Ack, Answer,
       Event, Crash, vars
  <2>2. QED
    BY <2>1 DEF LostInv
<1>3. CASE pc # "down" /\ ~ Transmit
  <2>1. CASE ReadPeers
    <3>1. UNCHANGED lost /\ step = "peerReq"
      BY <2>1 DEF ReadPeers, Receive
    <3>2. QED
      BY <3>1, <1>1, <1>3 DEF LostInv
  <2>2. CASE ~ ReadPeers
    <3>1. /\ UNCHANGED lost
          /\ \/ step' = step /\ (Sent => Sent')
             \/ step = "remove" /\ step' = "add" /\ ~ Sent'
             \/ step' \in Writing \cup {"paramReq", "peerReq"}
      BY <1>1, <1>3, <2>2, StepChanges DEF Writing
    <3>2. /\ (step \notin {"remove", "add"} \/ (step = "remove" /\ ~ Sent))
               => "remove" \notin lost
          /\ (step # "add" \/ ~ Sent) => "add" \notin lost
      BY <1>1, <1>3 DEF LostInv
    <3>3. CASE step' = step /\ (Sent => Sent')
      BY <3>1, <3>2, <3>3 DEF LostInv
    <3>4. CASE step = "remove" /\ step' = "add" /\ ~ Sent'
      BY <3>1, <3>2, <3>4 DEF LostInv
    <3>5. CASE step' \in Writing \cup {"paramReq", "peerReq"}
      BY <3>1, <3>2, <3>5, StepChanges, <1>1, <1>3, <2>2 DEF LostInv, Writing
    <3>6. QED
      BY <3>1, <3>3, <3>4, <3>5
  <2>3. QED
    BY <2>1, <2>2
<1>4. CASE pc # "down" /\ Transmit
  <2>1. ~ Sent /\ Sent' /\ toGW # <<>> /\ UNCHANGED step
    BY <1>1, <1>4, StepChanges, InFlight DEF Transmit, Sent, Transmitted
  <2>2. Head(toGW).cmd = step
    BY <1>1, <1>4, <2>1, InFlight
  <2>3. lost' = lost \/ lost' = lost \cup {step}
    BY <1>4, <2>2 DEF Transmit
  <2>4. QED
    BY <1>1, <1>4, <2>1, <2>3 DEF LostInv
<1>5. QED
  BY <1>2, <1>3, <1>4

LEMMA CommandInvStep ==
  TypeOK /\ LineInv /\ CommandInv /\ [Next]_vars => CommandInv'
<1>1. SUFFICES ASSUME TypeOK, LineInv, CommandInv, [Next]_vars
               PROVE  CommandInv'
  OBVIOUS
<1>2. ASSUME pc' # "down", step' = "remove"
      PROVE  Len(peers') = 1 /\ peers'[1] # Wanted
  <2>1. pc # "down"
    BY <1>1, <1>2 DEF Next, Process, Send, ConfirmDrops, ConfirmAcked, ReadParams,
       OthersRead, OthersDone, ReadPeers, ReadPeerAck, Start, Transmit, Ack, Answer,
       Event, Crash, vars, Continue
  <2>2. CASE ReadPeers
    <3>1. step = "peerReq" /\ peers \in Seq(Devices)
      BY <1>1, <2>2 DEF ReadPeers, TypeOK
    <3>2. ChoosePeerCommand /\ UNCHANGED peers
      BY <1>2, <2>2, <3>1 DEF ReadPeers, Fail, Continue
    <3>3. ~ (Len(peers) > 1) /\ peers # <<>> /\ peers # <<Wanted>>
      BY <1>2, <3>1, <3>2 DEF ChoosePeerCommand, Fail, Continue
    <3>4. Len(peers) = 1 /\ (peers[1] = Wanted => peers = <<Wanted>>)
      <4>1. Len(peers) = 1
        <5>1. peers # <<>> /\ ~ (Len(peers) > 1)
          BY <3>3
        <5>2. peers \in Seq(Devices)
          BY <3>1
        <5>3. QED
          BY <5>1, <5>2, OneLong
      <4>2. <<Wanted>> \in Seq(Devices) /\ Len(<<Wanted>>) = 1 /\ <<Wanted>>[1] = Wanted
        BY PeerAssumption
      <4>3. QED
        BY <3>1, <4>1, <4>2, SameSeq
    <3>5. QED
      BY <3>2, <3>3, <3>4
  <2>3. CASE ~ ReadPeers
    <3>1. step = "remove" /\ UNCHANGED peers
      BY <1>1, <1>2, <2>1, <2>3, StepChanges DEF Writing
    <3>2. QED
      BY <3>1, <2>1, <1>1 DEF CommandInv
  <2>4. QED
    BY <2>2, <2>3
<1>3. ASSUME NEW k \in DOMAIN toGW'
      PROVE  /\ toGW'[k].cmd = "remove" => toGW'[k].data # Wanted
             /\ toGW'[k].cmd = "add" => toGW'[k].data = Wanted
             /\ (toGW'[k].cmd = "remove" /\ pc' # "down") =>
                  toGW'[k].data = peers'[1]
  <2>1. CASE Send
    <3>1. /\ toGW' = << [cmd |-> step, data |-> toGW'[1].data] >>
          /\ step = "remove" => toGW'[1].data = Head(peers)
          /\ step = "add" => toGW'[1].data = Wanted
          /\ UNCHANGED peers /\ pc # "down"
      BY <2>1 DEF Send, reading
    <3>2. k = 1 /\ toGW'[1].cmd = step
      BY <3>1
    <3>3. step = "remove" => Head(peers) = peers[1] /\ peers[1] # Wanted
      BY <1>1, <3>1 DEF CommandInv, TypeOK
    <3>4. QED
      BY <3>1, <3>2, <3>3
  <2>2. CASE ~ Send /\ UNCHANGED toGW
    <3>1. pc' # "down" => pc # "down"
      <4>1. CASE Start
        <5>1. toGW' = <<>>
          BY <4>1 DEF Start
        <5>2. QED
          BY <5>1, <1>3
      <4>2. QED
        BY <1>1, <4>1 DEF Next, Process, Send, ConfirmDrops, ConfirmAcked, ReadParams,
           OthersRead, OthersDone, ReadPeers, ReadPeerAck, Transmit, Ack, Answer,
           Event, Crash, vars
    <3>2. pc' # "down" => UNCHANGED peers
      <4>1. CASE ReadPeers
        <5>1. toGW = <<>>
          BY <1>1, <4>1, Quiet DEF ReadPeers
        <5>2. QED
          BY <5>1, <1>3, <2>2
      <4>2. CASE ~ ReadPeers
        BY <1>1, <3>1, <4>2, StepChanges
      <4>3. QED
        BY <4>1, <4>2
    <3>3. QED
      BY <3>1, <3>2, <2>2, <1>1, <1>3 DEF CommandInv
  <2>3. CASE toGW' = <<>>
    BY <2>3, <1>3
  <2>4. QED
    BY <1>1, <2>1, <2>2, <2>3 DEF Next, Process, ConfirmDrops, ConfirmAcked,
       ReadParams, OthersRead, OthersDone, ReadPeers, ReadPeerAck, Start, Drop,
       Receive, Transmit, Ack, Answer, Event, Crash, vars, line
<1>4. QED
  BY <1>2, <1>3 DEF CommandInv

----------------------------------------------------------------------------
(* Acks of this process' own commands *)

\* The end of a list stays behind every ack if it is asked for when nothing
\* of an earlier list is left.
LEMMA EndLastStep ==
  ASSUME TypeOK, [Next]_vars, EndLast, toGW # <<>> => None("peerEnd")
  PROVE  EndLast'
<1>1. toHost \in Seq(Packets) /\ Coming \in Seq(ComingPackets)
      /\ \A k \in DOMAIN Coming : Coming[k].own
  BY ComingType DEF TypeOK
<1>2. /\ \A j, k \in DOMAIN toHost : Ends(toHost[j]) /\ AckOrEnd(toHost[k]) => k <= j
      /\ \A j, k \in DOMAIN Coming : Ends(Coming[j]) /\ AckOrEnd(Coming[k]) => k <= j
      /\ \A j \in DOMAIN toHost, k \in DOMAIN Coming :
           ~ (Ends(toHost[j]) /\ AckOrEnd(Coming[k]))
  BY DEF EndLast, EndLastIn
<1> SUFFICES
      /\ \A j, k \in DOMAIN toHost' :
           Ends(toHost'[j]) /\ AckOrEnd(toHost'[k]) => k <= j
      /\ \A j, k \in DOMAIN Coming' :
           Ends(Coming'[j]) /\ AckOrEnd(Coming'[k]) => k <= j
      /\ \A j \in DOMAIN toHost', k \in DOMAIN Coming' :
           ~ (Ends(toHost'[j]) /\ AckOrEnd(Coming'[k]))
  BY DEF EndLast, EndLastIn
<1>3. CASE UNCHANGED <<toHost, Coming>>
  BY <1>2, <1>3
<1>4. CASE toHost' = <<>> /\ Coming' = Coming
  <2>1. DOMAIN toHost' = {}
    BY <1>4
  <2>2. QED
    BY <2>1, <1>2, <1>4
<1>5. CASE Receive /\ Coming' = Coming
  <2> DEFINE t == Tail(toHost)
  <2>1. toHost' = t
    BY <1>5 DEF Receive
  <2>2. \A k \in DOMAIN t : k \in Nat /\ k + 1 \in DOMAIN toHost /\ t[k] = toHost[k + 1]
    BY <1>1, <1>5 DEF Receive
  <2> HIDE DEF t
  <2>3. QED
    BY <2>1, <2>2, <1>2, <1>5
<1>6. CASE /\ Coming' = Coming
           /\ \E p \in Packets : /\ toHost' = Append(toHost, p)
                                 /\ p.own => p.kind \in {"event", "warm"}
  <2>1. PICK p \in Packets : /\ toHost' = Append(toHost, p)
                             /\ p.own => p.kind \in {"event", "warm"}
    BY <1>6
  <2>2. ~ AckOrEnd(p) /\ ~ Ends(p)
    BY <2>1 DEF AckOrEnd, Ends
  <2>3. QED
    BY <1>1, <1>2, <1>6, <2>1, <2>2, AppendIs
<1>7. CASE /\ Coming # <<>> /\ Coming' = Tail(Coming)
           /\ \/ UNCHANGED toHost
              \/ \E p \in Packets : /\ toHost' = Append(toHost, p)
                                    /\ p.own /\ p.kind = Coming[1].kind
  <2> DEFINE t == Tail(Coming)
  <2>1. /\ 1 \in DOMAIN Coming /\ Coming[1].own
        /\ \A k \in DOMAIN t : /\ k \in Nat \ {0} /\ k + 1 \in DOMAIN Coming
                               /\ t[k] = Coming[k + 1]
    BY <1>1, <1>7
  <2> HIDE DEF t
  <2>2. \A j, k \in DOMAIN t : Ends(t[j]) /\ AckOrEnd(t[k]) => k <= j
    BY <1>2, <2>1
  <2>3. \A j \in DOMAIN toHost, k \in DOMAIN t :
          ~ (Ends(toHost[j]) /\ AckOrEnd(t[k]))
    BY <1>2, <2>1
  <2>4. ASSUME NEW p \in Packets, toHost' = Append(toHost, p), p.own,
               p.kind = Coming[1].kind
        PROVE  /\ \A j, k \in DOMAIN toHost' :
                    Ends(toHost'[j]) /\ AckOrEnd(toHost'[k]) => k <= j
               /\ \A j \in DOMAIN toHost', k \in DOMAIN t :
                    ~ (Ends(toHost'[j]) /\ AckOrEnd(t[k]))
    <3>1. /\ AckOrEnd(p) <=> AckOrEnd(Coming[1])
          /\ Ends(p) <=> Ends(Coming[1])
          /\ Ends(p) => AckOrEnd(p)
      BY <2>1, <2>4 DEF AckOrEnd, Ends
    <3>2. \A k \in DOMAIN toHost' :
            \/ k \in DOMAIN toHost /\ toHost'[k] = toHost[k] /\ k < Len(toHost) + 1
            \/ k = Len(toHost) + 1 /\ toHost'[k] = p
      BY <1>1, <2>4
    <3>3. \A k \in DOMAIN t : Ends(p) => ~ AckOrEnd(t[k])
      BY <3>1, <1>2, <2>1
    <3>4. \A j \in DOMAIN toHost : Ends(toHost[j]) => ~ AckOrEnd(p)
      BY <3>1, <1>2, <2>1
    <3>5. Len(toHost) \in Nat
      BY <1>1
    <3>6. ASSUME NEW j \in DOMAIN toHost', NEW k \in DOMAIN toHost',
                 Ends(toHost'[j]), AckOrEnd(toHost'[k])
          PROVE  k <= j
      BY <3>2, <3>4, <3>5, <3>6, <1>2
    <3>7. ASSUME NEW j \in DOMAIN toHost', NEW k \in DOMAIN t,
                 Ends(toHost'[j]), AckOrEnd(t[k])
          PROVE  FALSE
      BY <3>2, <3>3, <3>7, <2>3
    <3>8. QED
      BY <3>6, <3>7
  <2>5. Coming' = t
    BY <1>7 DEF t
  <2>6. QED
    BY <1>2, <1>7, <2>2, <2>3, <2>4, <2>5
<1>8. CASE Transmit /\ Obey(Head(toGW)) /\ Head(toGW) \in Commands /\ UNCHANGED toHost
  <2> DEFINE c == Coming
  <2>1. PICK y \in Seq(ComingPackets) :
          /\ c' = c \o y
          /\ \A k \in DOMAIN y :
               /\ Ends(y[k]) => \A m \in DOMAIN y : m <= k
               /\ OwnOf(y, k, "ack") => Head(toGW).cmd \in Writing \cup {"add"}
    BY <1>8, ComingObeys
  <2>2. /\ \A k \in DOMAIN toHost : ~ Ends(toHost[k])
        /\ \A k \in DOMAIN c : ~ Ends(c[k])
    BY <1>8 DEF Transmit, None, Ends, OwnOf
  <2>3. \A k \in DOMAIN c' :
          \/ k \in DOMAIN c /\ c'[k] = c[k] /\ k <= Len(c)
          \/ /\ k - Len(c) \in DOMAIN y /\ c'[k] = y[k - Len(c)]
             /\ k \in Nat /\ k > Len(c)
    BY <1>1, <2>1
  <2>4. Len(c) \in Nat /\ \A k \in DOMAIN c : k \in Nat
    BY <1>1
  <2> HIDE DEF c
  <2>5. ASSUME NEW j \in DOMAIN c', NEW k \in DOMAIN c', Ends(c'[j])
        PROVE  k <= j
    <3>1. j - Len(c) \in DOMAIN y /\ Ends(y[j - Len(c)]) /\ j \in Nat /\ j > Len(c)
      BY <2>2, <2>3, <2>5
    <3>2. \A m \in DOMAIN y : m <= j - Len(c)
      BY <2>1, <3>1
    <3>3. CASE k <= Len(c)
      BY <2>3, <2>4, <3>1, <3>3
    <3>4. CASE k - Len(c) \in DOMAIN y /\ k \in Nat
      BY <2>4, <3>1, <3>2, <3>4
    <3>5. QED
      BY <2>3, <3>3, <3>4
  <2>6. QED
    BY <1>2, <1>8, <2>2, <2>5 DEF c
<1>9. QED
  BY <1>3, <1>4, <1>5, <1>6, <1>7, <1>8, QueueSteps

LEMMA NothingComing ==
  ASSUME answers' = <<>>, toHost' = <<>>
  PROVE  EndLast' /\ None("peerEnd")' /\ None("info")' /\ None("ack")'
<1>1. DOMAIN toHost' = {} /\ DOMAIN Coming' = {}
  BY DEF Coming
<1>2. QED
  BY <1>1 DEF EndLast, EndLastIn, None

\* Reading the end of the list leaves neither an ack nor another list.
LEMMA EndRead ==
  ASSUME TypeOK, EndLast, Receive, Ends(Head(toHost)), UNCHANGED answers
  PROVE  None("peerEnd")' /\ None("ack")'
<1>1. toHost \in Seq(Packets) /\ Coming' = Coming
  BY DEF TypeOK, Coming
<1>2. 1 \in DOMAIN toHost /\ Ends(toHost[1])
  BY <1>1, TailIs DEF Receive
<1>3. ASSUME NEW k \in DOMAIN toHost' PROVE ~ AckOrEnd(toHost'[k])
  <2>1. k \in Nat \ {0} /\ k + 1 \in DOMAIN toHost /\ toHost'[k] = toHost[k + 1]
    BY <1>1, <1>3 DEF Receive
  <2>2. ~ (k + 1 <= 1)
    BY <2>1
  <2>3. QED
    BY <2>1, <2>2, <1>2 DEF EndLast, EndLastIn
<1>4. \A k \in DOMAIN Coming' : ~ AckOrEnd(Coming'[k])
  BY <1>1, <1>2 DEF EndLast
<1>5. QED
  BY <1>3, <1>4 DEF None, OwnOf, AckOrEnd

\* The acks that the process waits for are those of its own commands.
LEMMA AckInvStep ==
  TypeOK /\ LineInv /\ LostInv /\ AckInv /\ [Next]_vars => AckInv'
<1>1. SUFFICES ASSUME TypeOK, LineInv, LostInv, AckInv, [Next]_vars,
                      pc' # "down", ~ late'
               PROVE  AckInv'
  BY DEF AckInv
<1>2. CASE Start
  <2>1. answers' = <<>> /\ toHost' = <<>>
    BY <1>1, <1>2 DEF Start, device
  <2>2. EndLast' /\ None("peerEnd")' /\ None("info")' /\ None("ack")'
    BY <2>1, NothingComing
  <2>3. QED
    BY <2>2 DEF AckInv
<1>3. CASE ~ Start
  <2>1. pc # "down" /\ UNCHANGED late
    BY <1>1, <1>3, SameProcess
  <2>2. /\ (step # "peerReq" \/ ~ Sent) => None("peerEnd")
        /\ EndLast
        /\ (step \notin {"remove", "add"} \/ (step = "remove" /\ ~ Sent)
              \/ "remove" \in lost) => None("info")
        /\ (step = "remove" \/ (step = "add" /\ ~ Sent) \/ "add" \in lost)
             => None("ack")
    BY <2>1, <1>1 DEF AckInv
  <2>3. /\ (step \notin {"remove", "add"} \/ (step = "remove" /\ ~ Sent))
             => "remove" \notin lost
        /\ (step # "add" \/ ~ Sent) => "add" \notin lost
    BY <2>1, <1>1 DEF LostInv
  <2>4. toGW # <<>> => ~ Sent /\ Head(toGW).cmd = step
    BY <2>1, <1>1, InFlight
  <2>5. EndLast'
    BY <2>2, <2>4, <1>1, EndLastStep
  <2>6. Transmit =>
          /\ ~ Sent /\ Sent' /\ UNCHANGED step /\ Head(toGW).cmd = step
          /\ lost' = lost \/ lost' = lost \cup {step}
    <3>1. Transmit => pc = "confirm" /\ ~ Sent /\ Head(toGW).cmd = step
      BY <2>1, <1>1, InFlight DEF Transmit
    <3>2. QED
      BY <3>1 DEF Transmit, Sent, Transmitted
  <2>7. ReadPeers =>
          \/ step = "peerReq" /\ UNCHANGED <<step, lost>> /\ Sent'
          \/ None("peerEnd")' /\ None("ack")' /\ UNCHANGED lost
    <3>1. ASSUME ReadPeers PROVE Receive /\ UNCHANGED <<answers, lost>>
      BY <3>1 DEF ReadPeers, Receive, device
    <3>2. CASE ReadPeers /\ UNCHANGED <<pc, step>>
      BY <3>1, <3>2 DEF ReadPeers, Sent
    <3>3. CASE ReadPeers /\ ~ UNCHANGED <<pc, step>>
      <4>1. ~ Foreign(Head(toHost)) /\ Head(toHost).kind = "peerEnd"
        BY <1>1, <3>3 DEF ReadPeers, Fail, Continue
      <4>2. Head(toHost) \in Packets
        BY <1>1, <3>1, <3>3 DEF Receive, TypeOK
      <4>3. Ends(Head(toHost))
        BY <4>1, <4>2 DEF Foreign, Ends, Packets
      <4>4. QED
        BY <4>3, <3>1, <3>3, <2>2, <1>1, EndRead
    <3>4. QED
      BY <3>2, <3>3
  <2>8. (step' # "peerReq" \/ ~ Sent') => None("peerEnd")'
    <3>1. CASE step # "peerReq" \/ ~ Sent
      <4>1. CASE Transmit /\ step = "peerReq"
        BY <4>1, <2>6
      <4>2. CASE ~ (Transmit /\ step = "peerReq")
        BY <4>2, <3>1, <2>2, <2>6, <1>1, NoneStays DEF Asks
      <4>3. QED
        BY <4>1, <4>2
    <3>2. CASE step = "peerReq" /\ Sent /\ ReadPeers
      BY <3>2, <2>7
    <3>3. CASE step = "peerReq" /\ Sent /\ ~ ReadPeers
      BY <3>3, <2>1, <1>1, StepChanges DEF Writing
    <3>4. QED
      BY <3>1, <3>2, <3>3
  <2>9. (step' \notin {"remove", "add"} \/ (step' = "remove" /\ ~ Sent')
           \/ "remove" \in lost') => None("info")'
    <3>1. CASE \/ step \notin {"remove", "add"} \/ (step = "remove" /\ ~ Sent)
               \/ "remove" \in lost
      <4>1. CASE Transmit /\ step = "remove" /\ UNCHANGED lost
        BY <4>1, <2>3, <2>6
      <4>2. CASE ~ (Transmit /\ step = "remove" /\ UNCHANGED lost)
        BY <4>2, <3>1, <2>2, <2>6, <1>1, NoneStays DEF Asks
      <4>3. QED
        BY <4>1, <4>2
    <3>2. CASE ~ (\/ step \notin {"remove", "add"} \/ (step = "remove" /\ ~ Sent)
                  \/ "remove" \in lost)
      <4>1. CASE Transmit
        BY <4>1, <3>2, <2>6
      <4>2. CASE ~ Transmit
        BY <4>2, <3>2, <2>1, <1>1, StepChanges DEF Writing
      <4>3. QED
        BY <4>1, <4>2
    <3>3. QED
      BY <3>1, <3>2
  <2>10. (step' = "remove" \/ (step' = "add" /\ ~ Sent') \/ "add" \in lost')
           => None("ack")'
    <3>1. CASE step = "remove" \/ (step = "add" /\ ~ Sent) \/ "add" \in lost
      <4>1. CASE Transmit /\ step \in Writing \cup {"add"} /\ UNCHANGED lost
        BY <4>1, <3>1, <2>3, <2>6 DEF Writing
      <4>2. CASE ~ (Transmit /\ step \in Writing \cup {"add"} /\ UNCHANGED lost)
        BY <4>2, <3>1, <2>2, <2>6, <1>1, NoneStays DEF Asks
      <4>3. QED
        BY <4>1, <4>2
    <3>2. CASE ~ (step = "remove" \/ (step = "add" /\ ~ Sent) \/ "add" \in lost)
      <4>1. CASE Transmit
        BY <4>1, <3>2, <2>6
      <4>2. CASE ReadPeers
        BY <4>2, <3>2, <2>7
      <4>3. CASE ~ Transmit /\ ~ ReadPeers
        BY <4>3, <3>2, <2>1, <1>1, StepChanges DEF Writing
      <4>4. QED
        BY <4>1, <4>2, <4>3
    <3>3. QED
      BY <3>1, <3>2
  <2>11. QED
    BY <2>5, <2>8, <2>9, <2>10 DEF AckInv
<1>4. QED
  BY <1>2, <1>3

\* One that is not misled has noticed every loss.
LEMMA NoticedInvStep ==
  TypeOK /\ LineInv /\ LostInv /\ AckInv /\ NoticedInv /\ [Next]_vars => NoticedInv'
<1>1. SUFFICES ASSUME TypeOK, LineInv, LostInv, AckInv, NoticedInv, [Next]_vars,
                      pc' # "down", ~ Misled'
               PROVE  NoticedInv'
  BY DEF NoticedInv
<1>2. CASE Start
  BY <1>2 DEF Start, Continue, NoticedInv
<1>3. CASE ~ Start
  <2>1. pc # "down" /\ ~ Misled
    BY <1>1, <1>3, SameProcess DEF Misled
  <2>2. /\ step = "add" => "remove" \notin lost
        /\ pc = "done" => lost \cap {"remove", "add"} = {}
    BY <1>1, <2>1 DEF NoticedInv
  <2>3. /\ (step \notin {"remove", "add"} \/ (step = "remove" /\ ~ Sent))
             => "remove" \notin lost
        /\ (step # "add" \/ ~ Sent) => "add" \notin lost
    BY <1>1, <2>1 DEF LostInv
  <2>4. CASE Transmit
    <3>1. pc' # "done" /\ UNCHANGED step
      BY <1>1, <2>4, InFlight DEF Transmit
    <3>2. Head(toGW).cmd = step
      BY <1>1, <2>1, <2>4, InFlight DEF Transmit
    <3>3. lost' = lost \/ lost' = lost \cup {step}
      BY <2>4, <3>2 DEF Transmit
    <3>4. QED
      BY <2>2, <3>1, <3>3 DEF NoticedInv
  <2>5. CASE ReadPeers
    <3>1. step = "peerReq" /\ UNCHANGED lost
      BY <2>5 DEF ReadPeers, Receive
    <3>2. QED
      BY <3>1, <2>3 DEF NoticedInv
  <2>6. CASE ReadPeerAck
    <3>1. /\ fooled' = (fooled \/ (IsPeerAck(Head(toHost)) /\ ~ Head(toHost).own))
          /\ toHost # <<>> /\ UNCHANGED lost /\ step \in {"remove", "add"}
          /\ IsPeerAck(Head(toHost))
      BY <1>1, <2>6 DEF ReadPeerAck, Receive, Fail, Continue
    <3>2. Head(toHost).own /\ ~ late
      BY <1>1, <2>1, <3>1 DEF Misled
    <3>3. 1 \in DOMAIN toHost /\ toHost[1] = Head(toHost)
      BY <1>1, <3>1, TailIs DEF TypeOK
    <3>4. CASE step = "remove"
      <4>1. OwnOf(toHost, 1, "info")
        BY <3>1, <3>2, <3>3, <3>4 DEF IsPeerAck, OwnOf
      <4>2. "remove" \notin lost
        BY <4>1, <3>2, <3>3, <1>1, <2>1 DEF AckInv, None
      <4>3. pc' # "done"
        BY <1>1, <2>6, <3>4 DEF ReadPeerAck, Fail, Continue
      <4>4. QED
        BY <3>1, <4>2, <4>3 DEF NoticedInv
    <3>5. CASE step = "add"
      <4>1. OwnOf(toHost, 1, "ack")
        BY <3>1, <3>2, <3>3, <3>5 DEF IsPeerAck, OwnOf
      <4>2. "add" \notin lost
        BY <4>1, <3>2, <3>3, <1>1, <2>1 DEF AckInv, None
      <4>3. QED
        BY <3>1, <3>5, <4>2, <2>2 DEF NoticedInv
    <3>6. QED
      BY <3>1, <3>4, <3>5
  <2>7. CASE ~ Transmit /\ ~ ReadPeers /\ ~ ReadPeerAck
    <3>1. /\ UNCHANGED lost /\ (step' = "add" => step = "add")
          /\ pc' = "done" => pc = "done"
      BY <1>1, <2>1, <2>7, StepChanges DEF Writing
    <3>2. QED
      BY <3>1, <2>2 DEF NoticedInv
  <2>8. QED
    BY <2>4, <2>5, <2>6, <2>7
<1>4. QED
  BY <1>2, <1>3

----------------------------------------------------------------------------
(* What the commands about peers achieve *)

\* At the end of a list that is all there, the process knows every unwanted
\* peer.
LEMMA ListRead ==
  ASSUME TypeOK, FirstList, toHost # <<>>, Ends(Head(toHost))
  PROVE  \A d \in Unwanted : Read(d)
<1>1. 1 \in DOMAIN toHost /\ Ends(toHost[1])
  BY TailIs DEF TypeOK
<1>2. toHost \in Seq(Packets) /\ \A i \in DOMAIN toHost : ~ (i < 1)
  BY DEF TypeOK
<1>3. Leads(toHost, 1) /\ \A d : ~ Listed(toHost, d, 1)
  BY <1>2 DEF Leads, Listed
<1>4. QED
  BY <1>1, <1>3 DEF FirstList

\* ... and chooses the command for them.
LEMMA CommandFits ==
  ASSUME TypeOK, WantedInv, \A d \in Unwanted : Read(d),
         ChoosePeerCommand, pc' # "down"
  PROVE  \/ step' = "add" /\ pc' = "send" /\ Unwanted = {}
         \/ step' = step /\ pc' = "done" /\ linked = {Wanted}
         \/ step' = "remove" /\ pc' = "send" /\ Unwanted \subseteq {peers[1]}
<1>1. peers \in Seq(Devices)
  BY DEF TypeOK
<1>2. ~ (Len(peers) > 1)
  BY DEF ChoosePeerCommand, Fail, Continue
<1>3. CASE peers = <<>>
  <2>1. \A d : ~ Read(d)
    BY <1>3 DEF Read
  <2>2. step' = "add" /\ pc' = "send"
    BY <1>2, <1>3 DEF ChoosePeerCommand, Continue
  <2>3. QED
    BY <2>1, <2>2
<1>4. CASE peers = <<Wanted>>
  <2>1. \A d : Read(d) => d = Wanted
    BY <1>4 DEF Read
  <2>2. Read(Wanted)
    BY <1>4 DEF Read
  <2>3. Wanted \in linked /\ Unwanted = {}
    BY <2>1, <2>2 DEF WantedInv, Unwanted
  <2>4. peers # <<>>
    BY <1>4
  <2>5. step' = step /\ pc' = "done"
    BY <1>2, <1>4, <2>4 DEF ChoosePeerCommand, Continue
  <2>6. QED
    BY <2>3, <2>5 DEF Unwanted
<1>5. CASE peers # <<>> /\ peers # <<Wanted>>
  <2>1. Len(peers) = 1
    BY <1>1, <1>2, <1>5, OneLong
  <2>2. \A d : Read(d) => d = peers[1]
    BY <1>1, <2>1 DEF Read
  <2>3. step' = "remove" /\ pc' = "send"
    BY <1>2, <1>5 DEF ChoosePeerCommand, Continue
  <2>4. QED
    BY <2>2, <2>3
<1>6. QED
  BY <1>3, <1>4, <1>5

LEMMA PeerInvStep ==
  TypeOK /\ LineInv /\ CommandInv /\ ListInv /\ WantedInv /\ PeerInv /\ [Next]_vars
    => PeerInv'
<1>1. SUFFICES ASSUME TypeOK, LineInv, CommandInv, ListInv, WantedInv, PeerInv,
                      [Next]_vars, pc' # "down", ~ dropped'
               PROVE  PeerInv'
  BY DEF PeerInv
<1>2. CASE Start
  BY <1>2 DEF Start, Continue, PeerInv
<1>3. CASE ~ Start
  <2>1. pc # "down" /\ ~ dropped
    BY <1>1, <1>3, SameProcess
  <2>2. /\ step = "remove" => Unwanted \subseteq {peers[1]}
        /\ (step = "remove" /\ Sent /\ "remove" \notin lost) => Unwanted = {}
        /\ step = "add" => Unwanted = {} \/ "remove" \in lost
        /\ (step = "add" /\ Sent /\ "add" \notin lost) => Wanted \in linked
        /\ pc = "done" /\ step = "peerReq" => linked = {Wanted}
        /\ pc = "done" => step \in {"peerReq", "add"}
    BY <1>1, <2>1 DEF PeerInv
  <2>3. Unwanted' \subseteq Unwanted /\ (Wanted \in linked => Wanted \in linked')
    BY <1>1, PeersShrink
  <2>4. CASE Transmit
    <3>1. /\ pc = "confirm" /\ pc' = "confirm" /\ UNCHANGED <<step, peers>>
          /\ 1 \in DOMAIN toGW /\ Head(toGW) = toGW[1] /\ toGW[1].cmd = step
      BY <1>1, <2>1, <2>4, InFlight DEF Transmit, reading
    <3>2. CASE Obey(toGW[1]) /\ UNCHANGED lost
      <4>1. step = "remove" => linked' = linked \ {peers[1]}
        BY <1>1, <2>1, <3>1, <3>2 DEF Obey, CommandInv
      <4>2. step = "add" => linked' = linked \cup {Wanted}
        BY <1>1, <3>1, <3>2 DEF Obey, CommandInv
      <4>3. step = "remove" => Unwanted' = {}
        BY <4>1, <2>2 DEF Unwanted
      <4>4. QED
        BY <2>2, <2>3, <3>1, <3>2, <4>2, <4>3 DEF PeerInv
    <3>3. CASE lost' = lost \cup {step}
      BY <2>2, <2>3, <3>1, <3>3 DEF PeerInv
    <3>4. QED
      BY <2>4, <3>1, <3>2, <3>3 DEF Transmit
  <2>5. CASE ReadPeers
    <3>1. /\ step = "peerReq" /\ pc = "read" /\ UNCHANGED linked /\ toHost # <<>>
      BY <2>5 DEF ReadPeers, Receive, device
    <3>2. CASE UNCHANGED <<pc, step>>
      BY <3>1, <3>2 DEF PeerInv
    <3>3. CASE ~ UNCHANGED <<pc, step>>
      <4>1. /\ ~ Foreign(Head(toHost)) /\ Head(toHost).kind = "peerEnd"
            /\ ChoosePeerCommand /\ UNCHANGED peers
        BY <1>1, <2>5, <3>3 DEF ReadPeers, Fail, Continue
      <4>2. Ends(Head(toHost))
        BY <4>1, <3>1, <1>1 DEF Foreign, Ends, TypeOK, Packets
      <4>3. \A d \in Unwanted : Read(d)
        BY <4>2, <3>1, <2>1, <1>1, ListRead DEF ListInv
      <4>4. \/ step' = "add" /\ pc' = "send" /\ Unwanted = {}
            \/ step' = step /\ pc' = "done" /\ linked = {Wanted}
            \/ step' = "remove" /\ pc' = "send" /\ Unwanted \subseteq {peers[1]}
        BY <4>1, <4>3, <1>1, CommandFits
      <4>5. QED
        BY <4>4, <4>1, <3>1 DEF PeerInv, Sent, Transmitted, Unwanted
    <3>4. QED
      BY <3>2, <3>3
  <2>6. CASE ReadPeerAck
    <3>1. /\ UNCHANGED <<peers, lost, linked>> /\ Sent
          /\ \/ step = "remove" /\ step' = "add" /\ ~ Sent' /\ pc' = "send"
             \/ step = "add" /\ step' = "add" /\ Sent' /\ pc' = "done"
      <4>1. /\ UNCHANGED <<peers, lost, linked>> /\ pc = "read"
        BY <2>6 DEF ReadPeerAck, Receive, reading, device
      <4>2. \/ step = "remove" /\ step' = "add" /\ pc' = "send"
            \/ step = "add" /\ step' = "add" /\ pc' = "done"
        BY <1>1, <2>6 DEF ReadPeerAck, Fail, Continue
      <4>3. QED
        BY <4>1, <4>2 DEF Sent, Transmitted
    <3>2. QED
      BY <3>1, <2>2 DEF PeerInv, Unwanted
  <2>7. CASE ~ Transmit /\ ~ ReadPeers /\ ~ ReadPeerAck
    <3>1. /\ UNCHANGED <<peers, lost>>
          /\ step' \in {"remove", "add"} => step' = step /\ (Sent' => Sent)
          /\ pc' = "done" => pc = "done" /\ step' = step
      BY <1>1, <2>1, <2>7, StepChanges DEF Writing
    <3>2. UNCHANGED linked
      BY <1>1, <2>7, LinkedChanges
    <3>3. QED
      BY <3>1, <3>2, <2>2 DEF PeerInv, Unwanted
  <2>8. QED
    BY <2>4, <2>5, <2>6, <2>7
<1>4. QED
  BY <1>2, <1>3

\* An addition is sent when nothing else is linked, or the process has
\* missed something.
LEMMA AddInvStep ==
  TypeOK /\ CommandInv /\ PeerInv /\ NoticedInv /\ AddInv /\ [Next]_vars => AddInv'
<1>1. SUFFICES ASSUME TypeOK, CommandInv, PeerInv, NoticedInv, AddInv, [Next]_vars,
                      NEW k \in DOMAIN toGW', toGW'[k].cmd = "add"
               PROVE  Unwanted' = {} \/ dropped' \/ (Misled' /\ "remove" \in lost')
  BY DEF AddInv
<1>2. Unwanted' \subseteq Unwanted
  BY <1>1, PeersShrink
<1>3. CASE Send
  <2>1. /\ toGW' = << [cmd |-> step, data |-> toGW'[1].data] >> /\ pc # "down"
        /\ UNCHANGED <<dropped, lost, fooled, late>>
    BY <1>3 DEF Send, history
  <2>2. k = 1 /\ step = "add"
    BY <1>1, <2>1
  <2>3. dropped \/ Unwanted = {} \/ "remove" \in lost
    BY <1>1, <2>1, <2>2 DEF PeerInv
  <2>4. Misled \/ "remove" \notin lost
    BY <1>1, <2>1, <2>2 DEF NoticedInv
  <2>5. Misled' = Misled
    BY <2>1 DEF Misled
  <2>6. QED
    BY <1>2, <2>1, <2>3, <2>4, <2>5
<1>4. CASE ~ Send /\ UNCHANGED toGW /\ ~ Start
  <2>1. Unwanted = {} \/ dropped \/ (Misled /\ "remove" \in lost)
    BY <1>1, <1>4 DEF AddInv
  <2>2. (dropped => dropped') /\ (Misled => Misled') /\ lost \subseteq lost'
    BY <1>1, <1>4, SameProcess DEF Misled
  <2>3. QED
    BY <1>2, <2>1, <2>2
<1>5. CASE toGW' = <<>>
  BY <1>5, <1>1
<1>6. Start => toGW' = <<>>
  BY DEF Start
<1>7. QED
  BY <1>1, <1>3, <1>4, <1>5, <1>6 DEF Next, Process, ConfirmDrops, ConfirmAcked,
     ReadParams, OthersRead, OthersDone, ReadPeers, ReadPeerAck, Drop, Receive,
     Transmit, Ack, Answer, Event, Crash, vars, line

----------------------------------------------------------------------------
(* The theorems about the peers *)

PeeringInv ==
  /\ TypeOK /\ LineInv /\ CommandInv /\ ListInv /\ WantedInv /\ LostInv
  /\ AckInv /\ NoticedInv /\ PeerInv /\ AddInv

LEMMA PeeringInvInit == Init => PeeringInv
<1>1. SUFFICES ASSUME Init PROVE PeeringInv
  OBVIOUS
<1>2. TypeOK /\ ListInv
  BY <1>1, InitType, ListInvInit
<1>3. /\ pc = "send" /\ step = "paramReq" /\ lost = {}
      /\ DOMAIN toGW = {} /\ toGW = <<>> /\ ~ unacked
      /\ DOMAIN toHost = {} /\ DOMAIN Coming = {} /\ DOMAIN peers = {}
  BY <1>1 DEF Init, Coming
<1>4. LineInv
  BY <1>3 DEF LineInv, OneAck, NoAck
<1>5. CommandInv /\ LostInv /\ PeerInv /\ NoticedInv /\ AddInv
  BY <1>3 DEF CommandInv, LostInv, PeerInv, NoticedInv, AddInv
<1>6. WantedInv /\ AckInv
  BY <1>3 DEF WantedInv, Read, AckInv, EndLast, EndLastIn, None
<1>7. QED
  BY <1>2, <1>4, <1>5, <1>6 DEF PeeringInv

LEMMA PeeringInvStep == PeeringInv /\ [Next]_vars => PeeringInv'
BY StepType, LineInvStep, CommandInvStep, ListInvStep, WantedInvStep, LostInvStep,
   AckInvStep, NoticedInvStep, PeerInvStep, AddInvStep DEF PeeringInv

LEMMA PeeringInvAlways == Spec => []PeeringInv
<1>1. Init => PeeringInv
  BY PeeringInvInit
<1>2. PeeringInv /\ [Next]_vars => PeeringInv'
  BY PeeringInvStep
<1>3. QED
  BY <1>1, <1>2, PTL DEF Spec

\* When EnsurePeeredWith has returned nil the device has the wanted peer and
\* no other, unless an answer was dropped, or a command was lost and the ack
\* of something else taken for its own: for any memory, program, number of
\* devices, of mishaps and of answers left over from earlier processes.
THEOREM PeeredExactlyAlways == Spec => []PeeredExactly
<1>1. PeeringInv => PeeredExactly
  <2> SUFFICES ASSUME PeeringInv, pc = "done", ~ dropped,
                      ~ (Misled /\ lost \cap {"remove", "add"} # {})
               PROVE  linked = {Wanted}
    BY DEF PeeredExactly
  <2>1. /\ step = "add" => Unwanted = {} \/ "remove" \in lost
        /\ (step = "add" /\ "add" \notin lost) => Wanted \in linked
        /\ step = "peerReq" => linked = {Wanted}
        /\ step \in {"peerReq", "add"}
    BY DEF PeeringInv, PeerInv, Sent
  <2>2. lost \cap {"remove", "add"} = {}
    BY DEF PeeringInv, NoticedInv
  <2>3. QED
    BY <2>1, <2>2 DEF Unwanted
<1>2. QED
  BY <1>1, PeeringInvAlways, PTL

\* The program gives a device a second peer only after it missed an answer,
\* or took something else for the ack of a removal that was lost, whichever
\* process sent the command.
THEOREM NeverTwoPeersAlways == Spec => NeverTwoPeers
<1> DEFINE Grows == Cardinality(linked') > Cardinality(linked) /\ linked # {}
           Excused == dropped \/ (Misled /\ "remove" \in lost)
<1>1. PeeringInv /\ [Next]_vars => [Grows => Excused]_vars
  <2> SUFFICES ASSUME PeeringInv, [Next]_vars, Grows PROVE Excused
    OBVIOUS
  <2>1. IsFiniteSet(linked) /\ Cardinality(linked) \in Nat
    BY PeerAssumption, FS_Subset, FS_CardinalityType DEF PeeringInv, TypeOK
  <2>2. ~ (linked' \subseteq linked)
    <3>1. ASSUME linked' \subseteq linked PROVE FALSE
      <4>1. IsFiniteSet(linked') /\ Cardinality(linked') \in Nat
            /\ Cardinality(linked') <= Cardinality(linked)
        BY <3>1, <2>1, FS_Subset, FS_CardinalityType
      <4>2. QED
        BY <4>1, <2>1
    <3>2. QED
      BY <3>1
  <2>3. Transmit /\ Obey(Head(toGW)) /\ toGW # <<>>
    BY <2>2, LinkedChanges
  <2>4. 1 \in DOMAIN toGW /\ toGW[1] = Head(toGW)
    BY <2>3 DEF PeeringInv, TypeOK
  <2>5. toGW[1].cmd = "add" /\ linked' = linked \cup {Wanted}
    BY <2>2, <2>3, <2>4 DEF Obey, PeeringInv, CommandInv
  <2>6. Unwanted # {}
    BY <2>2, <2>5 DEF Unwanted
  <2>7. QED
    BY <2>4, <2>5, <2>6 DEF PeeringInv, AddInv
<1>2. QED
  BY <1>1, PeeringInvAlways, PTL DEF Spec, NeverTwoPeers
=============================================================================
