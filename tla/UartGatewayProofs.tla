------------------------- MODULE UartGatewayProofs -------------------------
(***************************************************************************)
(* Proofs about UartGateway, for any set of devices, any counter width and *)
(* any bounds: the type invariant, that an ack can only be the one of the  *)
(* packet just written, and that nothing sent before a reset is read after *)
(* it.                                                                     *)
(***************************************************************************)
EXTENDS UartGateway, TLAPS

----------------------------------------------------------------------------
(* Lemmas about the command tables *)

\* Every command that WritePacket can write has a byte.
LEMMA WireByteType == WireByte \in [DOMAIN WireByte -> Nat]
BY DEF WireByte

\* The bytes the proofs look at.
LEMMA BytesUsed ==
  /\ {"OSGetApp", "OSChangeApp", "OSAck", "AppAck", "AppRecv"}
       \subseteq DOMAIN WireByte
  /\ WireByte["OSGetApp"] = 0
  /\ WireByte["OSChangeApp"] = 3
  /\ WireByte["OSAck"] = 4
  /\ WireByte["AppAck"] = 4
  /\ WireByte["AppRecv"] = 5
BY DEF WireByte

\* The commands of init and of AddPeer are commands that can be written.
LEMMA RequestTypes ==
  /\ Len(InitRequests) = 6
  /\ Len(AddPeerRequests) = 5
  /\ \A i \in 1 .. 6 : /\ InitRequests[i].dst \in {"OS", "App"}
                       /\ WireByte[InitRequests[i].cmd] \in Nat
  /\ \A i \in 1 .. 5 : /\ AddPeerRequests[i].dst \in {"OS", "App"}
                       /\ WireByte[AddPeerRequests[i].cmd] \in Nat
<1>1. /\ InitRequests[1].cmd = "OSGetFirmware"
      /\ InitRequests[2].cmd = "OSEnableCSMACA"
      /\ InitRequests[3].cmd = "OSGetSerial"
      /\ InitRequests[4].cmd = "OSSetTime"
      /\ InitRequests[5].cmd = "AppSetCurrentKey"
      /\ InitRequests[6].cmd = "AppSetHMID"
  BY DEF InitRequests
<1>2. /\ AddPeerRequests[1].cmd = "AppAddPeer"
      /\ AddPeerRequests[2].cmd = "AppAddPeer"
      /\ AddPeerRequests[3].cmd = "AppPeerRemoveAES"
      /\ AddPeerRequests[4].cmd = "AppAddPeer"
      /\ AddPeerRequests[5].cmd = "AppAddPeer"
  BY DEF AddPeerRequests
<1>3. /\ \A c \in {"OSGetFirmware", "OSEnableCSMACA", "OSGetSerial", "OSSetTime",
                   "AppSetCurrentKey", "AppSetHMID", "AppAddPeer",
                   "AppPeerRemoveAES"} : WireByte[c] \in Nat
  BY DEF WireByte
<1>4. \A i \in 1 .. 6 : WireByte[InitRequests[i].cmd] \in Nat
  BY <1>1, <1>3
<1>5. \A i \in 1 .. 5 : WireByte[AddPeerRequests[i].cmd] \in Nat
  BY <1>2, <1>3
<1>6. /\ Len(InitRequests) = 6
      /\ \A i \in 1 .. 6 : InitRequests[i].dst \in {"OS", "App"}
  BY DEF InitRequests
<1>7. /\ Len(AddPeerRequests) = 5
      /\ \A i \in 1 .. 5 : AddPeerRequests[i].dst \in {"OS", "App"}
  BY DEF AddPeerRequests
<1>8. QED
  BY <1>4, <1>5, <1>6, <1>7

\* Only the byte 4 is taken for an ack, whatever the driver's devstate.
LEMMA AckByte ==
  ASSUME NEW s, NEW b, IsCommand(s, b, "OSAck") \/ IsCommand(s, b, "AppAck")
  PROVE  b = 4
<1>1. /\ "AppAck" \notin DOMAIN OSCommands
      /\ OSCommands["OSAck"] = 4
  BY DEF OSCommands
<1>2. /\ "OSAck" \notin DOMAIN AppCommands
      /\ AppCommands["AppAck"] = 4
  BY DEF AppCommands
<1>3. QED
  BY <1>1, <1>2 DEF IsCommand, Meanings

\* The counter stays in its byte.
LEMMA NextCountType == \A c \in Count : NextCount(c) \in Count
BY WidthAssumption DEF Count, NextCount

----------------------------------------------------------------------------
(* Type correctness *)

\* The packets that are put on the line have the right shape.
LEMMA WrittenType ==
  ASSUME TypeOK, NEW d \in {"OS", "App"}, NEW c, WireByte[c] \in Nat,
         NEW p \in Peers \cup {NoPeer}
  PROVE  Written(d, c, p) \in GWFrames
BY DEF TypeOK, Written, GWFrames

LEMMA SentType ==
  ASSUME TypeOK, NEW s \in {"OS", "App"}, NEW k \in Count, NEW a \in Apps,
         NEW c \in {"OSGetApp", "OSAck", "AppAck", "AppRecv"}
  PROVE  Sent(s, c, a, k) \in HostFrames
BY BytesUsed DEF TypeOK, Sent, HostFrames

\* A read takes one frame from the queue and leaves the rest as it is.
LEMMA ReadInEffect ==
  ASSUME TypeOK, NEW at, ReadIn(at)
  PROVE  /\ toHost' \in Seq(HostFrames)
         /\ Len(toHost') = Len(toHost) - 1
         /\ \A i \in DOMAIN toHost' : i + 1 \in DOMAIN toHost
                                      /\ toHost'[i] = toHost[i + 1]
         /\ 1 \in DOMAIN toHost
         /\ Head(toHost) = toHost[1]
         /\ UNCHANGED <<msgcnt, mode, handled, toGW, cycle, heard, restarts>>
BY DEF TypeOK, ReadIn, gateway, history

\* While the driver is in a function's request list the index is in it.
LEMMA RequestsLen ==
  /\ peer = NoPeer => Len(Requests) = 6
  /\ peer # NoPeer => Len(Requests) = 5
BY RequestTypes DEF Requests

\* The program never writes a malformed packet, runs past the list of
\* requests of the running function, or lets the counter leave its byte.
THEOREM TypeCorrect == Spec => []TypeOK
<1>1. Init => TypeOK
  <2> SUFFICES ASSUME Init PROVE TypeOK
    OBVIOUS
  <2>1. LeftOver \subseteq HostFrames
    BY BytesUsed, WidthAssumption DEF LeftOver, HostFrames, Apps, Count
  <2>2. toHost \in Seq(HostFrames)
    <3>1. CASE toHost = <<>>
      BY <3>1
    <3>2. CASE toHost \in {<<f>> : f \in LeftOver}
      <4>1. PICK f \in LeftOver : toHost = <<f>>
        BY <3>2
      <4>2. f \in HostFrames
        BY <2>1, <4>1
      <4>3. QED
        BY <4>1, <4>2
    <3>3. QED
      BY <3>1, <3>2 DEF Init
  <2>3. n \in 1 .. Len(Requests)
    BY RequestsLen DEF Init
  <2>4. msgcnt \in Count
    BY WidthAssumption DEF Init, Count
  <2>5. handled \in Seq(Commands) /\ toGW \in Seq(GWFrames)
    BY DEF Init
  <2>6. /\ pc \in DriverStates
        /\ devstate \in {"OS", "App"}
        /\ mode \in Modes
    BY DEF Init, DriverStates, Modes
  <2>7. /\ peer \in Peers \cup {NoPeer}
        /\ remaining \in SUBSET Peers
        /\ cycle \in Nat
        /\ restarts \in 0 .. MaxRestarts
    BY BoundAssumption DEF Init
  <2>8. heard \in BOOLEAN
    BY DEF Init
  <2>9. QED
    BY <2>2, <2>3, <2>4, <2>5, <2>6, <2>7, <2>8 DEF TypeOK
<1>2. TypeOK /\ [Next]_vars => TypeOK'
  <2> SUFFICES ASSUME TypeOK, [Next]_vars PROVE TypeOK'
    OBVIOUS
  <2> USE DEF DriverStates, Reading, Wanted, Modes
  <2>0. 0 \in Count
    BY WidthAssumption DEF Count
  <2>r. (peer' = peer /\ n' = n) => n' \in 1 .. Len(Requests')
    BY DEF TypeOK, Requests
  <2>1. CASE TurnOff
    <3>1. handled' \in Seq(Commands) /\ toGW' \in Seq(GWFrames)
      BY <2>1 DEF TurnOff
    <3>2. heard' \in BOOLEAN
      BY <2>1 DEF TurnOff
    <3>3. QED
      BY <2>1, <2>r, <3>1, <3>2 DEF TurnOff, TypeOK
  <2>2. CASE Flush
    BY <2>2, <2>r DEF Flush, TypeOK, gateway, history
  <2>3. CASE TurnOn
    BY <2>3, <2>r DEF TurnOn, TypeOK, line, history
  <2>4. CASE ReadBootloader
    BY <2>4, <2>r, ReadInEffect DEF ReadBootloader, TypeOK
  <2>5. CASE SendChangeApp
    <3>1. Written("OS", "OSChangeApp", NoPeer) \in GWFrames
      BY WrittenType, BytesUsed
    <3>2. QED
      BY <2>5, <2>r, <3>1, NextCountType
      DEF SendChangeApp, TypeOK, gateway, history
  <2>6. CASE ReadChangeAck
    BY <2>6, <2>r, ReadInEffect DEF ReadChangeAck, TypeOK
  <2>7. CASE ReadApp
    BY <2>7, <2>r, ReadInEffect DEF ReadApp, TypeOK
  <2>8. CASE SendRequest
    <3>1. /\ Requests[n].dst \in {"OS", "App"}
          /\ WireByte[Requests[n].cmd] \in Nat
      BY RequestTypes, RequestsLen DEF TypeOK, Requests
    <3>2. Written(Requests[n].dst, Requests[n].cmd, peer) \in GWFrames
      BY <3>1, WrittenType DEF TypeOK
    <3>3. QED
      BY <2>8, <2>r, <3>2, NextCountType
      DEF SendRequest, TypeOK, gateway, history
  <2>9. CASE ReadAck
    <3>1. n' \in 1 .. Len(Requests')
      BY <2>9, RequestsLen DEF ReadAck, TypeOK, Requests
    <3>2. QED
      BY <2>9, <3>1, ReadInEffect DEF ReadAck, TypeOK
  <2>10. CASE ReadLastAck
    <3>1. PICK p \in remaining : peer' = p /\ remaining' = remaining \ {p}
      BY <2>10 DEF ReadLastAck
    <3>2. peer' \in Peers /\ remaining' \in SUBSET Peers
      BY <3>1 DEF TypeOK
    <3>3. n' \in 1 .. Len(Requests')
      <4>1. Requests' = AddPeerRequests
        BY <3>2, <3>1, PeersAssumption DEF Requests, TypeOK
      <4>2. QED
        BY <2>10, <4>1, RequestTypes DEF ReadLastAck
    <3>4. QED
      BY <2>10, <3>2, <3>3, ReadInEffect DEF ReadLastAck, TypeOK
  <2>11. CASE ReadFinalAck
    BY <2>11, <2>r, ReadInEffect DEF ReadFinalAck, TypeOK
  <2>12. CASE ReadUnexpected
    BY <2>12, <2>r DEF ReadUnexpected, TypeOK, gateway, history
  <2>13. CASE GwBoot
    <3>1. Sent("OS", "OSGetApp", "Co_CPU_BL", 0) \in HostFrames
      BY <2>0, SentType DEF Apps
    <3>2. QED
      BY <2>13, <2>r, <3>1 DEF GwBoot, TypeOK, driver, history
  <2>14. CASE GwChangeApp
    <3>0. Head(toGW) \in GWFrames
      BY <2>14 DEF GwChangeApp, TypeOK
    <3>1. Head(toGW).cnt \in Count
      BY <3>0 DEF GWFrames
    <3>2. Sent("OS", "OSAck", "none", Head(toGW).cnt) \in HostFrames
      BY <3>1, SentType DEF Apps
    <3>3. QED
      BY <2>14, <2>r, <3>2 DEF GwChangeApp, TypeOK, driver, history
  <2>15. CASE GwStartApp
    <3>1. Sent("OS", "OSGetApp", "Co_CPU_App", 0) \in HostFrames
      BY <2>0, SentType DEF Apps
    <3>2. QED
      BY <2>15, <2>r, <3>1 DEF GwStartApp, TypeOK, driver, history
  <2>16. CASE GwHandle
    <3>1. Head(toGW) \in GWFrames
      BY <2>16 DEF GwHandle, TypeOK
    <3>2. Sent("App", "AppAck", "none", Head(toGW).cnt) \in HostFrames
      BY <3>1, SentType DEF Apps, GWFrames
    <3>3. [dst |-> Head(toGW).dst, byte |-> Head(toGW).byte,
           peer |-> Head(toGW).peer] \in Commands
      BY <3>1 DEF GWFrames, Commands
    <3>4. QED
      BY <2>16, <2>r, <3>2, <3>3 DEF GwHandle, TypeOK, driver, history
  <2>17. CASE GwRadio
    <3>1. Sent("App", "AppRecv", "none", 0) \in HostFrames
      BY <2>0, SentType DEF Apps
    <3>2. QED
      BY <2>17, <2>r, <3>1 DEF GwRadio, TypeOK, driver, gateway
  <2>18. CASE Restart
    <3>1. n' \in 1 .. Len(Requests')
      <4>1. Requests' = InitRequests
        BY <2>18 DEF Restart, Requests
      <4>2. QED
        BY <2>18, <4>1, RequestTypes DEF Restart
    <3>2. restarts' \in 0 .. MaxRestarts
      BY <2>18, BoundAssumption DEF Restart, TypeOK
    <3>3. QED
      BY <2>18, <2>0, <3>1, <3>2 DEF Restart, TypeOK, gateway, line
  <2>19. CASE UNCHANGED vars
    BY <2>19, <2>r DEF TypeOK, vars, driver, gateway, line, history
  <2>20. QED
    BY <2>1, <2>2, <2>3, <2>4, <2>5, <2>6, <2>7, <2>8, <2>9, <2>10, <2>11,
       <2>12, <2>13, <2>14, <2>15, <2>16, <2>17, <2>18, <2>19
    DEF Next, DriverNext, GatewayNext
<1>3. QED
  BY <1>1, <1>2, PTL DEF Spec

----------------------------------------------------------------------------
(* What was sent before a reset is never read after it *)

\* Once the input buffer is flushed it only ever holds frames of this cycle.
Fresh ==
  pc \in Session \cup {"flushed"} =>
    \A i \in DOMAIN toHost : toHost[i].cycle = cycle

\* Appending to the queue of the host keeps what was there.
LEMMA AppendEffect ==
  ASSUME TypeOK, NEW f, toHost' = Append(toHost, f)
  PROVE  \A i \in DOMAIN toHost' :
           \/ i \in DOMAIN toHost /\ toHost'[i] = toHost[i]
           \/ i = Len(toHost) + 1 /\ toHost'[i] = f
BY DEF TypeOK

LEMMA FreshStep == TypeOK /\ Fresh /\ [Next]_vars => Fresh'
<1> SUFFICES ASSUME TypeOK, Fresh, [Next]_vars PROVE Fresh'
  OBVIOUS
<1> USE DEF Session, Reading, Wanted
<1>1. CASE TurnOff \/ Restart
  BY <1>1 DEF TurnOff, Restart, Fresh
<1>2. CASE Flush
  BY <1>2 DEF Flush, Fresh
<1>3. CASE TurnOn
  BY <1>3 DEF TurnOn, Fresh, line, history
<1>4. CASE ReadBootloader \/ ReadChangeAck \/ ReadApp
           \/ ReadAck \/ ReadLastAck \/ ReadFinalAck
  <2>1. PICK at \in Reading : ReadIn(at)
    BY <1>4 DEF ReadBootloader, ReadChangeAck, ReadApp, ReadAck, ReadLastAck,
                ReadFinalAck
  <2>2. pc \in Reading
    BY <2>1 DEF ReadIn
  <2>3. QED
    BY <2>1, <2>2, ReadInEffect DEF Fresh
<1>5. CASE SendChangeApp
  BY <1>5 DEF SendChangeApp, Fresh, history
<1>6. CASE SendRequest
  BY <1>6 DEF SendRequest, Fresh, history
<1>7. CASE ReadUnexpected
  BY <1>7 DEF ReadUnexpected, Fresh
<1>8. CASE GatewayNext \/ GwRadio
  <2>1. PICK s, c, a, k : toHost' = Append(toHost, Sent(s, c, a, k))
    BY <1>8 DEF GatewayNext, GwBoot, GwChangeApp, GwStartApp, GwHandle, GwRadio
  <2>2. pc' = pc /\ cycle' = cycle
    BY <1>8 DEF GatewayNext, GwBoot, GwChangeApp, GwStartApp, GwHandle,
                GwRadio, driver, history
  <2>3. Sent(s, c, a, k).cycle = cycle
    BY DEF Sent
  <2>4. QED
    BY <2>1, <2>2, <2>3, AppendEffect DEF Fresh
<1>9. CASE UNCHANGED vars
  BY <1>9 DEF Fresh, vars, driver, line, history
<1>10. QED
  BY <1>1, <1>2, <1>3, <1>4, <1>5, <1>6, <1>7, <1>8, <1>9
  DEF Next, DriverNext, GatewayNext

\* The order power off, flush, power on of ResetUARTGW suffices: no frame
\* sent before the reset is left once init reads.
THEOREM NothingStale == Spec => []NothingStaleIsRead
<1>1. Init => Fresh
  BY DEF Init, Fresh, Session, Reading, Wanted
<1>2. Fresh => NothingStaleIsRead
  BY DEF Fresh, NothingStaleIsRead
<1>3. QED
  BY <1>1, <1>2, FreshStep, TypeCorrect, PTL DEF Spec

----------------------------------------------------------------------------
(* An ack is always the one of the packet just written *)

NoAck == \A i \in DOMAIN toHost : ~ IsAck(toHost[i])

\* One ack is on its way, and it is the answer to the last packet.
OneAck ==
  \E i \in DOMAIN toHost :
    /\ IsAck(toHost[i])
    /\ NextCount(toHost[i].cnt) = msgcnt
    /\ \A j \in DOMAIN toHost : j # i => ~ IsAck(toHost[j])

Idle     == toGW = <<>> /\ NoAck
Asked    == Len(toGW) = 1 /\ NextCount(toGW[1].cnt) = msgcnt /\ NoAck
Answered == toGW = <<>> /\ OneAck

InBootloader  == mode \in {"Starting", "Bootloader"}
PastBootloader == mode \in {"Switching", "App"}

\* The inductive invariant: driver and gateway take turns, and the reset is
\* what starts them off in step.
TurnInv ==
  \/ pc \in {"start", "failed"}
  \/ pc = "off" /\ mode = "Off" /\ toGW = <<>>
  \/ pc = "flushed" /\ mode = "Off" /\ toGW = <<>> /\ toHost = <<>>
  \/ pc \in {"hello", "changeApp"} /\ InBootloader /\ Idle
  \/ pc = "changeAck" /\ InBootloader /\ Asked
  \/ pc = "changeAck" /\ PastBootloader /\ Answered
  \/ pc \in {"appHello", "send", "ready"} /\ PastBootloader /\ Idle
  \/ pc = "await" /\ PastBootloader /\ (Asked \/ Answered)

\* Reading an ack that was the only one leaves none; reading when there is
\* none leaves none.
LEMMA ReadTakesAck ==
  ASSUME TypeOK, NEW at, ReadIn(at)
  PROVE  /\ NoAck => NoAck'
         /\ OneAck /\ IsAck(toHost[1]) => NoAck'
BY ReadInEffect DEF NoAck, OneAck, IsAck

\* What changeAck and await accept is an ack.
LEMMA AcceptedIsAck ==
  ASSUME TypeOK, NEW at \in {"changeAck", "await"}, ReadIn(at)
  PROVE  IsAck(toHost[1])
<1>1. Wanted["changeAck"].cmd = "OSAck" /\ Wanted["await"].cmd = "AppAck"
  BY DEF Wanted
<1>2. \/ IsCommand(devstate, Head(toHost).byte, "OSAck")
      \/ IsCommand(devstate, Head(toHost).byte, "AppAck")
  BY <1>1 DEF ReadIn, Accepts
<1>3. Head(toHost).byte = 4
  BY <1>2, AckByte
<1>4. QED
  BY <1>3, ReadInEffect, BytesUsed DEF IsAck

\* A queue that gets a frame other than an ack has the acks it had.
LEMMA AppendOther ==
  ASSUME TypeOK, NEW f, ~ IsAck(f), toHost' = Append(toHost, f),
         msgcnt' = msgcnt
  PROVE  /\ NoAck => NoAck'
         /\ OneAck => OneAck'
<1>1. NoAck => NoAck'
  BY AppendEffect DEF NoAck, IsAck
<1>2. ASSUME OneAck PROVE OneAck'
  <2>1. PICK i \in DOMAIN toHost :
          /\ IsAck(toHost[i])
          /\ NextCount(toHost[i].cnt) = msgcnt
          /\ \A j \in DOMAIN toHost : j # i => ~ IsAck(toHost[j])
    BY <1>2 DEF OneAck
  <2>2. i \in DOMAIN toHost' /\ toHost'[i] = toHost[i]
    BY DEF TypeOK
  <2>3. \A j \in DOMAIN toHost' : j # i => ~ IsAck(toHost'[j])
    BY <2>1, AppendEffect
  <2>4. QED
    BY <2>1, <2>2, <2>3 DEF OneAck, IsAck, NextCount
<1>3. QED
  BY <1>1, <1>2

\* The ack of the packet just written, put into a queue without acks.
LEMMA AppendAck ==
  ASSUME TypeOK, NoAck, NEW f, IsAck(f), NextCount(f.cnt) = msgcnt,
         toHost' = Append(toHost, f), msgcnt' = msgcnt
  PROVE  OneAck'
<1>1. /\ Len(toHost) + 1 \in DOMAIN toHost'
      /\ toHost'[Len(toHost) + 1] = f
  BY DEF TypeOK
<1>2. \A j \in DOMAIN toHost' : j # Len(toHost) + 1 => ~ IsAck(toHost'[j])
  BY AppendEffect DEF NoAck
<1>3. QED
  BY <1>1, <1>2 DEF OneAck, IsAck, NextCount

LEMMA TurnStep == TypeOK /\ TurnInv /\ [Next]_vars => TurnInv'
<1> SUFFICES ASSUME TypeOK, TurnInv, [Next]_vars PROVE TurnInv'
  OBVIOUS
<1> USE DEF InBootloader, PastBootloader
<1>1. CASE TurnOff \/ Restart
  BY <1>1 DEF TurnOff, Restart, TurnInv
<1>2. CASE Flush
  BY <1>2 DEF Flush, TurnInv, gateway
<1>3. CASE TurnOn
  <2>1. toHost' = <<>> /\ toGW' = <<>>
    BY <1>3 DEF TurnOn, TurnInv, line
  <2>2. NoAck'
    BY <2>1 DEF NoAck
  <2>3. QED
    BY <1>3, <2>1, <2>2 DEF TurnOn, TurnInv, Idle
<1>4. CASE ReadBootloader
  BY <1>4, ReadInEffect, ReadTakesAck DEF ReadBootloader, ReadIn, TurnInv, Idle
<1>5. CASE SendChangeApp
  <2>1. Idle /\ InBootloader
    BY <1>5 DEF SendChangeApp, TurnInv
  <2>2. NoAck'
    BY <1>5, <2>1 DEF SendChangeApp, Idle, NoAck
  <2>3. Len(toGW') = 1 /\ toGW'[1].cnt = msgcnt
    BY <1>5, <2>1 DEF SendChangeApp, Idle, Written
  <2>4. Asked'
    BY <1>5, <2>2, <2>3 DEF SendChangeApp, Asked, NextCount
  <2>5. QED
    BY <1>5, <2>1, <2>4 DEF SendChangeApp, TurnInv, gateway
<1>6. CASE ReadChangeAck
  <2>1. IsAck(toHost[1]) /\ 1 \in DOMAIN toHost
    BY <1>6, AcceptedIsAck, ReadInEffect DEF ReadChangeAck
  <2>2. ~ NoAck
    BY <2>1 DEF NoAck
  <2>3. PastBootloader /\ Answered
    BY <1>6, <2>2 DEF ReadChangeAck, ReadIn, TurnInv, Asked
  <2>4. NoAck' /\ toGW' = toGW /\ mode' = mode
    BY <1>6, <2>1, <2>3, ReadTakesAck, ReadInEffect DEF ReadChangeAck, Answered
  <2>5. QED
    BY <1>6, <2>3, <2>4 DEF ReadChangeAck, TurnInv, Idle, Answered
<1>7. CASE ReadApp
  BY <1>7, ReadInEffect, ReadTakesAck DEF ReadApp, ReadIn, TurnInv, Idle
<1>8. CASE SendRequest
  <2>1. Idle /\ PastBootloader
    BY <1>8 DEF SendRequest, TurnInv
  <2>2. NoAck'
    BY <1>8, <2>1 DEF SendRequest, Idle, NoAck
  <2>3. Len(toGW') = 1 /\ toGW'[1].cnt = msgcnt
    BY <1>8, <2>1 DEF SendRequest, Idle, Written
  <2>4. Asked'
    BY <1>8, <2>2, <2>3 DEF SendRequest, Asked, NextCount
  <2>5. QED
    BY <1>8, <2>1, <2>4 DEF SendRequest, TurnInv, gateway
<1>9. CASE ReadAck \/ ReadLastAck \/ ReadFinalAck
  <2>1. ReadIn("await") /\ pc' \in {"send", "ready"}
    BY <1>9 DEF ReadAck, ReadLastAck, ReadFinalAck
  <2>2. IsAck(toHost[1]) /\ 1 \in DOMAIN toHost
    BY <2>1, AcceptedIsAck, ReadInEffect
  <2>3. ~ NoAck
    BY <2>2 DEF NoAck
  <2>4. PastBootloader /\ Answered
    BY <2>1, <2>3 DEF ReadIn, TurnInv, Asked
  <2>5. NoAck' /\ toGW' = toGW /\ mode' = mode
    BY <2>1, <2>2, <2>4, ReadTakesAck, ReadInEffect DEF Answered
  <2>6. QED
    BY <2>1, <2>4, <2>5 DEF TurnInv, Idle, Answered
<1>10. CASE ReadUnexpected
  BY <1>10 DEF ReadUnexpected, TurnInv
<1>11. CASE GwBoot \/ GwStartApp \/ GwRadio
  <2>1. PICK f : toHost' = Append(toHost, f) /\ ~ IsAck(f)
    <3>1. \A s, a, c : c \in {"OSGetApp", "AppRecv"} => ~ IsAck(Sent(s, c, a, 0))
      BY BytesUsed DEF IsAck, Sent
    <3>2. CASE GwBoot
      BY <3>1, <3>2 DEF GwBoot
    <3>3. CASE GwStartApp
      BY <3>1, <3>3 DEF GwStartApp
    <3>4. CASE GwRadio
      BY <3>1, <3>4 DEF GwRadio
    <3>5. QED
      BY <1>11, <3>2, <3>3, <3>4
  <2>3. UNCHANGED <<pc, msgcnt, toGW>>
    BY <1>11 DEF GwBoot, GwStartApp, GwRadio, driver
  <2>4. /\ NoAck => NoAck'
        /\ OneAck => OneAck'
    BY <2>1, <2>3, AppendOther
  <2>5. /\ InBootloader => InBootloader'
        /\ PastBootloader => PastBootloader'
        /\ mode # "Off"
    BY <1>11 DEF GwBoot, GwStartApp, GwRadio, gateway
  <2>6. /\ Idle => Idle'
        /\ Asked => Asked'
        /\ Answered => Answered'
    BY <2>3, <2>4 DEF Idle, Asked, Answered, NextCount
  <2>7. QED
    BY <2>3, <2>5, <2>6 DEF TurnInv
<1>12. CASE GwChangeApp \/ GwHandle
  <2>1. /\ UNCHANGED <<pc, msgcnt>>
        /\ toGW # <<>> /\ toGW' = Tail(toGW)
        /\ mode \in {"Bootloader", "App"}
        /\ PastBootloader'
    BY <1>12 DEF GwChangeApp, GwHandle, driver
  <2>2. CASE pc \in {"start", "failed"}
    BY <2>1, <2>2 DEF TurnInv
  <2>3. CASE pc \notin {"start", "failed"}
    <3>1. /\ Asked
          /\ \/ pc = "changeAck"
             \/ pc = "await"
      BY <2>1, <2>3 DEF TurnInv, Idle, Answered
    <3>2. toGW' = <<>> /\ Head(toGW) = toGW[1]
      BY <2>1, <3>1 DEF Asked, TypeOK
    <3>3. PICK f : /\ toHost' = Append(toHost, f)
                   /\ IsAck(f)
                   /\ f.cnt = toGW[1].cnt
      <4>1. \A s, c, k : c \in {"OSAck", "AppAck"} =>
              IsAck(Sent(s, c, "none", k)) /\ Sent(s, c, "none", k).cnt = k
        BY BytesUsed DEF IsAck, Sent
      <4>2. CASE GwChangeApp
        BY <3>2, <4>1, <4>2 DEF GwChangeApp
      <4>3. CASE GwHandle
        BY <3>2, <4>1, <4>3 DEF GwHandle
      <4>4. QED
        BY <1>12, <4>2, <4>3
    <3>4. OneAck'
      BY <2>1, <3>1, <3>3, AppendAck DEF Asked
    <3>5. QED
      BY <2>1, <3>1, <3>2, <3>4 DEF TurnInv, Answered
  <2>4. QED
    BY <2>2, <2>3
<1>13. CASE UNCHANGED vars
  BY <1>13 DEF vars, driver, gateway, line, TurnInv, Idle, Asked, Answered,
              NoAck, OneAck, NextCount, IsAck
<1>14. QED
  BY <1>1, <1>2, <1>3, <1>4, <1>5, <1>6, <1>7, <1>8, <1>9, <1>10, <1>11,
     <1>12, <1>13 DEF Next, DriverNext, GatewayNext

\* Although nothing compares counters, no function of startup can take
\* another packet's ack for its own.
THEOREM AcksMatch == Spec => []AckMatchesRequest
<1>1. Init => TurnInv
  BY DEF Init, TurnInv
<1>2. TurnInv => AckMatchesRequest
  <2> SUFFICES ASSUME TurnInv, pc \in Session, NEW i \in Acks
               PROVE  /\ pc \in {"await", "changeAck"}
                      /\ toGW = <<>>
                      /\ NextCount(toHost[i].cnt) = msgcnt
                      /\ \A j \in Acks : i = j
    BY DEF AckMatchesRequest
  <2>1. ~ NoAck
    BY DEF Acks, NoAck
  <2>2. pc \in {"await", "changeAck"} /\ Answered
    BY <2>1 DEF TurnInv, Idle, Asked, Session, Reading, Wanted
  <2>3. QED
    BY <2>2 DEF Answered, OneAck, Acks
<1>3. QED
  BY <1>1, <1>2, TurnStep, TypeCorrect, PTL DEF Spec

----------------------------------------------------------------------------
(* Where the two ends stand in the handshake *)

BootHello(f) == /\ f.from = "OS" /\ f.byte = WireByte["OSGetApp"]
                /\ f.app = "Co_CPU_BL"
BootAck(f)   == f.from = "OS" /\ IsAck(f)
AppHello(f)  == /\ f.from = "OS" /\ f.byte = WireByte["OSGetApp"]
                /\ f.app = "Co_CPU_App"
FromApp(f)   == f.from = "App" /\ f.byte \in {WireByte["AppAck"],
                                              WireByte["AppRecv"]}

\* All frames to the host after the first k are the application's.
AppAfter(k) == /\ k <= Len(toHost)
               /\ \A i \in DOMAIN toHost : i > k => FromApp(toHost[i])

\* What is on its way to the driver, by the place each end has come to.
Handshake ==
  \/ pc = "failed"
  \/ /\ devstate = "OS"
     /\ \/ pc \in {"start", "off"}
        \/ pc = "flushed" /\ mode = "Off" /\ Len(toHost) = 0
        \/ pc = "hello" /\ mode = "Starting" /\ Len(toHost) = 0
        \/ /\ pc = "hello" /\ mode = "Bootloader"
           /\ Len(toHost) = 1 /\ BootHello(toHost[1])
        \/ /\ pc \in {"changeApp", "changeAck"} /\ mode = "Bootloader"
           /\ Len(toHost) = 0
        \/ /\ pc = "changeAck" /\ mode = "Switching"
           /\ Len(toHost) = 1 /\ BootAck(toHost[1])
        \/ /\ pc = "changeAck" /\ mode = "App"
           /\ AppAfter(2) /\ BootAck(toHost[1]) /\ AppHello(toHost[2])
        \/ pc = "appHello" /\ mode = "Switching" /\ Len(toHost) = 0
        \/ pc = "appHello" /\ mode = "App" /\ AppAfter(1) /\ AppHello(toHost[1])
  \/ /\ pc \in {"send", "await", "ready"}
     /\ devstate = "App" /\ mode = "App" /\ AppAfter(0)

LEMMA TurnAlways == Spec => [](TypeOK /\ TurnInv)
<1>1. Init => TurnInv
  BY DEF Init, TurnInv
<1>2. QED
  BY <1>1, TurnStep, TypeCorrect, PTL DEF Spec

\* Reading the frames before the application's, and the application's.
LEMMA ReadAppAfter ==
  ASSUME TypeOK, NEW at, ReadIn(at)
  PROVE  /\ AppAfter(2) => AppAfter(1)' /\ toHost'[1] = toHost[2]
         /\ AppAfter(1) => AppAfter(0)'
         /\ AppAfter(0) => AppAfter(0)'
<1>1. /\ Len(toHost) \in Nat /\ DOMAIN toHost = 1 .. Len(toHost)
      /\ Len(toHost') \in Nat /\ DOMAIN toHost' = 1 .. Len(toHost')
      /\ Len(toHost') = Len(toHost) - 1
  BY ReadInEffect DEF TypeOK
<1>2. \A i \in 1 .. Len(toHost') : /\ i + 1 \in 1 .. Len(toHost)
                                  /\ toHost'[i] = toHost[i + 1]
  BY <1>1, ReadInEffect
<1>3. ASSUME NEW k \in Nat, AppAfter(k + 1) PROVE AppAfter(k)'
  <2>1. \A i \in 1 .. Len(toHost') : i > k => FromApp(toHost'[i])
    <3> SUFFICES ASSUME NEW i \in 1 .. Len(toHost'), i > k
                 PROVE  FromApp(toHost'[i])
      OBVIOUS
    <3>1. i + 1 \in DOMAIN toHost /\ i + 1 > k + 1
      BY <1>1, <1>2
    <3>2. FromApp(toHost[i + 1])
      BY <1>3, <3>1 DEF AppAfter
    <3>3. QED
      BY <1>2, <3>2
  <2>2. k <= Len(toHost')
    BY <1>1, <1>3 DEF AppAfter
  <2>3. QED
    BY <1>1, <2>1, <2>2 DEF AppAfter, FromApp
<1>4. ASSUME AppAfter(0) PROVE AppAfter(0)'
  <2>1. \A i \in 1 .. Len(toHost') : i + 1 > 0
    OBVIOUS
  <2>2. \A i \in 1 .. Len(toHost') : FromApp(toHost[i + 1])
    BY <1>1, <1>2, <1>4, <2>1 DEF AppAfter
  <2>3. \A i \in 1 .. Len(toHost') : FromApp(toHost'[i])
    BY <1>2, <2>2
  <2>4. QED
    BY <1>1, <2>3 DEF AppAfter, FromApp
<1>5. AppAfter(2) => toHost'[1] = toHost[2]
  BY <1>1, <1>2 DEF AppAfter
<1>6. AppAfter(1 + 1) = AppAfter(2) /\ AppAfter(0 + 1) = AppAfter(1)
  OBVIOUS
<1>7. QED
  BY <1>3, <1>4, <1>5, <1>6

\* What the application sends comes after what is there.
LEMMA AppendApp ==
  ASSUME TypeOK, NEW f, FromApp(f), NEW k \in Nat, AppAfter(k),
         toHost' = Append(toHost, f)
  PROVE  AppAfter(k)' /\ \A i \in DOMAIN toHost : toHost'[i] = toHost[i]
<1>1. Len(toHost) \in Nat /\ Len(toHost') = Len(toHost) + 1
  BY DEF TypeOK
<1>2. \A i \in DOMAIN toHost : toHost'[i] = toHost[i]
  BY DEF TypeOK
<1>3. QED
  BY <1>1, <1>2, AppendEffect DEF AppAfter, FromApp

\* The bytes of the frames of the gateway.
LEMMA SentFrames ==
  /\ BootHello(Sent("OS", "OSGetApp", "Co_CPU_BL", 0))
  /\ \A k : BootAck(Sent("OS", "OSAck", "none", k))
  /\ AppHello(Sent("OS", "OSGetApp", "Co_CPU_App", 0))
  /\ \A k : FromApp(Sent("App", "AppAck", "none", k))
  /\ FromApp(Sent("App", "AppRecv", "none", 0))
BY BytesUsed DEF BootHello, BootAck, AppHello, FromApp, Sent, IsAck

LEMMA HandshakeStep == TypeOK /\ TurnInv /\ Handshake /\ [Next]_vars => Handshake'
<1> SUFFICES ASSUME TypeOK, TurnInv, Handshake, [Next]_vars PROVE Handshake'
  OBVIOUS
<1> DEFINE L == Len(toHost)
<1>a. L \in Nat /\ DOMAIN toHost = 1 .. L
  BY DEF TypeOK
<1>1. CASE TurnOff
  BY <1>1 DEF TurnOff, Handshake
<1>2. CASE Flush
  BY <1>2 DEF Flush, Handshake, TurnInv, gateway
<1>3. CASE TurnOn
  BY <1>3 DEF TurnOn, Handshake, line
<1>4. CASE ReadBootloader
  <2>1. mode = "Bootloader" /\ L = 1 /\ devstate = "OS"
    BY <1>4, <1>a, ReadInEffect DEF ReadBootloader, ReadIn, Handshake
  <2>2. Len(toHost') = 0
    BY <1>4, <2>1, ReadInEffect DEF ReadBootloader
  <2>3. QED
    BY <1>4, <2>1, <2>2, ReadInEffect DEF ReadBootloader, Handshake
<1>5. CASE SendChangeApp
  BY <1>5 DEF SendChangeApp, Handshake, gateway
<1>6. CASE ReadChangeAck
  <2>1. /\ devstate = "OS"
        /\ \/ mode = "Switching" /\ L = 1
           \/ mode = "App" /\ AppAfter(2) /\ AppHello(toHost[2])
    BY <1>6, <1>a, ReadInEffect DEF ReadChangeAck, ReadIn, Handshake
  <2>2. mode' = mode /\ devstate' = devstate /\ pc' = "appHello"
    BY <1>6, ReadInEffect DEF ReadChangeAck
  <2>3. CASE L = 1 /\ mode = "Switching"
    <3>1. Len(toHost') = 0
      BY <1>6, <2>3, ReadInEffect DEF ReadChangeAck
    <3>2. QED
      BY <2>1, <2>2, <2>3, <3>1 DEF Handshake
  <2>4. CASE mode = "App" /\ AppAfter(2) /\ AppHello(toHost[2])
    <3>1. AppAfter(1)' /\ toHost'[1] = toHost[2]
      BY <1>6, <2>4, ReadAppAfter DEF ReadChangeAck
    <3>2. AppHello(toHost'[1])
      BY <2>4, <3>1
    <3>3. QED
      BY <2>1, <2>2, <2>4, <3>1, <3>2 DEF Handshake
  <2>5. QED
    BY <2>1, <2>3, <2>4
<1>7. CASE ReadApp
  <2>1. mode = "App" /\ AppAfter(1)
    BY <1>7, <1>a, ReadInEffect DEF ReadApp, ReadIn, Handshake
  <2>2. AppAfter(0)' /\ mode' = "App"
    BY <1>7, <2>1, ReadAppAfter, ReadInEffect DEF ReadApp
  <2>3. QED
    BY <1>7, <2>2 DEF ReadApp, Handshake
<1>8. CASE SendRequest
  BY <1>8 DEF SendRequest, Handshake, AppAfter, FromApp, gateway
<1>9. CASE ReadAck \/ ReadLastAck \/ ReadFinalAck
  <2>1. /\ ReadIn("await") /\ pc = "await"
        /\ pc' \in {"send", "ready"} /\ devstate' = devstate
    BY <1>9 DEF ReadAck, ReadLastAck, ReadFinalAck, ReadIn
  <2>2. mode = "App" /\ devstate = "App" /\ AppAfter(0)
    BY <2>1 DEF Handshake
  <2>3. AppAfter(0)' /\ mode' = "App"
    BY <2>1, <2>2, ReadAppAfter, ReadInEffect
  <2>4. QED
    BY <2>1, <2>2, <2>3 DEF Handshake
<1>10. CASE ReadUnexpected
  BY <1>10 DEF ReadUnexpected, Handshake
<1>11. CASE GwBoot
  <2>1. /\ UNCHANGED <<pc, devstate>> /\ mode = "Starting"
        /\ mode' = "Bootloader"
        /\ toHost' = Append(toHost, Sent("OS", "OSGetApp", "Co_CPU_BL", 0))
    BY <1>11 DEF GwBoot, driver
  <2>2. \/ pc = "failed"
        \/ devstate = "OS" /\ pc \in {"start", "off"}
        \/ devstate = "OS" /\ pc = "hello" /\ L = 0
    BY <2>1 DEF Handshake
  <2>3. L = 0 => /\ Len(toHost') = 1
                 /\ toHost'[1] = Sent("OS", "OSGetApp", "Co_CPU_BL", 0)
    BY <2>1 DEF TypeOK
  <2>4. L = 0 => BootHello(toHost'[1])
    BY <2>3, SentFrames
  <2>5. QED
    BY <2>1, <2>2, <2>3, <2>4 DEF Handshake
<1>12. CASE GwChangeApp
  <2>1. /\ UNCHANGED <<pc, devstate>> /\ mode = "Bootloader"
        /\ mode' = "Switching" /\ toGW # <<>>
        /\ toHost' = Append(toHost, Sent("OS", "OSAck", "none", Head(toGW).cnt))
    BY <1>12 DEF GwChangeApp, driver
  <2>2. \/ pc = "failed"
        \/ devstate = "OS" /\ pc \in {"start", "off"}
        \/ devstate = "OS" /\ pc = "changeAck" /\ L = 0
    BY <2>1 DEF Handshake, TurnInv, Idle
  <2>3. L = 0 => /\ Len(toHost') = 1
                 /\ toHost'[1] = Sent("OS", "OSAck", "none", Head(toGW).cnt)
    BY <2>1 DEF TypeOK
  <2>4. L = 0 => BootAck(toHost'[1])
    BY <2>3, SentFrames
  <2>5. QED
    BY <2>1, <2>2, <2>3, <2>4 DEF Handshake
<1>13. CASE GwStartApp
  <2>1. /\ UNCHANGED <<pc, devstate>> /\ mode = "Switching" /\ mode' = "App"
        /\ toHost' = Append(toHost, Sent("OS", "OSGetApp", "Co_CPU_App", 0))
    BY <1>13 DEF GwStartApp, driver
  <2>2. \/ pc = "failed"
        \/ devstate = "OS" /\ pc \in {"start", "off"}
        \/ devstate = "OS" /\ pc = "changeAck" /\ L = 1 /\ BootAck(toHost[1])
        \/ devstate = "OS" /\ pc = "appHello" /\ L = 0
    BY <2>1 DEF Handshake
  <2>3. /\ Len(toHost') = L + 1
        /\ toHost'[L + 1] = Sent("OS", "OSGetApp", "Co_CPU_App", 0)
        /\ L = 1 => toHost'[1] = toHost[1]
    BY <2>1 DEF TypeOK
  <2>4. AppHello(toHost'[L + 1])
    BY <2>3, SentFrames
  <2>5. \A k \in Nat : k = L + 1 => AppAfter(k)'
    BY <1>a, <2>1, <2>3 DEF AppAfter, TypeOK
  <2>6. CASE pc = "changeAck" /\ L = 1 /\ BootAck(toHost[1]) /\ devstate = "OS"
    <3>1. /\ AppAfter(2)' /\ BootAck(toHost'[1]) /\ AppHello(toHost'[2])
      BY <2>3, <2>4, <2>5, <2>6
    <3>2. QED
      BY <2>1, <2>6, <3>1 DEF Handshake
  <2>7. CASE pc = "appHello" /\ L = 0 /\ devstate = "OS"
    <3>1. AppAfter(1)' /\ AppHello(toHost'[1])
      BY <2>4, <2>5, <2>7
    <3>2. QED
      BY <2>1, <2>7, <3>1 DEF Handshake
  <2>8. QED
    BY <2>1, <2>2, <2>6, <2>7 DEF Handshake
<1>14. CASE GwHandle \/ GwRadio
  <2>1. /\ UNCHANGED <<pc, devstate>> /\ mode = "App" /\ mode' = "App"
    BY <1>14 DEF GwHandle, GwRadio, driver, gateway
  <2>2. PICK f : toHost' = Append(toHost, f) /\ FromApp(f)
    BY <1>14, SentFrames DEF GwHandle, GwRadio
  <2>3. \A k \in Nat : AppAfter(k) => /\ AppAfter(k)'
                                      /\ \A i \in 1 .. L : toHost'[i] = toHost[i]
    BY <1>a, <2>2, AppendApp
  <2>4. CASE pc = "changeAck" /\ AppAfter(2) /\ devstate = "OS"
             /\ BootAck(toHost[1]) /\ AppHello(toHost[2])
    <3>1. AppAfter(2)' /\ toHost'[1] = toHost[1] /\ toHost'[2] = toHost[2]
      BY <1>a, <2>3, <2>4 DEF AppAfter
    <3>2. QED
      BY <2>1, <2>4, <3>1 DEF Handshake
  <2>5. CASE pc = "appHello" /\ AppAfter(1) /\ devstate = "OS"
             /\ AppHello(toHost[1])
    <3>1. AppAfter(1)' /\ toHost'[1] = toHost[1]
      BY <1>a, <2>3, <2>5 DEF AppAfter
    <3>2. QED
      BY <2>1, <2>5, <3>1 DEF Handshake
  <2>6. CASE pc \in {"send", "await", "ready"} /\ devstate = "App" /\ AppAfter(0)
    BY <2>1, <2>3, <2>6 DEF Handshake
  <2>7. CASE pc = "failed" \/ (pc \in {"start", "off"} /\ devstate = "OS")
    BY <2>1, <2>7 DEF Handshake
  <2>8. QED
    BY <2>1, <2>4, <2>5, <2>6, <2>7 DEF Handshake
<1>15. CASE Restart
  BY <1>15 DEF Restart, Handshake
<1>16. CASE UNCHANGED vars
  BY <1>16 DEF vars, driver, gateway, line, Handshake, AppAfter, FromApp
<1>17. QED
  BY <1>1, <1>2, <1>3, <1>4, <1>5, <1>6, <1>7, <1>8, <1>9, <1>10, <1>11,
     <1>12, <1>13, <1>14, <1>15, <1>16 DEF Next, DriverNext, GatewayNext

LEMMA HandshakeAlways == Spec => []Handshake
<1>1. Init => Handshake
  BY DEF Init, Handshake
<1>2. QED
  BY <1>1, HandshakeStep, TurnAlways, PTL DEF Spec

\* The frames the driver may find first mean the same to both ends: those of
\* the bootloader and the application's hello in state OS, acks and radio
\* packets of the application in state App.
LEMMA SameMeaning ==
  /\ \A f : f.from = "OS" /\ f.byte \in {0, 4} =>
       Meanings("OS", f.byte) \cap Meanings(f.from, f.byte) # {}
  /\ \A f : FromApp(f) =>
       Meanings("App", f.byte) \cap Meanings(f.from, f.byte) # {}
<1>1. /\ "OSGetApp" \in DOMAIN OSCommands /\ OSCommands["OSGetApp"] = 0
      /\ "OSAck" \in DOMAIN OSCommands /\ OSCommands["OSAck"] = 4
  BY DEF OSCommands
<1>2. /\ "AppAck" \in DOMAIN AppCommands /\ AppCommands["AppAck"] = 4
      /\ "AppRecv" \in DOMAIN AppCommands /\ AppCommands["AppRecv"] = 5
  BY DEF AppCommands
<1>3. Meanings("OS", 0) # {} /\ Meanings("OS", 4) # {}
  BY <1>1 DEF Meanings
<1>4. Meanings("App", 4) # {} /\ Meanings("App", 5) # {}
  BY <1>2 DEF Meanings
<1>5. \A f : FromApp(f) => f.from = "App" /\ f.byte \in {4, 5}
  BY BytesUsed DEF FromApp
<1>6. QED
  BY <1>3, <1>4, <1>5

\* Although the driver decodes a byte with its own idea of what code the
\* gateway runs, it never takes a packet for another command than the
\* gateway meant: the application is heard in state OS only with its hello,
\* and nothing of the bootloader is left when the state becomes App.
THEOREM DecodesAsSent == Spec => []DecodedAsSent
<1>1. TypeOK /\ Handshake => DecodedAsSent
  <2> SUFFICES ASSUME TypeOK, Handshake, pc \in Reading \cup {"ready"},
                      toHost # <<>>
               PROVE  Meanings(devstate, Head(toHost).byte)
                        \cap Meanings(Head(toHost).from, Head(toHost).byte) # {}
    BY DEF DecodedAsSent
  <2>1. Head(toHost) = toHost[1] /\ 1 \in DOMAIN toHost /\ Len(toHost) # 0
    BY DEF TypeOK
  <2>2. \/ /\ devstate = "OS" /\ toHost[1].from = "OS"
           /\ toHost[1].byte \in {0, 4}
        \/ devstate = "App" /\ FromApp(toHost[1])
    <3>1. \A f : BootHello(f) \/ BootAck(f) \/ AppHello(f) =>
                   f.from = "OS" /\ f.byte \in {0, 4}
      BY BytesUsed DEF BootHello, BootAck, AppHello, IsAck
    <3>2. CASE pc \in {"await", "ready"}
      BY <2>1, <3>2 DEF Handshake, AppAfter
    <3>3. CASE pc \in {"hello", "changeAck", "appHello"}
      <4>1. devstate = "OS" /\ (BootHello(toHost[1]) \/ BootAck(toHost[1])
                                  \/ AppHello(toHost[1]))
        BY <2>1, <3>3 DEF Handshake
      <4>2. QED
        BY <3>1, <4>1
    <3>4. QED
      BY <3>2, <3>3 DEF Reading, Wanted
  <2>3. QED
    BY <2>1, <2>2, SameMeaning
<1>2. QED
  BY <1>1, HandshakeAlways, TypeCorrect, PTL

\* Without a radio packet the application sends nothing but acks.
Undisturbed ==
  (pc \in Session /\ ~ heard) =>
    \A i \in DOMAIN toHost : toHost[i].byte # WireByte["AppRecv"]

\* In every place of the handshake the next packet is the wanted one, unless
\* it is a radio packet.
LEMMA NextIsWanted ==
  ASSUME TypeOK, Handshake, Undisturbed, ~ heard, pc \in Reading, toHost # <<>>
  PROVE  Accepts(Head(toHost))
<1>1. Head(toHost) = toHost[1] /\ 1 \in DOMAIN toHost /\ Len(toHost) # 0
  BY DEF TypeOK
<1>2. toHost[1].byte # 5
  BY <1>1, BytesUsed DEF Undisturbed, Session
<1>3. toHost[1].app \in Apps
  <2>1. toHost[1] \in HostFrames
    BY <1>1 DEF TypeOK
  <2>2. QED
    BY <2>1 DEF HostFrames
<1>4. /\ "OSGetApp" \in DOMAIN OSCommands /\ OSCommands["OSGetApp"] = 0
      /\ "OSAck" \in DOMAIN OSCommands /\ OSCommands["OSAck"] = 4
  BY DEF OSCommands
<1>5. "AppAck" \in DOMAIN AppCommands /\ AppCommands["AppAck"] = 4
  BY DEF AppCommands
<1>6. /\ \A b : IsCommand("OS", b, "OSGetApp") <=> b = 0
      /\ \A b : IsCommand("OS", b, "OSAck") <=> b = 4
      /\ \A b : IsCommand("App", b, "AppAck") <=> b = 4
  BY <1>4, <1>5 DEF IsCommand, Meanings
<1>7. /\ Wanted["hello"].cmd = "OSGetApp" /\ Wanted["hello"].app = {"Co_CPU_BL"}
      /\ Wanted["changeAck"].cmd = "OSAck" /\ Wanted["changeAck"].app = Apps
      /\ Wanted["appHello"].cmd = "OSGetApp"
      /\ Wanted["appHello"].app = {"Co_CPU_App"}
      /\ Wanted["await"].cmd = "AppAck" /\ Wanted["await"].app = Apps
  BY DEF Wanted
<1>8. CASE pc = "hello"
  <2>1. devstate = "OS" /\ BootHello(toHost[1])
    BY <1>1, <1>8 DEF Handshake
  <2>2. QED
    BY <1>1, <1>6, <1>7, <1>8, <2>1, BytesUsed DEF Accepts, BootHello
<1>9. CASE pc = "changeAck"
  <2>1. devstate = "OS" /\ BootAck(toHost[1])
    BY <1>1, <1>9 DEF Handshake
  <2>2. QED
    BY <1>1, <1>3, <1>6, <1>7, <1>9, <2>1, BytesUsed DEF Accepts, BootAck, IsAck
<1>10. CASE pc = "appHello"
  <2>1. devstate = "OS" /\ AppHello(toHost[1])
    BY <1>1, <1>10 DEF Handshake
  <2>2. QED
    BY <1>1, <1>6, <1>7, <1>10, <2>1, BytesUsed DEF Accepts, AppHello
<1>11. CASE pc = "await"
  <2>1. devstate = "App" /\ FromApp(toHost[1])
    BY <1>1, <1>11 DEF Handshake, AppAfter
  <2>2. toHost[1].byte = 4
    BY <1>2, <2>1, BytesUsed DEF FromApp
  <2>3. QED
    BY <1>1, <1>3, <1>6, <1>7, <1>11, <2>1, <2>2 DEF Accepts
<1>12. QED
  BY <1>8, <1>9, <1>10, <1>11 DEF Reading, Wanted

LEMMA UndisturbedStep ==
  TypeOK /\ TurnInv /\ Undisturbed /\ [Next]_vars => Undisturbed'
<1> SUFFICES ASSUME TypeOK, TurnInv, Undisturbed, [Next]_vars
             PROVE  Undisturbed'
  OBVIOUS
<1> USE DEF Session, Reading, Wanted
<1>1. CASE TurnOff \/ Flush \/ Restart
  BY <1>1 DEF TurnOff, Flush, Restart, Undisturbed
<1>2. CASE TurnOn
  <2>1. DOMAIN toHost' = {}
    BY <1>2 DEF TurnOn, TurnInv, line
  <2>2. QED
    BY <2>1 DEF Undisturbed
<1>3. CASE ReadBootloader \/ ReadChangeAck \/ ReadApp
           \/ ReadAck \/ ReadLastAck \/ ReadFinalAck
  <2>1. PICK at \in Reading : ReadIn(at)
    BY <1>3 DEF ReadBootloader, ReadChangeAck, ReadApp, ReadAck, ReadLastAck,
                ReadFinalAck
  <2>2. pc \in Reading
    BY <2>1 DEF ReadIn
  <2>3. QED
    BY <2>1, <2>2, ReadInEffect DEF Undisturbed
<1>4. CASE SendChangeApp \/ SendRequest
  BY <1>4 DEF SendChangeApp, SendRequest, Undisturbed, history
<1>5. CASE ReadUnexpected
  BY <1>5 DEF ReadUnexpected, Undisturbed
<1>6. CASE GatewayNext
  <2>1. PICK s, c, a, k : /\ c \in {"OSGetApp", "OSAck", "AppAck"}
                          /\ toHost' = Append(toHost, Sent(s, c, a, k))
    <3>1. CASE GwBoot
      BY <3>1 DEF GwBoot
    <3>2. CASE GwChangeApp
      BY <3>2 DEF GwChangeApp
    <3>3. CASE GwStartApp
      BY <3>3 DEF GwStartApp
    <3>4. CASE GwHandle
      BY <3>4 DEF GwHandle
    <3>5. QED
      BY <1>6, <3>1, <3>2, <3>3, <3>4 DEF GatewayNext
  <2>2. pc' = pc /\ heard' = heard
    BY <1>6 DEF GatewayNext, GwBoot, GwChangeApp, GwStartApp, GwHandle,
                driver, history
  <2>3. Sent(s, c, a, k).byte # WireByte["AppRecv"]
    BY BytesUsed, <2>1 DEF Sent
  <2>4. QED
    BY <2>1, <2>2, <2>3, AppendEffect DEF Undisturbed
<1>7. CASE GwRadio
  BY <1>7 DEF GwRadio, Undisturbed
<1>8. CASE UNCHANGED vars
  BY <1>8 DEF Undisturbed, vars, driver, line, history
<1>9. QED
  BY <1>1, <1>2, <1>3, <1>4, <1>5, <1>6, <1>7, <1>8
  DEF Next, DriverNext, GatewayNext

\* In whatever state reset finds the gateway, and however often the process
\* died before, startup only fails if a radio packet came in between.
THEOREM FailsOnlyByRadio == Spec => []FailsOnlyWhenRadioHeard
<1>1. Init => Undisturbed /\ FailsOnlyWhenRadioHeard
  BY DEF Init, Undisturbed, FailsOnlyWhenRadioHeard, Session, Reading, Wanted
<1>2. TypeOK /\ Handshake /\ Undisturbed /\ FailsOnlyWhenRadioHeard
        /\ [Next]_vars => FailsOnlyWhenRadioHeard'
  <2> SUFFICES ASSUME TypeOK, Handshake, Undisturbed, FailsOnlyWhenRadioHeard,
                      [Next]_vars, pc' = "failed"
               PROVE  heard'
    BY DEF FailsOnlyWhenRadioHeard
  <2>1. CASE ReadUnexpected
    <3>1. heard
      BY <2>1, NextIsWanted DEF ReadUnexpected
    <3>2. heard' = heard
      BY <2>1 DEF ReadUnexpected, history
    <3>3. QED
      BY <3>1, <3>2
  <2>2. CASE GatewayNext
    BY <2>2 DEF GatewayNext, GwBoot, GwChangeApp, GwStartApp, GwHandle,
                driver, history, FailsOnlyWhenRadioHeard
  <2>3. CASE GwRadio
    BY <2>3 DEF GwRadio
  <2>4. CASE UNCHANGED vars
    BY <2>4 DEF vars, driver, history, FailsOnlyWhenRadioHeard
  <2>5. CASE DriverNext /\ ~ ReadUnexpected
    BY <2>5 DEF DriverNext, TurnOff, Flush, TurnOn, ReadBootloader,
                SendChangeApp, ReadChangeAck, ReadApp, SendRequest, ReadAck,
                ReadLastAck, ReadFinalAck
  <2>6. CASE Restart
    BY <2>6 DEF Restart
  <2>7. QED
    BY <2>1, <2>2, <2>3, <2>4, <2>5, <2>6 DEF Next
<1>3. QED
  BY <1>1, <1>2, UndisturbedStep, HandshakeAlways, TurnAlways, PTL DEF Spec

----------------------------------------------------------------------------
(* What the gateway obeyed *)

Requesting == {"send", "await", "ready"}

\* Until the driver sends requests, a gateway that was reset obeyed none.
NothingObeyed ==
  /\ pc \notin Requesting \cup {"failed"} =>
       n = 1 /\ peer = NoPeer /\ remaining = Peers
  /\ pc \notin Requesting \cup {"start", "failed"} => Len(handled) = 0

\* What the gateway obeyed of the function the driver is running.
Finished ==
  IF pc = "ready" \/ (pc = "await" /\ toGW = <<>>) THEN n ELSE n - 1

\* The current request is on its way to the gateway.
UnderWay ==
  pc = "await" /\ toGW # <<>> =>
    /\ toGW[1].dst = Requests[n].dst
    /\ toGW[1].byte = WireByte[Requests[n].cmd]
    /\ toGW[1].peer = peer

\* The gateway obeyed the requests of init up to the current one, or all of
\* them, those of AddPeer for each device that is through, and the first
\* ones of the current device.
ObeyedSoFar ==
  pc \in Requesting =>
    /\ pc = "ready" => remaining = {} /\ n = Len(Requests)
    /\ peer \notin remaining
    /\ \A i \in DOMAIN handled : handled[i].peer \notin remaining
    /\ Finished <= Len(handled)
    /\ Obeyed(handled, Finished, Requests, Len(handled) - Finished, peer)
    /\ peer = NoPeer => Len(handled) = Finished /\ remaining = Peers
    /\ peer # NoPeer => /\ Obeyed(handled, 6, InitRequests, 0, NoPeer)
                        /\ 6 + Finished <= Len(handled)
    /\ \A p \in Peers \ (remaining \cup {peer}) :
         \E b \in DOMAIN handled : Obeyed(handled, 5, AddPeerRequests, b, p)

\* One more command that is not about p, and one more about p.
LEMMA ObeyOther ==
  ASSUME NEW log \in Seq(Commands), NEW c \in Commands, NEW k \in Nat,
         NEW b \in Nat, NEW reqs, NEW p,
         Obeyed(log, k, reqs, b, p), c.peer # p
  PROVE  Obeyed(Append(log, c), k, reqs, b, p)
<1> DEFINE more == Append(log, c)
<1>1. /\ Len(more) = Len(log) + 1 /\ Len(log) \in Nat
      /\ \A i \in 1 .. Len(log) : more[i] = log[i]
      /\ more[Len(log) + 1] = c
      /\ DOMAIN more = 1 .. Len(log) + 1 /\ DOMAIN log = 1 .. Len(log)
  OBVIOUS
<1> HIDE DEF more
<1>2. b + k <= Len(more)
  BY <1>1 DEF Obeyed
<1>3. \A i \in 1 .. k : /\ more[b + i].dst = reqs[i].dst
                        /\ more[b + i].byte = WireByte[reqs[i].cmd]
  BY <1>1 DEF Obeyed
<1>4. \A i \in DOMAIN more : more[i].peer = p <=> i \in (b + 1) .. (b + k)
  BY <1>1 DEF Obeyed
<1>5. Obeyed(more, k, reqs, b, p)
  BY <1>2, <1>3, <1>4 DEF Obeyed
<1>6. QED
  BY <1>5 DEF more

LEMMA ObeyNext ==
  ASSUME NEW log \in Seq(Commands), NEW c \in Commands, NEW k \in Nat,
         NEW b \in Nat, NEW reqs, NEW p,
         Obeyed(log, k, reqs, b, p), b + k = Len(log), c.peer = p,
         c.dst = reqs[k + 1].dst, c.byte = WireByte[reqs[k + 1].cmd]
  PROVE  Obeyed(Append(log, c), k + 1, reqs, b, p)
<1> DEFINE more == Append(log, c)
<1>1. /\ Len(more) = Len(log) + 1 /\ Len(log) \in Nat
      /\ \A i \in 1 .. Len(log) : more[i] = log[i]
      /\ more[Len(log) + 1] = c
      /\ DOMAIN more = 1 .. Len(log) + 1 /\ DOMAIN log = 1 .. Len(log)
  OBVIOUS
<1> HIDE DEF more
<1>2. b + (k + 1) <= Len(more)
  BY <1>1 DEF Obeyed
<1>3. \A i \in 1 .. k + 1 : /\ more[b + i].dst = reqs[i].dst
                            /\ more[b + i].byte = WireByte[reqs[i].cmd]
  <2> SUFFICES ASSUME NEW i \in 1 .. k + 1
               PROVE  /\ more[b + i].dst = reqs[i].dst
                      /\ more[b + i].byte = WireByte[reqs[i].cmd]
    OBVIOUS
  <2>1. CASE i \in 1 .. k
    <3>1. b + i \in 1 .. Len(log)
      BY <1>1, <2>1
    <3>2. more[b + i] = log[b + i]
      BY <1>1, <3>1
    <3>3. QED
      BY <2>1, <3>2 DEF Obeyed
  <2>2. CASE i = k + 1
    <3>1. b + i = Len(log) + 1
      BY <2>2
    <3>2. QED
      BY <1>1, <2>2, <3>1
  <2>3. QED
    BY <2>1, <2>2
<1>4. \A i \in DOMAIN more :
        more[i].peer = p <=> i \in (b + 1) .. (b + (k + 1))
  BY <1>1 DEF Obeyed
<1>5. Obeyed(more, k + 1, reqs, b, p)
  BY <1>2, <1>3, <1>4 DEF Obeyed
<1>6. QED
  BY <1>5 DEF more

LEMMA ObeyNone ==
  ASSUME NEW log \in Seq(Commands), NEW reqs, NEW p,
         \A i \in DOMAIN log : log[i].peer # p
  PROVE  Obeyed(log, 0, reqs, Len(log), p)
BY DEF Obeyed

LEMMA NothingObeyedStep ==
  TypeOK /\ TurnInv /\ NothingObeyed /\ [Next]_vars => NothingObeyed'
<1> SUFFICES ASSUME TypeOK, TurnInv, NothingObeyed, [Next]_vars
             PROVE  NothingObeyed'
  OBVIOUS
<1> USE DEF Requesting
<1>1. CASE TurnOff
  BY <1>1 DEF TurnOff, NothingObeyed
<1>2. CASE Flush \/ TurnOn \/ SendChangeApp
  BY <1>2 DEF Flush, TurnOn, SendChangeApp, NothingObeyed, gateway
<1>3. CASE ReadBootloader \/ ReadChangeAck
  BY <1>3 DEF ReadBootloader, ReadChangeAck, ReadIn, NothingObeyed, gateway
<1>4. CASE ReadApp \/ SendRequest \/ ReadAck \/ ReadLastAck \/ ReadFinalAck
           \/ ReadUnexpected
  BY <1>4 DEF ReadApp, SendRequest, ReadAck, ReadLastAck, ReadFinalAck,
              ReadUnexpected, NothingObeyed
<1>5. CASE GwBoot \/ GwChangeApp \/ GwStartApp \/ GwRadio
  BY <1>5 DEF GwBoot, GwChangeApp, GwStartApp, GwRadio, driver, gateway,
              NothingObeyed
<1>6. CASE GwHandle
  <2>1. pc \in Requesting \cup {"start", "failed"}
    BY <1>6 DEF GwHandle, TurnInv, Idle, Answered, InBootloader
  <2>2. QED
    BY <1>6, <2>1 DEF GwHandle, driver, NothingObeyed
<1>7. CASE Restart
  BY <1>7 DEF Restart, NothingObeyed
<1>8. CASE UNCHANGED vars
  BY <1>8 DEF vars, driver, gateway, NothingObeyed
<1>9. QED
  BY <1>1, <1>2, <1>3, <1>4, <1>5, <1>6, <1>7, <1>8
  DEF Next, DriverNext, GatewayNext

LEMMA UnderWayStep ==
  TypeOK /\ TurnInv /\ UnderWay /\ [Next]_vars => UnderWay'
<1> SUFFICES ASSUME TypeOK, TurnInv, UnderWay, [Next]_vars,
                    pc' = "await", toGW' # <<>>
             PROVE  /\ toGW'[1].dst = Requests'[n'].dst
                    /\ toGW'[1].byte = WireByte[Requests'[n'].cmd]
                    /\ toGW'[1].peer = peer'
  BY DEF UnderWay
<1>1. CASE SendRequest
  <2>1. toGW = <<>>
    BY <1>1 DEF SendRequest, TurnInv, Idle
  <2>2. toGW'[1] = Written(Requests[n].dst, Requests[n].cmd, peer)
    BY <1>1, <2>1 DEF SendRequest
  <2>3. Requests' = Requests /\ n' = n /\ peer' = peer
    BY <1>1 DEF SendRequest, Requests
  <2>4. QED
    BY <2>2, <2>3 DEF Written
<1>2. CASE GwBoot \/ GwStartApp \/ GwRadio \/ UNCHANGED vars
  <2>1. UNCHANGED <<pc, toGW, n, peer>>
    BY <1>2 DEF GwBoot, GwStartApp, GwRadio, driver, line, vars
  <2>2. QED
    BY <2>1 DEF UnderWay, Requests
<1>3. CASE GwChangeApp \/ GwHandle
  <2>1. pc = "await" /\ toGW # <<>> /\ toGW' = Tail(toGW)
    BY <1>3 DEF GwChangeApp, GwHandle, driver
  <2>2. Len(toGW) = 1
    BY <2>1 DEF TurnInv, Asked, Answered
  <2>3. toGW' = <<>>
    BY <2>1, <2>2 DEF TypeOK
  <2>4. QED
    BY <2>3
<1>4. CASE (DriverNext /\ ~ SendRequest) \/ Restart
  BY <1>4 DEF DriverNext, TurnOff, Flush, TurnOn, ReadBootloader,
              SendChangeApp, ReadChangeAck, ReadApp, ReadAck, ReadLastAck,
              ReadFinalAck, ReadUnexpected, Restart
<1>5. QED
  BY <1>1, <1>2, <1>3, <1>4 DEF Next, GatewayNext

LEMMA FinishedType == TypeOK => Finished \in Nat /\ n \in Nat
BY RequestsLen DEF TypeOK, Finished

\* The gateway obeys the current request.
LEMMA ObeyedSoFarHandle ==
  ASSUME TypeOK, TurnInv, UnderWay, ObeyedSoFar, GwHandle, pc \in Requesting
  PROVE  ObeyedSoFar'
<1>1. /\ pc = "await" /\ toGW # <<>> /\ Len(toGW) = 1
      /\ UNCHANGED <<pc, n, peer, remaining>>
  BY DEF GwHandle, TurnInv, Idle, Asked, Answered, Requesting, driver
<1>2. toGW' = <<>>
  <2>1. toGW' = Tail(toGW) /\ toGW \in Seq(GWFrames)
    BY DEF GwHandle, TypeOK
  <2>2. QED
    BY <1>1, <2>1
<1>3. Finished = n - 1 /\ Finished' = n /\ n \in Nat /\ n - 1 \in Nat
  BY <1>1, <1>2, RequestsLen DEF Finished, TypeOK
<1>4. Requests' = Requests
  BY <1>1 DEF Requests
<1> DEFINE c == [dst |-> Head(toGW).dst, byte |-> Head(toGW).byte,
                 peer |-> Head(toGW).peer]
<1>5. /\ c \in Commands /\ c.peer = peer
      /\ c.dst = Requests[n].dst /\ c.byte = WireByte[Requests[n].cmd]
  <2>1. toGW[1] \in GWFrames /\ Head(toGW) = toGW[1]
    BY <1>1 DEF TypeOK
  <2>2. QED
    BY <1>1, <2>1 DEF UnderWay, GWFrames, Commands
<1>6. handled' = Append(handled, c) /\ handled \in Seq(Commands)
  BY DEF GwHandle, TypeOK
<1> HIDE DEF c
<1> DEFINE L == Len(handled)
<1>7. /\ L \in Nat /\ Len(handled') = L + 1
      /\ DOMAIN handled = 1 .. L /\ DOMAIN handled' = 1 .. L + 1
      /\ \A i \in 1 .. L : handled'[i] = handled[i]
      /\ handled'[L + 1] = c
  BY <1>6
<1>8. /\ peer \notin remaining /\ n - 1 <= L
      /\ \A i \in 1 .. L : handled[i].peer \notin remaining
      /\ Obeyed(handled, n - 1, Requests, L - (n - 1), peer)
      /\ peer = NoPeer => L = n - 1 /\ remaining = Peers
      /\ peer # NoPeer => /\ Obeyed(handled, 6, InitRequests, 0, NoPeer)
                          /\ 6 + (n - 1) <= L
      /\ \A p \in Peers \ (remaining \cup {peer}) : \E b \in 1 .. L :
           Obeyed(handled, 5, AddPeerRequests, b, p)
  BY <1>1, <1>3, <1>7 DEF ObeyedSoFar, Requesting
<1> HIDE DEF L
<1>9. Obeyed(handled', n, Requests, (L + 1) - n, peer)
  <2>1. /\ L - (n - 1) \in Nat /\ (L - (n - 1)) + (n - 1) = L
        /\ (n - 1) + 1 = n /\ L - (n - 1) = (L + 1) - n
    BY <1>3, <1>7, <1>8
  <2>2. L = Len(handled)
    BY DEF L
  <2>3. Obeyed(Append(handled, c), (n - 1) + 1, Requests, L - (n - 1), peer)
    BY <1>3, <1>5, <1>6, <1>8, <2>1, <2>2, ObeyNext
  <2>4. QED
    BY <1>6, <2>1, <2>3
<1>10. \A i \in 1 .. L + 1 : handled'[i].peer \notin remaining
  BY <1>5, <1>7, <1>8
<1>11. peer # NoPeer => Obeyed(handled', 6, InitRequests, 0, NoPeer)
  BY <1>5, <1>6, <1>8, ObeyOther
<1>12. \A p \in Peers \ (remaining \cup {peer}) : \E b \in 1 .. L + 1 :
         Obeyed(handled', 5, AddPeerRequests, b, p)
  <2> SUFFICES ASSUME NEW p \in Peers \ (remaining \cup {peer})
               PROVE  \E b \in 1 .. L + 1 :
                        Obeyed(handled', 5, AddPeerRequests, b, p)
    OBVIOUS
  <2>1. PICK b \in 1 .. L : Obeyed(handled, 5, AddPeerRequests, b, p)
    BY <1>8
  <2>2. Obeyed(handled', 5, AddPeerRequests, b, p)
    BY <1>5, <1>6, <1>7, <2>1, ObeyOther
  <2>3. b \in 1 .. L + 1
    BY <1>7
  <2>4. QED
    BY <2>2, <2>3
<1>13. /\ peer = NoPeer => L + 1 = n /\ remaining = Peers
       /\ peer # NoPeer => 6 + n <= L + 1
       /\ n <= L + 1
  BY <1>3, <1>7, <1>8
<1>14. pc' # "ready"
  BY <1>1
<1>15. QED
  BY <1>1, <1>3, <1>4, <1>7, <1>8, <1>9, <1>10, <1>11, <1>12, <1>13, <1>14
  DEF ObeyedSoFar

\* AddPeer of a device ends, or init does, and AddPeer of another begins.
LEMMA ObeyedSoFarLastAck ==
  ASSUME TypeOK, TurnInv, ObeyedSoFar, ReadLastAck, toGW = <<>>
  PROVE  ObeyedSoFar'
<1>1. PICK p \in remaining : peer' = p /\ remaining' = remaining \ {p}
  BY DEF ReadLastAck
<1>2. /\ pc = "await" /\ pc' = "send" /\ n' = 1 /\ n = Len(Requests)
      /\ handled' = handled
  BY DEF ReadLastAck, ReadIn, gateway
<1>3. Finished = n /\ Finished' = 0 /\ n \in Nat
  BY <1>2, FinishedType DEF Finished
<1>4. p \in Peers /\ p # NoPeer
  BY PeersAssumption DEF TypeOK
<1> DEFINE L == Len(handled)
<1>5. /\ L \in Nat /\ DOMAIN handled = 1 .. L /\ handled \in Seq(Commands)
  BY DEF TypeOK
<1>6. /\ peer \notin remaining /\ n <= L
      /\ \A i \in 1 .. L : handled[i].peer \notin remaining
      /\ Obeyed(handled, n, Requests, L - n, peer)
      /\ peer = NoPeer => L = n /\ remaining = Peers
      /\ peer # NoPeer => /\ Obeyed(handled, 6, InitRequests, 0, NoPeer)
                          /\ 6 + n <= L
      /\ \A q \in Peers \ (remaining \cup {peer}) : \E b \in 1 .. L :
           Obeyed(handled, 5, AddPeerRequests, b, q)
  BY <1>2, <1>3, <1>5 DEF ObeyedSoFar, Requesting
<1>7. Obeyed(handled, 0, Requests', L, p)
  BY <1>5, <1>6, ObeyNone
<1>8. Obeyed(handled, 6, InitRequests, 0, NoPeer) /\ 6 <= L
  <2>1. CASE peer = NoPeer
    <3>1. n = 6 /\ Requests = InitRequests /\ L = 6
      BY <1>2, <1>6, <2>1, RequestsLen DEF Requests
    <3>2. L - n = 0
      BY <3>1
    <3>3. QED
      BY <1>6, <2>1, <3>1, <3>2
  <2>2. CASE peer # NoPeer
    <3>1. Obeyed(handled, 6, InitRequests, 0, NoPeer) /\ 6 + n <= L
      BY <1>6, <2>2
    <3>2. 6 <= L
      BY <1>3, <1>5, <3>1
    <3>3. QED
      BY <3>1, <3>2
  <2>3. QED
    BY <2>1, <2>2
<1>9. \A q \in Peers \ (remaining' \cup {p}) : \E b \in 1 .. L :
        Obeyed(handled, 5, AddPeerRequests, b, q)
  <2> SUFFICES ASSUME NEW q \in Peers \ (remaining' \cup {p})
               PROVE  \E b \in 1 .. L :
                        Obeyed(handled, 5, AddPeerRequests, b, q)
    OBVIOUS
  <2>1. q \in Peers \ remaining
    BY <1>1
  <2>2. CASE q = peer
    <3>1. peer # NoPeer
      BY <2>1, <2>2, PeersAssumption
    <3>2. n = 5 /\ Requests = AddPeerRequests
      BY <1>2, <3>1, RequestsLen DEF Requests
    <3>3. L - 5 \in 1 .. L
      BY <1>5, <1>6, <3>1, <3>2
    <3>4. QED
      BY <1>6, <2>2, <3>2, <3>3
  <2>3. CASE q # peer
    BY <1>6, <2>1, <2>3
  <2>4. QED
    BY <2>2, <2>3
<1>10. \A i \in 1 .. L : handled[i].peer \notin remaining'
  BY <1>1, <1>6
<1>11. p \notin remaining' /\ L - 0 = L /\ 0 <= L /\ 6 + 0 <= L
  BY <1>1, <1>5, <1>8
<1>12. QED
  BY <1>1, <1>2, <1>3, <1>4, <1>5, <1>7, <1>8, <1>9, <1>10, <1>11
  DEF ObeyedSoFar

LEMMA ObeyedSoFarStep ==
  TypeOK /\ TurnInv /\ Handshake /\ NothingObeyed /\ UnderWay /\ ObeyedSoFar
    /\ [Next]_vars => ObeyedSoFar'
<1> SUFFICES ASSUME TypeOK, TurnInv, Handshake, NothingObeyed, UnderWay,
                    ObeyedSoFar, [Next]_vars, pc' \in Requesting
             PROVE  ObeyedSoFar'
  BY DEF ObeyedSoFar
<1>1. CASE ReadApp
  <2>1. /\ pc' = "send" /\ n' = 1 /\ peer' = NoPeer /\ remaining' = Peers
        /\ Len(handled) = 0 /\ handled' = handled
    BY <1>1 DEF ReadApp, ReadIn, NothingObeyed, Requesting, gateway
  <2>2. Finished' = 0
    BY <2>1 DEF Finished
  <2>3. handled \in Seq(Commands) /\ DOMAIN handled = {}
    BY <2>1 DEF TypeOK
  <2>4. Obeyed(handled, 0, Requests', Len(handled), NoPeer)
    BY <2>3, ObeyNone
  <2>5. Obeyed(handled', Finished', Requests', Len(handled') - Finished', peer')
    BY <2>1, <2>2, <2>4
  <2>6. NoPeer \notin Peers
    BY PeersAssumption
  <2>7. QED
    BY <2>1, <2>2, <2>3, <2>5, <2>6 DEF ObeyedSoFar
<1>2. CASE SendRequest
  <2>1. /\ pc = "send" /\ pc' = "await" /\ toGW' # <<>>
        /\ UNCHANGED <<n, peer, remaining, handled>>
    BY <1>2 DEF SendRequest, gateway, TypeOK
  <2>2. Finished = n - 1 /\ Finished' = n - 1 /\ Requests' = Requests
    BY <2>1 DEF Finished, Requests
  <2>3. QED
    BY <2>1, <2>2 DEF ObeyedSoFar, Requesting
<1>3. CASE ReadAck \/ ReadLastAck \/ ReadFinalAck
  <2>1. ReadIn("await") /\ pc = "await"
    BY <1>3 DEF ReadAck, ReadLastAck, ReadFinalAck, ReadIn
  <2>2. IsAck(toHost[1]) /\ 1 \in DOMAIN toHost
    BY <2>1, AcceptedIsAck, ReadInEffect
  <2>3. toGW = <<>>
    BY <2>1, <2>2 DEF TurnInv, Asked, Answered, NoAck
  <2>4. Finished = n /\ n \in Nat
    BY <2>1, <2>3, FinishedType DEF Finished
  <2>5. CASE ReadAck
    <3>1. /\ n' = n + 1 /\ pc' = "send"
          /\ UNCHANGED <<peer, remaining, handled>>
      BY <2>5 DEF ReadAck, ReadIn, gateway
    <3>2. Finished' = n /\ Requests' = Requests
      BY <2>4, <3>1 DEF Finished, Requests
    <3>3. QED
      BY <2>1, <2>4, <3>1, <3>2 DEF ObeyedSoFar, Requesting
  <2>6. CASE ReadLastAck
    BY <2>3, <2>6, ObeyedSoFarLastAck
  <2>7. CASE ReadFinalAck
    <3>1. /\ n = Len(Requests) /\ remaining = {} /\ pc' = "ready"
          /\ UNCHANGED <<n, peer, remaining, handled>>
      BY <2>7 DEF ReadFinalAck, ReadIn, gateway
    <3>2. Finished' = n /\ Requests' = Requests
      BY <3>1 DEF Finished, Requests
    <3>3. QED
      BY <2>1, <2>4, <3>1, <3>2 DEF ObeyedSoFar, Requesting
  <2>8. QED
    BY <1>3, <2>5, <2>6, <2>7
<1>4. CASE GwBoot \/ GwChangeApp \/ GwStartApp \/ GwRadio
  <2>1. pc' = pc /\ mode = "App"
    BY <1>4 DEF GwBoot, GwChangeApp, GwStartApp, GwRadio, driver, Handshake,
                Requesting
  <2>2. UNCHANGED <<pc, n, peer, remaining, handled, toGW>>
    BY <1>4, <2>1 DEF GwBoot, GwChangeApp, GwStartApp, GwRadio, driver, gateway
  <2>3. Finished' = Finished /\ Requests' = Requests
    BY <2>2 DEF Finished, Requests
  <2>4. QED
    BY <2>2, <2>3 DEF ObeyedSoFar, Requesting
<1>5. CASE GwHandle
  <2>1. pc \in Requesting
    BY <1>5 DEF GwHandle, driver
  <2>2. QED
    BY <1>5, <2>1, ObeyedSoFarHandle
<1>6. CASE UNCHANGED vars
  <2>1. UNCHANGED <<pc, n, peer, remaining, handled, toGW>>
    BY <1>6 DEF vars, driver, gateway, line
  <2>2. Finished' = Finished /\ Requests' = Requests
    BY <2>1 DEF Finished, Requests
  <2>3. QED
    BY <2>1, <2>2 DEF ObeyedSoFar, Requesting
<1>7. CASE TurnOff \/ Flush \/ TurnOn \/ ReadBootloader \/ SendChangeApp
           \/ ReadChangeAck \/ ReadUnexpected \/ Restart
  BY <1>7 DEF TurnOff, Flush, TurnOn, ReadBootloader, SendChangeApp,
              ReadChangeAck, ReadUnexpected, Restart, Requesting
<1>8. QED
  BY <1>1, <1>2, <1>3, <1>4, <1>5, <1>6, <1>7 DEF Next, DriverNext, GatewayNext

\* A gateway that startup is done with was told everything, each command
\* once, in order, and since its last reset: neither a process that died
\* half way through nor the order of the devices leaves a trace.
THEOREM ConfiguredWhenReady == Spec => []GatewayConfigured
<1>1. Init => NothingObeyed /\ UnderWay /\ ObeyedSoFar
  BY DEF Init, NothingObeyed, UnderWay, ObeyedSoFar, Requesting
<1>2. TypeOK /\ ObeyedSoFar => GatewayConfigured
  <2> SUFFICES ASSUME TypeOK, ObeyedSoFar, pc = "ready"
               PROVE  /\ Obeyed(handled, 6, InitRequests, 0, NoPeer)
                      /\ \A p \in Peers : \E b \in DOMAIN handled :
                           Obeyed(handled, 5, AddPeerRequests, b, p)
    BY RequestTypes DEF GatewayConfigured
  <2> DEFINE L == Len(handled)
  <2>1. /\ Finished = n /\ n = Len(Requests) /\ remaining = {}
        /\ L \in Nat /\ DOMAIN handled = 1 .. L
    BY DEF ObeyedSoFar, Requesting, Finished, TypeOK
  <2>2. /\ Obeyed(handled, n, Requests, L - n, peer)
        /\ peer = NoPeer => L = n /\ remaining = Peers
        /\ peer # NoPeer => /\ Obeyed(handled, 6, InitRequests, 0, NoPeer)
                            /\ 6 + n <= L
        /\ \A p \in Peers \ (remaining \cup {peer}) :
             \E b \in DOMAIN handled : Obeyed(handled, 5, AddPeerRequests, b, p)
    BY <2>1 DEF ObeyedSoFar, Requesting
  <2>3. CASE peer = NoPeer
    <3>1. n = 6 /\ Requests = InitRequests
      BY <2>1, <2>3, RequestsLen DEF Requests
    <3>2. L = n /\ Peers = {}
      BY <2>1, <2>2, <2>3
    <3>3. L - n = 0
      BY <2>1, <3>2
    <3>4. QED
      BY <2>2, <2>3, <3>1, <3>2, <3>3
  <2>4. CASE peer # NoPeer
    <3>1. n = 5 /\ Requests = AddPeerRequests
      BY <2>1, <2>4, RequestsLen DEF Requests
    <3>2. L - 5 \in DOMAIN handled
      BY <2>1, <2>2, <2>4, <3>1
    <3>3. \E b \in DOMAIN handled : Obeyed(handled, 5, AddPeerRequests, b, peer)
      BY <2>2, <3>1, <3>2
    <3>4. QED
      BY <2>1, <2>2, <2>4, <3>3
  <2>5. QED
    BY <2>3, <2>4
<1>3. QED
  BY <1>1, <1>2, NothingObeyedStep, UnderWayStep, ObeyedSoFarStep,
     HandshakeAlways, TurnAlways, PTL DEF Spec

============================================================================
