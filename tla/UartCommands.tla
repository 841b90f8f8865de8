--------------------------- MODULE UartCommands ---------------------------
(***************************************************************************)
(* The command bytes of the HM-MOD-RPI-PCB serial protocol                 *)
(* (internal/uartgw/uartgw.go) and the fixed sequences of commands that    *)
(* NewUARTGW and AddPeer send.  A command is a string, named as the source *)
(* names its constant; a byte is a number.                                 *)
(***************************************************************************)
EXTENDS Integers, Sequences

(***************************************************************************)
(* uartcmd.Byte: the byte WritePacket puts on the wire.  Commands missing  *)
(* here (AppGetHMID, AppRemovePeer, ...) cannot be written: Byte returns   *)
(* an error for them.                                                      *)
(***************************************************************************)
WireByte ==
  [ OSGetApp |-> 0, OSGetFirmware |-> 2, OSChangeApp |-> 3, OSAck |-> 4,
    OSUpdateFirmware |-> 5, OSNormalMode |-> 6, OSUpdateMode |-> 7,
    OSGetCredits |-> 8, OSEnableCredits |-> 9, OSEnableCSMACA |-> 10,
    OSGetSerial |-> 11, OSSetTime |-> 14,
    AppSetHMID |-> 0, AppSend |-> 2, AppSetCurrentKey |-> 3, AppAck |-> 4,
    AppRecv |-> 5, AppAddPeer |-> 6, AppGetPeers |-> 8,
    AppPeerRemoveAES |-> 10 ]

(***************************************************************************)
(* UARTGW.Command: what a received byte means depends on the state the     *)
(* driver believes the gateway to be in.  In state App the byte 0 is read  *)
(* as OSGetApp, not as AppSetHMID: the gateway may have fallen back to its *)
(* bootloader.                                                             *)
(***************************************************************************)
OSCommands ==
  [ OSGetApp |-> 0, OSGetFirmware |-> 2, OSChangeApp |-> 3, OSAck |-> 4,
    OSUpdateFirmware |-> 5, OSNormalMode |-> 6, OSUpdateMode |-> 7,
    OSGetCredits |-> 8, OSEnableCredits |-> 9, OSEnableCSMACA |-> 10,
    OSGetSerial |-> 11, OSSetTime |-> 14 ]

AppCommands ==
  [ OSGetApp |-> 0, AppGetHMID |-> 1, AppSend |-> 2, AppSetCurrentKey |-> 3,
    AppAck |-> 4, AppRecv |-> 5, AppAddPeer |-> 6, AppRemovePeer |-> 7,
    AppGetPeers |-> 8, AppPeerAddAES |-> 9, AppPeerRemoveAES |-> 10,
    AppSetTempKey |-> 11, AppSetPreviousKey |-> 15, AppDefaultHMID |-> 16 ]

Meanings(devstate, byte) ==
  LET table == IF devstate = "OS" THEN OSCommands ELSE AppCommands
  IN  {c \in DOMAIN table : table[c] = byte}

\* Does ReadPacket, called while the driver is in devstate, return cmd?
\* FALSE also when the byte is unknown: Command then returns an error.
IsCommand(devstate, byte, cmd) == cmd \in Meanings(devstate, byte)

(***************************************************************************)
(* The commands init sends once the application code runs: each one is     *)
(* written and then answered by one packet that must be an AppAck.         *)
(***************************************************************************)
InitRequests ==
  << [dst |-> "OS",  cmd |-> "OSGetFirmware"],     \* getFirmwareVersion
     [dst |-> "OS",  cmd |-> "OSEnableCSMACA"],    \* enableCSMACA
     [dst |-> "OS",  cmd |-> "OSGetSerial"],       \* getSerialNumber
     [dst |-> "OS",  cmd |-> "OSSetTime"],         \* SetTime
     [dst |-> "App", cmd |-> "AppSetCurrentKey"],  \* setCurrentKey
     [dst |-> "App", cmd |-> "AppSetHMID"] >>      \* setHMID

(***************************************************************************)
(* AddPeer: the add command is repeated twice, then AES is removed from    *)
(* all channels, then the peer is added and its key index is set.          *)
(***************************************************************************)
AddPeerRequests ==
  << [dst |-> "App", cmd |-> "AppAddPeer"],
     [dst |-> "App", cmd |-> "AppAddPeer"],
     [dst |-> "App", cmd |-> "AppPeerRemoveAES"],
     [dst |-> "App", cmd |-> "AppAddPeer"],
     [dst |-> "App", cmd |-> "AppAddPeer"] >>

===========================================================================
