---------------------------- MODULE UartGateway ----------------------------
(***************************************************************************)
(* Bringing up the HM-MOD-RPI-PCB gateway: the reset over GPIO             *)
(* (gpio.ResetUARTGW), the switch from the bootloader to the application   *)
(* and the configuration commands (NewUARTGW, init, switchToApp), and one  *)
(* AddPeer per configured device (ccu.go).  The driver is one goroutine    *)
(* that writes a packet and blocks until the next packet arrives; every    *)
(* packet it does not expect ends the process with log.Fatal, after which  *)
(* the process is started again.                                           *)
(*                                                                         *)
(* The two directions of the serial line are FIFO queues of whole frames   *)
(* (the bytes of a frame are the business of another module).  The gateway *)
(* itself is external: it is modelled by the packets the source quotes.    *)
(***************************************************************************)
EXTENDS UartCommands, FiniteSets

CONSTANTS
  Peers,          \* the devices in byAddr, each of which is added as a peer
  NoPeer,         \* "no AddPeer running": the requests of init are sent
  CounterWidth,   \* msgcnt is a uint8: 256
  MaxRestarts,    \* bound: how often the process dies and is started again
  MaxQueue        \* bound: no radio packet is received into a fuller queue

ASSUME PeersAssumption == IsFiniteSet(Peers) /\ NoPeer \notin Peers
ASSUME WidthAssumption == CounterWidth \in Nat /\ CounterWidth > 1
ASSUME BoundAssumption == MaxRestarts \in Nat /\ MaxQueue \in Nat

VARIABLES
  pc,         \* where the driver stands
  devstate,   \* gw.devstate: how the driver decodes a command byte
  msgcnt,     \* gw.msgcnt
  n,          \* index into Requests of the request being made
  peer,       \* the argument of the AddPeer running, or NoPeer
  remaining,  \* devices that the loop over byAddr has not reached yet
  mode,       \* the gateway: its power and the code it runs
  handled,    \* commands the application code obeyed since it was started
  toGW,       \* frames written by the driver, not yet seen by the gateway
  toHost,     \* frames sent by the gateway, not yet read by the driver
  cycle,      \* history: number of resets, stamped on each frame to the host
  heard,      \* history: a radio packet was received since the last reset
  restarts    \* number of times the process was started again

driver  == <<pc, devstate, msgcnt, n, peer, remaining>>
gateway == <<mode, handled>>
line    == <<toGW, toHost>>
history == <<cycle, heard, restarts>>
vars    == <<driver, gateway, line, history>>

----------------------------------------------------------------------------
(* Packets *)

Apps  == {"Co_CPU_BL", "Co_CPU_App", "none"}
Count == 0 .. CounterWidth - 1

\* Faulty variant: the counter does not wrap.
NextCountUnbounded(c) == c + 1

\* u.msgcnt++ on a uint8.
NextCount(c) == (c + 1) % CounterWidth

\* What the gateway looks at in a packet written by WritePacket.
Written(dst, cmd, p) ==
  [dst |-> dst, byte |-> WireByte[cmd], peer |-> p, cnt |-> msgcnt]

\* A packet of the gateway; from says which of the two command tables its
\* sender had in mind.
Sent(from, cmd, app, cnt) ==
  [from |-> from, byte |-> WireByte[cmd], app |-> app, cnt |-> cnt,
   cycle |-> cycle]

\* What each ReadPacket of the driver insists on: the command and, for the
\* greeting of the bootloader and of the application, the payload.
Wanted ==
  [ hello     |-> [cmd |-> "OSGetApp", app |-> {"Co_CPU_BL"}],
    changeAck |-> [cmd |-> "OSAck",    app |-> Apps],
    appHello  |-> [cmd |-> "OSGetApp", app |-> {"Co_CPU_App"}],
    await     |-> [cmd |-> "AppAck",   app |-> Apps] ]

Reading == DOMAIN Wanted

Accepts(f) ==
  /\ IsCommand(devstate, f.byte, Wanted[pc].cmd)
  /\ f.app \in Wanted[pc].app

\* The requests of the function that is running: init or AddPeer.
Requests == IF peer = NoPeer THEN InitRequests ELSE AddPeerRequests

----------------------------------------------------------------------------
(* The driver *)

DriverStates ==
  {"start", "off", "flushed", "changeApp", "send", "ready", "failed"}
    \cup Reading

\* gpio.ResetUARTGW, first third: hold the reset pin low.  What the gateway
\* had not read yet is lost, what it had sent stays in the input buffer.
TurnOff ==
  /\ pc = "start"
  /\ pc' = "off"
  /\ mode' = "Off"
  /\ handled' = <<>>
  /\ toGW' = <<>>
  /\ cycle' = cycle + 1
  /\ heard' = FALSE
  /\ UNCHANGED <<devstate, msgcnt, n, peer, remaining, toHost, restarts>>

\* Faulty variant: the input buffer is not flushed.
NoFlush ==
  /\ pc = "off"
  /\ pc' = "flushed"
  /\ UNCHANGED <<devstate, msgcnt, n, peer, remaining, gateway, line, history>>

\* gpio.ResetUARTGW, second third: TCFLSH of the input buffer.
Flush ==
  /\ pc = "off"
  /\ pc' = "flushed"
  /\ toHost' = <<>>
  /\ UNCHANGED <<devstate, msgcnt, n, peer, remaining, gateway, toGW, history>>

\* Faulty variant: the reset pin is not released.
NoTurnOn ==
  /\ pc = "flushed"
  /\ pc' = "hello"
  /\ UNCHANGED <<devstate, msgcnt, n, peer, remaining, gateway, line, history>>

\* gpio.ResetUARTGW, last third: release the reset pin; init waits for the
\* bootloader.
TurnOn ==
  /\ pc = "flushed"
  /\ pc' = "hello"
  /\ mode' = "Starting"
  /\ UNCHANGED <<devstate, msgcnt, n, peer, remaining, handled, line, history>>

\* A ReadPacket in state at whose packet is the wanted one.
ReadIn(at) ==
  /\ pc = at
  /\ toHost # <<>>
  /\ Accepts(Head(toHost))
  /\ toHost' = Tail(toHost)
  /\ UNCHANGED <<msgcnt, gateway, toGW, history>>

\* init: the packet of the bootloader.
ReadBootloader ==
  /\ ReadIn("hello")
  /\ pc' = "changeApp"
  /\ UNCHANGED <<devstate, n, peer, remaining>>

\* switchToApp: WritePacket(OSChangeApp).
SendChangeApp ==
  /\ pc = "changeApp"
  /\ pc' = "changeAck"
  /\ toGW' = Append(toGW, Written("OS", "OSChangeApp", NoPeer))
  /\ msgcnt' = NextCount(msgcnt)
  /\ UNCHANGED <<devstate, n, peer, remaining, gateway, toHost, history>>

\* Faulty variant: the packet of the application is not waited for.
ReadChangeAckOnly ==
  /\ ReadIn("changeAck")
  /\ pc' = "send"
  /\ devstate' = "App"
  /\ UNCHANGED <<n, peer, remaining>>

\* switchToApp: the bootloader's ack.
ReadChangeAck ==
  /\ ReadIn("changeAck")
  /\ pc' = "appHello"
  /\ UNCHANGED <<devstate, n, peer, remaining>>

\* Faulty variant: devstate stays OS.
ReadAppInOS ==
  /\ ReadIn("appHello")
  /\ pc' = "send"
  /\ UNCHANGED <<devstate, n, peer, remaining>>

\* switchToApp: the packet of the application; from now on command bytes are
\* those of the application.
ReadApp ==
  /\ ReadIn("appHello")
  /\ pc' = "send"
  /\ devstate' = "App"
  /\ UNCHANGED <<n, peer, remaining>>

\* Faulty variant: the request is repeated without reading the first ack.
SendRequestTwice ==
  /\ pc = "send"
  /\ pc' = "await"
  /\ toGW' = LET f == Written(Requests[n].dst, Requests[n].cmd, peer)
             IN  toGW \o << f, [f EXCEPT !.cnt = NextCount(msgcnt)] >>
  /\ msgcnt' = NextCount(NextCount(msgcnt))
  /\ UNCHANGED <<devstate, n, peer, remaining, gateway, toHost, history>>

\* WritePacket of the next request of init or AddPeer.
SendRequest ==
  /\ pc = "send"
  /\ pc' = "await"
  /\ toGW' = Append(toGW, Written(Requests[n].dst, Requests[n].cmd, peer))
  /\ msgcnt' = NextCount(msgcnt)
  /\ UNCHANGED <<devstate, n, peer, remaining, gateway, toHost, history>>

\* The ack of a request that is not the last one of its function.
ReadAck ==
  /\ ReadIn("await")
  /\ n < Len(Requests)
  /\ n' = n + 1
  /\ pc' = "send"
  /\ UNCHANGED <<devstate, peer, remaining>>

\* Faulty variant: the first request to each device is skipped.
ReadLastAckSkipping ==
  /\ ReadIn("await")
  /\ n = Len(Requests)
  /\ \E p \in remaining :
       /\ peer' = p
       /\ remaining' = remaining \ {p}
  /\ n' = 2
  /\ pc' = "send"
  /\ UNCHANGED devstate

\* The ack of the last one: the loop over byAddr, whose order the language
\* leaves open, calls AddPeer for another device.
ReadLastAck ==
  /\ ReadIn("await")
  /\ n = Len(Requests)
  /\ \E p \in remaining :
       /\ peer' = p
       /\ remaining' = remaining \ {p}
  /\ n' = 1
  /\ pc' = "send"
  /\ UNCHANGED devstate

\* The last ack of the last device.
ReadFinalAck ==
  /\ ReadIn("await")
  /\ n = Len(Requests)
  /\ remaining = {}
  /\ pc' = "ready"
  /\ UNCHANGED <<devstate, n, peer, remaining>>

\* Any other packet makes the reading function return an error, which main
\* passes to log.Fatal.
ReadUnexpected ==
  /\ pc \in Reading
  /\ toHost # <<>>
  /\ ~ Accepts(Head(toHost))
  /\ toHost' = Tail(toHost)
  /\ pc' = "failed"
  /\ UNCHANGED <<devstate, msgcnt, n, peer, remaining, gateway, toGW, history>>

\* The process ends, by log.Fatal or by any crash, and is started again with
\* a new UARTGW.  The gateway notices nothing.
Restart ==
  /\ restarts < MaxRestarts
  /\ restarts' = restarts + 1
  /\ pc' = "start"
  /\ devstate' = "OS"
  /\ msgcnt' = 0
  /\ n' = 1
  /\ peer' = NoPeer
  /\ remaining' = Peers
  /\ UNCHANGED <<gateway, line, cycle, heard>>

DriverNext ==
  \/ TurnOff \/ Flush \/ TurnOn
  \/ ReadBootloader \/ SendChangeApp \/ ReadChangeAck \/ ReadApp
  \/ SendRequest \/ ReadAck \/ ReadLastAck \/ ReadFinalAck
  \/ ReadUnexpected

----------------------------------------------------------------------------
(* The gateway, as the packets quoted in the source show it *)

Modes == {"Off", "Starting", "Bootloader", "Switching", "App"}

\* After power-on the bootloader announces itself.
GwBoot ==
  /\ mode = "Starting"
  /\ mode' = "Bootloader"
  /\ toHost' = Append(toHost, Sent("OS", "OSGetApp", "Co_CPU_BL", 0))
  /\ UNCHANGED <<driver, handled, toGW, history>>

\* The bootloader acks OSChangeApp, and only that, with the request's counter.
GwChangeApp ==
  /\ mode = "Bootloader"
  /\ toGW # <<>>
  /\ Head(toGW).byte = WireByte["OSChangeApp"]
  /\ toGW' = Tail(toGW)
  /\ mode' = "Switching"
  /\ toHost' = Append(toHost, Sent("OS", "OSAck", "none", Head(toGW).cnt))
  /\ UNCHANGED <<driver, handled, history>>

\* The application announces itself.
GwStartApp ==
  /\ mode = "Switching"
  /\ mode' = "App"
  /\ toHost' = Append(toHost, Sent("OS", "OSGetApp", "Co_CPU_App", 0))
  /\ UNCHANGED <<driver, handled, toGW, history>>

\* The application obeys and acks each command, repeating its counter.
GwHandle ==
  /\ mode = "App"
  /\ toGW # <<>>
  /\ toGW' = Tail(toGW)
  /\ handled' = Append(handled, [dst  |-> Head(toGW).dst,
                                 byte |-> Head(toGW).byte,
                                 peer |-> Head(toGW).peer])
  /\ toHost' = Append(toHost, Sent("App", "AppAck", "none", Head(toGW).cnt))
  /\ UNCHANGED <<driver, mode, history>>

\* The application passes on a packet a device sent by radio.
GwRadio ==
  /\ mode = "App"
  /\ Len(toHost) < MaxQueue
  /\ toHost' = Append(toHost, Sent("App", "AppRecv", "none", 0))
  /\ heard' = TRUE
  /\ UNCHANGED <<driver, gateway, toGW, cycle, restarts>>

GatewayNext == GwBoot \/ GwChangeApp \/ GwStartApp \/ GwHandle

----------------------------------------------------------------------------
(* The process may find the gateway in any state and the input buffer with *)
(* what an earlier process did not read.                                   *)

LeftOver ==
  { [from |-> "App", byte |-> WireByte[c], app |-> "none", cnt |-> 0,
     cycle |-> 0] : c \in {"AppAck", "AppRecv"} }

Init ==
  /\ pc = "start" /\ devstate = "OS" /\ msgcnt = 0
  /\ n = 1 /\ peer = NoPeer /\ remaining = Peers
  /\ mode \in Modes \ {"Switching"}
  /\ handled = <<>>
  /\ toGW = <<>>
  /\ toHost \in {<<>>} \cup {<<f>> : f \in LeftOver}
  /\ cycle = 0 /\ heard = FALSE /\ restarts = 0

Next == DriverNext \/ GatewayNext \/ GwRadio \/ Restart

Spec == Init /\ [][Next]_vars

\* The driver does not stop between two calls and the gateway answers; that
\* radio packets arrive, or that the process dies, is not assumed.
FairSpec == Spec /\ WF_vars(DriverNext) /\ WF_vars(GatewayNext)

----------------------------------------------------------------------------
(* Properties *)

HostFrames ==
  [from : {"OS", "App"}, byte : Nat, app : Apps, cnt : Count, cycle : Nat]

Commands == [dst : {"OS", "App"}, byte : Nat, peer : Peers \cup {NoPeer}]

GWFrames ==
  [dst : {"OS", "App"}, byte : Nat, peer : Peers \cup {NoPeer}, cnt : Count]

\* The type invariant; it includes that the request index stays inside the
\* list of the running function and the counter inside its byte.
TypeOK ==
  /\ pc \in DriverStates
  /\ devstate \in {"OS", "App"}
  /\ msgcnt \in Count
  /\ peer \in Peers \cup {NoPeer}
  /\ n \in 1 .. Len(Requests)
  /\ remaining \in SUBSET Peers
  /\ mode \in Modes
  /\ handled \in Seq(Commands)
  /\ toGW \in Seq(GWFrames)
  /\ toHost \in Seq(HostFrames)
  /\ cycle \in Nat
  /\ heard \in BOOLEAN
  /\ restarts \in 0 .. MaxRestarts

\* From the moment init starts reading until startup ends.
Session == Reading \cup {"changeApp", "send", "ready"}

IsAck(f) == f.byte = WireByte["AppAck"]   \* also the byte of OSAck

Acks == {i \in DOMAIN toHost : IsAck(toHost[i])}

\* No function of uartgw.go verifies the counter of an ack (uartgw.go:730
\* "TODO(later): verify messagecounter").  During startup it need not: an
\* ack is on its way only while the driver waits for one, it is the only
\* one, and it carries the counter of the packet just written.
AckMatchesRequest ==
  pc \in Session =>
    \A i \in Acks :
      /\ pc \in {"await", "changeAck"}
      /\ toGW = <<>>
      /\ NextCount(toHost[i].cnt) = msgcnt
      /\ \A j \in Acks : i = j

\* The order power off, flush, power on of ResetUARTGW: nothing that was
\* sent before the reset, by the line's earlier life or for an earlier
\* process, is ever read in the new session.
NothingStaleIsRead ==
  pc \in Session => \A i \in DOMAIN toHost : toHost[i].cycle = cycle

\* Command decodes a byte with the driver's devstate, not with the state the
\* gateway was in when it sent it: whatever the driver reads next means to
\* it what the gateway meant.
DecodedAsSent ==
  (pc \in Reading \cup {"ready"} /\ toHost # <<>>) =>
    Meanings(devstate, Head(toHost).byte)
      \cap Meanings(Head(toHost).from, Head(toHost).byte) # {}

\* Whatever the gateway was doing before, startup after a reset fails only
\* if a radio packet came in while it ran: in init and AddPeer an event is
\* an "unexpected UARTGW packet" and fatal.
FailsOnlyWhenRadioHeard == pc = "failed" => heard

\* After the first b commands of log come the first k of reqs, one after the
\* other, and these are all the commands about p.
Obeyed(log, k, reqs, b, p) ==
  /\ b + k <= Len(log)
  /\ \A i \in 1 .. k : /\ log[b + i].dst = reqs[i].dst
                       /\ log[b + i].byte = WireByte[reqs[i].cmd]
  /\ \A i \in DOMAIN log : log[i].peer = p <=> i \in (b + 1) .. (b + k)

\* When startup is over the gateway has obeyed, since its reset, each
\* request of init once and in order and before any AddPeer, and the five
\* requests of AddPeer once, in order and together, for every configured
\* device.
GatewayConfigured ==
  pc = "ready" =>
    /\ Obeyed(handled, Len(InitRequests), InitRequests, 0, NoPeer)
    /\ \A p \in Peers : \E b \in DOMAIN handled :
         Obeyed(handled, Len(AddPeerRequests), AddPeerRequests, b, p)

\* Startup is not blocked for good, however often the process is restarted:
\* from some time on it is through or has failed.
StartupEnds == <>[](pc \in {"ready", "failed"})

============================================================================
