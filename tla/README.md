# A formal model of hmgo

hmgo is a HomeMatic central (CCU) replacement written in Go. It talks to an
HM-MOD-RPI-PCB radio gateway over a serial line, through it to thermostats, wall
thermostats and a power switch, and publishes what the devices report to
Prometheus and MQTT. This directory holds TLA+ modules that model its control,
TLC configurations that check them on small instances, and TLAPS proofs of the
most important facts for all instances.

## Inventory

| Component | State | Operations | Hard behaviour |
|---|---|---|---|
| Gateway driver, `internal/uartgw` | `msgcnt`, `devstate`, the serial line | `NewUARTGW`/`init`, `switchToApp`, `AddPeer`, `SetTime`, `WritePacket`, `ReadPacket`, `Confirm` | one byte means different commands in bootloader and application; acks are not matched to requests; every unexpected packet is fatal; no read deadline; byte stuffing and resynchronisation |
| Reset, `internal/gpio` | reset pin, kernel input buffer | `ResetUARTGW` | order of power off, flush, power on |
| Main loop, `ccu.go` | `readMu`, the ticker, `byAddr`/`bySerial` | startup, packet loop, hourly `SetTime`, answering peering requests | goroutines share the line; three of the main loop's uses of it are not under the mutex |
| Power control, `ccu.go`, `hm/power` | the switch's level | `/power/on`, `/power/off` | concurrent requests, waiting for a mutex that is held during a blocking read |
| BidCoS, `internal/bidcos` | global message counter | `Encode`, `Decode`, `Sender.WritePacket` | the value 0 of a counter is also "not set" |
| Device configuration, `internal/hm` | per-device counter, parameter memory | `LoadConfig`, `EnsureConfigured`, `EnsurePeeredWith`, `Pair` | crash between the steps, answers mixed with events, chunking |
| Devices, `hm/thermal`, `hm/heating`, `hm/power` | latest event per kind under `latestMu`, gauges | `Decode...Event`, `MostRecentEvents` | bit fields that share bytes; labelled gauges; readers concurrent with the main loop |
| Heating program, `hm/thermal`, `ccu.go` | 182 bytes of a wall thermostat | `overrideWinter`, `SetPrograms` | 9 + 6 bits per entry, days in another order than Go's, a change of season over restarts and crashes |
| Framing, `uartgw.go`, `uartgw/escaping.go` | bytes on the serial line, escape state | `WritePacket`, `ReadPacket`, `escapingWriter`, `unescapingReader` | reads cut between an escape byte and what it escapes; lost and changed bytes; resynchronisation |
| MQTT, `mqtt.go` | channel of 64, the client | `publishMQTT`, `publisherLoop` | overflow, late or failed connection, order of retained values |
| Status page, `status.go`; `/metrics` | none of its own | `handleStatus` | built while the main loop goes on |
| Serial port, `internal/serial` | none | one ioctl | not modelled |

How they interact. `main` resets the gateway, initialises the driver, adds each
device as a peer, configures and peers the devices, and then starts the HTTP
servers and the packet loop. Device functions call `bidcos.Sender`, which calls
the driver's `Write` and `Confirm`; the driver writes to and reads from the serial
port. A handler of `/power/on` calls `LevelSet` of the power switch in the
goroutine of its request. Any error of the driver that reaches `main` ends the
process (`log.Fatal`), which is then started again from the top.

What makes the components correct:

* driver: it and the gateway stay in step: each ack is the one of the packet
  just written, each byte is decoded as it was meant, nothing from before a reset
  is read after it; when startup is over the gateway has been told everything;
* main loop and power control: "OK" means that the switch was told, requests take
  effect in the order of their answers, every request is answered;
* counters: packets in a row to one device do not carry the same counter;
* MQTT: retained values do not go back, belong to their topic, and are stale only when
  an event was lost;
* device configuration: a crash at any point is repaired by the next start, no
  key/value pair is torn apart, events are not taken for answers;
* framing: packets arrive whole, once and in order; a disturbance may cost packets
  and never makes one up;
* decoders: each field is what the device measured, whatever shares its byte;
* events: page, metrics and MQTT agree once an event is done with, and are ordered
  until then; a page shows each device as it was at one moment;
* heating program: the thermostat heats as `main` says for the season, whatever was in
  its memory and however often writing it was interrupted.

`PROJECT.json` lists the hazards at their lines and the properties aimed at each.

## Modules

### `UartCommands`

The command tables of `uartgw.go`: the byte each command is written as (`Byte`), what
a byte that was read means in each `devstate` (`Command`), and the requests of `init`
and `AddPeer` in order. No state.

### `UartGateway`

The driver from process start to the end of the `AddPeer` loop, single-threaded,
against the gateway.

* Driver state: `pc` (where the goroutine stands), `devstate` and `msgcnt` (fields of
  `UARTGW`), `n`, `peer` and `remaining` (the request of the function that runs, the
  argument of `AddPeer`, the devices `range byAddr` has not reached; the language
  leaves their order open, so any one is next).
* Gateway state (external): `mode` and `handled`. It announces itself after power-on, acks
  `OSChangeApp` and starts the application, which announces itself and acks each
  command, repeating its counter: the packets that the comments of the source quote.
* Line: two queues of whole frames. `TurnOff` loses what the gateway has not read;
  only `Flush` empties what the host has not read.
* History: `cycle` (stamped on every frame, to see which reset it is older than), `heard`
  (a radio packet came in since the reset) and `restarts`.

`Restart` may happen at any step. It stands for every way the process can end, the
errors of the ioctls of `ResetUARTGW` among them: a failing one ends the process
between the same steps. `Init` covers a gateway left in any state with a packet unread.

### `MainLoop` and `PowerControl`

After startup: `Main` is the goroutine of `main`, each element of `Handlers` one HTTP
request with its goroutine. Every one of them goes through `start`, `writing`, `await`
for a command; what differs is who holds `readMu` then and how the answer is read
(`strict`: anything but an ack is fatal, as in `SetTime` and `AddPeer`; `confirm`: radio
packets are skipped, as in `Confirm`).

`WritePacket` is several writes and `ReadPacket` several reads. Two goroutines writing at
once: a delimiter starts a new frame in the gateway's parser, so a frame arrives
whole only if nobody else wrote between its first and its last byte (`open`). Two
goroutines reading at once share the bytes of a frame (`MangledRead`): garbage that is
skipped, or a checksum error. From then on (`torn`) any read may go wrong: this is
more than can happen, and no property relies on it. `collided` records that two
goroutines used the line at once. The data race on `msgcnt` has no action: no one
looks at the counter of an answer.

`PowerControl` is the promise of `/power/on` and `/power/off`: requests are applied one at a
time, each before its "OK" and after the "OK" of the one before. After a collision
(`chaos`) it promises nothing. `MainLoop` instantiates it with `applied <- delivered` and
`chaos <- collided`; `KeepsPromise` is its specification.

### `MessageCounter`

The two counters of outgoing BidCoS packets: `own`, in each device (`count()`), and `global`,
which `Encode` uses when the packet's counter is 0. `Config` is any `Config...` function of
`hm.go`; `LevelSet` leaves the counter 0. `last`, `prev` and `used` are history: what each
device has heard.

### `MqttPublisher`

`publishMQTT`, the channel, and `publisherLoop` with its four fates: still connecting,
publishing, disabled (no broker configured: it only empties the channel), returned.
Client and broker are external: a message given to the client reaches the broker or
is lost. Events are numbered in the order the main loop decodes them; `topicOf` is history: what
each was about, whatever the message made of it (`Event`) says.

### `DeviceConfig`

What startup does to one device: `EnsureConfigured` (with `LoadConfig`) and then
`EnsurePeeredWith`, as `main` calls them for a wall thermostat; for a radiator
thermostat only the second part is called.

* Program: `pc` and `step` say which `Config...` command is being sent, confirmed or
  answered; `devmem`, `pairs` and `peers` are the local variables of the same names,
  `pairs` as a set, of which `NextBlock` takes the lowest indices. `Send` is any of the
  `Config...` functions up to `Confirm`; `ConfirmDrops` and `ConfirmAcked` are `Confirm`'s loop,
  the latter with what the caller does next; `ReadParams` is the loop of `LoadConfig`
  with, after its end, the comparison; `ReadPeers` and `ReadPeerAck` are the reads of
  `EnsurePeeredWith`. Between the two functions `main` configures other devices (`pc` is
  `"others"`), whose commands drop what this one sends. Every error is fatal: `Fail` goes
  to `"down"`, from where `Start` begins again with a flushed buffer.
* Gateway and device (external): the gateway transmits a command and acks it whether
  or not the device got it; the device obeys, and queues its answers. It takes writes
  only between `ConfigStart` and `ConfigEnd`. It goes on answering an earlier process.
* `trouble` counts what goes wrong, in any order: a command lost on the radio, an answer
  lost, a packet nobody asked for (an event of this device; an event, an ack, part of
  a memory dump or peer list of another one), a crash at any step.
* History: `dropped` (an answer to this process was lost or thrown away), `lost` (commands the
  device has not got), `fooled` (another device's packet was taken for an ack), `late` (the
  device still had answers to an earlier process when this one started).

Abstractions. An answer carries one byte or one peer, where the code's packets
carry several; both loops treat each on its own. Acks of the writing commands may or
may not come: `Confirm` drops them, or the next reader meets them. The code compares
the address of a peer and not its channel, so a peer is an address. `Program` is what the
callback sets, a function of the index: `SetPrograms` and the valve offset write fixed bytes at fixed
offsets, none of them 0 (`ProgramAssumption`; 0 is what a byte that was not read
looks like, and `Configured` would be false for a program with a 0).

### `UartFraming` and `FrameChannel`

`UartGateway` and `MainLoop` have whole frames on the line; `UartFraming` has its bytes, in
one direction: `WritePacket` over `escapingWriter` at one end, `ReadPacket` over
`unescapingReader` at the other. In reality the firmware of the gateway is the other
end of each; it speaks the same framing.

* `WritePacket` puts the `Parts` of a frame on the `wire`, the element of each `Write` separate,
  because `WriteFails` may end after any of them: an error of the port, or (after two)
  a command that `Byte` does not know. `msgcnt` is incremented with the third.
* The reader's state is where `ReadPacket` stands (`phase`, the bytes it still `need`s), the
  bytes of the current read(2) not looked at (`chunk`), `escapeByte` and `fullpkt`, the
  contents of the tee. `ReadRaw` is the read(2): any number of bytes up to what is
  asked for and has arrived. `Unescape` is one turn of the loop over them, `ForceRead` the
  extra read after an escape byte. What the byte is for is in `Delimiter`, `Length`, `Body`,
  `Crc`; `ParsePacket` is the end of `ReadPacket`.
* `LoseByte` and `ChangeByte` are external. After an error the module reads on, as the
  next caller of `ReadPacket` does.
* `sent`, `received` and `done` are history: `done` is the packet of `sent` that was returned last
  (`Return`), so that those after it may still come. Two packets can be alike once the
  counter has wrapped; `Return` takes the first after `done` that is like the one returned.
* `InStep` relates the reader to the line: what it has unescaped is the beginning of a frame
  that was written and not yet returned, and the line holds the rest of that frame, escaped,
  and then the frames after it (`Inside`, `Between`). `StaysInStep` says that only a fault ends
  this; `NothingForged` that, in step or not, only frames that were written pass the checksum. They
  are never so short that the `frame[2]` of `ReadPacket` would be a panic (`NoPanic`).

The checksum is a constant operator; `MCUartFraming` computes the real CRC16 and checks it
with a frame quoted in the source. `FrameChannel` is the promise: a queue of packets, of which some may be
passed over once the line was disturbed. It is instantiated with what was sent
after `done` as the queue.

### `EventFields` and `EventReports`

The five decoders of `hm/thermal`, `hm/heating` and `hm/power`, as operators. A device packs what it
measured into a frame (`Pack...`, external: the inverse of the bit positions the decoders name), the
program decodes it (`Decode...`, one field per line as in the source); `DecodedRight` is the set of
frames that arrive as measured for every combination of their fields, `Arrives` with the two
exceptions found. Numbers are integers in the unit of the wire (half degrees,
tenths, hundredths): the divisions into floating point are left out. Readings are such
as a field can hold; outside temperatures start at 0, because nothing says how the
sensor sends those below.

`EventReports` lets one device report again and again, to state what the comments say
of the actual temperature.

### `DeviceEvents`

What happens to an event around the decoder; `FrameOf` picks the decoder of `EventFields` for it. `Ignore` and `Dispatch` are the main loop up to
the decoder (`Decode` fails, unknown source, unknown command, a type of device that
does not send it, a payload of the wrong size); then one step per gauge
(`SetGauge`), the assignment under `latestMu` (`Store`), `Publish` and `CountDecoded`. The HTTP goroutine
walks over the devices by serial number (`Visit` is `MostRecentEvents`, under `latestMu`). An event
is the number of its packet, the same in all its fields. A scrape of `/metrics` may come
in any state, so invariants about `gauge` are about scrapes. `seen`, `newest` and `fit` are history.

### `ThermalProgram`

The weekly program of a wall thermostat: `Programs` and `OverrideWinter` are what `main` wants,
`EncodeEntry`, `ProgramOffsets` and `ProgramBytes` where `SetPrograms` puts it, `Configure` the callbacks of `main`.
`Start` compares with the memory as it is, `WriteBlock` sends seven pairs, `Die` may come
after any. That `EnsureConfigured` reads and writes the memory as assumed here is what
`DeviceConfig` is about; that no byte of the program is 0, which `DeviceConfig` assumes,
is checked here (in `TypeOK`).
`TemperatureAt`, which `HeatsAsWanted` uses, is how the thermostat reads its memory (external):
entries in order, the first that has not ended counts. `Wanted` states the programs in the words of the
comments of `ccu.go`, without entries, so that the two do not share a mistake.

## Runs

| Run | Asks | Bounds |
|---|---|---|
| `uart_gateway` | is the gateway in step and fully configured after startup, whatever it was doing before, and does startup end? | 2 devices (the last, the first and a middle `AddPeer` differ), counter of 8 values (17 packets wrap it twice; the code's 256 wrap the same way), 2 restarts (one restart may itself be restarted), radio packets while fewer than 2 packets are unread (one in front of and one behind an ack) |
| `main_loop` | do the handlers keep `PowerControl` and leave a clean line, and is every request answered? | 2 requests, either level; pairing with its 8 commands; radio packets into an empty queue only (1): the reader takes one packet at a time and nobody looks at the rest, so that a packet behind another does what it does when it comes later; acks queue behind it without a bound |
| `main_loop_confirm` | does "OK" mean that the gateway got the command? It does not | as `main_loop`, queue of 2 |
| `message_counter` | do a device's own counters advance evenly and use every value? | a switch and a thermostat, counters of 8 values, step 9; 9 and 8, like 9 and 256, have no common divisor |
| `message_counter_differ` | do packets in a row carry different counters? They do not | the code's 256 and 9, two thermostats, no restart |
| `mqtt_publisher` | what can happen to an event on its way to the broker? | 2 topics, channel of 2, 5 events: the channel overflows while the broker is late and afterwards |
| `device_config` | does the device end up with the program, and does startup get there, and is nothing else written? | 3 bytes of 2 values, bytes 1 and 3 set, one per block (so that a block is never, once or twice sent, and a byte between is left alone); one mishap; a new process may find 2 unsent answers of the old one |
| `device_peers` | does the device end up with the wanted peer and no other, and does startup get there? | a device with any set of two peers, and no program; 2 mishaps, so that a crash can meet a loss or a foreign packet in the next process; 2 unsent answers |
| `uart_framing` | is every packet of an undisturbed line read, once, unchanged, in order? Does only a fault take the reader out of step? Can it make up, repeat or swap packets, or end the program? | 2 frames, of a command the reader knows or of one it does not: one is hit, the other swallowed, passed over or read; the counters are 0xfc and 0xfd and the payload is the delimiter, so that escapes are at the start and the end of a part; one fault at any byte (or after any part); bytes become a wrong length, or one of the two that the escaping knows |
| `event_temperature` | does the actual temperature arrive? From 25.6 degrees on it does not | the readings of `device_events`, any after any |
| `device_events` | do page, metrics, MQTT and counters agree, and does every field arrive? | two wall thermostats, a radiator thermostat and a switch; 3 packets (two of one kind with one of another between); two gauges for the first and last of a kind; readings at the ends of each field and with single bits next to another field, in all combinations |
| `thermal_program` | does the thermostat heat as wanted? | all 256 bytes; three kinds of rooms (with the valve offset, without, without seasons; the fourth is like the second); the months around both changes; three memories; 3 starts (one interrupted, one of another season, one that repairs); times just before and at each change |

`CHECK_DEADLOCK FALSE` where the system really stops: startup ends in `ready` or
`failed` (the model of startup stops there), a dead process does nothing (`MainLoop`), the
events or packets are used up (`MqttPublisher`, `DeviceEvents`), the device is configured
(`DeviceConfig`, `ThermalProgram`), nothing more is written (`UartFraming`).

The definitions marked "Faulty variant" are what a plausible bug would make of the
definition that follows; `PROJECT.json` names, for each property, the variant that
breaks it. They are not part of any specification.

### What the runs found

* `main_loop_confirm`: the hourly `SetTime`, `AddPeer` and `Pair` use the line without
  `readMu`. In the shortest trace a handler has written the start of its `LevelSet` when
  `SetTime` is written; the `LevelSet` is lost, the handler's `Confirm` reads the ack of
  `SetTime`, and the client is told "OK". `SetTime` then waits for an ack that never comes.
* `message_counter_differ`: a device's counter starts at 0, which `Encode` takes for "not
  set". The second device configured at startup gets 9 from the global counter and
  then 9 from its own.
* `event_temperature`: the two high bits of the actual temperature are or-ed into the low
  byte instead of above it; 25.6 degrees are decoded as 0.1. All three decoders.
* Not a disagreement with any statement in the repository, but visible in
  `FailsOnlyWhenRadioHeard` and `DiesOnlyOfEvents`: a device that sends anything between a
  command of `init`, `AddPeer` or `SetTime` and its ack ends the process.
* The flags of a wall thermostat are compared without a mask, so an open window is
  missed while the battery is low or the communication bit is set
  (`thermal/infoevent.go:154-155`). `Arrives` states what is left: each flag arrives
  unless one above it is set.
* `ReadPacket` looks for the delimiter after unescaping. `uartgw.go:11` says that 0xfd always means the
  start of a frame, so that one can re-synchronise on it; an escaped 0xfd inside a frame
  is one for `ReadPacket`, too, once it has lost its place (`Delimiter`). `KeepsChannel` shows that this
  costs packets only: with the checksum over the false frame, none is made up
  (for the frames and faults of the run: a checksum of 16 bits can be met by chance).
* The history variables of `DeviceConfig` are what its guarantees cannot do without, none of
  them against a statement in the repository: a write that is lost on the radio is never noticed (`lost`); a
  peer that was not listed is not removed, and the next start then finds two peers
  and fails for good (`dropped`, `NeverTwoPeers`); if a command is lost, the ack of any device will do (`fooled`),
  and so will one the device owes to an earlier process (`late`): the info for a removal that a process
  has asked for twice, or the ack of a writing command that comes after the list of peers. An incomplete
  memory dump on the other hand does no harm but extra writes: `Configured` holds without `dropped`, and
  `PeeredExactly` needs neither `fooled` nor `late` as long as the device gets the commands.

## Fairness

* `UartGateway`: the driver does not stop between calls and the gateway answers (weak
  fairness). Without the second, startup blocks: the code has no read deadline.
  Nothing is assumed of radio packets and restarts.
* `MainLoop`: each goroutine runs on, the gateway answers, devices send now and then (weak
  fairness): they do cyclically, and without it a request waits for ever for a main
  loop that reads with `readMu` held. Acquiring `readMu` is strongly fair: the main loop
  releases it again and again, and Go's mutex hands itself to a goroutine that has
  waited for more than a millisecond.
* `DeviceConfig`: the process runs and is started again, gateway and device answer (weak
  fairness). `Converges` excludes answers that are dropped for ever, because a read that
  waits for one has no deadline, and starts that find answers to an earlier process
  for ever: what it reads of them is an error and ends it.
* `UartFraming`: the caller of `ReadPacket` keeps calling, as main loop and `Confirm` do, and read(2)
  returns once bytes have arrived (weak fairness of `Read`). Writing is not assumed.
* `MqttPublisher`: the receiving goroutine keeps receiving. Connecting is not assumed.

## Proofs

Proved by TLAPS for all values of the constants (`...Proofs` modules), from the named
assumptions of the modules only.

* `UartGatewayProofs` (any devices, any counter of at least two values, any number of
  restarts).
  * `TypeCorrect`: the type invariant, with the request index inside its list and the
    counter inside its byte.
  * `NothingStale`: from the inductive `Fresh`, which adds to the property that it holds
    already when the buffer has been flushed.
  * `AcksMatch`: no function compares counters, and the property is not inductive by
    itself: it says nothing of where the gateway is. `TurnInv` pairs each place of the
    driver with what the gateway and the two queues may hold there: nothing, one request
    with the last counter, or one ack with it. That the bytes 4 of both tables are the
    only ones accepted as acks is lemma `AckByte`.
  * `DecodesAsSent`: from `Handshake`, which pairs the place of the driver in the
    handshake, its `devstate` and the gateway's mode with the frames that may be on
    their way, in order.
  * `FailsOnlyByRadio`: from `Handshake`, `TurnInv` and `Undisturbed`: in every place
    the next packet is the one that is waited for, unless it is a radio packet.
  * `ConfiguredWhenReady`: from `ObeyedSoFar`: at every request, what the gateway has
    obeyed since its reset is the requests of `init` up to the current one, or all of
    them, then the five of each device that is through, together, and the first ones of
    the current device. `GatewayConfigured` says where in the log they are (`Obeyed`)
    instead of comparing filtered sequences, which says the same and can be reasoned
    about.
* `MainLoopProofs` (any number of requests).
  * `TypeCorrect`, with `Places`: a goroutine that uses the line in its handler holds
    `readMu`, one at a time.
  * `ProcessDiesOnlyOfEvents` and `LineQuietWhenFree`: from `Clean`: as long as no two
    goroutines have used the line at once, the line holds nothing, or the command of the
    one goroutine that uses it, or the one ack for it (`OneUser`), and what a handler
    has answered is what the gateway did (`Answers`).
  * `RefinesPowerControl`: the refinement of `PowerControl`. Initial states map to
    initial states; under `Clean` and `Places`, `GwHandle` of a handler's command is
    `Apply`, its last read `Answer`, its first step `Request`, and every other step a
    stutter. After a collision the abstract module allows everything.
* `MessageCounterProofs` (any width; any step for all but the last).
  * `TypeCorrect`: every counter on the air is a byte. No run checks it again.
  * `OwnCountersStepAlways`: from `OwnIsAhead`: a device's counter is one step ahead of
    the last packet that took it, or has been reset to 0.
  * `EveryCountIsUsedAlways`: from `UsedOnTheWay`: what a counter has put on the air
    since it was 0 is every count between 0 and where it is, counted in steps
    (`StepsTo`, the multiplication by the step's inverse). `CoprimeAssumption` says that
    there is one; for 9 and 256 it is 57.
* `MqttPublisherProofs` (any topics, capacity and number of events).
  * `TypeCorrect`: the channel stays within its capacity.
  * `RetainedNeverGoesBack`: from `InOrder`: the channel is sorted and everything in it
    is newer than everything the broker has.
  * `NoEventDisappears`: `StaleOnlyIfMissed` is inductive given `InOrder`, which says
    that what replaces a retained value is newer, and `Filed`, which says that it is about
    the same: what is in the channel has the topic it was decoded for.
* `DeviceConfigProofs` (any size of memory, program, block, devices, number of mishaps
  and of answers left over).
  * `TypeCorrect`.
  * `OnlyProgramChangesAlways`: from `PairsInv`: what is still to be written and what is
    on its way to the device are pairs of the program.
  * `ConfiguredAlways`: from `ConfigInv`, which adds that one command at a time is under
    way and its ack is the only one (`LineInv`); that while `LoadConfig` runs, each byte
    read is 0 or the device's (`DumpInv`); and that afterwards each byte of the program
    is in the device or in `pairs`, and the device takes writes (`WriteInv`).
  * `WritesOnlyDifferencesAlways`: from the same and `PendingInv`, which extends the
    property to the moments when `Confirm` waits and a block has been written but is
    still in `pairs`.
  * `PeeredExactlyAlways` and `NeverTwoPeersAlways`: from `PeeringInv`. The difficulty
    is the list of peers, which may be the answer to an earlier process and partly read
    by it. `ListInv` speaks of every end of a list in the two queues: unless the list is
    the one a queue begins with, every unwanted peer that the device still has stands in
    front of the end in the same list (`Listed`); and once a process that has dropped no
    answer has read the end of the memory dump, this holds for the first list, too, for
    nothing is then left of one that began before. (Peers only become fewer:
    `PeersShrink`.) With `WantedInv` (who lists the wanted peer has it) the command
    chosen at the end fits (`CommandFits`), and `PeerInv` follows what the removal and
    the addition achieve. `LostInv`, `AckInv` and `NoticedInv` show that a process that
    started with a silent device and took no foreign packet for an ack got the acks of
    its own commands: there is one list of peers and no ack comes after it (`EndLast`).
    `AddInv` carries the argument over to an addition whose sender has crashed.
* `DeviceEventsProofs`, about `EventFields`. `EveryFrameDecodedRight`: the five decoders against the packing,
  for every value that a field has room for (the assumptions name the ranges, as the
  bits of the frames give them), not only the readings of the run. `WarmRoomsMisread`:
  the defect that `event_temperature` shows, for every reading: from 25.6 degrees on,
  what is decoded is less than what was measured.
* `DeviceEventsProofs`, about `DeviceEvents` (any devices, gauges and packets). One inductive invariant: a
  slot nobody works on is up to date everywhere; the one the main loop works on has new
  gauges below `at` and old ones from there on, then the new event, then that is
  published (`Progress`); what a page in the making shows is something each device has
  shown since it was begun (`Watched`). From it `TypeCorrect`, `EventsInOrder`,
  `AllAgreeWhenReading` and `PageShowsOneMoment`; `ReadingsAlwaysArrive` rests on
  `EveryFrameDecodedRight`.
* `ThermalProgramProofs` (any of the four rooms, any months, minutes, memory before and
  block size). That the memory is laid out as `SetPrograms` says is `ProgramLayout` and
  `EntryAt`; that an entry keeps its end time and temperature in its 16 bits,
  `CodeFields`; that the thermostat finds the segment that main means, `DayTemperature`.
  The inductive invariant is `Inv`: what is being written stays what main would compare
  with if it started now (`Writing`), the memory is one season's program when the
  history says so (`Complete`), and byte by byte one of the two otherwise (`Mixture`).
  From it `TypeCorrect`, `HeatsAsWantedAlways`, `MixHeatsAsEitherAlways` and
  `RestartWritesNothingAlways`. `BytesOf` is a function of room and then month, instead
  of pairs of them, for the prover's sake. `CallbacksAreFixed` is the composition with
  `DeviceConfig`: each callback writes fixed bytes other than 0 at fixed indices
  whatever memory it is given, which is what `ProgramAssumption` asks of `Program`.
* `UartFramingProofs` (any packets of up to 65535 bytes, any counter, checksum, noise and
  number of frames and faults).
  * What is on the line is a flattened sequence of sequences, escaped byte by byte. The
    library's induction theorems take an operator and cannot be used, but its theorems
    on well-founded relations speak of sets: `SetInduction` is drawn from them and carries
    what has to be known of `FlattenSeq`, `Escape` and `Stream` for every length: how they
    begin, grow at the end and shrink at the front. `CellAhead` and `DelimiterAhead` are
    about one byte: in step, `Unescape` and `ForceRead` make of it what was escaped.
  * `TypeCorrect`: from `IInv`, which adds that the bytes read and those still needed fit the
    phase (`Fits`), also after faults, and that the counters and packets written are
    those of the constants (`Counted`).
  * `StaysInStepAlways`: one lemma per action, from `NextByte` (which byte is next on the
    line, given the place in the frame) and `CollectInside` (taking it leaves the reader one
    further in the same frame).
  * `UndisturbedLine`: as long as there are no faults the reader is in step, and in step a
    frame that passes is one that was written (`ParseGenuine`): `NothingForged` and `NoPanic`,
    for every checksum.
  * `RefinesFrameChannel` and `RefinesUndisturbed`: the refinement of `FrameChannel`. A step of
    `ParsePacket` with a command that is known is a receipt, perhaps after packets that are
    passed over, `WritePacket` is a sending, a fault is a disturbance, and every other step
    a stutter. The first theorem has the hypothesis `Trusted`: from the first fault on,
    nothing forged passes the checksum. No proof can do without it, since 16 bits can be
    met by chance: whether they are depends on the polynomial, the packets and the noise, and
    `uart_framing` checks it (`NothingForged`) with the real CRC16. The second theorem has no
    such hypothesis and is about the line without faults.

What the proofs changed. `PeeredExactly` and `NeverTwoPeers` were first stated without
`late`, with `dropped` and `fooled` as the only excuses, and held within the bounds of
`device_peers`. The attempt to prove them failed at the acks, and TLC then found both
violated at larger bounds: with three devices, 5 left-over answers and 3 mishaps, the
info for a removal by an earlier process is taken for the ack of one that was lost; with
a program to write, 3 left-over answers and 4 mishaps, the late ack of a writing command
is taken for the ack of an addition that was lost. The properties now say `Misled`, and
only together with a loss.

In `UartFraming`, `TypeOK` joined two conditions without parentheses, so that it did not
bound the bytes still needed unless there were none; the proof of `TypeCorrect` could not bound
a read with it. The refinement found its queue by looking in `sent` for the packet received last,
the first that is like it: when the counter has wrapped, a second packet like an earlier one
would have put the queue back. `done` replaces it.

Only model-checked:

* liveness (`StartupEnds`, `EveryRequestAnswered`, `AcceptedIsHandedOn`, `Converges`,
  `EveryPacketRead`), which is out of the prover's reach;
* `NothingForged` and `KeepsChannel` of `UartFraming` after a fault of the line: that a
  frame with a fault is not accepted is not true of every checksum. What is proved is that the
  first implies the second, and `NoPanic`;
* the runs that expect a violation.


## Not modelled

Log and page formatting, HTML of the events, JSON, the HTTP servers, flags and `WaitForClock`; the
serial port ioctl. Floating point: the decoders' divisions by 2, 10 and 100 and their
conversion to text. How a dump or a peer list is distributed over packets (see
`DeviceConfig`), and the limit of 29 bytes that `Sender.ReadPacket` sets to a packet. Panics on answers that end in the
middle of a pair or are empty: nothing says a device sends them.

## Plan

Done: `UartCommands`, `UartGateway`, `MainLoop` with `PowerControl`, `MessageCounter`,
`MqttPublisher`, `DeviceConfig`, `UartFraming` with `FrameChannel`, `EventFields`,
`EventReports`, `DeviceEvents`, `ThermalProgram`; and proofs of every safety and action
property that a passing run checks, those of `UartFraming` with the restriction above.

What is left:

1. Shorter proofs: `DeviceConfigProofs` repeats the cases of the two queues, which one
   lemma about them could carry.
2. `NothingForged` for the faults that a CRC always finds (a burst of up to 16 bits within a
   frame): this needs the polynomial, division without carry, in place of the constant.
