---------------------------- MODULE DeviceEvents ----------------------------
(***************************************************************************)
(* What becomes of an event a device sends: the main loop (ccu.go) picks   *)
(* the decoder by command and type of device, the decoder                  *)
(* (DecodeWeatherEvent, DecodeThermalControlEvent, DecodeInfoEvent,        *)
(* DecodePowerEvent) sets one gauge per field, keeps the event as the      *)
(* latest of its kind and returns it, and the main loop offers it to       *)
(* publishMQTT and counts it.                                              *)
(*                                                                         *)
(* Meanwhile an HTTP goroutine builds the status page (status.go): device  *)
(* by device in the order of the serial numbers, asking each for its       *)
(* MostRecentEvents, and /metrics may be read at any time.                 *)
(*                                                                         *)
(* An event is the number of the packet that brought it, the same in all   *)
(* its fields (what they contain is in EventFields); 0 is none yet.        *)
(***************************************************************************)
EXTENDS Integers, Sequences, EventFields

CONSTANTS
  Thermals,        \* thermal.ThermalControl devices
  Thermostats,     \* heating.Thermostat devices
  Switches,        \* power.PowerSwitch devices
  Stranger,        \* a source that is not in byAddr
  BySerial,        \* the devices as a sequence, by serial number
  GaugeCount(_),   \* how many gauges a kind of event sets
  MaxPackets       \* bound: packets received

Devices == Thermals \cup Thermostats \cup Switches

ASSUME OrderAssumption ==
  /\ Devices # {}
  /\ BySerial \in Seq(Devices)
  /\ {BySerial[i] : i \in DOMAIN BySerial} = Devices
ASSUME StrangerAssumption == Stranger \notin Devices
ASSUME BoundAssumption == MaxPackets \in Nat

\* What the main loop makes of a BidCoS command; "none" if no device may
\* send it or nothing is decoded.
KindOf ==
  [ WeatherEvent |-> "weather", ThermalControl |-> "thermal-control",
    PowerEvent |-> "power", PowerEventCyclic |-> "power",
    Info |-> "info", Timestamp |-> "none" ]

Type(d) == IF d \in Thermals THEN "hmthermal"
           ELSE IF d \in Thermostats THEN "hmheating" ELSE "hmpower"

Kinds(d) ==
  CASE Type(d) = "hmthermal" -> {"weather", "thermal-control", "info"}
    [] Type(d) = "hmheating" -> {"info"}
    [] Type(d) = "hmpower"   -> {"power"}

\* The decoder the main loop picks, by the frame it is for.
FrameOf(s) ==
  CASE s[2] = "weather"         -> "weather"
    [] s[2] = "thermal-control" -> "control"
    [] s[2] = "power"           -> "power"
    [] s[2] = "info"            ->
         IF Type(s[1]) = "hmthermal" THEN "thermal" ELSE "heating"

Slots  == {s \in Devices \X {KindOf[c] : c \in DOMAIN KindOf} :
             s[2] \in Kinds(s[1])}
Labels == {<<Type(s[1]), s[2]>> : s \in Slots}
Gauges(s) == 1 .. GaugeCount(s[2])

ASSUME GaugeAssumption == \A s \in Slots : GaugeCount(s[2]) \in Nat

\* A packet as the main loop sees it: short for bidcos.Decode, or of a
\* payload the decoder accepts or not.
Packets == [src : Devices \cup {Stranger}, cmd : DOMAIN KindOf,
            form : {"short", "odd", "good"}]

VARIABLES
  count,           \* packets received so far
  step,            \* where the main loop stands with an event
  slot,            \* the device and kind of that event
  at,              \* the next gauge to set
  gauge,           \* gauges of each slot
  latest,          \* latestWeatherEvent and so on, of each slot
  offered,         \* the last event of each slot given to publishMQTT
  decoded,         \* packetsDecoded
  lastContact,     \* of each device
  pos,             \* the device the status page asks next, 0 without a page
  shown,           \* what the status page shows of each slot, this or the last
  seen,            \* history: what each device's events were during this page
  newest,          \* history: the last packet of each slot fit to be decoded
  fit              \* history: how many there were, by label

tables == <<gauge, latest, offered, decoded>>
page   == <<pos, shown>>
known  == <<lastContact, newest, fit>>
vars   == <<count, step, slot, at, tables, page, seen, known>>

\* The events of one device together, in the table latest or shown.
Of(table, d) == [k \in Kinds(d) |-> table[<<d, k>>]]

----------------------------------------------------------------------------
(* The main loop *)

NextPacket ==
  /\ step = "read"
  /\ count < MaxPackets
  /\ count' = count + 1

\* The packet goes no further than the log, but for lastContact.
Ignore(p) ==
  LET kind == KindOf[p.cmd]
  IN  /\ NextPacket
      /\ \/ p.form = "short" \/ p.src = Stranger
         \/ p.src \in Devices /\ (kind \notin Kinds(p.src) \/ p.form = "odd")
      /\ lastContact' = IF p.form = "short" \/ p.src = Stranger
                        THEN lastContact
                        ELSE [lastContact EXCEPT ![p.src] = count']
      /\ UNCHANGED <<step, slot, at, tables, page, seen, newest, fit>>

\* The switch over command and type of device finds a decoder.
Dispatch(p) ==
  LET s == <<p.src, KindOf[p.cmd]>>
  IN  /\ NextPacket
      /\ p.form = "good" /\ s \in Slots
      /\ lastContact' = [lastContact EXCEPT ![p.src] = count']
      /\ step' = "gauges" /\ slot' = s /\ at' = 1
      /\ newest' = [newest EXCEPT ![s] = count']
      /\ fit' = [fit EXCEPT ![<<Type(p.src), s[2]>>] = @ + 1]
      /\ UNCHANGED <<tables, page, seen>>

\* Faulty variant: a gauge is left out.
SetGaugeOrNot ==
  /\ step = "gauges" /\ at \in Gauges(slot)
  /\ gauge' = IF at = 1 THEN gauge
              ELSE [gauge EXCEPT ![slot][at] = count]
  /\ at' = at + 1
  /\ UNCHANGED <<count, step, slot, latest, offered, decoded, page, seen,
                 known>>

SetGauge ==
  /\ step = "gauges" /\ at \in Gauges(slot)
  /\ gauge' = [gauge EXCEPT ![slot][at] = count]
  /\ at' = at + 1
  /\ UNCHANGED <<count, step, slot, latest, offered, decoded, page, seen,
                 known>>

\* Faulty variant: the event is kept before the gauges are set.
StoreEarly ==
  /\ step = "gauges" /\ at = GaugeCount(slot[2])
  /\ step' = "publish"
  /\ gauge' = gauge
  /\ latest' = [latest EXCEPT ![slot] = count]
  /\ seen' = IF pos = 0 THEN seen
             ELSE [seen EXCEPT ![slot[1]] = @ \cup {Of(latest', slot[1])}]
  /\ UNCHANGED <<count, slot, at, offered, decoded, page, known>>

\* latestMu is held while the pointer is assigned.
Store ==
  /\ step = "gauges" /\ at = GaugeCount(slot[2]) + 1
  /\ step' = "publish"
  /\ latest' = [latest EXCEPT ![slot] = count]
  /\ seen' = IF pos = 0 THEN seen
             ELSE [seen EXCEPT ![slot[1]] = @ \cup {Of(latest', slot[1])}]
  /\ UNCHANGED <<count, slot, at, gauge, offered, decoded, page, known>>

Publish ==
  /\ step = "publish"
  /\ step' = "count"
  /\ offered' = [offered EXCEPT ![slot] = count]
  /\ UNCHANGED <<count, slot, at, gauge, latest, decoded, page, seen, known>>

\* Faulty variant: the decoder counts the packet too.
CountTwice ==
  /\ step = "count"
  /\ step' = "read"
  /\ decoded' = [decoded EXCEPT ![<<Type(slot[1]), slot[2]>>] = @ + 2]
  /\ UNCHANGED <<count, slot, at, gauge, latest, offered, page, seen, known>>

CountDecoded ==
  /\ step = "count"
  /\ step' = "read"
  /\ decoded' = [decoded EXCEPT ![<<Type(slot[1]), slot[2]>>] = @ + 1]
  /\ UNCHANGED <<count, slot, at, gauge, latest, offered, page, seen, known>>

----------------------------------------------------------------------------
(* The status page *)

RequestPage ==
  /\ pos = 0
  /\ pos' = 1
  /\ seen' = [d \in Devices |-> {Of(latest, d)}]
  /\ UNCHANGED <<count, step, slot, at, tables, shown, known>>

\* Faulty variant: latestMu is not taken, the weather event is read first
\* and the others some time later.
VisitUnlocked ==
  /\ pos \in DOMAIN BySerial
  /\ pos' = pos + 1
  /\ \E old \in seen[BySerial[pos]] :
       shown' = [s \in Slots |->
                   IF s[1] # BySerial[pos] THEN shown[s]
                   ELSE IF s[2] = "weather" THEN old[s[2]] ELSE latest[s]]
  /\ UNCHANGED <<count, step, slot, at, tables, seen, known>>

\* MostRecentEvents copies the pointers under latestMu.  The events they
\* point to do not change any more: each packet makes its own.
Visit ==
  /\ pos \in DOMAIN BySerial
  /\ pos' = pos + 1
  /\ shown' = [s \in Slots |->
                 IF s[1] = BySerial[pos] THEN latest[s] ELSE shown[s]]
  /\ UNCHANGED <<count, step, slot, at, tables, seen, known>>

FinishPage ==
  /\ pos = Len(BySerial) + 1
  /\ pos' = 0
  /\ seen' = [d \in Devices |-> {}]
  /\ UNCHANGED <<count, step, slot, at, tables, shown, known>>

Init ==
  /\ count = 0 /\ step = "read" /\ at = 0
  /\ slot = CHOOSE s \in Slots : TRUE
  /\ gauge = [s \in Slots |-> [i \in Gauges(s) |-> 0]]
  /\ latest = [s \in Slots |-> 0] /\ offered = latest
  /\ decoded = [l \in Labels |-> 0]
  /\ lastContact = [d \in Devices |-> 0]
  /\ pos = 0 /\ shown = latest
  /\ seen = [d \in Devices |-> {}]
  /\ newest = latest /\ fit = decoded

Loop ==
  \/ \E p \in Packets : Ignore(p) \/ Dispatch(p)
  \/ SetGauge \/ Store \/ Publish \/ CountDecoded

Next == Loop \/ RequestPage \/ Visit \/ FinishPage

Spec == Init /\ [][Next]_vars

----------------------------------------------------------------------------
(* Properties *)

TypeOK ==
  /\ count \in 0 .. MaxPackets
  /\ step \in {"read", "gauges", "publish", "count"}
  /\ slot \in Slots /\ at \in 0 .. GaugeCount(slot[2]) + 1
  /\ \A s \in Slots : gauge[s] \in [Gauges(s) -> 0 .. count]
  /\ latest \in [Slots -> 0 .. count] /\ offered \in [Slots -> 0 .. count]
  /\ decoded \in [Labels -> 0 .. count]
  /\ lastContact \in [Devices -> 0 .. count]
  /\ pos \in 0 .. Len(BySerial) + 1 /\ shown \in [Slots -> 0 .. count]

\* Whoever learns of an event from MQTT finds it on the status page, and
\* whoever finds it there finds it, or a newer one, in every gauge; what the
\* page showed never runs ahead of the metrics, nor they of lastContact.
EventsReachInOrder ==
  \A s \in Slots :
    /\ offered[s] <= latest[s]
    /\ shown[s] <= latest[s]
    /\ \A i \in Gauges(s) :
         latest[s] <= gauge[s][i] /\ gauge[s][i] <= lastContact[s[1]]

\* When the main loop reads the next packet it has done everything with the
\* events before: every gauge, the page's event and the one offered to MQTT
\* are the newest packet of the kind that could be decoded, whatever else
\* that device or others sent, and each was counted once.
AllAgreeAtRest ==
  step = "read" =>
    /\ \A s \in Slots :
         /\ latest[s] = newest[s] /\ offered[s] = newest[s]
         /\ \A i \in Gauges(s) : gauge[s][i] = newest[s]
    /\ decoded = fit

\* What the page shows of a device is what the device's events were together
\* at one moment since the page was requested, although the main loop goes
\* on decoding meanwhile.
PageIsSnapshot ==
  \A i \in DOMAIN BySerial :
    LET d == BySerial[i]
    IN  i < pos => Of(shown, d) \in seen[d]

\* Each field of an event the main loop goes on with has the value that the
\* device measured, whatever the other fields of the frame are; DecodedRight
\* (EventFields) names the readings for which this is not so.
ReadingsArrive == step # "read" => FrameOf(slot) \in DecodedRight

=============================================================================
