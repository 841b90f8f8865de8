----------------------------- MODULE EventFields -----------------------------
(***************************************************************************)
(* The decoders of internal/hm/{thermal,heating,power}: how the bytes of   *)
(* an event's payload become the fields of the event.  A device packs what *)
(* it measured into a frame; the packing is the inverse of the bit         *)
(* positions the decoders name.                                            *)
(*                                                                         *)
(* Numbers are integers: temperatures to set in steps of 0.5 degC, actual  *)
(* temperatures, voltages and battery voltages in tenths, energy in tenths *)
(* of Wh, power in hundredths of W, frequency in hundredths of Hz.         *)
(***************************************************************************)
EXTENDS Integers, Sequences

CONSTANTS
  Targets, Actuals, Outside,       \* temperatures of the readings
  Humidities,
  Batteries, Valves, Boosts,
  Energies, Powers, Currents, Voltages, Frequencies

\* Each number fits the bits its field has in the frame.
ASSUME ThermalAssumption ==
  /\ Targets \subseteq 0 .. 63 /\ Actuals \subseteq 0 .. 1023
  /\ \A t \in Outside : t \in Nat /\ t \div 256 \in 0 .. 63
  /\ Humidities \subseteq 0 .. 255
ASSUME ValveAssumption ==
  /\ Batteries \subseteq 15 .. 46
  /\ Valves \subseteq 0 .. 127 /\ Boosts \subseteq 0 .. 63
ASSUME PowerAssumption ==
  /\ \A e \in Energies : e \in Nat /\ e \div (256 * 256) \in 0 .. 127
  /\ \A w \in Powers : w \in Nat /\ w \div (256 * 256) \in 0 .. 255
  /\ \A n \in Currents \cup Voltages : n \in Nat /\ n \div 256 \in 0 .. 255
ASSUME FrequencyAssumption == Frequencies \subseteq 5000 .. 5255

Modes  == 0 .. 3                 \* AutoMode, ManuMode, PartyMode, BoostMode
Faults == (0 .. 7) \ {5}         \* FaultReporting has no name for 5

----------------------------------------------------------------------------
(* What the devices measure and send *)

WeatherReadings == [temperature : Outside, humidity : Humidities]
ControlReadings == [set : Targets, actual : Actuals, humidity : Humidities]
ThermalReadings ==
  [ set : Targets, actual : Actuals, lowbat : BOOLEAN,
    communication : BOOLEAN, window : BOOLEAN, battery : Batteries,
    control : Modes, boost : Boosts ]
HeatingReadings ==
  [ set : Targets, actual : Actuals, fault : Faults, battery : Batteries,
    valve : Valves, control : Modes, boost : Boosts ]
PowerReadings ==
  [ boot : BOOLEAN, energy : Energies, power : Powers, current : Currents,
    voltage : Voltages, frequency : Frequencies ]

Readings ==
  [ weather |-> WeatherReadings, control |-> ControlReadings,
    thermal |-> ThermalReadings, heating |-> HeatingReadings,
    power |-> PowerReadings ]

Flag(b, value) == IF b THEN value ELSE 0

\* 6 bits of target and 10 bits of actual temperature.
PackHigh(r) == 4 * r.set + r.actual \div 256
PackLow(r)  == r.actual % 256

PackWeather(r) ==
  <<r.temperature \div 256, r.temperature % 256, r.humidity>>

PackControl(r) == <<PackHigh(r), PackLow(r), r.humidity>>

PackThermal(r) ==
  << 0, PackHigh(r), PackLow(r),
     Flag(r.lowbat, 128) + Flag(r.communication, 64) + Flag(r.window, 32)
       + (r.battery - 15),
     64 * r.control + r.boost >>

PackHeating(r) ==
  << 0, PackHigh(r), PackLow(r), 32 * r.fault + (r.battery - 15), r.valve,
     64 * r.control + r.boost >>

PackPower(r) ==
  << Flag(r.boot, 128) + r.energy \div (256 * 256), (r.energy \div 256) % 256,
     r.energy % 256,
     r.power \div (256 * 256), (r.power \div 256) % 256, r.power % 256,
     r.current \div 256, r.current % 256,
     r.voltage \div 256, r.voltage % 256, r.frequency - 5000 >>

----------------------------------------------------------------------------
(* What the program decodes; p is a payload of the size the decoder wants *)

\* The bits of b from bit n on, as b >> log2(n) and a mask with m values.
Bits(b, n, m) == (b \div n) % m

\* a | b for a below 4: only the two lowest bits of b can change.
OrLow(a, b) ==
  LET bit(n) == IF Bits(a, n, 2) + Bits(b, n, 2) > 0 THEN n ELSE 0
  IN  4 * (b \div 4) + bit(1) + bit(2)

SetTemperature(b) == Bits(b, 4, 64)

\* (int64(b1)&hm.Mask2Bit)|int64(b2)
ActualTemperature(b1, b2) == OrLow(b1 % 4, b2)

\* Faulty variant: the mask has a bit less.
DecodeWeatherNarrow(p) ==
  [temperature |-> (256 * p[1] + p[2]) % (32 * 256), humidity |-> p[3]]

DecodeWeather(p) ==
  [temperature |-> (256 * p[1] + p[2]) % (64 * 256), humidity |-> p[3]]

DecodeControl(p) ==
  [ set      |-> SetTemperature(p[1]),
    actual   |-> ActualTemperature(p[1], p[2]),
    humidity |-> p[3] ]

\* Each flag is compared after the shift, without a mask.
DecodeThermal(p) ==
  [ set           |-> SetTemperature(p[2]),
    actual        |-> ActualTemperature(p[2], p[3]),
    lowbat        |-> p[4] \div 128 = 1,
    communication |-> p[4] \div 64 = 1,
    window        |-> p[4] \div 32 = 1,
    battery       |-> (p[4] % 32) + 15,
    control       |-> Bits(p[5], 64, 4),
    boost         |-> p[5] % 64 ]

DecodeHeating(p) ==
  [ set     |-> SetTemperature(p[2]),
    actual  |-> ActualTemperature(p[2], p[3]),
    fault   |-> Bits(p[4], 32, 8),
    battery |-> (p[4] % 32) + 15,
    valve   |-> p[5] % 128,
    control |-> Bits(p[6], 64, 4),
    boost   |-> p[6] % 64 ]

DecodePower(p) ==
  [ boot      |-> Bits(p[1], 128, 2) = 1,
    energy    |-> 256 * 256 * (p[1] % 128) + 256 * p[2] + p[3],
    power     |-> 256 * 256 * p[4] + 256 * p[5] + p[6],
    current   |-> 256 * p[7] + p[8],
    voltage   |-> 256 * p[9] + p[10],
    frequency |-> p[11] + 5000 ]

Received(f, r) ==
  CASE f = "weather" -> DecodeWeather(PackWeather(r))
    [] f = "control" -> DecodeControl(PackControl(r))
    [] f = "thermal" -> DecodeThermal(PackThermal(r))
    [] f = "heating" -> DecodeHeating(PackHeating(r))
    [] f = "power"   -> DecodePower(PackPower(r))

----------------------------------------------------------------------------
(* Which frames are decoded as they were packed *)

\* For every field and every combination of the other fields of the frame,
\* but for the actual temperature from 25.6 degC on (EventReports) and for
\* the flags that share a byte: each is lost when one above it is set.
Misread == {"actual", "communication", "window"}

Arrives(r, e) ==
  LET Has(field) == field \in DOMAIN r
  IN  /\ DOMAIN e = DOMAIN r
      /\ \A field \in DOMAIN r \ Misread : e[field] = r[field]
      /\ Has("actual") => (r.actual < 256 => e.actual = r.actual)
      /\ Has("window") =>
           /\ ~r.lowbat => e.communication = r.communication
           /\ (~r.lowbat /\ ~r.communication) => e.window = r.window

DecodedRight ==
  {f \in DOMAIN Readings : \A r \in Readings[f] : Arrives(r, Received(f, r))}

==============================================================================
