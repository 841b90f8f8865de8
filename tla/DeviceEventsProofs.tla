------------------------- MODULE DeviceEventsProofs -------------------------
(***************************************************************************)
(* Proofs about EventFields and DeviceEvents.                              *)
(*                                                                         *)
(* The decoders, for every reading a field has room for: which fields      *)
(* arrive as they were measured, and that an actual temperature from       *)
(* 25.6 degC on never does.                                                *)
(*                                                                         *)
(* What becomes of an event, for any devices, any number of gauges and     *)
(* any number of packets: the type invariant, the order in which an event  *)
(* reaches those who look, that nothing is left over when the next packet  *)
(* is read, and that the status page shows each device at one moment.      *)
(***************************************************************************)
EXTENDS DeviceEvents, TLAPS

----------------------------------------------------------------------------
(* Lemmas about the bits of a number *)

Bits2  == 0 .. 3
Bits5  == 0 .. 31
Bits6  == 0 .. 63
Bits7  == 0 .. 127
Byte   == 0 .. 255
Bits10 == 0 .. 1023

\* A number is put together again from the bytes it was cut into.
LEMMA TwoBytes ==
  ASSUME NEW n \in Nat
  PROVE  /\ n \div 256 \in Nat /\ n % 256 \in 0 .. 255
         /\ 256 * (n \div 256) + (n % 256) = n
OBVIOUS

LEMMA TwoByteNumber ==
  ASSUME NEW a \in 0 .. 255, NEW b \in 0 .. 255
  PROVE  256 * a + b \in Nat /\ 256 * a + b < 256 * 256
OBVIOUS

LEMMA Quotient ==
  ASSUME NEW q \in Nat, NEW r \in Nat, r < 256 * 256
  PROVE  (256 * 256 * q + r) \div (256 * 256) = q
OBVIOUS

LEMMA ThreeBytes ==
  ASSUME NEW n \in Nat
  PROVE  /\ n \div (256 * 256) = (n \div 256) \div 256
         /\ n \div (256 * 256) \in Nat
         /\ 256 * 256 * (n \div (256 * 256))
              + 256 * ((n \div 256) % 256) + (n % 256) = n
<1> DEFINE m == n \div 256
<1>1. m \in Nat /\ n % 256 \in 0 .. 255 /\ n = 256 * m + (n % 256)
  BY TwoBytes
<1> HIDE DEF m
<1>2. /\ m \div 256 \in Nat /\ m % 256 \in 0 .. 255
      /\ m = 256 * (m \div 256) + (m % 256)
  BY <1>1, TwoBytes
<1>3. n = 256 * 256 * (m \div 256) + (256 * (m % 256) + (n % 256))
  BY <1>1, <1>2
<1>4. /\ 256 * (m % 256) + (n % 256) \in Nat
      /\ 256 * (m % 256) + (n % 256) < 256 * 256
  BY <1>1, <1>2, TwoByteNumber
<1>5. n \div (256 * 256) = m \div 256
  <2>1. (256 * 256 * (m \div 256) + (256 * (m % 256) + (n % 256)))
          \div (256 * 256) = m \div 256
    BY <1>2, <1>4, Quotient
  <2>2. QED
    BY <1>3, <2>1
<1>6. QED
  BY <1>2, <1>3, <1>5 DEF m

\* The fields of a byte.
LEMMA FiveBitsLow ==
  ASSUME NEW a \in 0 .. 7, NEW b \in Bits5
  PROVE  (32 * a + b) % 32 = b /\ Bits(32 * a + b, 32, 8) = a
BY DEF Bits, Bits5

LEMMA SixBitsLow ==
  ASSUME NEW a \in Bits2, NEW b \in Bits6
  PROVE  (64 * a + b) % 64 = b /\ Bits(64 * a + b, 64, 4) = a
BY DEF Bits, Bits2, Bits6

LEMMA SixBitsHigh ==
  ASSUME NEW a \in Bits6, NEW b \in Bits2
  PROVE  (4 * a + b) % 4 = b /\ Bits(4 * a + b, 4, 64) = a
BY DEF Bits, Bits2, Bits6

LEMMA FourteenBits ==
  ASSUME NEW a \in Bits6, NEW b \in Byte
  PROVE  (256 * a + b) % (64 * 256) = 256 * a + b
BY DEF Bits6, Byte

\* Or-ing two bits into a byte leaves a byte.
LEMMA OrLowByte ==
  ASSUME NEW a \in Bits2, NEW b \in Byte
  PROVE  OrLow(a, b) \in Byte /\ OrLow(0, b) = b
<1>1. b = 4 * (b \div 4) + 2 * ((b \div 2) % 2) + (b % 2)
  BY DEF Byte
<1>2. b \div 4 \in 0 .. 63 /\ (b \div 2) % 2 \in 0 .. 1 /\ b % 2 \in 0 .. 1
  BY DEF Byte
<1>3. b \div 1 = b /\ a \div 1 = a /\ 0 \div 1 = 0 /\ 0 \div 2 = 0 /\ 0 % 2 = 0
  BY DEF Byte, Bits2
<1>4. OrLow(a, b) \in Byte
  BY <1>2 DEF OrLow, Bits, Byte, Bits2
<1>5. OrLow(0, b) = b
  BY <1>1, <1>2, <1>3 DEF OrLow, Bits
<1>6. QED
  BY <1>4, <1>5

----------------------------------------------------------------------------
(* Each kind of frame *)

\* The readings are within the bits of their fields.
LEMMA SmallReadings ==
  /\ \A t \in Targets : t \in Bits6
  /\ \A t \in Actuals : t \in Bits10
  /\ \A b \in Batteries : b - 15 \in Bits5 /\ (b - 15) + 15 = b
  /\ \A b \in Boosts : b \in Bits6
  /\ \A v \in Valves : v \in Bits7
BY ThermalAssumption, ValveAssumption DEF Bits5, Bits6, Bits7, Bits10

\* The two bytes that the target and the actual temperature share: what the
\* decoders make of them, and that it is not enough from 256 on.
LEMMA Temperatures ==
  ASSUME NEW r, r.set \in Bits6, r.actual \in Bits10
  PROVE  /\ SetTemperature(PackHigh(r)) = r.set
         /\ r.actual < 256 =>
              ActualTemperature(PackHigh(r), PackLow(r)) = r.actual
         /\ ActualTemperature(PackHigh(r), PackLow(r)) \in Byte
<1>1. PICK hi \in Bits2, lo \in Byte :
        /\ hi = r.actual \div 256 /\ lo = r.actual % 256
        /\ r.actual < 256 => hi = 0 /\ lo = r.actual
  <2>1. \A a \in Bits10 : /\ a \div 256 \in Bits2 /\ a % 256 \in Byte
                          /\ a < 256 => a \div 256 = 0 /\ a % 256 = a
    BY DEF Bits2, Bits10, Byte
  <2>2. QED
    BY <2>1
<1>2. SetTemperature(4 * r.set + hi) = r.set /\ (4 * r.set + hi) % 4 = hi
  BY <1>1, SixBitsHigh DEF SetTemperature
<1>3. ActualTemperature(4 * r.set + hi, lo) = OrLow(hi, lo)
  BY <1>2 DEF ActualTemperature
<1>4. OrLow(hi, lo) \in Byte /\ OrLow(0, lo) = lo
  BY <1>1, OrLowByte
<1>5. PackHigh(r) = 4 * r.set + hi /\ PackLow(r) = lo
  BY <1>1 DEF PackHigh, PackLow
<1>6. QED
  BY <1>1, <1>2, <1>3, <1>4, <1>5

LEMMA WeatherArrives ==
  \A r \in WeatherReadings : Arrives(r, DecodeWeather(PackWeather(r)))
<1> SUFFICES ASSUME NEW r \in WeatherReadings
             PROVE  Arrives(r, DecodeWeather(PackWeather(r)))
  OBVIOUS
<1>1. r.temperature \in Outside /\ DOMAIN r = {"temperature", "humidity"}
  BY DEF WeatherReadings
<1>2. PICK t \in Nat : t = r.temperature /\ t \div 256 \in Bits6
  BY <1>1, ThermalAssumption DEF Bits6
<1>3. t % 256 \in Byte /\ 256 * (t \div 256) + (t % 256) = t
  BY <1>2, TwoBytes DEF Byte
<1>4. (256 * (t \div 256) + (t % 256)) % (64 * 256) = t
  BY <1>2, <1>3, FourteenBits
<1> DEFINE e == DecodeWeather(PackWeather(r))
<1>5. /\ DOMAIN e = {"temperature", "humidity"}
      /\ e.temperature = (256 * (r.temperature \div 256)
                            + (r.temperature % 256)) % (64 * 256)
      /\ e.humidity = r.humidity
  BY DEF DecodeWeather, PackWeather
<1> HIDE DEF e
<1>6. e.temperature = r.temperature
  BY <1>2, <1>4, <1>5
<1>7. Arrives(r, e)
  BY <1>1, <1>5, <1>6 DEF Arrives, Misread
<1>8. QED
  BY <1>7 DEF e

LEMMA ControlArrives ==
  \A r \in ControlReadings : Arrives(r, DecodeControl(PackControl(r)))
<1> SUFFICES ASSUME NEW r \in ControlReadings
             PROVE  Arrives(r, DecodeControl(PackControl(r)))
  OBVIOUS
<1>1. /\ DOMAIN r = {"set", "actual", "humidity"}
      /\ r.set \in Targets /\ r.actual \in Actuals
  BY DEF ControlReadings
<1> DEFINE e == DecodeControl(PackControl(r))
<1>2. /\ DOMAIN e = {"set", "actual", "humidity"}
      /\ e.set = SetTemperature(PackHigh(r))
      /\ e.actual = ActualTemperature(PackHigh(r), PackLow(r))
      /\ e.humidity = r.humidity
  BY DEF DecodeControl, PackControl
<1> HIDE DEF e
<1>3. e.set = r.set /\ (r.actual < 256 => e.actual = r.actual)
  BY <1>1, <1>2, SmallReadings, Temperatures
<1>4. Arrives(r, e)
  BY <1>1, <1>2, <1>3 DEF Arrives, Misread
<1>5. QED
  BY <1>4 DEF e

\* A flag is its bit or nothing.
LEMMA FlagValue ==
  ASSUME NEW b, NEW n \in {32, 64, 128}
  PROVE  /\ Flag(b, n) \in {0, n}
         /\ Flag(b, n) = n <=> b
         /\ Flag(b, n) = 0 <=> ~ b
<1>1. CASE b
  <2>1. Flag(b, n) = n
    BY <1>1 DEF Flag
  <2>2. n # 0
    OBVIOUS
  <2>3. QED
    BY <1>1, <2>1, <2>2, Zenon
<1>2. CASE ~ b
  <2>1. Flag(b, n) = 0
    BY <1>2 DEF Flag
  <2>2. n # 0
    OBVIOUS
  <2>3. QED
    BY <1>2, <2>1, <2>2, Zenon
<1>3. QED
  BY <1>1, <1>2

\* Three flags above five bits: each can be read while those above are unset.
LEMMA FlagBits ==
  ASSUME NEW x \in {0, 128}, NEW y \in {0, 64}, NEW z \in {0, 32},
         NEW b \in Bits5
  PROVE  /\ (x + y + z + b) % 32 = b
         /\ (x + y + z + b) \div 128 = 1 <=> x = 128
         /\ x = 0 => ((x + y + z + b) \div 64 = 1 <=> y = 64)
         /\ x = 0 /\ y = 0 => ((x + y + z + b) \div 32 = 1 <=> z = 32)
BY DEF Bits5

LEMMA ThermalArrives ==
  \A r \in ThermalReadings : Arrives(r, DecodeThermal(PackThermal(r)))
<1> SUFFICES ASSUME NEW r \in ThermalReadings
             PROVE  Arrives(r, DecodeThermal(PackThermal(r)))
  OBVIOUS
<1>1. /\ DOMAIN r = {"set", "actual", "lowbat", "communication", "window",
                     "battery", "control", "boost"}
      /\ r.set \in Targets /\ r.actual \in Actuals
      /\ r.battery \in Batteries /\ r.control \in Modes /\ r.boost \in Boosts
      /\ {r.lowbat, r.communication, r.window} \subseteq BOOLEAN
  BY DEF ThermalReadings
<1>2. /\ r.battery - 15 \in Bits5 /\ (r.battery - 15) + 15 = r.battery
      /\ r.control \in Bits2 /\ r.boost \in Bits6
  BY <1>1, SmallReadings DEF Modes, Bits2
<1> DEFINE e == DecodeThermal(PackThermal(r))
           flags == Flag(r.lowbat, 128) + Flag(r.communication, 64)
                      + Flag(r.window, 32) + (r.battery - 15)
<1>3. /\ DOMAIN e = DOMAIN r
      /\ e.set = SetTemperature(PackHigh(r))
      /\ e.actual = ActualTemperature(PackHigh(r), PackLow(r))
      /\ e.lowbat = (flags \div 128 = 1)
      /\ e.communication = (flags \div 64 = 1)
      /\ e.window = (flags \div 32 = 1)
      /\ e.battery = (flags % 32) + 15
      /\ e.control = Bits(64 * r.control + r.boost, 64, 4)
      /\ e.boost = (64 * r.control + r.boost) % 64
  BY <1>1 DEF DecodeThermal, PackThermal
<1> HIDE DEF e
<1>4. e.set = r.set /\ (r.actual < 256 => e.actual = r.actual)
  BY <1>1, <1>3, SmallReadings, Temperatures
<1>5. e.control = r.control /\ e.boost = r.boost
  BY <1>2, <1>3, SixBitsLow
<1>6. /\ flags % 32 = r.battery - 15
      /\ flags \div 128 = 1 <=> r.lowbat
      /\ ~ r.lowbat => (flags \div 64 = 1 <=> r.communication)
      /\ ~ r.lowbat /\ ~ r.communication => (flags \div 32 = 1 <=> r.window)
  <2> DEFINE x == Flag(r.lowbat, 128)
             y == Flag(r.communication, 64)
             z == Flag(r.window, 32)
  <2>1. x \in {0, 128} /\ (x = 128 <=> r.lowbat) /\ (x = 0 <=> ~ r.lowbat)
    BY FlagValue
  <2>2. /\ y \in {0, 64} /\ (y = 64 <=> r.communication)
        /\ (y = 0 <=> ~ r.communication)
    BY FlagValue
  <2>3. z \in {0, 32} /\ (z = 32 <=> r.window)
    BY FlagValue
  <2>4. flags = x + y + z + (r.battery - 15)
    OBVIOUS
  <2> HIDE DEF x, y, z, flags
  <2>5. /\ flags % 32 = r.battery - 15
        /\ flags \div 128 = 1 <=> x = 128
        /\ x = 0 => (flags \div 64 = 1 <=> y = 64)
        /\ x = 0 /\ y = 0 => (flags \div 32 = 1 <=> z = 32)
    BY <1>2, <2>1, <2>2, <2>3, <2>4, FlagBits
  <2>6. QED
    BY <2>1, <2>2, <2>3, <2>5, Zenon
<1>7. /\ e.battery = r.battery /\ e.lowbat = r.lowbat
      /\ ~ r.lowbat => e.communication = r.communication
      /\ ~ r.lowbat /\ ~ r.communication => e.window = r.window
  BY <1>1, <1>2, <1>3, <1>6
<1>8. Arrives(r, e)
  BY <1>1, <1>3, <1>4, <1>5, <1>7 DEF Arrives, Misread
<1>9. QED
  BY <1>8 DEF e

LEMMA HeatingArrives ==
  \A r \in HeatingReadings : Arrives(r, DecodeHeating(PackHeating(r)))
<1> SUFFICES ASSUME NEW r \in HeatingReadings
             PROVE  Arrives(r, DecodeHeating(PackHeating(r)))
  OBVIOUS
<1>1. /\ DOMAIN r = {"set", "actual", "fault", "battery", "valve", "control",
                     "boost"}
      /\ r.set \in Targets /\ r.actual \in Actuals /\ r.fault \in Faults
      /\ r.battery \in Batteries /\ r.valve \in Valves
      /\ r.control \in Modes /\ r.boost \in Boosts
  BY DEF HeatingReadings
<1>2. /\ r.battery - 15 \in Bits5 /\ (r.battery - 15) + 15 = r.battery
      /\ r.control \in Bits2 /\ r.boost \in Bits6 /\ r.fault \in 0 .. 7
      /\ r.valve \in Bits7
  BY <1>1, SmallReadings DEF Modes, Faults, Bits2
<1> DEFINE e == DecodeHeating(PackHeating(r))
<1>3. /\ DOMAIN e = DOMAIN r
      /\ e.set = SetTemperature(PackHigh(r))
      /\ e.actual = ActualTemperature(PackHigh(r), PackLow(r))
      /\ e.fault = Bits(32 * r.fault + (r.battery - 15), 32, 8)
      /\ e.battery = ((32 * r.fault + (r.battery - 15)) % 32) + 15
      /\ e.valve = r.valve % 128
      /\ e.control = Bits(64 * r.control + r.boost, 64, 4)
      /\ e.boost = (64 * r.control + r.boost) % 64
  BY <1>1 DEF DecodeHeating, PackHeating
<1> HIDE DEF e
<1>4. e.set = r.set /\ (r.actual < 256 => e.actual = r.actual)
  BY <1>1, <1>3, SmallReadings, Temperatures
<1>5. e.control = r.control /\ e.boost = r.boost
  BY <1>2, <1>3, SixBitsLow
<1>6. e.fault = r.fault /\ e.battery = r.battery
  BY <1>2, <1>3, FiveBitsLow
<1>7. e.valve = r.valve
  BY <1>2, <1>3 DEF Bits7
<1>8. Arrives(r, e)
  BY <1>1, <1>3, <1>4, <1>5, <1>6, <1>7 DEF Arrives, Misread
<1>9. QED
  BY <1>8 DEF e

\* The numbers of a power event fit their bytes; energies have a bit less.
LEMMA PowerNumbers ==
  ASSUME NEW r \in PowerReadings
  PROVE  /\ r.energy \in Nat /\ r.energy \div (256 * 256) \in Bits7
         /\ r.power \in Nat /\ r.current \in Nat /\ r.voltage \in Nat
<1>1. /\ r.energy \in Energies /\ r.power \in Powers
      /\ r.current \in Currents \cup Voltages
      /\ r.voltage \in Currents \cup Voltages
  BY DEF PowerReadings
<1>2. QED
  BY <1>1, PowerAssumption DEF Bits7

LEMMA FrequencyOffset ==
  \A r \in PowerReadings : (r.frequency - 5000) + 5000 = r.frequency
<1>1. \A r \in PowerReadings : r.frequency \in Frequencies
  BY DEF PowerReadings
<1>2. \A f \in Frequencies : f \in Int
  BY FrequencyAssumption
<1>3. QED
  BY <1>1, <1>2

\* The boot flag above the seven highest bits of the energy.
LEMMA BootBit ==
  ASSUME NEW x \in {0, 128}, NEW h \in Bits7
  PROVE  (x + h) % 128 = h /\ (Bits(x + h, 128, 2) = 1 <=> x = 128)
BY DEF Bits, Bits7

LEMMA PowerArrives ==
  \A r \in PowerReadings : Arrives(r, DecodePower(PackPower(r)))
<1> SUFFICES ASSUME NEW r \in PowerReadings
             PROVE  Arrives(r, DecodePower(PackPower(r)))
  OBVIOUS
<1>1. /\ DOMAIN r = {"boot", "energy", "power", "current", "voltage",
                     "frequency"}
      /\ r.boot \in BOOLEAN
  BY DEF PowerReadings
<1> DEFINE e == DecodePower(PackPower(r))
           x == Flag(r.boot, 128)
           h == r.energy \div (256 * 256)
<1>2. /\ DOMAIN e = DOMAIN r
      /\ e.boot = (Bits(x + h, 128, 2) = 1)
      /\ e.energy = 256 * 256 * ((x + h) % 128)
                      + 256 * ((r.energy \div 256) % 256) + (r.energy % 256)
      /\ e.power = 256 * 256 * (r.power \div (256 * 256))
                     + 256 * ((r.power \div 256) % 256) + (r.power % 256)
      /\ e.current = 256 * (r.current \div 256) + (r.current % 256)
      /\ e.voltage = 256 * (r.voltage \div 256) + (r.voltage % 256)
  BY <1>1 DEF DecodePower, PackPower
<1>3. e.frequency = r.frequency
  <2>1. e.frequency = (r.frequency - 5000) + 5000
    BY DEF DecodePower, PackPower
  <2>2. QED
    BY <2>1, FrequencyOffset
<1>4. /\ x \in {0, 128} /\ (x = 128 <=> r.boot)
      /\ h \in Bits7
  BY FlagValue, PowerNumbers
<1> HIDE DEF e, x
<1>5. (x + h) % 128 = h /\ (Bits(x + h, 128, 2) = 1 <=> x = 128)
  BY <1>4, BootBit
<1>6. e.boot = r.boot
  <2>1. (Bits(x + h, 128, 2) = 1) = r.boot
    BY <1>1, <1>4, <1>5
  <2>2. QED
    BY <1>2, <2>1
<1>7. e.energy = r.energy
  <2>1. e.energy = 256 * 256 * h
                     + 256 * ((r.energy \div 256) % 256) + (r.energy % 256)
    BY <1>2, <1>5
  <2>2. r.energy \in Nat
    BY PowerNumbers
  <2>3. QED
    BY <2>1, <2>2, ThreeBytes, Zenon
<1>8. e.power = r.power
  <2>1. r.power \in Nat
    BY PowerNumbers
  <2>2. 256 * 256 * (r.power \div (256 * 256))
          + 256 * ((r.power \div 256) % 256) + (r.power % 256) = r.power
    BY <2>1, ThreeBytes
  <2>3. QED
    BY <1>2, <2>2
<1>9. e.current = r.current /\ e.voltage = r.voltage
  <2>1. r.current \in Nat /\ r.voltage \in Nat
    BY PowerNumbers
  <2>2. /\ 256 * (r.current \div 256) + (r.current % 256) = r.current
        /\ 256 * (r.voltage \div 256) + (r.voltage % 256) = r.voltage
    BY <2>1, TwoBytes
  <2>3. QED
    BY <1>2, <2>2
<1>10. Arrives(r, e)
  <2>1. \A field \in DOMAIN r \ Misread : e[field] = r[field]
    BY <1>1, <1>6, <1>7, <1>8, <1>9, <1>3
  <2>2. "actual" \notin DOMAIN r /\ "window" \notin DOMAIN r
    BY <1>1
  <2>3. QED
    BY <1>2, <2>1, <2>2 DEF Arrives
<1>11. QED
  BY <1>10 DEF e

----------------------------------------------------------------------------
(* All of them *)

\* Every frame of every kind is decoded as it was packed, for every value
\* its fields have room for, but for the fields that Arrives names: no
\* decoder of internal/hm loses, shifts or mixes up any other bit.
THEOREM EveryFrameDecodedRight == DecodedRight = DOMAIN Readings
<1> SUFFICES ASSUME NEW f \in DOMAIN Readings, NEW r \in Readings[f]
             PROVE  Arrives(r, Received(f, r))
  BY DEF DecodedRight
<1>1. DOMAIN Readings = {"weather", "control", "thermal", "heating", "power"}
  BY DEF Readings
<1>2. CASE f = "weather"
  <2>1. r \in WeatherReadings /\ Received(f, r) = DecodeWeather(PackWeather(r))
    BY <1>2 DEF Readings, Received
  <2>2. QED
    BY <2>1, WeatherArrives
<1>3. CASE f = "control"
  <2>1. r \in ControlReadings /\ Received(f, r) = DecodeControl(PackControl(r))
    BY <1>3 DEF Readings, Received
  <2>2. QED
    BY <2>1, ControlArrives
<1>4. CASE f = "thermal"
  <2>1. r \in ThermalReadings /\ Received(f, r) = DecodeThermal(PackThermal(r))
    BY <1>4 DEF Readings, Received
  <2>2. QED
    BY <2>1, ThermalArrives
<1>5. CASE f = "heating"
  <2>1. r \in HeatingReadings /\ Received(f, r) = DecodeHeating(PackHeating(r))
    BY <1>5 DEF Readings, Received
  <2>2. QED
    BY <2>1, HeatingArrives
<1>6. CASE f = "power"
  <2>1. r \in PowerReadings /\ Received(f, r) = DecodePower(PackPower(r))
    BY <1>6 DEF Readings, Received
  <2>2. QED
    BY <2>1, PowerArrives
<1>7. QED
  BY <1>1, <1>2, <1>3, <1>4, <1>5, <1>6

LEMMA AboveByte == \A a \in Bits10, b \in Byte : a >= 256 => b < a
BY DEF Byte, Bits10

\* An actual temperature from 25.6 degC on never arrives: the two high bits
\* of the ten are or-ed into the low byte instead of above it, so what the
\* decoders of the control and of the two info events return is below 256
\* tenths of a degree, whatever was measured.
THEOREM WarmRoomsMisread ==
  ASSUME NEW r \in Readings["control"] \cup Readings["thermal"]
                     \cup Readings["heating"],
         r.actual >= 256
  PROVE  ActualTemperature(PackHigh(r), PackLow(r)) < r.actual
<1>1. r.set \in Targets /\ r.actual \in Actuals
  BY DEF Readings, ControlReadings, ThermalReadings, HeatingReadings
<1>2. ActualTemperature(PackHigh(r), PackLow(r)) \in Byte
  BY <1>1, SmallReadings, Temperatures
<1>3. r.actual \in Bits10
  BY <1>1, SmallReadings
<1>4. QED
  BY <1>2, <1>3, AboveByte

----------------------------------------------------------------------------
(* The inductive invariant *)

Label(s) == <<Type(s[1]), s[2]>>

\* What TypeOK leaves open: the domains, and the history variables.
Shape ==
  /\ gauge = [s \in Slots |-> gauge[s]]
  /\ newest \in [Slots -> 0 .. count]
  /\ fit \in [Labels -> 0 .. count]
  /\ seen = [d \in Devices |-> seen[d]]

\* A slot that the main loop is not working on is up to date everywhere.
UpToDate(s) ==
  /\ latest[s] = newest[s] /\ offered[s] = newest[s]
  /\ \A i \in Gauges(s) : gauge[s][i] = newest[s]

\* The slot it is working on has new gauges below at and old ones from
\* there on, then the new event, then that is published.
UnderWay ==
  /\ newest[slot] = count
  /\ step # "publish" => offered[slot] = latest[slot]
  /\ step = "gauges" =>
       /\ at \in 1 .. GaugeCount(slot[2]) + 1
       /\ \A i \in Gauges(slot) :
            gauge[slot][i] = IF i < at THEN count ELSE latest[slot]
  /\ step \in {"publish", "count"} =>
       /\ latest[slot] = count
       /\ \A i \in Gauges(slot) : gauge[slot][i] = count

Progress ==
  /\ \A s \in Slots : step = "read" \/ s # slot => UpToDate(s)
  /\ step # "read" => UnderWay
  /\ \A s \in Slots : newest[s] <= lastContact[s[1]] /\ shown[s] <= latest[s]
  /\ \A l \in Labels :
       fit[l] = decoded[l] + IF step # "read" /\ l = Label(slot) THEN 1 ELSE 0

\* While a page is built, what each device shows now is something it showed
\* during the page.
Watched == pos # 0 => \A d \in Devices : Of(latest, d) \in seen[d]

Inv == TypeOK /\ Shape /\ Progress /\ Watched /\ PageIsSnapshot

----------------------------------------------------------------------------
(* Lemmas about the tables *)

\* The slots are the kinds of events of each device, and there are some.
LEMMA SlotFacts ==
  /\ \A s \in Slots : /\ s = <<s[1], s[2]>>
                      /\ s[1] \in Devices /\ s[2] \in Kinds(s[1])
                      /\ Label(s) \in Labels
  /\ \A d \in Devices : \A k \in Kinds(d) : <<d, k>> \in Slots
  /\ Slots # {}
<1>1. \A s \in Slots : /\ s = <<s[1], s[2]>>
                       /\ s[1] \in Devices /\ s[2] \in Kinds(s[1])
  BY DEF Slots
<1>2. \A s \in Slots : Label(s) \in Labels
  BY DEF Label, Labels
<1>3. /\ KindOf["WeatherEvent"] = "weather"
      /\ KindOf["ThermalControl"] = "thermal-control"
      /\ KindOf["PowerEvent"] = "power" /\ KindOf["Info"] = "info"
      /\ {"WeatherEvent", "ThermalControl", "PowerEvent", "Info"}
           \subseteq DOMAIN KindOf
  BY DEF KindOf
<1>4. {"weather", "thermal-control", "power", "info"}
        \subseteq {KindOf[c] : c \in DOMAIN KindOf}
  BY <1>3
<1>5. \A d \in Devices : /\ Kinds(d) # {}
                         /\ Kinds(d) \subseteq
                              {"weather", "thermal-control", "power", "info"}
  BY DEF Kinds, Type
<1>6. \A d \in Devices : \A k \in Kinds(d) : <<d, k>> \in Slots
  BY <1>4, <1>5 DEF Slots
<1>7. Slots # {}
  BY <1>5, <1>6, OrderAssumption
<1>8. QED
  BY <1>1, <1>2, <1>6, <1>7

\* A slot's gauges are numbered from 1.
LEMMA GaugeFacts ==
  \A s \in Slots : /\ GaugeCount(s[2]) \in Nat
                   /\ Gauges(s) \subseteq Nat \ {0}
                   /\ \A i \in Nat \ {0} :
                        i \in Gauges(s) <=> i <= GaugeCount(s[2])
BY GaugeAssumption DEF Gauges

\* What the tables of the state contain, spelled out for a single slot.
LEMMA Values ==
  ASSUME Inv
  PROVE  /\ count \in Nat
         /\ \A s \in Slots :
              /\ latest[s] \in 0 .. count /\ offered[s] \in 0 .. count
              /\ newest[s] \in 0 .. count /\ shown[s] \in 0 .. count
              /\ lastContact[s[1]] \in 0 .. count
              /\ \A i \in Gauges(s) : gauge[s][i] \in 0 .. count
         /\ \A l \in Labels : decoded[l] \in 0 .. count /\ fit[l] \in 0 .. count
<1>1. count \in Nat
  BY BoundAssumption DEF Inv, TypeOK
<1>2. QED
  BY <1>1, SlotFacts DEF Inv, TypeOK, Shape

----------------------------------------------------------------------------
(* The steps of the main loop *)

LEMMA IgnoreKeeps ==
  ASSUME Inv, NEW p \in Packets, Ignore(p)
  PROVE  Inv'
<1>1. /\ step = "read" /\ count' = count + 1 /\ count < MaxPackets
      /\ UNCHANGED <<step, slot, at, gauge, latest, offered, decoded, pos,
                     shown, seen, newest, fit>>
  BY DEF Ignore, NextPacket, tables, page
<1>2. count \in Nat /\ 0 .. count \subseteq 0 .. count' /\ count' \in 0 .. MaxPackets
  BY <1>1, Values, BoundAssumption
<1>3. /\ lastContact' \in [Devices -> 0 .. count']
      /\ \A d \in Devices : lastContact[d] <= lastContact'[d]
  <2>1. lastContact \in [Devices -> 0 .. count]
    BY DEF Inv, TypeOK
  <2>2. CASE lastContact' = lastContact
    BY <1>2, <2>1, <2>2
  <2>3. CASE /\ p.src \in Devices
             /\ lastContact' = [lastContact EXCEPT ![p.src] = count']
    BY <1>1, <1>2, <2>1, <2>3
  <2>4. QED
    BY <2>2, <2>3 DEF Ignore, Packets
<1>4. TypeOK'
  BY <1>1, <1>2, <1>3 DEF Inv, TypeOK
<1>5. Shape'
  BY <1>1, <1>2 DEF Inv, Shape
<1>6. Progress'
  <2>1. \A s \in Slots : newest'[s] <= lastContact'[s[1]]
    BY <1>1, <1>2, <1>3, Values, SlotFacts DEF Inv, Progress
  <2>2. QED
    BY <1>1, <2>1 DEF Inv, Progress, UpToDate
<1>7. Watched' /\ PageIsSnapshot'
  BY <1>1 DEF Inv, Watched, PageIsSnapshot, Of
<1>8. QED
  BY <1>4, <1>5, <1>6, <1>7 DEF Inv

LEMMA DispatchKeeps ==
  ASSUME Inv, NEW p \in Packets, Dispatch(p)
  PROVE  Inv'
<1> DEFINE s == <<p.src, KindOf[p.cmd]>>
<1>1. /\ step = "read" /\ count' = count + 1 /\ count < MaxPackets
      /\ s \in Slots /\ slot' = s /\ step' = "gauges" /\ at' = 1
      /\ lastContact' = [lastContact EXCEPT ![s[1]] = count']
      /\ newest' = [newest EXCEPT ![s] = count']
      /\ fit' = [fit EXCEPT ![Label(s)] = @ + 1]
      /\ UNCHANGED <<gauge, latest, offered, decoded, pos, shown, seen>>
  BY DEF Dispatch, NextPacket, tables, page, Label
<1> HIDE DEF s
<1>2. count \in Nat /\ 0 .. count \subseteq 0 .. count' /\ count' \in 0 .. MaxPackets
  BY <1>1, Values, BoundAssumption
<1>3. s[1] \in Devices /\ Label(s) \in Labels /\ GaugeCount(s[2]) \in Nat
  BY <1>1, SlotFacts, GaugeAssumption
<1>4. /\ lastContact' \in [Devices -> 0 .. count']
      /\ \A d \in Devices : lastContact[d] <= lastContact'[d]
      /\ lastContact'[s[1]] = count'
  <2>1. lastContact \in [Devices -> 0 .. count]
    BY DEF Inv, TypeOK
  <2>2. \A d \in Devices : lastContact[d] \in 0 .. count
    BY <2>1
  <2>3. QED
    BY <1>1, <1>2, <1>3, <2>1, <2>2
<1>5. TypeOK'
  <2>1. at' \in 0 .. GaugeCount(s[2]) + 1
    BY <1>1, <1>3
  <2>2. QED
    BY <1>1, <1>2, <1>4, <2>1 DEF Inv, TypeOK
<1>6. /\ newest' \in [Slots -> 0 .. count'] /\ newest'[s] = count'
      /\ \A t \in Slots : t # s => newest'[t] = newest[t]
  BY <1>1, <1>2 DEF Inv, Shape
<1>7. /\ fit' \in [Labels -> 0 .. count']
      /\ \A l \in Labels : fit'[l] = fit[l] + IF l = Label(s) THEN 1 ELSE 0
  <2>1. fit \in [Labels -> 0 .. count] /\ fit[Label(s)] + 1 \in 0 .. count'
    BY <1>1, <1>2, <1>3 DEF Inv, Shape
  <2>2. QED
    BY <1>1, <1>2, <1>3, <2>1
<1>8. Shape'
  BY <1>1, <1>6, <1>7 DEF Inv, Shape
<1>9. Progress'
  <2>1. \A t \in Slots : t # s => UpToDate(t)'
    BY <1>1, <1>6 DEF Inv, Progress, UpToDate
  <2>2. UnderWay'
    <3>1. UpToDate(s)
      BY <1>1 DEF Inv, Progress
    <3>2. \A i \in Gauges(s) : ~(i < 1)
      BY <1>1, GaugeFacts
    <3>3. 1 \in 1 .. GaugeCount(s[2]) + 1
      BY <1>3
    <3>4. QED
      BY <1>1, <1>6, <3>1, <3>2, <3>3 DEF UnderWay, UpToDate
  <2>3. \A t \in Slots : newest'[t] <= lastContact'[t[1]]
    <3>1. \A t \in Slots : newest[t] <= lastContact'[t[1]]
      BY <1>2, <1>4, Values, SlotFacts DEF Inv, Progress
    <3>2. QED
      BY <1>2, <1>4, <1>6, <3>1
  <2>4. \A l \in Labels : fit'[l] = decoded'[l]
                                    + IF l = Label(s) THEN 1 ELSE 0
    BY <1>1, <1>7, Values DEF Inv, Progress
  <2>5. QED
    BY <1>1, <2>1, <2>2, <2>3, <2>4 DEF Inv, Progress
<1>10. Watched' /\ PageIsSnapshot'
  BY <1>1 DEF Inv, Watched, PageIsSnapshot, Of
<1>11. QED
  BY <1>5, <1>8, <1>9, <1>10 DEF Inv

LEMMA SetGaugeKeeps ==
  ASSUME Inv, SetGauge
  PROVE  Inv'
<1>1. /\ step = "gauges" /\ at \in Gauges(slot) /\ at' = at + 1
      /\ gauge' = [gauge EXCEPT ![slot][at] = count]
      /\ UNCHANGED <<count, step, slot, latest, offered, decoded, pos, shown,
                     seen, lastContact, newest, fit>>
  BY DEF SetGauge, page, known
<1>2. slot \in Slots /\ GaugeCount(slot[2]) \in Nat /\ count \in Nat
  BY Values, GaugeAssumption DEF Inv, TypeOK
<1>3. at \in Nat \ {0} /\ at <= GaugeCount(slot[2])
  BY <1>1, <1>2, GaugeFacts
<1>4. /\ gauge' = [s \in Slots |-> gauge'[s]]
      /\ \A s \in Slots : s # slot => gauge'[s] = gauge[s]
      /\ gauge'[slot] = [gauge[slot] EXCEPT ![at] = count]
  BY <1>1, <1>2 DEF Inv, Shape
<1>5. gauge[slot] \in [Gauges(slot) -> 0 .. count]
  BY <1>2 DEF Inv, TypeOK
<1>6. /\ gauge'[slot] \in [Gauges(slot) -> 0 .. count]
      /\ \A i \in Gauges(slot) :
           gauge'[slot][i] = IF i = at THEN count ELSE gauge[slot][i]
  BY <1>1, <1>2, <1>4, <1>5
<1>7. TypeOK'
  <2>1. at' \in 0 .. GaugeCount(slot[2]) + 1
    BY <1>1, <1>2, <1>3
  <2>2. \A s \in Slots : gauge'[s] \in [Gauges(s) -> 0 .. count]
    BY <1>4, <1>6 DEF Inv, TypeOK
  <2>3. QED
    BY <1>1, <2>1, <2>2 DEF Inv, TypeOK
<1>8. Shape'
  BY <1>1, <1>4 DEF Inv, Shape
<1>9. Progress'
  <2>1. UnderWay
    BY <1>1 DEF Inv, Progress
  <2>2. \A i \in Gauges(slot) : i < at + 1 <=> (i < at \/ i = at)
    BY <1>2, <1>3, GaugeFacts
  <2>3. at + 1 \in 1 .. GaugeCount(slot[2]) + 1
    BY <1>2, <1>3
  <2>4. \A i \in Gauges(slot) :
          gauge'[slot][i] = IF i < at' THEN count ELSE latest[slot]
    <3>1. SUFFICES ASSUME NEW i \in Gauges(slot)
                   PROVE  gauge'[slot][i] = IF i < at' THEN count ELSE latest[slot]
      OBVIOUS
    <3>2. gauge[slot][i] = IF i < at THEN count ELSE latest[slot]
      BY <1>1, <2>1 DEF UnderWay
    <3>3. QED
      BY <1>1, <1>6, <2>2, <3>2
  <2>5. UnderWay'
    BY <1>1, <2>1, <2>3, <2>4 DEF UnderWay
  <2>6. \A s \in Slots : s # slot => UpToDate(s)'
    BY <1>1, <1>4 DEF Inv, Progress, UpToDate
  <2>7. QED
    BY <1>1, <2>5, <2>6 DEF Inv, Progress
<1>10. Watched' /\ PageIsSnapshot'
  BY <1>1 DEF Inv, Watched, PageIsSnapshot, Of
<1>11. QED
  BY <1>7, <1>8, <1>9, <1>10 DEF Inv

LEMMA StoreKeeps ==
  ASSUME Inv, Store
  PROVE  Inv'
<1>1. /\ step = "gauges" /\ at = GaugeCount(slot[2]) + 1 /\ step' = "publish"
      /\ latest' = [latest EXCEPT ![slot] = count]
      /\ UNCHANGED <<count, slot, at, gauge, offered, decoded, pos, shown,
                     lastContact, newest, fit>>
  BY DEF Store, page, known
<1>2. slot \in Slots /\ slot[1] \in Devices /\ count \in Nat
  BY Values, SlotFacts DEF Inv, TypeOK
<1>3. /\ latest' \in [Slots -> 0 .. count] /\ latest'[slot] = count
      /\ \A s \in Slots : s # slot => latest'[s] = latest[s]
  BY <1>1, <1>2 DEF Inv, TypeOK
<1>4. TypeOK'
  BY <1>1, <1>3 DEF Inv, TypeOK
<1>5. /\ seen' = [d \in Devices |-> seen'[d]]
      /\ \A d \in Devices : seen[d] \subseteq seen'[d]
      /\ pos # 0 => Of(latest', slot[1]) \in seen'[slot[1]]
  <2>1. CASE pos = 0
    BY <2>1 DEF Store, Inv, Shape
  <2>2. CASE pos # 0
    <3>1. seen' = [seen EXCEPT ![slot[1]] = @ \cup {Of(latest', slot[1])}]
      BY <2>2 DEF Store
    <3>2. QED
      BY <1>2, <3>1 DEF Inv, Shape
  <2>3. QED
    BY <2>1, <2>2
<1>6. Shape'
  BY <1>1, <1>5 DEF Inv, Shape
<1>7. Progress'
  <2>1. UnderWay
    BY <1>1 DEF Inv, Progress
  <2>2. \A i \in Gauges(slot) : gauge[slot][i] = count
    <3>1. \A i \in Gauges(slot) : i < at
      BY <1>1, <1>2, GaugeFacts
    <3>2. QED
      BY <1>1, <2>1, <3>1 DEF UnderWay
  <2>3. UnderWay'
    BY <1>1, <1>3, <2>1, <2>2 DEF UnderWay
  <2>4. \A s \in Slots : s # slot => UpToDate(s)'
    BY <1>1, <1>3 DEF Inv, Progress, UpToDate
  <2>5. \A s \in Slots : shown[s] <= latest'[s]
    <3>1. shown[slot] <= count
      BY <1>2, Values
    <3>2. QED
      BY <1>3, <3>1 DEF Inv, Progress
  <2>6. QED
    BY <1>1, <2>3, <2>4, <2>5 DEF Inv, Progress
<1>8. Watched'
  <2>1. SUFFICES ASSUME pos # 0, NEW d \in Devices
                 PROVE  Of(latest', d) \in seen'[d]
    BY <1>1 DEF Watched
  <2>2. CASE d = slot[1]
    BY <1>5, <2>1, <2>2
  <2>3. CASE d # slot[1]
    <3>1. \A k \in Kinds(d) : <<d, k>> \in Slots /\ <<d, k>> # slot
      BY <2>3, SlotFacts
    <3>2. Of(latest', d) = Of(latest, d)
      BY <1>3, <3>1 DEF Of
    <3>3. QED
      BY <1>5, <2>1, <3>2 DEF Inv, Watched
  <2>4. QED
    BY <2>2, <2>3
<1>9. PageIsSnapshot'
  <2>1. \A i \in DOMAIN BySerial : BySerial[i] \in Devices
    BY OrderAssumption
  <2>2. QED
    BY <1>1, <1>5, <2>1 DEF Inv, PageIsSnapshot
<1>10. QED
  BY <1>4, <1>6, <1>7, <1>8, <1>9 DEF Inv

LEMMA PublishKeeps ==
  ASSUME Inv, Publish
  PROVE  Inv'
<1>1. /\ step = "publish" /\ step' = "count"
      /\ offered' = [offered EXCEPT ![slot] = count]
      /\ UNCHANGED <<count, slot, at, gauge, latest, decoded, pos, shown, seen,
                     lastContact, newest, fit>>
  BY DEF Publish, page, known
<1>2. slot \in Slots /\ count \in Nat
  BY Values DEF Inv, TypeOK
<1>3. /\ offered' \in [Slots -> 0 .. count] /\ offered'[slot] = count
      /\ \A s \in Slots : s # slot => offered'[s] = offered[s]
  BY <1>1, <1>2 DEF Inv, TypeOK
<1>4. TypeOK'
  BY <1>1, <1>3 DEF Inv, TypeOK
<1>5. Shape'
  BY <1>1 DEF Inv, Shape
<1>6. Progress'
  <2>1. UnderWay
    BY <1>1 DEF Inv, Progress
  <2>2. UnderWay'
    BY <1>1, <1>3, <2>1 DEF UnderWay
  <2>3. \A s \in Slots : s # slot => UpToDate(s)'
    BY <1>1, <1>3 DEF Inv, Progress, UpToDate
  <2>4. QED
    BY <1>1, <2>2, <2>3 DEF Inv, Progress
<1>7. Watched' /\ PageIsSnapshot'
  BY <1>1 DEF Inv, Watched, PageIsSnapshot, Of
<1>8. QED
  BY <1>4, <1>5, <1>6, <1>7 DEF Inv

LEMMA CountKeeps ==
  ASSUME Inv, CountDecoded
  PROVE  Inv'
<1>1. /\ step = "count" /\ step' = "read"
      /\ decoded' = [decoded EXCEPT ![Label(slot)] = @ + 1]
      /\ UNCHANGED <<count, slot, at, gauge, latest, offered, pos, shown, seen,
                     lastContact, newest, fit>>
  BY DEF CountDecoded, page, known, Label
<1>2. slot \in Slots /\ Label(slot) \in Labels
  BY SlotFacts DEF Inv, TypeOK
<1>3. \A l \in Labels :
        fit[l] = decoded[l] + IF l = Label(slot) THEN 1 ELSE 0
  BY <1>1 DEF Inv, Progress
<1>4. /\ decoded' \in [Labels -> 0 .. count]
      /\ \A l \in Labels : fit[l] = decoded'[l] + 0
  <2>1. decoded \in [Labels -> 0 .. count]
    BY DEF Inv, TypeOK
  <2>2. fit[Label(slot)] \in 0 .. count /\ count \in Nat
    BY <1>2, Values
  <2>3. decoded[Label(slot)] + 1 = fit[Label(slot)]
    BY <1>2, <1>3
  <2>4. decoded' \in [Labels -> 0 .. count]
    BY <1>1, <1>2, <2>1, <2>2, <2>3
  <2>5. \A l \in Labels : decoded'[l] = fit[l] /\ fit[l] \in 0 .. count
    BY <1>1, <1>2, <1>3, <2>1, <2>3, Values
  <2>6. QED
    BY <2>4, <2>5
<1>5. TypeOK'
  BY <1>1, <1>4 DEF Inv, TypeOK
<1>6. Shape'
  BY <1>1 DEF Inv, Shape
<1>7. Progress'
  <2>1. UpToDate(slot)
    BY <1>1 DEF Inv, Progress, UnderWay, UpToDate
  <2>2. \A s \in Slots : UpToDate(s)'
    BY <1>1, <2>1 DEF Inv, Progress, UpToDate
  <2>3. QED
    BY <1>1, <1>4, <2>2 DEF Inv, Progress
<1>8. Watched' /\ PageIsSnapshot'
  BY <1>1 DEF Inv, Watched, PageIsSnapshot, Of
<1>9. QED
  BY <1>5, <1>6, <1>7, <1>8 DEF Inv

----------------------------------------------------------------------------
(* The steps of the status page *)

\* Building a page does not touch what the main loop writes.
LEMMA PageLeavesTables ==
  ASSUME Inv, UNCHANGED <<count, step, slot, at, tables, known>>,
         pos' \in 0 .. Len(BySerial) + 1, shown' \in [Slots -> 0 .. count],
         \A s \in Slots : shown'[s] <= latest[s],
         seen' = [d \in Devices |-> seen'[d]]
  PROVE  TypeOK' /\ Shape' /\ Progress'
<1>1. UNCHANGED <<count, step, slot, at, gauge, latest, offered, decoded,
                  lastContact, newest, fit>>
  BY DEF tables, known
<1>2. TypeOK'
  BY <1>1 DEF Inv, TypeOK
<1>3. Shape'
  BY <1>1 DEF Inv, Shape
<1>4. Progress'
  BY <1>1 DEF Inv, Progress, UpToDate, UnderWay
<1>5. QED
  BY <1>2, <1>3, <1>4

LEMMA PageKeeps ==
  ASSUME Inv, RequestPage \/ Visit \/ FinishPage
  PROVE  Inv'
<1>0. /\ Len(BySerial) \in Nat /\ DOMAIN BySerial = 1 .. Len(BySerial)
      /\ pos \in 0 .. Len(BySerial) + 1
      /\ shown \in [Slots -> 0 .. count] /\ latest \in [Slots -> 0 .. count]
      /\ \A s \in Slots : shown[s] <= latest[s]
      /\ count \in Nat
  BY OrderAssumption, Values DEF Inv, TypeOK, Progress
<1>1. CASE RequestPage
  <2>1. /\ pos' = 1 /\ seen' = [d \in Devices |-> {Of(latest, d)}]
        /\ UNCHANGED <<count, step, slot, at, tables, known, shown>>
    BY <1>1 DEF RequestPage
  <2>2. TypeOK' /\ Shape' /\ Progress'
    BY <1>0, <2>1, PageLeavesTables
  <2>3. Watched'
    BY <2>1 DEF Watched, tables
  <2>4. PageIsSnapshot'
    <3>1. \A i \in DOMAIN BySerial : ~(i < 1)
      BY <1>0
    <3>2. QED
      BY <2>1, <3>1 DEF PageIsSnapshot
  <2>5. QED
    BY <2>2, <2>3, <2>4 DEF Inv
<1>2. CASE Visit
  <2> DEFINE d == BySerial[pos]
  <2>1. /\ pos \in DOMAIN BySerial /\ pos' = pos + 1
        /\ shown' = [s \in Slots |-> IF s[1] = d THEN latest[s] ELSE shown[s]]
        /\ UNCHANGED <<count, step, slot, at, tables, known, seen>>
    BY <1>2 DEF Visit
  <2>2. pos \in Nat \ {0} /\ pos' \in 1 .. Len(BySerial) + 1 /\ d \in Devices
    BY <1>0, <2>1, OrderAssumption
  <2> HIDE DEF d
  <2>3. \A s \in Slots : latest[s] \in 0 .. count
    BY <1>0
  <2>4. shown' \in [Slots -> 0 .. count] /\ \A s \in Slots : shown'[s] <= latest[s]
    BY <1>0, <2>1, <2>3
  <2>5. TypeOK' /\ Shape' /\ Progress'
    <3>1. seen' = [x \in Devices |-> seen'[x]]
      BY <2>1 DEF Inv, Shape
    <3>2. pos' \in 0 .. Len(BySerial) + 1
      BY <2>2
    <3>3. QED
      BY <2>1, <2>4, <3>1, <3>2, PageLeavesTables
  <2>6. Watched'
    BY <2>1, <2>2 DEF Inv, Watched, tables
  <2>7. PageIsSnapshot'
    <3>1. SUFFICES ASSUME NEW i \in DOMAIN BySerial, i < pos + 1
                   PROVE  Of(shown', BySerial[i]) \in seen[BySerial[i]]
      BY <2>1 DEF PageIsSnapshot
    <3>2. BySerial[i] \in Devices
      BY OrderAssumption
    <3>3. CASE BySerial[i] = d
      <4>1. \A k \in Kinds(d) : shown'[<<d, k>>] = latest[<<d, k>>]
        BY <2>1, <2>2, SlotFacts
      <4>2. Of(shown', d) = Of(latest, d)
        BY <4>1 DEF Of
      <4>3. QED
        BY <2>2, <3>3, <4>2 DEF Inv, Watched
    <3>4. CASE BySerial[i] # d
      <4>1. i # pos
        BY <3>4 DEF d
      <4>2. i < pos
        BY <1>0, <2>2, <3>1, <4>1
      <4>3. \A k \in Kinds(BySerial[i]) :
              shown'[<<BySerial[i], k>>] = shown[<<BySerial[i], k>>]
        BY <2>1, <3>2, <3>4, SlotFacts
      <4>4. Of(shown', BySerial[i]) = Of(shown, BySerial[i])
        BY <4>3 DEF Of
      <4>5. QED
        BY <4>2, <4>4 DEF Inv, PageIsSnapshot
    <3>5. QED
      BY <3>3, <3>4
  <2>8. QED
    BY <2>5, <2>6, <2>7 DEF Inv
<1>3. CASE FinishPage
  <2>1. /\ pos' = 0 /\ seen' = [d \in Devices |-> {}]
        /\ UNCHANGED <<count, step, slot, at, tables, known, shown>>
    BY <1>3 DEF FinishPage
  <2>2. TypeOK' /\ Shape' /\ Progress'
    BY <1>0, <2>1, PageLeavesTables
  <2>3. Watched'
    BY <2>1 DEF Watched
  <2>4. PageIsSnapshot'
    <3>1. \A i \in DOMAIN BySerial : ~(i < 0)
      BY <1>0
    <3>2. QED
      BY <2>1, <3>1 DEF PageIsSnapshot
  <2>5. QED
    BY <2>2, <2>3, <2>4 DEF Inv
<1>4. QED
  BY <1>1, <1>2, <1>3

----------------------------------------------------------------------------
(* The theorems *)

LEMMA InvInit == Init => Inv
<1> SUFFICES ASSUME Init PROVE Inv
  OBVIOUS
<1>1. slot \in Slots /\ GaugeCount(slot[2]) \in Nat
  BY SlotFacts, GaugeAssumption DEF Init
<1>2. Len(BySerial) \in Nat /\ DOMAIN BySerial = 1 .. Len(BySerial)
  BY OrderAssumption
<1>3. TypeOK
  <2>1. \A s \in Slots : gauge[s] = [i \in Gauges(s) |-> 0]
    BY DEF Init
  <2>2. 0 \in 0 .. MaxPackets /\ 0 \in 0 .. 0
    BY BoundAssumption
  <2>3. 0 \in 0 .. GaugeCount(slot[2]) + 1 /\ 0 \in 0 .. Len(BySerial) + 1
    BY <1>1, <1>2
  <2>4. QED
    BY <1>1, <2>1, <2>2, <2>3 DEF Init, TypeOK
<1>4. Shape
  BY DEF Init, Shape
<1>5. Progress
  <2>1. \A s \in Slots : UpToDate(s)
    BY DEF Init, UpToDate
  <2>2. \A s \in Slots : newest[s] <= lastContact[s[1]] /\ shown[s] <= latest[s]
    BY SlotFacts DEF Init
  <2>3. QED
    BY <2>1, <2>2 DEF Init, Progress
<1>6. Watched
  BY DEF Init, Watched
<1>7. PageIsSnapshot
  <2>1. \A i \in DOMAIN BySerial : ~(i < 0)
    BY <1>2
  <2>2. QED
    BY <2>1 DEF Init, PageIsSnapshot
<1>8. QED
  BY <1>3, <1>4, <1>5, <1>6, <1>7 DEF Inv

LEMMA InvStep == Inv /\ [Next]_vars => Inv'
<1> SUFFICES ASSUME Inv, [Next]_vars PROVE Inv'
  OBVIOUS
<1>1. ASSUME NEW p \in Packets, Ignore(p) \/ Dispatch(p) PROVE Inv'
  BY <1>1, IgnoreKeeps, DispatchKeeps
<1>2. CASE SetGauge \/ Store \/ Publish \/ CountDecoded
  BY <1>2, SetGaugeKeeps, StoreKeeps, PublishKeeps, CountKeeps
<1>3. CASE RequestPage \/ Visit \/ FinishPage
  BY <1>3, PageKeeps
<1>4. CASE UNCHANGED vars
  <2>1. TypeOK' /\ Shape'
    BY <1>4 DEF Inv, TypeOK, Shape, vars, tables, page, known
  <2>2. Progress'
    BY <1>4 DEF Inv, Progress, UpToDate, UnderWay, vars, tables, page, known
  <2>3. Watched' /\ PageIsSnapshot'
    BY <1>4 DEF Inv, Watched, PageIsSnapshot, Of, vars, tables, page
  <2>4. QED
    BY <2>1, <2>2, <2>3 DEF Inv
<1>5. QED
  BY <1>1, <1>2, <1>3, <1>4 DEF Next, Loop

LEMMA InvAlways == Spec => []Inv
BY InvInit, InvStep, PTL DEF Spec

\* No gauge, page or counter holds an event that has not been received, and
\* the main loop never sets a gauge the event does not have.
THEOREM TypeCorrect == Spec => []TypeOK
<1>1. Inv => TypeOK
  BY DEF Inv
<1>2. QED
  BY <1>1, InvAlways, PTL

\* An event is in the metrics before it is on the status page, and there
\* before it is offered to MQTT, however many gauges it has.
THEOREM EventsInOrder == Spec => []EventsReachInOrder
<1>1. Inv => EventsReachInOrder
  <2> SUFFICES ASSUME Inv, NEW s \in Slots
               PROVE  /\ offered[s] <= latest[s] /\ shown[s] <= latest[s]
                      /\ \A i \in Gauges(s) : /\ latest[s] <= gauge[s][i]
                                              /\ gauge[s][i] <= lastContact[s[1]]
    BY DEF EventsReachInOrder
  <2>1. /\ latest[s] \in 0 .. count /\ offered[s] \in 0 .. count
        /\ newest[s] \in 0 .. count /\ lastContact[s[1]] \in 0 .. count
        /\ count \in Nat
    BY Values
  <2>2. newest[s] <= lastContact[s[1]] /\ shown[s] <= latest[s]
    BY DEF Inv, Progress
  <2>3. CASE step = "read" \/ s # slot
    <3>1. UpToDate(s)
      BY <2>3 DEF Inv, Progress
    <3>2. QED
      BY <2>1, <2>2, <3>1 DEF UpToDate
  <2>4. CASE step # "read" /\ s = slot
    <3>1. UnderWay /\ newest[s] = count
      BY <2>4 DEF Inv, Progress, UnderWay
    <3>2. step \in {"gauges", "publish", "count"}
      BY <2>4 DEF Inv, TypeOK
    <3>3. offered[s] <= latest[s]
      BY <2>1, <2>4, <3>1, <3>2 DEF UnderWay
    <3>4. \A i \in Gauges(s) : gauge[s][i] = count \/ gauge[s][i] = latest[s]
      BY <2>4, <3>1, <3>2 DEF UnderWay
    <3>5. QED
      BY <2>1, <2>2, <3>1, <3>3, <3>4
  <2>5. QED
    BY <2>3, <2>4
<1>2. QED
  BY <1>1, InvAlways, PTL

\* When the main loop reads the next packet, everybody has the newest event
\* of each kind and every event has been counted once.
THEOREM AllAgreeWhenReading == Spec => []AllAgreeAtRest
<1>1. Inv => AllAgreeAtRest
  <2> SUFFICES ASSUME Inv, step = "read"
               PROVE  (\A s \in Slots : UpToDate(s)) /\ decoded = fit
    BY DEF AllAgreeAtRest, UpToDate
  <2>1. \A s \in Slots : UpToDate(s)
    BY DEF Inv, Progress
  <2>2. \A l \in Labels : decoded[l] = fit[l]
    BY Values DEF Inv, Progress
  <2>3. decoded = fit
    BY <2>2 DEF Inv, TypeOK, Shape
  <2>4. QED
    BY <2>1, <2>3
<1>2. QED
  BY <1>1, InvAlways, PTL

\* The status page shows of each device what its events were together at one
\* moment since it was requested, for any number of devices and of packets
\* decoded meanwhile.
THEOREM PageShowsOneMoment == Spec => []PageIsSnapshot
<1>1. Inv => PageIsSnapshot
  BY DEF Inv
<1>2. QED
  BY <1>1, InvAlways, PTL

\* Whatever frame the main loop picks a decoder for, the event it goes on
\* with has the values the device measured, for every reading there is room
\* for in the frame (EveryFrameDecodedRight).
THEOREM ReadingsAlwaysArrive == Spec => []ReadingsArrive
<1>1. Inv => ReadingsArrive
  <2>1. \A d \in Devices : Kinds(d) \subseteq
                             {"weather", "thermal-control", "power", "info"}
    BY DEF Kinds, Type
  <2>2. \A s \in Slots : s[1] \in Devices /\ s[2] \in Kinds(s[1])
    BY SlotFacts
  <2>3. \A s \in Slots : FrameOf(s) \in
                           {"weather", "control", "power", "thermal", "heating"}
    BY <2>1, <2>2 DEF FrameOf
  <2>4. DOMAIN Readings =
          {"weather", "control", "power", "thermal", "heating"}
    BY DEF Readings
  <2>5. ASSUME Inv PROVE slot \in Slots
    BY <2>5 DEF Inv, TypeOK
  <2>6. QED
    BY <2>3, <2>4, <2>5, EveryFrameDecodedRight DEF ReadingsArrive
<1>2. QED
  BY InvAlways, <1>1, PTL

=============================================================================
