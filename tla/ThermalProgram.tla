--------------------------- MODULE ThermalProgram ---------------------------
(***************************************************************************)
(* The weekly heating program of a wall thermostat: what main (ccu.go)     *)
(* wants for each room and month, how SetPrograms (thermal.go) lays it     *)
(* out in the device's memory, and how the memory gets there over starts   *)
(* of the program, months and crashes.                                     *)
(*                                                                         *)
(* How EnsureConfigured talks to the device is in DeviceConfig; here its   *)
(* result counts: the bytes that differ are sent in blocks, in the order   *)
(* of their index, and the program may die between two blocks.             *)
(*                                                                         *)
(* Temperatures are in steps of 0.5 degC, times in minutes.                *)
(***************************************************************************)
EXTENDS Integers, Sequences, FiniteSets

CONSTANTS
  Rooms,        \* the wall thermostats
  Months,       \* months in which the program runs, 1 to 12
  Factory,      \* memories before the first start
  Minutes,      \* times of the day at which schedules are compared
  Block,        \* bytes per ConfigWriteIndex: 14 div 2
  MaxStarts     \* bound: starts of the program

Index == 0 .. 255
Byte  == 0 .. 255
Day   == 0 .. 6     \* time.Weekday: Sunday is 0

ASSUME RoomAssumption ==
  Rooms \subseteq {"Wohnzimmer", "Bad", "Schlafzimmer", "Lea"}
ASSUME TimeAssumption == Months \subseteq 1 .. 12 /\ Minutes \subseteq 0 .. 1439
ASSUME FactoryAssumption == \A m \in Factory : m \in [Index -> Byte]
ASSUME BoundAssumption == Block \in Nat \ {0} /\ MaxStarts \in Nat

VARIABLES
  room,         \* the thermostat
  mem,          \* the device's memory
  pc,           \* "down", "writing" or "up"
  target,       \* what the program wants in the memory
  todo,         \* indices still to be written
  asOf,         \* month for which target was made
  starts,
  held          \* history: the season whose program the memory holds, "mixed"
                \* while it is changed, "none" before the first is complete

vars == <<room, mem, pc, target, todo, asOf, starts, held>>

----------------------------------------------------------------------------
(* What main wants *)

Entry(end, temp) == [end |-> end, temp |-> temp]
Hours(h) == 60 * h

\* An array of 13 entries, those not given being zero.
Endtimes(entries) ==
  [i \in 1 .. 13 |-> IF i <= Len(entries) THEN entries[i] ELSE Entry(0, 0)]

\* low and high: what main writes where most rooms have 17 and 22 degrees.
Programs(low, high) ==
  << [ days |-> 1 .. 5,
       endtimes |-> Endtimes(
         << Entry(Hours(6), low), Entry(Hours(10), high),
            Entry(Hours(17), low), Entry(Hours(23), high) >>) ],
     [ days |-> {0, 6},
       endtimes |-> Endtimes(
         << Entry(Hours(6), low), Entry(Hours(23), high) >>) ] >>

Season(m) == IF m \in 5 .. 8 THEN "summer" ELSE "winter"

\* "cannot be reached, i.e. heat permanently"
OverrideWinter(programs, m) ==
  IF Season(m) = "summer" THEN programs
  ELSE [i \in DOMAIN programs |->
          [programs[i] EXCEPT !.endtimes =
             [k \in DOMAIN @ |->
                IF @[k].end > Hours(6) THEN Entry(@[k].end, 48) ELSE @[k]]]]

ProgramsOf(r, m) ==
  IF r = "Lea" THEN Programs(48, 48)
  ELSE OverrideWinter(Programs(34, 44), m)

----------------------------------------------------------------------------
(* The layout in memory *)

\* Faulty variant: an entry that is not used keeps the end time 0.
EncodeEntryUnset(e) ==
  LET end  == e.end \div 5
      temp == IF e.temp = 0 THEN 34 ELSE e.temp
  IN  <<((end \div 256) % 2) + 2 * (temp % 64), end % 256>>

\* Faulty variant: the ninth bit of the end time is lost.
EncodeEntryEightBits(e) ==
  LET end  == (IF e.end = 0 THEN 1440 ELSE e.end) \div 5
      temp == IF e.temp = 0 THEN 34 ELSE e.temp
  IN  <<2 * (temp % 64), end % 256>>

\* The two bytes of an entry: 6 bits of temperature, 9 bits of end time.
EncodeEntry(e) ==
  LET end  == (IF e.end = 0 THEN 1440 ELSE e.end) \div 5
      temp == IF e.temp = 0 THEN 34 ELSE e.temp
  IN  <<((end \div 256) % 2) + 2 * (temp % 64), end % 256>>

EncodeProgramDay(entries) ==
  [j \in 0 .. 25 |-> EncodeEntry(entries[(j \div 2) + 1])[(j % 2) + 1]]

\* Faulty variant: the days follow each other from Sunday on.
OffsetsFromSunday(d) == 20 + 26 * d

ProgramOffsets(d) == <<46, 72, 98, 124, 150, 176, 20>>[d + 1]

\* What SetPrograms copies, by index: a later program for the same day
\* overwrites an earlier one.
ProgramBytes(programs) ==
  LET range(d) == ProgramOffsets(d) .. ProgramOffsets(d) + 25
      last(d)  == CHOOSE k \in DOMAIN programs :
                    /\ d \in programs[k].days
                    /\ \A j \in DOMAIN programs :
                         d \in programs[j].days => j <= k
      days     == UNION {programs[k].days : k \in DOMAIN programs}
  IN  [i \in UNION {range(d) : d \in days} |->
         LET d == CHOOSE x \in days : i \in range(x)
         IN  EncodeProgramDay(programs[last(d)].endtimes)[
           i - ProgramOffsets(d)]]

BytesOf ==
  [r \in Rooms |-> [m \in Months |-> ProgramBytes(ProgramsOf(r, m))]]

SetPrograms(m, bytes) ==
  [i \in Index |-> IF i \in DOMAIN bytes THEN bytes[i] ELSE m[i]]

\* The callback main gives to EnsureConfigured: for thermalBad it sets the
\* valve offset, too.
Configure(r, m, mo) ==
  SetPrograms(IF r = "Bad" THEN [m EXCEPT ![11] = 100] ELSE m,
              BytesOf[r][mo])

----------------------------------------------------------------------------
(* Starts and crashes *)

\* Faulty variant: bytes are sent whether they differ or not.
AllProgrammed(m, t) == 20 .. 201

Differing(m, t) == {i \in Index : m[i] # t[i]}

\* m is the month time.Now says.
Start(m) ==
  /\ pc = "down" /\ starts < MaxStarts
  /\ pc' = "writing"
  /\ target' = Configure(room, mem, m)
  /\ todo' = Differing(mem, target')
  /\ asOf' = m
  /\ starts' = starts + 1
  /\ UNCHANGED <<room, mem, held>>

FirstOf(s) == {i \in s : Cardinality({j \in s : j < i}) < Block}

WriteBlock ==
  /\ pc = "writing" /\ todo # {}
  /\ \E block \in {FirstOf(todo)} :
       /\ mem' = [i \in Index |-> IF i \in block THEN target[i] ELSE mem[i]]
       /\ todo' = todo \ block
  /\ held' = IF held = "none" THEN "none" ELSE "mixed"
  /\ UNCHANGED <<room, pc, target, asOf, starts>>

Configured ==
  /\ pc = "writing" /\ todo = {}
  /\ pc' = "up"
  /\ held' = Season(asOf)
  /\ UNCHANGED <<room, mem, target, todo, asOf, starts>>

\* The program ends, whatever it was doing: log.Fatal, a reboot.
Die ==
  /\ pc # "down"
  /\ pc' = "down"
  /\ todo' = {}
  /\ UNCHANGED <<room, mem, target, asOf, starts, held>>

Init ==
  /\ room \in Rooms
  /\ mem \in Factory
  /\ pc = "down" /\ target = mem /\ todo = {} /\ asOf \in Months
  /\ starts = 0 /\ held = "none"

Next == (\E m \in Months : Start(m)) \/ WriteBlock \/ Configured \/ Die

Spec == Init /\ [][Next]_vars

----------------------------------------------------------------------------
(* Properties *)

\* No byte is written as zero, which DeviceConfig relies on: EnsureConfigured
\* could not tell it from one that LoadConfig has not read.
TypeOK ==
  /\ room \in Rooms /\ asOf \in Months
  /\ mem \in [Index -> Byte] /\ target \in [Index -> Byte]
  /\ pc \in {"down", "writing", "up"}
  /\ todo \subseteq Index /\ \A i \in todo : target[i] \in Byte \ {0}
  /\ starts \in 0 .. MaxStarts
  /\ held \in {"summer", "winter", "mixed", "none"}

\* What the thermostat does with its memory, where the days follow each
\* other from Saturday on: of the entries of the day the first that ends
\* later counts.  0: there is none.
TemperatureAt(m, d, minute) ==
  LET byte(k, n) == m[20 + 26 * ((d + 1) % 7) + 2 * (k - 1) + n]
      end(k) == 5 * (256 * (byte(k, 0) % 2) + byte(k, 1))
      later == {k \in 1 .. 13 : minute < end(k)}
      first == CHOOSE k \in later : \A j \in later : k <= j
  IN  IF later = {} THEN 0 ELSE (byte(first, 0) \div 2) % 64

\* What main's programs say, in the words of their comments (06:00-, 10:00-)
\* and of overrideWinter.
Wanted(r, season, d, minute) ==
  LET day    == minute >= Hours(6) /\ minute < Hours(23)
      absent == d \in 1 .. 5 /\ minute >= Hours(10) /\ minute < Hours(17)
  IN  IF r = "Lea" THEN IF minute < Hours(23) THEN 48 ELSE 34
      ELSE IF ~day THEN 34
      ELSE IF season = "winter" THEN 48
      ELSE IF absent THEN 34 ELSE 44

\* Once the program is up, the thermostat heats on every day of the week as
\* main wants it for the month of the start, whatever was in the memory
\* before and however often writing it was interrupted.
HeatsAsWanted ==
  pc = "up" =>
    \A d \in Day, t \in Minutes :
      TemperatureAt(mem, d, t) = Wanted(room, Season(asOf), d, t)

\* While one program is replaced by another, and after a crash in between,
\* the thermostat heats at each time as one of the two wants it: the change
\* of the season touches no end time.
MixHeatsAsEither ==
  held # "none" =>
    \A d \in Day, t \in Minutes :
      \E season \in {"summer", "winter"} :
        TemperatureAt(mem, d, t) = Wanted(room, season, d, t)

\* A start finds nothing to write if the last one was complete and made for
\* the same season: restarting does not wear the device's memory.
RestartWritesNothing ==
  (pc = "writing" /\ held = Season(asOf)) => todo = {}

=============================================================================
