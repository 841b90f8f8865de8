-------------------------- MODULE ThermalProgramProofs ------------------------
(***************************************************************************)
(* Proofs about ThermalProgram, for every subset of the rooms, months and  *)
(* minutes, whatever is in the memory before, and any size of a block.     *)
(***************************************************************************)
EXTENDS ThermalProgram, TLAPS

Seasons == {"summer", "winter"}

\* Programs depend on the month by its season only.
Plan(r, s) == ProgramsOf(r, IF s = "summer" THEN 5 ELSE 1)

\* The program of working days, or that of weekends.
Part(d) == IF d \in 1 .. 5 THEN 1 ELSE 2

\* The 13 entries of a day, and what they come to in minutes and half
\* degrees.  An unused entry ends at 0 here and at 1440 in the memory.
Table(r, s, d) == Plan(r, s)[Part(d)].endtimes

EndOf(d, k) ==
  IF k = 1 THEN 360
  ELSE IF Part(d) = 1
       THEN IF k = 2 THEN 600
            ELSE IF k = 3 THEN 1020 ELSE IF k = 4 THEN 1380 ELSE 0
       ELSE IF k = 2 THEN 1380 ELSE 0

TempOf(r, s, end) ==
  IF end = 0 THEN 0
  ELSE IF r = "Lea" THEN 48
       ELSE IF end = 360 THEN 34
            ELSE IF s = "winter" THEN 48
                 ELSE IF end = 1020 THEN 34 ELSE 44

Code(r, s, d, k) == EncodeEntry(Table(r, s, d)[k])

----------------------------------------------------------------------------
(* The entries of a day *)

LEMMA SeasonPlan ==
  ASSUME NEW r, NEW m \in 1 .. 12
  PROVE  Season(m) \in Seasons /\ ProgramsOf(r, m) = Plan(r, Season(m))
BY DEF Season, Seasons, ProgramsOf, Plan, OverrideWinter

LEMMA ProgramParts ==
  ASSUME NEW low, NEW high
  PROVE  LET p == Programs(low, high)
         IN  /\ DOMAIN p = {1, 2}
             /\ p[1].days = 1 .. 5 /\ p[2].days = {0, 6}
             /\ \A x \in {1, 2} : DOMAIN p[x].endtimes = 1 .. 13
             /\ \A x \in {1, 2} : DOMAIN p[x] = {"days", "endtimes"}
BY DEF Programs, Endtimes

LEMMA PlanParts ==
  ASSUME NEW r, NEW s
  PROVE  /\ DOMAIN Plan(r, s) = {1, 2}
         /\ Plan(r, s)[1].days = 1 .. 5 /\ Plan(r, s)[2].days = {0, 6}
<1> DEFINE p == Programs(34, 44)
           q(m) == OverrideWinter(p, m)
<1>1. \A m : /\ DOMAIN q(m) = DOMAIN p
             /\ \A x \in DOMAIN p : q(m)[x].days = p[x].days
  BY ProgramParts DEF OverrideWinter
<1>2. QED
  BY <1>1, ProgramParts DEF Plan, ProgramsOf

LEMMA ProgramEntries ==
  ASSUME NEW low, NEW high, NEW k \in 1 .. 13
  PROVE  /\ Programs(low, high)[1].endtimes[k] =
              IF k = 1 THEN Entry(360, low)
              ELSE IF k = 2 THEN Entry(600, high)
              ELSE IF k = 3 THEN Entry(1020, low)
              ELSE IF k = 4 THEN Entry(1380, high) ELSE Entry(0, 0)
         /\ Programs(low, high)[2].endtimes[k] =
              IF k = 1 THEN Entry(360, low)
              ELSE IF k = 2 THEN Entry(1380, high) ELSE Entry(0, 0)
BY DEF Programs, Endtimes, Hours

LEMMA TableEntry ==
  ASSUME NEW r, NEW s \in Seasons, NEW d \in Day, NEW k \in 1 .. 13
  PROVE  Table(r, s, d)[k] = Entry(EndOf(d, k), TempOf(r, s, EndOf(d, k)))
<1> DEFINE x == Part(d)
           p == Programs(34, 44)[x].endtimes
<1>1. x \in {1, 2}
  BY DEF Part
<1>2. CASE r = "Lea"
  <2>1. Table(r, s, d) = Programs(48, 48)[x].endtimes
    BY <1>2 DEF Table, Plan, ProgramsOf
  <2>2. QED
    BY <2>1, <1>1, <1>2, ProgramEntries DEF EndOf, TempOf
<1>3. CASE r # "Lea" /\ s = "summer"
  <2>1. Table(r, s, d) = p
    BY <1>3 DEF Table, Plan, ProgramsOf, OverrideWinter, Season
  <2>2. QED
    BY <2>1, <1>1, <1>3, ProgramEntries DEF EndOf, TempOf
<1>4. CASE r # "Lea" /\ s = "winter"
  <2>1. Table(r, s, d)[k] =
          IF p[k].end > 360 THEN Entry(p[k].end, 48) ELSE p[k]
    <3>1. Table(r, s, d) = OverrideWinter(Programs(34, 44), 1)[x].endtimes
      BY <1>4 DEF Table, Plan, ProgramsOf
    <3>2. @ = [i \in DOMAIN p |->
                 IF p[i].end > 360 THEN Entry(p[i].end, 48) ELSE p[i]]
      BY <1>1, ProgramParts DEF OverrideWinter, Season, Hours
    <3>3. QED
      BY <3>1, <3>2, <1>1, ProgramParts
  <2> DEFINE e == EndOf(d, k)
  <2>2. p[k] = Entry(e, IF e = 0 THEN 0
                        ELSE IF e \in {360, 1020} THEN 34 ELSE 44)
    BY <1>1, ProgramEntries DEF EndOf
  <2>3. e \in {0, 360, 600, 1020, 1380}
    BY DEF EndOf
  <2>4. p[k].end = e
    BY <2>2 DEF Entry
  <2>5. CASE e > 360
    BY <2>1, <2>3, <2>4, <2>5, <1>4 DEF TempOf
  <2>6. CASE ~(e > 360)
    BY <2>1, <2>2, <2>3, <2>4, <2>6, <1>4 DEF TempOf
  <2>7. QED
    BY <2>5, <2>6
<1>5. QED
  BY <1>2, <1>3, <1>4 DEF Seasons


\* What the thermostat makes of the two bytes of an entry.
CodeEnd(c)  == 5 * (256 * (c[1] % 2) + c[2])
CodeTemp(c) == (c[1] \div 2) % 64

LEMMA EndCodes ==
  ASSUME NEW end \in {0, 360, 600, 1020, 1380}, NEW temp \in {0, 34, 44, 48}
  PROVE  LET c == EncodeEntry(Entry(end, temp))
         IN  /\ c[1] \in 1 .. 255 /\ c[2] \in 1 .. 255
             /\ CodeEnd(c) = (IF end = 0 THEN 1440 ELSE end)
             /\ CodeTemp(c) = (IF temp = 0 THEN 34 ELSE temp)
<1> DEFINE steps == (IF end = 0 THEN 1440 ELSE end) \div 5
           t     == IF temp = 0 THEN 34 ELSE temp
           c     == EncodeEntry(Entry(end, temp))
<1>1. c[1] = ((steps \div 256) % 2) + 2 * (t % 64) /\ c[2] = steps % 256
  BY DEF EncodeEntry, Entry
<1>2. /\ steps \in {288, 72, 120, 204, 276}
      /\ (IF end = 0 THEN 1440 ELSE end) = 5 * steps
  OBVIOUS
<1>3. t \in {34, 44, 48}
  OBVIOUS
<1>4. t % 64 = t
  BY <1>3
<1> HIDE DEF t
<1>5. CASE steps < 256
  <2>1. ((steps \div 256) % 2) = 0 /\ steps % 256 = steps /\ steps > 0
    BY <1>2, <1>5
  <2>2. c[1] = 2 * t /\ c[2] = steps
    BY <2>1, <1>1, <1>3, <1>4
  <2>3. (2 * t) % 2 = 0 /\ ((2 * t) \div 2) % 64 = t
    BY <1>3
  <2>4. QED
    BY <2>1, <2>2, <2>3, <1>2, <1>3, <1>5 DEF CodeEnd, CodeTemp, t
<1>6. CASE ~(steps < 256)
  <2>1. ((steps \div 256) % 2) = 1 /\ steps % 256 = steps - 256 /\ steps > 256
    BY <1>2, <1>6
  <2>2. c[1] = 1 + 2 * t /\ c[2] = steps - 256
    BY <2>1, <1>1, <1>3, <1>4
  <2>3. (1 + 2 * t) % 2 = 1 /\ ((1 + 2 * t) \div 2) % 64 = t
    BY <1>3
  <2>4. QED
    BY <2>1, <2>2, <2>3, <1>2, <1>3, <1>6 DEF CodeEnd, CodeTemp, t
<1>7. QED
  BY <1>5, <1>6

\* The end times, in the memory, do not depend on room and season.
LEMMA CodeFields ==
  ASSUME NEW r, NEW s \in Seasons, NEW d \in Day, NEW k \in 1 .. 13
  PROVE  LET c == Code(r, s, d, k)
             e == EndOf(d, k)
         IN  /\ c[1] \in 1 .. 255 /\ c[2] \in 1 .. 255
             /\ CodeEnd(c) = (IF e = 0 THEN 1440 ELSE e)
             /\ CodeTemp(c) = (IF e = 0 THEN 34 ELSE TempOf(r, s, e))
<1> DEFINE e == EndOf(d, k)
           t == TempOf(r, s, e)
<1>1. e \in {0, 360, 600, 1020, 1380}
  BY DEF EndOf
<1>2. t \in {0, 34, 44, 48} /\ (t = 0 <=> e = 0)
  BY <1>1 DEF TempOf
<1>3. Code(r, s, d, k) = EncodeEntry(Entry(e, t))
  BY TableEntry DEF Code
<1> HIDE DEF e, t
<1>4. QED
  BY <1>1, <1>2, <1>3, EndCodes DEF e, t

----------------------------------------------------------------------------
(* Where the entries are in the memory *)

\* The bytes that SetPrograms writes, and where the entry of a day begins.
Programmed == 20 .. 201
At(d, k) == 20 + 26 * ((d + 1) % 7) + 2 * (k - 1)

LEMMA Offsets ==
  ASSUME NEW d \in Day
  PROVE  ProgramOffsets(d) = 20 + 26 * ((d + 1) % 7)
<1>1. d \in {0, 1, 2, 3, 4, 5, 6}
  BY DEF Day
<1>2. QED
  BY <1>1 DEF ProgramOffsets

\* The days lie next to each other: each byte belongs to one of them.
LEMMA DayOfByte ==
  ASSUME NEW i \in Programmed
  PROVE  \E d \in Day :
           /\ i \in ProgramOffsets(d) .. ProgramOffsets(d) + 25
           /\ \A x \in Day : i \in ProgramOffsets(x) .. ProgramOffsets(x) + 25
                => x = d
<1> DEFINE q == (i - 20) \div 26
           d == IF q = 0 THEN 6 ELSE q - 1
<1>1. i \in Int /\ i - 20 \in 0 .. 181
  BY DEF Programmed
<1>2. q \in 0 .. 6 /\ i - 20 - 26 * q \in 0 .. 25
  BY <1>1
<1> HIDE DEF q
<1>3. d \in Day /\ (d + 1) % 7 = q
  BY <1>2 DEF Day
<1>4. i \in ProgramOffsets(d) .. ProgramOffsets(d) + 25
  BY <1>1, <1>2, <1>3, Offsets
<1>5. ASSUME NEW x \in Day, i \in ProgramOffsets(x) .. ProgramOffsets(x) + 25
      PROVE  x = d
  <2> DEFINE y == (x + 1) % 7
  <2>2. y \in 0 .. 6 /\ x = (IF y = 0 THEN 6 ELSE y - 1)
    BY DEF Day
  <2>3. i - 20 - 26 * y \in 0 .. 25
    BY <1>1, <1>5, <2>2, Offsets
  <2> HIDE DEF y
  <2>4. y = q
    <3>1. y \in Int /\ q \in Int
      BY <1>2, <2>2
    <3>2. 26 * (y - q) <= 25 /\ 26 * (q - y) <= 25
      BY <1>1, <1>2, <2>3, <3>1
    <3>3. QED
      BY <3>1, <3>2
  <2>5. QED
    BY <2>2, <2>4
<1>6. QED
  BY <1>3, <1>4, <1>5

LEMMA ByteOfDay ==
  ASSUME NEW d \in Day, NEW j \in 0 .. 25
  PROVE  ProgramOffsets(d) + j \in Programmed
<1>1. (d + 1) % 7 \in 0 .. 6
  BY DEF Day
<1>2. QED
  BY <1>1, Offsets DEF Programmed

\* SetPrograms writes each day as the part of the program says it is for.
LEMMA ProgramLayout ==
  ASSUME NEW r, NEW s
  PROVE  /\ DOMAIN ProgramBytes(Plan(r, s)) = Programmed
         /\ \A d \in Day, j \in 0 .. 25 :
              ProgramBytes(Plan(r, s))[ProgramOffsets(d) + j] =
                EncodeProgramDay(Table(r, s, d))[j]
<1> DEFINE p == Plan(r, s)
           range(d) == ProgramOffsets(d) .. ProgramOffsets(d) + 25
           last(d)  == CHOOSE k \in DOMAIN p :
                         /\ d \in p[k].days
                         /\ \A j \in DOMAIN p : d \in p[j].days => j <= k
           days     == UNION {p[k].days : k \in DOMAIN p}
           of(i)    == CHOOSE x \in days : i \in range(x)
           bytes    == [i \in UNION {range(d) : d \in days} |->
                          EncodeProgramDay(p[last(of(i))].endtimes)[
                            i - ProgramOffsets(of(i))]]
<1>1. ProgramBytes(p) = bytes
  BY Zenon DEF ProgramBytes
<1>2. days = Day
  BY PlanParts DEF Day
<1>3. \A d \in Day : last(d) = Part(d)
  <2> SUFFICES ASSUME NEW d \in Day
               PROVE  last(d) = Part(d)
    OBVIOUS
  <2>1. /\ DOMAIN p = {1, 2}
        /\ (d \in p[1].days <=> Part(d) = 1)
        /\ (d \in p[2].days <=> Part(d) = 2)
    BY PlanParts DEF Part, Day
  <2>2. Part(d) \in {1, 2}
    BY DEF Part
  <2> HIDE DEF p
  <2>3. QED
    BY <2>1, <2>2
<1> HIDE DEF p, last, days
<1>4. DOMAIN bytes = Programmed
  <2>1. DOMAIN bytes = UNION {range(d) : d \in Day}
    BY <1>2
  <2>2. \A d \in Day : ProgramOffsets(d) \in Nat
    <3>1. \A d \in Day : (d + 1) % 7 \in 0 .. 6
      BY DEF Day
    <3>2. QED
      BY <3>1, Offsets
  <2>3. \A d \in Day : range(d) \subseteq Programmed
    <3> SUFFICES ASSUME NEW d \in Day, NEW i \in range(d)
                 PROVE  i \in Programmed
      OBVIOUS
    <3>1. /\ i - ProgramOffsets(d) \in 0 .. 25
          /\ i = ProgramOffsets(d) + (i - ProgramOffsets(d))
      BY <2>2
    <3>2. QED
      BY <3>1, ByteOfDay
  <2>4. \A i \in Programmed : \E d \in Day : i \in range(d)
    BY DayOfByte
  <2>5. QED
    BY <2>1, <2>3, <2>4
<1>5. ASSUME NEW d \in Day, NEW j \in 0 .. 25
      PROVE  bytes[ProgramOffsets(d) + j] = EncodeProgramDay(Table(r, s, d))[j]
  <2> DEFINE i == ProgramOffsets(d) + j
  <2>1. ProgramOffsets(d) \in Nat
    <3>1. (d + 1) % 7 \in 0 .. 6
      BY DEF Day
    <3>2. QED
      BY <3>1, Offsets
  <2>2. i \in Programmed /\ i \in range(d) /\ i - ProgramOffsets(d) = j
    BY <2>1, ByteOfDay
  <2>3. of(i) = d
    <3>1. PICK x \in Day : \A y \in Day : i \in range(y) => y = x
      BY <2>2, DayOfByte
    <3>2. QED
      BY <3>1, <2>2, <1>2
  <2>4. bytes[i] = EncodeProgramDay(p[last(of(i))].endtimes)[
                     i - ProgramOffsets(of(i))]
    BY <2>2, <1>4
  <2>5. QED
    BY <2>2, <2>3, <2>4, <1>3 DEF Table, p
<1>6. QED
  BY <1>1, <1>4, <1>5 DEF p

\* The byte that a season's program has at i, and the two of an entry.
Planned(r, s, i) == ProgramBytes(Plan(r, s))[i]

LEMMA EntryAt ==
  ASSUME NEW r, NEW s, NEW d \in Day, NEW k \in 1 .. 13
  PROVE  /\ At(d, k) \in Programmed /\ At(d, k) + 1 \in Programmed
         /\ Planned(r, s, At(d, k)) = Code(r, s, d, k)[1]
         /\ Planned(r, s, At(d, k) + 1) = Code(r, s, d, k)[2]
<1> DEFINE j == 2 * (k - 1)
           e == Table(r, s, d)
           o == ProgramOffsets(d)
<1>1. /\ j \in 0 .. 25 /\ j + 1 \in 0 .. 25
      /\ (j \div 2) + 1 = k /\ (j % 2) + 1 = 1
      /\ ((j + 1) \div 2) + 1 = k /\ ((j + 1) % 2) + 1 = 2
  OBVIOUS
<1>2. At(d, k) = o + j /\ At(d, k) + 1 = o + (j + 1)
  <2>1. (d + 1) % 7 \in 0 .. 6
    BY DEF Day
  <2>2. QED
    BY <2>1, <1>1, Offsets DEF At
<1>3. o + j \in Programmed /\ o + (j + 1) \in Programmed
  BY <1>1, ByteOfDay
<1>4. \A x \in 0 .. 25 :
        EncodeProgramDay(e)[x] = EncodeEntry(e[(x \div 2) + 1])[(x % 2) + 1]
  BY DEF EncodeProgramDay
<1>5. /\ EncodeProgramDay(e)[j] = Code(r, s, d, k)[1]
      /\ EncodeProgramDay(e)[j + 1] = Code(r, s, d, k)[2]
  BY <1>1, <1>4 DEF Code
<1>6. /\ Planned(r, s, o + j) = EncodeProgramDay(e)[j]
      /\ Planned(r, s, o + (j + 1)) = EncodeProgramDay(e)[j + 1]
  BY <1>1, ProgramLayout DEF Planned
<1>7. QED
  BY <1>2, <1>3, <1>5, <1>6

\* Every byte of a program is the byte of an entry.
LEMMA EntryOfByte ==
  ASSUME NEW i \in Programmed
  PROVE  \E d \in Day, k \in 1 .. 13 : i \in {At(d, k), At(d, k) + 1}
<1>1. PICK d \in Day : i \in ProgramOffsets(d) .. ProgramOffsets(d) + 25
  BY DayOfByte
<1> DEFINE o == 20 + 26 * ((d + 1) % 7)
           k == (i - o) \div 2 + 1
<1>2. i - o \in 0 .. 25 /\ o \in Nat /\ i \in Nat
  <2>1. (d + 1) % 7 \in 0 .. 6
    BY DEF Day
  <2>2. QED
    BY <2>1, <1>1, Offsets DEF Programmed
<1>3. At(d, k) = o + 2 * (k - 1)
  BY DEF At
<1> HIDE DEF o
<1>4. k \in 1 .. 13 /\ i - o \in {2 * (k - 1), 2 * (k - 1) + 1}
  BY <1>2
<1> HIDE DEF k
<1>5. i \in {At(d, k), At(d, k) + 1}
  BY <1>2, <1>3, <1>4
<1>6. QED
  BY <1>4, <1>5

LEMMA ProgramByte ==
  ASSUME NEW r, NEW s \in Seasons, NEW i \in Programmed
  PROVE  Planned(r, s, i) \in 1 .. 255
BY EntryOfByte, EntryAt, CodeFields

----------------------------------------------------------------------------
(* What the thermostat makes of them *)

MinuteOfDay == 0 .. 1439

\* The entry that counts at a minute of a day.
Segment(d, t) ==
  IF t < 360 THEN 1
  ELSE IF Part(d) = 1
       THEN IF t < 600 THEN 2 ELSE IF t < 1020 THEN 3
            ELSE IF t < 1380 THEN 4 ELSE 5
       ELSE IF t < 1380 THEN 2 ELSE 3

Ends(d, k)     == IF EndOf(d, k) = 0 THEN 1440 ELSE EndOf(d, k)
Heat(r, s, d, k) == IF EndOf(d, k) = 0 THEN 34 ELSE TempOf(r, s, EndOf(d, k))

LEMMA SegmentIsFirst ==
  ASSUME NEW d \in Day, NEW t \in MinuteOfDay
  PROVE  /\ Segment(d, t) \in 1 .. 13 /\ t < Ends(d, Segment(d, t))
         /\ \A k \in 1 .. 13 : t < Ends(d, k) => Segment(d, t) <= k
<1> DEFINE n == Segment(d, t)
<1>1. n \in 1 .. 5
  BY DEF Segment
<1>2. t < 1440 /\ t \in Nat
  BY DEF MinuteOfDay
<1>3. t < Ends(d, n)
  BY <1>2 DEF Ends, EndOf, Segment
<1>4. ASSUME NEW k \in 1 .. 13, k < n
      PROVE  ~(t < Ends(d, k))
  <2>1. k \in 1 .. 4 /\ EndOf(d, k) # 0 /\ ~(t < EndOf(d, k))
    BY <1>1, <1>2, <1>4 DEF EndOf, Segment
  <2>2. QED
    BY <2>1 DEF Ends
<1>5. QED
  BY <1>1, <1>3, <1>4

LEMMA SegmentIsWanted ==
  ASSUME NEW r, NEW s \in Seasons, NEW d \in Day, NEW t \in MinuteOfDay
  PROVE  Wanted(r, s, d, t) = Heat(r, s, d, Segment(d, t))
<1> DEFINE n == Segment(d, t)
           e == EndOf(d, n)
<1>1. t \in Nat
  BY DEF MinuteOfDay
<1>2. Part(d) = 1 <=> d \in 1 .. 5
  BY DEF Part
<1>3. /\ t < 360 => e = 360
      /\ ~(t < 360) /\ t < 1380 /\ Part(d) # 1 => e = 1380
      /\ ~(t < 360) /\ t < 600 /\ Part(d) = 1 => e = 600
      /\ ~(t < 600) /\ t < 1020 /\ Part(d) = 1 => e = 1020
      /\ ~(t < 1020) /\ t < 1380 /\ Part(d) = 1 => e = 1380
      /\ ~(t < 1380) => e = 0
  BY <1>1 DEF Segment, EndOf
<1> DEFINE w == Wanted(r, s, d, t)
<1>4. /\ Hours(6) = 360 /\ Hours(10) = 600
      /\ Hours(17) = 1020 /\ Hours(23) = 1380
  BY DEF Hours
<1>5. w = IF r = "Lea" THEN IF t < 1380 THEN 48 ELSE 34
          ELSE IF ~(t >= 360 /\ t < 1380) THEN 34
               ELSE IF s = "winter" THEN 48
                    ELSE IF Part(d) = 1 /\ t >= 600 /\ t < 1020
                         THEN 34 ELSE 44
  BY <1>2, <1>4 DEF Wanted
<1>6. Heat(r, s, d, n) = IF e = 0 THEN 34 ELSE TempOf(r, s, e)
  BY DEF Heat
<1> HIDE DEF e, n, w
<1>7. w = IF e = 0 THEN 34 ELSE TempOf(r, s, e)
  <2>1. CASE t < 360
    BY <2>1, <1>1, <1>3, <1>5 DEF TempOf
  <2>2. CASE ~(t < 360) /\ t < 1380 /\ Part(d) # 1
    BY <2>2, <1>1, <1>3, <1>5 DEF TempOf
  <2>3. CASE ~(t < 360) /\ t < 600 /\ Part(d) = 1
    BY <2>3, <1>1, <1>3, <1>5 DEF TempOf
  <2>4. CASE ~(t < 600) /\ t < 1020 /\ Part(d) = 1
    BY <2>4, <1>1, <1>3, <1>5 DEF TempOf
  <2>5. CASE ~(t < 1020) /\ t < 1380 /\ Part(d) = 1
    BY <2>5, <1>1, <1>3, <1>5 DEF TempOf
  <2>6. CASE ~(t < 1380)
    BY <2>6, <1>1, <1>3, <1>5
  <2>7. QED
    BY <2>1, <2>2, <2>3, <2>4, <2>5, <2>6, <1>1
<1>8. QED
  BY <1>6, <1>7 DEF w, n

\* A memory in which every entry of a day is, byte by byte, that of one of
\* the seasons in S heats at every minute as one of them is wanted.
LEMMA DayTemperature ==
  ASSUME NEW r, NEW S \in SUBSET Seasons, NEW d \in Day, NEW t \in MinuteOfDay,
         NEW m,
         \A i \in Programmed : \E s \in S : m[i] = Planned(r, s, i)
  PROVE  \E s \in S : TemperatureAt(m, d, t) = Wanted(r, s, d, t)
<1> DEFINE c(k) == <<m[At(d, k)], m[At(d, k) + 1]>>
<1>1. ASSUME NEW k \in 1 .. 13
      PROVE  /\ CodeEnd(c(k)) = Ends(d, k)
             /\ \E s \in S : CodeTemp(c(k)) = Heat(r, s, d, k)
  <2>1. PICK s \in S : m[At(d, k)] = Code(r, s, d, k)[1]
    BY EntryAt
  <2>2. PICK z \in S : m[At(d, k) + 1] = Code(r, z, d, k)[2]
    BY EntryAt
  <2> DEFINE x == Code(r, s, d, k)
             y == Code(r, z, d, k)
  <2>3. /\ x[1] \in 1 .. 255 /\ x[2] \in 1 .. 255 /\ CodeEnd(x) = Ends(d, k)
        /\ CodeTemp(x) = Heat(r, s, d, k)
    BY CodeFields DEF Ends, Heat
  <2>4. y[1] \in 1 .. 255 /\ y[2] \in 1 .. 255 /\ CodeEnd(y) = Ends(d, k)
    BY CodeFields DEF Ends
  <2> HIDE DEF x, y
  <2>5. x[2] = y[2]
    <3>1. x[1] % 2 \in 0 .. 1 /\ y[1] % 2 \in 0 .. 1
      BY <2>3, <2>4
    <3>2. 5 * (256 * (x[1] % 2) + x[2]) = 5 * (256 * (y[1] % 2) + y[2])
      BY <2>3, <2>4 DEF CodeEnd
    <3> DEFINE p == x[1] % 2
               q == y[1] % 2
               a == x[2]
               b == y[2]
    <3>3. /\ p \in 0 .. 1 /\ q \in 0 .. 1 /\ a \in 1 .. 255 /\ b \in 1 .. 255
          /\ 5 * (256 * p + a) = 5 * (256 * q + b)
      BY <3>1, <3>2, <2>3, <2>4
    <3> HIDE DEF p, q, a, b
    <3>4. 256 * p + a = 256 * q + b
      BY <3>3
    <3>5. p = q
      BY <3>3, <3>4
    <3>6. a = b
      BY <3>3, <3>4, <3>5
    <3>7. QED
      BY <3>6 DEF a, b
  <2>6. c(k)[1] = x[1] /\ c(k)[2] = x[2]
    BY <2>1, <2>2, <2>5 DEF x, y
  <2>7. QED
    BY <2>3, <2>6 DEF CodeEnd, CodeTemp
<1> DEFINE n == Segment(d, t)
           byte(k, x) == m[20 + 26 * ((d + 1) % 7) + 2 * (k - 1) + x]
           late == {k \in 1 .. 13 :
                      t < 5 * (256 * (byte(k, 0) % 2) + byte(k, 1))}
           one  == CHOOSE k \in late : \A j \in late : k <= j
<1>2. \A k \in 1 .. 13 : byte(k, 0) = c(k)[1] /\ byte(k, 1) = c(k)[2]
  <2>1. ASSUME NEW k \in 1 .. 13
        PROVE  /\ 20 + 26 * ((d + 1) % 7) + 2 * (k - 1) + 0 = At(d, k)
               /\ 20 + 26 * ((d + 1) % 7) + 2 * (k - 1) + 1 = At(d, k) + 1
    <3>1. (d + 1) % 7 \in Nat
      BY DEF Day
    <3>2. QED
      BY <3>1 DEF At
  <2>2. QED
    BY <2>1
<1>3. TemperatureAt(m, d, t) =
        IF late = {} THEN 0 ELSE (byte(one, 0) \div 2) % 64
  BY Zenon DEF TemperatureAt
<1> HIDE DEF byte, c
<1>4. n \in late /\ \A k \in late : n <= k
  <2>1. \A k \in 1 .. 13 : k \in late <=> t < Ends(d, k)
    BY <1>1, <1>2 DEF CodeEnd
  <2>2. /\ n \in 1 .. 13 /\ t < Ends(d, n)
        /\ \A k \in 1 .. 13 : t < Ends(d, k) => n <= k
    BY SegmentIsFirst
  <2>3. late \subseteq 1 .. 13
    OBVIOUS
  <2> HIDE DEF late, n
  <2>4. QED
    BY <2>1, <2>2, <2>3
<1>5. late \subseteq 1 .. 13
  OBVIOUS
<1> HIDE DEF late, n
<1>6. one = n
  <2>1. one \in late /\ \A j \in late : one <= j
    BY <1>4
  <2> HIDE DEF one
  <2>2. one \in 1 .. 13 /\ n \in 1 .. 13
    BY <2>1, <1>4, <1>5
  <2>3. n <= one /\ one <= n
    BY <2>1, <1>4
  <2>4. QED
    BY <2>2, <2>3
<1>7. n \in 1 .. 13 /\ TemperatureAt(m, d, t) = (byte(n, 0) \div 2) % 64
  BY <1>3, <1>4, <1>5, <1>6
<1>8. PICK s \in S : (byte(n, 0) \div 2) % 64 = Heat(r, s, d, n)
  BY <1>1, <1>2, <1>7 DEF CodeTemp
<1>9. Wanted(r, s, d, t) = Heat(r, s, d, n)
  <2>1. s \in Seasons
    OBVIOUS
  <2>2. QED
    BY <2>1, SegmentIsWanted DEF n
<1>10. QED
  BY <1>7, <1>8, <1>9


----------------------------------------------------------------------------
(* Starts and crashes *)

LEMMA ValveOffset == 11 \in Index /\ 100 \in Byte
BY DEF Index, Byte

LEMMA ConfigureByte ==
  ASSUME NEW r \in Rooms, NEW mo \in Months, NEW m \in [Index -> Byte]
  PROVE  /\ Configure(r, m, mo) \in [Index -> Byte]
         /\ \A i \in Index : Configure(r, m, mo)[i] =
              IF i \in Programmed THEN Planned(r, Season(mo), i)
              ELSE IF r = "Bad" /\ i = 11 THEN 100 ELSE m[i]
<1> DEFINE b == ProgramBytes(Plan(r, Season(mo)))
           o == IF r = "Bad" THEN [m EXCEPT ![11] = 100] ELSE m
<1>1. mo \in 1 .. 12
  BY TimeAssumption
<1>2. BytesOf[r][mo] = b /\ Season(mo) \in Seasons
  BY <1>1, SeasonPlan DEF BytesOf
<1>3. DOMAIN b = Programmed /\ \A i \in Programmed : b[i] \in 1 .. 255
  BY <1>2, ProgramLayout, ProgramByte DEF Planned
<1>4. /\ o \in [Index -> Byte]
      /\ \A i \in Index : o[i] = IF r = "Bad" /\ i = 11 THEN 100 ELSE m[i]
  <2>2. CASE r = "Bad"
    <3>1. o = [m EXCEPT ![11] = 100]
      BY <2>2
    <3>2. QED
      BY <2>2, <3>1, ValveOffset
  <2>1. CASE r # "Bad"
    BY <2>1
  <2>3. QED
    BY <2>1, <2>2
<1>5. Configure(r, m, mo) =
        [i \in Index |-> IF i \in Programmed THEN b[i] ELSE o[i]]
  BY <1>2, <1>3 DEF Configure, SetPrograms
<1> HIDE DEF b, o
<1>6. Configure(r, m, mo) \in [Index -> Byte]
  BY <1>3, <1>4, <1>5 DEF Byte
<1>7. QED
  BY <1>4, <1>5, <1>6 DEF Planned, b

TypeInv ==
  /\ room \in Rooms /\ asOf \in Months
  /\ mem \in [Index -> Byte] /\ target \in [Index -> Byte]
  /\ pc \in {"down", "writing", "up"}
  /\ starts \in 0 .. MaxStarts
  /\ held \in Seasons \union {"mixed", "none"}

\* However much is written, what is wanted stays what it would be if the
\* program started now, and what differs is still to be written.
Writing ==
  /\ pc = "writing" => /\ target = Configure(room, mem, asOf)
                       /\ todo = Differing(mem, target)
  /\ pc # "writing" => todo = {}

Complete(s) ==
  /\ \A i \in Programmed : mem[i] = Planned(room, s, i)
  /\ room = "Bad" => mem[11] = 100

\* Byte by byte, the memory holds one of the two programs.
Mixture == \A i \in Programmed : \E s \in Seasons : mem[i] = Planned(room, s, i)

Inv ==
  /\ TypeInv
  /\ Writing
  /\ pc = "up" => held = Season(asOf)
  /\ held \in Seasons => Complete(held)
  /\ held # "none" => Mixture

LEMMA InvInit == Init => Inv
BY FactoryAssumption, BoundAssumption
   DEF Init, Inv, TypeInv, Writing, Seasons

LEMMA MonthSeason == \A m \in Months : Season(m) \in Seasons
BY DEF Season, Seasons

LEMMA InvStart ==
  ASSUME Inv, NEW m \in Months, Start(m)
  PROVE  Inv'
<1>1. TypeInv'
  BY ConfigureByte, BoundAssumption DEF Inv, TypeInv, Start
<1>2. Writing'
  BY DEF Start, Writing
<1>3. (held \in Seasons => Complete(held))' /\ (held # "none" => Mixture)'
  BY DEF Inv, Start, Complete, Mixture
<1>4. QED
  BY <1>1, <1>2, <1>3 DEF Inv, Start

LEMMA InvWriteBlock ==
  ASSUME Inv, WriteBlock
  PROVE  Inv'
<1> DEFINE block == FirstOf(todo)
<1>1. /\ mem' = [i \in Index |-> IF i \in block THEN target[i] ELSE mem[i]]
      /\ todo' = todo \ block /\ block \subseteq todo
      /\ held' = (IF held = "none" THEN "none" ELSE "mixed")
      /\ UNCHANGED <<room, pc, target, asOf, starts>> /\ pc = "writing"
  BY DEF WriteBlock, FirstOf
<1> HIDE DEF block
<1>2. target = Configure(room, mem, asOf) /\ todo = Differing(mem, target)
  BY <1>1 DEF Inv, Writing
<1>3. TypeInv'
  BY <1>1 DEF Inv, TypeInv
<1>4. todo' = Differing(mem', target')
  BY <1>1, <1>2 DEF Differing
<1>5. target' = Configure(room, mem, asOf)'
  <2>1. \A i \in Index : i \notin Programmed /\ ~(room = "Bad" /\ i = 11)
                           => target[i] = mem[i]
    BY <1>2, ConfigureByte DEF Inv, TypeInv
  <2>2. \A i \in Index : Configure(room, mem', asOf)[i] = target[i]
    BY <2>1, <1>1, <1>2, <1>3, ConfigureByte DEF Inv, TypeInv
  <2>3. Configure(room, mem', asOf) \in [Index -> Byte] /\ target \in [Index -> Byte]
    BY <1>1, <1>3, ConfigureByte DEF Inv, TypeInv
  <2>4. Configure(room, mem', asOf) = target
    BY <2>2, <2>3
  <2>5. QED
    BY <2>4, <1>1
<1>6. (held # "none" => Mixture)'
  <2> SUFFICES ASSUME held # "none", NEW i \in Programmed
               PROVE  \E s \in Seasons : mem'[i] = Planned(room, s, i)
    BY <1>1 DEF Mixture
  <2>1. i \in Index /\ mem'[i] \in {mem[i], target[i]}
    BY <1>1 DEF Programmed, Index
  <2>2. target[i] = Planned(room, Season(asOf), i)
    BY <2>1, <1>2, ConfigureByte DEF Inv, TypeInv
  <2>3. QED
    BY <2>1, <2>2, MonthSeason DEF Inv, TypeInv, Mixture
<1>7. held' \notin Seasons
  BY <1>1 DEF Seasons
<1>8. Writing'
  BY <1>1, <1>4, <1>5 DEF Writing
<1>9. QED
  BY <1>1, <1>3, <1>6, <1>7, <1>8 DEF Inv

LEMMA InvConfigured ==
  ASSUME Inv, Configured
  PROVE  Inv'
<1>1. mem = target
  BY DEF Configured, Inv, TypeInv, Writing, Differing
<1>2. Complete(Season(asOf))
  <2>1. target = Configure(room, mem, asOf)
    BY DEF Configured, Inv, Writing
  <2>2. \A i \in Programmed : i \in Index
    BY DEF Programmed, Index
  <2>3. 11 \in Index /\ 11 \notin Programmed
    BY DEF Programmed, Index
  <2>4. QED
    BY <1>1, <2>1, <2>2, <2>3, ConfigureByte DEF Inv, TypeInv, Complete
<1>3. Mixture
  BY <1>2, MonthSeason DEF Complete, Mixture, Inv, TypeInv
<1>4. TypeInv'
  BY MonthSeason DEF Inv, TypeInv, Configured
<1>5. (held \in Seasons => Complete(held))' /\ (held # "none" => Mixture)'
  BY <1>2, <1>3 DEF Configured, Complete, Mixture
<1>6. QED
  BY <1>4, <1>5 DEF Inv, Configured, Writing

LEMMA InvDie ==
  ASSUME Inv, Die
  PROVE  Inv'
<1>1. (held \in Seasons => Complete(held))' /\ (held # "none" => Mixture)'
  BY DEF Inv, Die, Complete, Mixture
<1>2. QED
  BY <1>1 DEF Inv, TypeInv, Writing, Die

LEMMA InvStep == Inv /\ [Next]_vars => Inv'
<1> SUFFICES ASSUME Inv, [Next]_vars
             PROVE  Inv'
  OBVIOUS
<1>1. CASE UNCHANGED vars
  BY <1>1 DEF Inv, TypeInv, Writing, Complete, Mixture, vars
<1>2. CASE Next
  BY <1>2, InvStart, InvWriteBlock, InvConfigured, InvDie DEF Next
<1>3. QED
  BY <1>1, <1>2

LEMMA InvAlways == Spec => []Inv
BY InvInit, InvStep, PTL DEF Spec

\* No byte is ever written as zero, in whatever state the memory is found.
THEOREM TypeCorrect == Spec => []TypeOK
<1>1. ASSUME Inv
      PROVE  TypeOK
  <2>1. todo \subseteq Index
    BY <1>1 DEF Inv, Writing, TypeInv, Differing
  <2>2. ASSUME NEW i \in todo
        PROVE  target[i] \in Byte \ {0}
    <3>1. /\ target = Configure(room, mem, asOf) /\ i \in Index
          /\ mem[i] # target[i]
      BY <1>1 DEF Inv, Writing, Differing
    <3>2. target[i] = (IF i \in Programmed
                       THEN Planned(room, Season(asOf), i) ELSE 100)
      BY <1>1, <3>1, ConfigureByte DEF Inv, TypeInv
    <3>3. QED
      BY <1>1, <3>2, ProgramByte, MonthSeason DEF Inv, TypeInv, Byte
  <2>3. QED
    BY <1>1, <2>1, <2>2 DEF Inv, TypeInv, TypeOK, Seasons
<1>2. QED
  BY <1>1, InvAlways, PTL

\* Once a start is done, each day's 26 bytes make the thermostat heat as
\* main wants it at every minute of the week, whatever the memory was before
\* and however often earlier starts were cut short.
THEOREM HeatsAsWantedAlways == Spec => []HeatsAsWanted
<1>1. ASSUME Inv
      PROVE  HeatsAsWanted
  <2> SUFFICES ASSUME pc = "up", NEW d \in Day, NEW t \in Minutes
               PROVE  TemperatureAt(mem, d, t)
                        = Wanted(room, Season(asOf), d, t)
    BY DEF HeatsAsWanted
  <2> DEFINE z == Season(asOf)
  <2>1. z \in Seasons /\ Complete(z) /\ t \in MinuteOfDay
    BY <1>1, MonthSeason, TimeAssumption DEF Inv, TypeInv, MinuteOfDay
  <2> HIDE DEF z
  <2>2. {z} \in SUBSET Seasons
    BY <2>1
  <2>3. \A i \in Programmed : \E s \in {z} : mem[i] = Planned(room, s, i)
    BY <2>1 DEF Complete
  <2>4. \E s \in {z} : TemperatureAt(mem, d, t) = Wanted(room, s, d, t)
    BY <2>1, <2>2, <2>3, DayTemperature
  <2>5. QED
    BY <2>4 DEF z
<1>2. QED
  BY <1>1, InvAlways, PTL

\* A memory that is half of one season's program and half of the other's, as
\* a crash leaves it at any byte, heats at every minute as one of them.
THEOREM MixHeatsAsEitherAlways == Spec => []MixHeatsAsEither
<1>1. ASSUME Inv
      PROVE  MixHeatsAsEither
  <2> SUFFICES ASSUME held # "none", NEW d \in Day, NEW t \in Minutes
               PROVE  \E s \in Seasons :
                        TemperatureAt(mem, d, t) = Wanted(room, s, d, t)
    BY DEF MixHeatsAsEither, Seasons
  <2>1. t \in MinuteOfDay /\ Seasons \in SUBSET Seasons
    BY TimeAssumption DEF MinuteOfDay
  <2>2. \A i \in Programmed : \E s \in Seasons : mem[i] = Planned(room, s, i)
    BY <1>1 DEF Inv, Mixture
  <2>3. QED
    BY <2>1, <2>2, DayTemperature
<1>2. QED
  BY <1>1, InvAlways, PTL

\* A restart in the season of the last complete start finds every byte as
\* it wants it, in whatever month and from whatever memory.
THEOREM RestartWritesNothingAlways == Spec => []RestartWritesNothing
<1>1. ASSUME Inv
      PROVE  RestartWritesNothing
  <2> SUFFICES ASSUME pc = "writing", held = Season(asOf)
               PROVE  todo = {}
    BY DEF RestartWritesNothing
  <2>1. Complete(Season(asOf))
    BY <1>1, MonthSeason DEF Inv, TypeInv
  <2>2. target = Configure(room, mem, asOf) /\ todo = Differing(mem, target)
    BY <1>1 DEF Inv, Writing
  <2>3. \A i \in Index : target[i] = mem[i]
    BY <1>1, <2>1, <2>2, ConfigureByte DEF Inv, TypeInv, Complete
  <2>4. QED
    BY <2>2, <2>3 DEF Differing
<1>2. QED
  BY <1>1, InvAlways, PTL
----------------------------------------------------------------------------
(* What DeviceConfig assumes of the callback *)

\* The bytes that the callback of a room sets in a month: the program, and
\* for the bathroom the valve offset.
Settings(r, mo) ==
  [i \in Programmed \cup (IF r = "Bad" THEN {11} ELSE {}) |->
     IF i \in Programmed THEN Planned(r, Season(mo), i) ELSE 100]

\* The callbacks that main gives to EnsureConfigured write fixed bytes at
\* fixed offsets, whatever memory they are given, and none of them is 0:
\* DeviceConfig's ProgramAssumption, with Settings as the program (its
\* indices begin with 1).
THEOREM CallbacksAreFixed ==
  ASSUME NEW r \in Rooms, NEW mo \in Months
  PROVE  LET p == Settings(r, mo)
         IN  /\ DOMAIN p \subseteq Index
             /\ \A i \in DOMAIN p : p[i] \in Byte \ {0}
             /\ \A m \in [Index -> Byte] :
                  Configure(r, m, mo) =
                    [i \in Index |-> IF i \in DOMAIN p THEN p[i] ELSE m[i]]
<1> DEFINE extra == IF r = "Bad" THEN {11} ELSE {}
           p     == Settings(r, mo)
<1>1. /\ DOMAIN p = Programmed \cup extra
      /\ \A i \in DOMAIN p :
           p[i] = IF i \in Programmed THEN Planned(r, Season(mo), i) ELSE 100
  BY DEF Settings
<1>2. Programmed \subseteq Index /\ 11 \in Index /\ 11 \notin Programmed
  BY DEF Programmed, Index
<1>3. DOMAIN p \subseteq Index
  BY <1>1, <1>2
<1>4. ASSUME NEW i \in DOMAIN p
      PROVE  p[i] \in Byte \ {0}
  <2>1. CASE i \in Programmed
    BY <1>1, <2>1, ProgramByte, MonthSeason DEF Byte
  <2>2. CASE i \notin Programmed
    BY <1>1, <2>2 DEF Byte
  <2>3. QED
    BY <2>1, <2>2
<1>5. ASSUME NEW m \in [Index -> Byte]
      PROVE  Configure(r, m, mo) =
               [i \in Index |-> IF i \in DOMAIN p THEN p[i] ELSE m[i]]
  <2> DEFINE c == Configure(r, m, mo)
             w == [i \in Index |-> IF i \in DOMAIN p THEN p[i] ELSE m[i]]
  <2>1. DOMAIN c = Index
    BY ConfigureByte
  <2>2. ASSUME NEW i \in Index
        PROVE  c[i] = IF i \in DOMAIN p THEN p[i] ELSE m[i]
    <3>1. c[i] = IF i \in Programmed THEN Planned(r, Season(mo), i)
                 ELSE IF r = "Bad" /\ i = 11 THEN 100 ELSE m[i]
      BY ConfigureByte
    <3> HIDE DEF c, p
    <3>2. QED
      BY <3>1, <1>1, <1>2
  <2> HIDE DEF c, p
  <2>3. c = [i \in Index |-> c[i]]
    <3>1. c \in [Index -> Byte]
      BY ConfigureByte DEF c
    <3>2. QED
      BY <3>1
  <2>4. c = w
    BY <2>2, <2>3
  <2>5. QED
    BY <2>4 DEF c, p
<1>6. QED
  BY <1>3, <1>4, <1>5
=============================================================================
