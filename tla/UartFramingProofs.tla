------------------------- MODULE UartFramingProofs -------------------------
(***************************************************************************)
(* Proofs about UartFraming, for all packets, counters, checksums, noise   *)
(* and numbers of faults.                                                  *)
(*                                                                         *)
(* What is on the line is a sequence of frames, each escaped byte by byte: *)
(* FlattenSeq, a recursive function.  SetInduction, the set form of the    *)
(* induction over the numbers, carries what has to be known of it          *)
(* (Flatten..., Escape..., Stream...): how the line grows at the end by a  *)
(* frame and shrinks at the front by a byte.                               *)
(*                                                                         *)
(* IInv is the inductive invariant about the reader alone, whatever is on  *)
(* the line: the bytes in fullpkt and those it still needs fit the phase.  *)
(* InStep, of UartFraming, is the one about reader and line together; only *)
(* a fault breaks it, and in it whatever passes the checksum is a frame    *)
(* that was written (ParseGenuine).  Once there are faults that is not     *)
(* true of every checksum, so that the refinement of FrameChannel has it   *)
(* as a hypothesis (Trusted) from the first fault on.                      *)
(***************************************************************************)
EXTENDS UartFraming, SequenceTheorems, WellFoundedInduction, TLAPS

----------------------------------------------------------------------------
(* Induction *)

\* A set of numbers that has 0, and with each number the next, has them all.
LEMMA SetInduction ==
  ASSUME NEW S, 0 \in S, \A n \in Nat : n \in S => n + 1 \in S
  PROVE  Nat \subseteq S
<1> SUFFICES ASSUME Nat \ S # {} PROVE FALSE
  OBVIOUS
<1> DEFINE Less == {p \in Nat \X Nat : p[1] < p[2]}
<1>1. IsWellFoundedOn(Less, Nat)
  BY NatLessThanWellFounded DEF OpToRel
<1>2. PICK m \in Nat \ S : \A n \in Nat \ S : <<n, m>> \notin Less
  <2> HIDE DEF Less
  <2> QED BY <1>1, WFMin, Nat \ S \subseteq Nat
<1>3. m # 0 /\ m - 1 \in Nat
  BY <1>2
<1>4. <<m - 1, m>> \in Less
  BY <1>3, <1>2
<1>5. (m - 1) + 1 \in S
  BY <1>2, <1>3, <1>4
<1>6. QED
  BY <1>5, <1>2

----------------------------------------------------------------------------
(* Two sequences in a row *)

\* A name for it that the provers do not look into.
Join(s, t) == s \o t

LEMMA JoinType ==
  ASSUME NEW X, NEW s \in Seq(X), NEW t \in Seq(X)
  PROVE  Join(s, t) \in Seq(X)
BY DEF Join

LEMMA JoinLen ==
  ASSUME NEW X, NEW s \in Seq(X), NEW t \in Seq(X)
  PROVE  Len(Join(s, t)) = Len(s) + Len(t)
BY DEF Join

LEMMA JoinLeft ==
  ASSUME NEW X, NEW s \in Seq(X), NEW t \in Seq(X), NEW i \in 1 .. Len(s)
  PROVE  Join(s, t)[i] = s[i]
BY DEF Join

LEMMA JoinRight ==
  ASSUME NEW X, NEW s \in Seq(X), NEW t \in Seq(X), NEW i \in 1 .. Len(t)
  PROVE  Join(s, t)[Len(s) + i] = t[i]
BY ConcatProperties DEF Join

LEMMA JoinAssoc ==
  ASSUME NEW X, NEW r \in Seq(X), NEW s \in Seq(X), NEW t \in Seq(X)
  PROVE  Join(Join(r, s), t) = Join(r, Join(s, t))
BY DEF Join

LEMMA JoinRest ==
  ASSUME NEW X, NEW x \in X, NEW t \in Seq(X)
  PROVE  SubSeq(Join(<<x>>, t), 2, Len(Join(<<x>>, t))) = t
<1> DEFINE s == <<x>> \o t
<1>1. s \in Seq(X) /\ Len(s) = Len(t) + 1 /\ Len(t) \in Nat
  OBVIOUS
<1>2. \A i \in 1 .. Len(t) : s[i + 1] = t[i]
  OBVIOUS
<1> HIDE DEF s
<1>3. SubSeq(s, 2, Len(s)) \in Seq(X) /\ Len(SubSeq(s, 2, Len(s))) = Len(t)
  BY <1>1
<1>4. \A i \in 1 .. Len(t) : SubSeq(s, 2, Len(s))[i] = t[i]
  BY <1>1, <1>2
<1>5. SubSeq(s, 2, Len(s)) = t
  BY <1>3, <1>4, SeqEqual
<1> QED BY <1>5 DEF s, Join

----------------------------------------------------------------------------
(* FlattenSeq *)

\* The recursive function inside FlattenSeq.
Flatten(ss) ==
  CHOOSE f : f = [i \in 1 .. Len(ss) |->
                    IF i = 1 THEN ss[i] ELSE f[i - 1] \o ss[i]]

LEMMA FlattenExists ==
  ASSUME NEW X, NEW ss \in Seq(Seq(X))
  PROVE  /\ Flatten(ss) \in [1 .. Len(ss) -> Seq(X)]
         /\ \A i \in 1 .. Len(ss) :
              Flatten(ss)[i] = IF i = 1 THEN ss[i] ELSE Flatten(ss)[i - 1] \o ss[i]
<1> DEFINE Rec(f, n) == \A i \in 1 .. n : f[i] = IF i = 1 THEN ss[i] ELSE f[i - 1] \o ss[i]
           Has(n) == \E f \in [1 .. n -> Seq(X)] : Rec(f, n)
           Good == {n \in Nat : n <= Len(ss) => Has(n)}
<1>1. 0 \in Good
  <2>1. Rec([i \in 1 .. 0 |-> <<>>], 0)
    OBVIOUS
  <2>2. [i \in 1 .. 0 |-> <<>>] \in [1 .. 0 -> Seq(X)]
    OBVIOUS
  <2> QED BY <2>1, <2>2
<1>2. ASSUME NEW n \in Nat, n \in Good PROVE n + 1 \in Good
  <2> SUFFICES ASSUME n + 1 <= Len(ss) PROVE Has(n + 1)
    <3> HIDE DEF Has
    <3> QED OBVIOUS
  <2>0. Has(n)
    <3> HIDE DEF Has
    <3> QED BY <1>2
  <2>1. PICK f \in [1 .. n -> Seq(X)] : Rec(f, n)
    BY <2>0
  <2> DEFINE last == IF n = 0 THEN ss[1] ELSE f[n] \o ss[n + 1]
             g == [i \in 1 .. n + 1 |-> IF i = n + 1 THEN last ELSE f[i]]
  <2>2. ss[n + 1] \in Seq(X)
    OBVIOUS
  <2>3. last \in Seq(X)
    BY <2>2
  <2>4. g \in [1 .. n + 1 -> Seq(X)]
    BY <2>3
  <2>5. Rec(g, n + 1)
    <3> SUFFICES ASSUME NEW i \in 1 .. n + 1
                 PROVE  g[i] = IF i = 1 THEN ss[i] ELSE g[i - 1] \o ss[i]
      OBVIOUS
    <3>1. CASE i = n + 1
      BY <3>1
    <3>2. CASE i # n + 1
      <4>1. i \in 1 .. n /\ g[i] = f[i] /\ (i # 1 => i - 1 \in 1 .. n)
        BY <3>2
      <4>2. i # 1 => g[i - 1] = f[i - 1]
        BY <4>1
      <4> QED BY <4>1, <4>2, <2>1
    <3> QED BY <3>1, <3>2
  <2> QED BY <2>4, <2>5
<1>3. Len(ss) \in Good
  <2> HIDE DEF Good
  <2> QED BY <1>1, <1>2, SetInduction
<1>4. PICK f \in [1 .. Len(ss) -> Seq(X)] : Rec(f, Len(ss))
  BY <1>3
<1>5. f = [i \in 1 .. Len(ss) |-> IF i = 1 THEN ss[i] ELSE f[i - 1] \o ss[i]]
  BY <1>4
<1>6. Flatten(ss) = [i \in 1 .. Len(ss) |->
                       IF i = 1 THEN ss[i] ELSE Flatten(ss)[i - 1] \o ss[i]]
  BY <1>5, Zenon DEF Flatten
<1> DEFINE h == Flatten(ss)
           Typed == {n \in Nat : n + 1 <= Len(ss) => h[n + 1] \in Seq(X)}
<1>7. \A i \in 1 .. Len(ss) : h[i] = IF i = 1 THEN ss[i] ELSE h[i - 1] \o ss[i]
  BY <1>6
<1> HIDE DEF h
<1>8. 0 \in Typed
  BY <1>7
<1>9. ASSUME NEW n \in Nat, n \in Typed PROVE n + 1 \in Typed
  <2> SUFFICES ASSUME n + 2 <= Len(ss) PROVE h[n + 2] \in Seq(X)
    OBVIOUS
  <2>1. h[n + 1] \in Seq(X)
    BY <1>9
  <2>2. n + 2 \in 1 .. Len(ss) /\ (n + 2) - 1 = n + 1 /\ n + 2 # 1
    OBVIOUS
  <2>3. ss[n + 2] \in Seq(X)
    BY <2>2
  <2>4. h[n + 2] = h[n + 1] \o ss[n + 2]
    BY <1>7, <2>2
  <2> QED BY <2>1, <2>3, <2>4
<1>10. Nat \subseteq Typed
  <2> HIDE DEF Typed
  <2> QED BY <1>8, <1>9, SetInduction
<1>11. \A i \in 1 .. Len(ss) : h[i] \in Seq(X)
  <2> TAKE i \in 1 .. Len(ss)
  <2>1. i - 1 \in Nat /\ (i - 1) + 1 = i /\ i <= Len(ss)
    OBVIOUS
  <2>2. i - 1 \in Typed
    <3> HIDE DEF Typed
    <3> QED BY <1>10, <2>1
  <2> QED BY <2>1, <2>2
<1>12. h \in [1 .. Len(ss) -> Seq(X)]
  BY <1>6, <1>11 DEF h
<1> QED BY <1>7, <1>12 DEF h

LEMMA FlattenSeqIs ==
  ASSUME NEW ss
  PROVE  FlattenSeq(ss) = IF Len(ss) = 0 THEN ss ELSE Flatten(ss)[Len(ss)]
BY DEF FlattenSeq, Flatten

LEMMA FlattenEmpty == FlattenSeq(<<>>) = <<>>
BY FlattenSeqIs

LEMMA FlattenType ==
  ASSUME NEW X, NEW ss \in Seq(Seq(X))
  PROVE  FlattenSeq(ss) \in Seq(X)
<1>1. CASE ss = <<>>
  <2>1. <<>> \in Seq(X)
    OBVIOUS
  <2> QED BY <1>1, <2>1, FlattenEmpty, Zenon
<1>2. CASE ss # <<>>
  <2>1. Len(ss) \in 1 .. Len(ss) /\ Len(ss) # 0
    BY <1>2
  <2>2. Flatten(ss)[Len(ss)] \in Seq(X)
    BY <2>1, FlattenExists
  <2>3. FlattenSeq(ss) = Flatten(ss)[Len(ss)]
    BY <2>1, FlattenSeqIs, Zenon
  <2> QED BY <2>2, <2>3
<1> QED BY <1>1, <1>2

\* The last one, the rest before it.
LEMMA FlattenAppend ==
  ASSUME NEW X, NEW ss \in Seq(Seq(X)), NEW s \in Seq(X)
  PROVE  FlattenSeq(Append(ss, s)) = FlattenSeq(ss) \o s
<1> DEFINE tt == Append(ss, s)  n == Len(ss)
<1>1. tt \in Seq(Seq(X)) /\ Len(tt) = n + 1 /\ n \in Nat /\ tt[n + 1] = s
      /\ \A i \in 1 .. n : tt[i] = ss[i]
  OBVIOUS
<1> HIDE DEF tt
<1>2. FlattenSeq(tt) = Flatten(tt)[n + 1]
  BY <1>1, FlattenSeqIs
<1>3. \A i \in 1 .. n + 1 :
        Flatten(tt)[i] = IF i = 1 THEN tt[i] ELSE Flatten(tt)[i - 1] \o tt[i]
  BY <1>1, FlattenExists
<1>4. CASE n = 0
  <2>1. ss = <<>>
    BY <1>4
  <2>2. Flatten(tt)[1] = s
    BY <1>1, <1>3, <1>4
  <2> QED BY <2>1, <2>2, <1>2, <1>4, FlattenEmpty DEF tt
<1>5. CASE n # 0
  <2>1. \A i \in 1 .. n :
          Flatten(ss)[i] = IF i = 1 THEN ss[i] ELSE Flatten(ss)[i - 1] \o ss[i]
    BY FlattenExists
  <2> DEFINE Same == {m \in Nat : m + 1 <= n => Flatten(tt)[m + 1] = Flatten(ss)[m + 1]}
  <2>2. 0 \in Same
    BY <1>1, <1>3, <2>1
  <2>3. ASSUME NEW m \in Nat, m \in Same PROVE m + 1 \in Same
    <3> SUFFICES ASSUME m + 2 <= n PROVE Flatten(tt)[m + 2] = Flatten(ss)[m + 2]
      OBVIOUS
    <3>1. Flatten(tt)[m + 1] = Flatten(ss)[m + 1]
      BY <2>3
    <3>2. m + 2 \in 1 .. n /\ m + 2 \in 1 .. n + 1 /\ (m + 2) - 1 = m + 1 /\ m + 2 # 1
      OBVIOUS
    <3> QED BY <3>1, <3>2, <1>1, <1>3, <2>1
  <2>4. n - 1 \in Same
    <3> HIDE DEF Same
    <3>1. Nat \subseteq Same
      BY <2>2, <2>3, SetInduction
    <3> QED BY <3>1, <1>1, <1>5
  <2>5. Flatten(tt)[n] = Flatten(ss)[n]
    BY <2>4, <1>1, <1>5
  <2>6. Flatten(tt)[n + 1] = Flatten(tt)[n] \o s
    <3>1. n + 1 \in 1 .. n + 1 /\ n + 1 # 1 /\ (n + 1) - 1 = n
      BY <1>1, <1>5
    <3> QED BY <3>1, <1>1, <1>3
  <2>7. FlattenSeq(ss) = Flatten(ss)[n]
    BY <1>1, <1>5, FlattenSeqIs
  <2> QED BY <2>5, <2>6, <2>7, <1>2 DEF tt
<1> QED BY <1>4, <1>5

LEMMA FlattenOne ==
  ASSUME NEW X, NEW s \in Seq(X)
  PROVE  FlattenSeq(<<s>>) = s
<1>1. Append(<<>>, s) = <<s>> /\ <<>> \in Seq(Seq(X)) /\ <<>> \o s = s
  OBVIOUS
<1> QED BY <1>1, FlattenAppend, FlattenEmpty

LEMMA FlattenConcat ==
  ASSUME NEW X, NEW ss \in Seq(Seq(X)), NEW tt \in Seq(Seq(X))
  PROVE  FlattenSeq(ss \o tt) = FlattenSeq(ss) \o FlattenSeq(tt)
<1> DEFINE Good == {n \in Nat : \A uu \in Seq(Seq(X)) : Len(uu) = n =>
                      FlattenSeq(ss \o uu) = FlattenSeq(ss) \o FlattenSeq(uu)}
<1>1. 0 \in Good
  <2>1. FlattenSeq(ss) \in Seq(X)
    BY FlattenType
  <2>2. FlattenSeq(ss) \o <<>> = FlattenSeq(ss) /\ ss \o <<>> = ss
    BY <2>1
  <2>3. FlattenSeq(ss \o <<>>) = FlattenSeq(ss) \o FlattenSeq(<<>>)
    BY <2>2, FlattenEmpty
  <2>4. ASSUME NEW uu \in Seq(Seq(X)), Len(uu) = 0 PROVE uu = <<>>
    BY <2>4
  <2> QED BY <2>3, <2>4
<1>2. ASSUME NEW n \in Nat, n \in Good PROVE n + 1 \in Good
  <2> SUFFICES ASSUME NEW uu \in Seq(Seq(X)), Len(uu) = n + 1
               PROVE  FlattenSeq(ss \o uu) = FlattenSeq(ss) \o FlattenSeq(uu)
    OBVIOUS
  <2> DEFINE vv == SubSeq(uu, 1, n)  s == uu[n + 1]
  <2>1. vv \in Seq(Seq(X)) /\ Len(vv) = n /\ s \in Seq(X) /\ uu = Append(vv, s)
    OBVIOUS
  <2> HIDE DEF vv, s
  <2>2. FlattenSeq(ss \o vv) = FlattenSeq(ss) \o FlattenSeq(vv)
    BY <1>2, <2>1
  <2>3. ss \o vv \in Seq(Seq(X)) /\ ss \o uu = Append(ss \o vv, s)
    BY <2>1
  <2>4. FlattenSeq(ss \o uu) = FlattenSeq(ss \o vv) \o s
    BY <2>1, <2>3, FlattenAppend
  <2>5. FlattenSeq(uu) = FlattenSeq(vv) \o s
    BY <2>1, FlattenAppend
  <2>6. /\ FlattenSeq(ss) \in Seq(X) /\ FlattenSeq(vv) \in Seq(X)
    BY <2>1, FlattenType
  <2>7. (FlattenSeq(ss) \o FlattenSeq(vv)) \o s = FlattenSeq(ss) \o (FlattenSeq(vv) \o s)
    <3>1. s \in Seq(X)
      BY <2>1
    <3> QED BY <3>1, <2>6
  <2> QED BY <2>2, <2>4, <2>5, <2>7
<1>3. Nat \subseteq Good
  <2> HIDE DEF Good
  <2> QED BY <1>1, <1>2, SetInduction
<1>4. Len(tt) \in Good
  <2> HIDE DEF Good
  <2> QED BY <1>3
<1> QED BY <1>4

\* The first one, the rest after it.
LEMMA FlattenFirst ==
  ASSUME NEW X, NEW ss \in Seq(Seq(X)), ss # <<>>
  PROVE  FlattenSeq(ss) = ss[1] \o FlattenSeq(Tail(ss))
<1>1. ss[1] \in Seq(X) /\ Tail(ss) \in Seq(Seq(X)) /\ ss = <<ss[1]>> \o Tail(ss)
      /\ <<ss[1]>> \in Seq(Seq(X))
  OBVIOUS
<1>2. FlattenSeq(<<ss[1]>> \o Tail(ss)) = FlattenSeq(<<ss[1]>>) \o FlattenSeq(Tail(ss))
  BY <1>1, FlattenConcat
<1>3. FlattenSeq(<<ss[1]>>) = ss[1]
  BY <1>1, FlattenOne
<1> QED BY <1>1, <1>2, <1>3

----------------------------------------------------------------------------
(* Escaping *)

Cells(s) == [i \in DOMAIN s |-> EscapeByte(s[i])]

LEMMA CellType ==
  ASSUME NEW b \in Byte
  PROVE  EscapeByte(b) \in Seq(Byte)
<1>1. b % 128 \in Byte /\ ESC \in Byte
  BY DEF Byte, ESC
<1> QED BY <1>1 DEF EscapeByte

LEMMA CellsType ==
  ASSUME NEW s \in Seq(Byte)
  PROVE  Cells(s) \in Seq(Seq(Byte)) /\ Len(Cells(s)) = Len(s)
<1>1. \A i \in DOMAIN s : EscapeByte(s[i]) \in Seq(Byte)
  BY CellType
<1>2. DOMAIN s = 1 .. Len(s) /\ Len(s) \in Nat
  OBVIOUS
<1>3. Cells(s) \in [1 .. Len(s) -> Seq(Byte)]
  BY <1>1, <1>2 DEF Cells
<1> QED BY <1>2, <1>3

LEMMA EscapeIs ==
  ASSUME NEW s
  PROVE  Escape(s) = FlattenSeq(Cells(s))
BY DEF Escape, Cells

LEMMA EscapeType ==
  ASSUME NEW s \in Seq(Byte)
  PROVE  Escape(s) \in Seq(Byte)
BY EscapeIs, CellsType, FlattenType

LEMMA EscapeEmpty == Escape(<<>>) = <<>>
<1>1. Cells(<<>>) = <<>>
  BY DEF Cells
<1> QED BY <1>1, EscapeIs, FlattenEmpty

LEMMA EscapeConcat ==
  ASSUME NEW s \in Seq(Byte), NEW t \in Seq(Byte)
  PROVE  Escape(s \o t) = Escape(s) \o Escape(t)
<1> DEFINE x == Cells(s)
           y == Cells(t)
           u == Join(s, t)
           v == Join(x, y)
<1>1. /\ x \in Seq(Seq(Byte)) /\ Len(x) = Len(s)
      /\ y \in Seq(Seq(Byte)) /\ Len(y) = Len(t)
      /\ Len(s) \in Nat /\ Len(t) \in Nat
  BY CellsType
<1>2. /\ u \in Seq(Byte) /\ Len(u) = Len(s) + Len(t)
      /\ \A i \in 1 .. Len(s) : u[i] = s[i]
      /\ \A i \in 1 .. Len(t) : u[Len(s) + i] = t[i]
  <2>1. u \in Seq(Byte)
    BY JoinType
  <2>2. Len(u) = Len(s) + Len(t)
    BY JoinLen
  <2>3. \A i \in 1 .. Len(s) : u[i] = s[i]
    BY JoinLeft
  <2>4. \A i \in 1 .. Len(t) : u[Len(s) + i] = t[i]
    BY JoinRight
  <2> QED BY <2>1, <2>2, <2>3, <2>4
<1>3. Cells(u) \in Seq(Seq(Byte)) /\ Len(Cells(u)) = Len(s) + Len(t)
  BY <1>2, CellsType
<1> HIDE DEF x, y
<1>4. /\ v \in Seq(Seq(Byte)) /\ Len(v) = Len(s) + Len(t)
      /\ \A i \in 1 .. Len(s) : v[i] = x[i]
      /\ \A i \in 1 .. Len(t) : v[Len(s) + i] = y[i]
  <2>1. v \in Seq(Seq(Byte))
    BY <1>1, JoinType
  <2>2. Len(v) = Len(x) + Len(y)
    BY <1>1, JoinLen
  <2>3. \A i \in 1 .. Len(x) : v[i] = x[i]
    BY <1>1, JoinLeft
  <2>4. \A i \in 1 .. Len(y) : v[Len(x) + i] = y[i]
    BY <1>1, JoinRight
  <2> HIDE DEF v
  <2> QED BY <1>1, <2>1, <2>2, <2>3, <2>4
<1> HIDE DEF u, v
<1>5. ASSUME NEW i \in 1 .. Len(s) PROVE Cells(u)[i] = v[i]
  <2>1. i \in DOMAIN u /\ i \in DOMAIN s
    BY <1>1, <1>2
  <2> QED BY <2>1, <1>2, <1>4 DEF Cells, x
<1>6. ASSUME NEW i \in 1 .. Len(t) PROVE Cells(u)[Len(s) + i] = v[Len(s) + i]
  <2>1. Len(s) + i \in DOMAIN u /\ i \in DOMAIN t
    BY <1>1, <1>2
  <2> QED BY <2>1, <1>2, <1>4 DEF Cells, y
<1>7. ASSUME NEW i \in 1 .. Len(s) + Len(t) PROVE Cells(u)[i] = v[i]
  <2>1. CASE i <= Len(s)
    BY <2>1, <1>1, <1>5
  <2>2. CASE ~ (i <= Len(s))
    <3>1. i - Len(s) \in 1 .. Len(t) /\ Len(s) + (i - Len(s)) = i
      BY <2>2, <1>1
    <3> QED BY <3>1, <1>6
  <2> QED BY <2>1, <2>2
<1>8. Cells(u) = v
  <2>1. Len(Cells(u)) = Len(v) /\ \A i \in 1 .. Len(Cells(u)) : Cells(u)[i] = v[i]
    BY <1>3, <1>4, <1>7
  <2> QED BY <1>3, <1>4, <2>1, SeqEqual
<1>9. FlattenSeq(v) = FlattenSeq(x) \o FlattenSeq(y)
  BY <1>1, FlattenConcat DEF v, Join
<1> QED BY <1>8, <1>9, EscapeIs DEF u, x, y, Join

LEMMA EscapeOne ==
  ASSUME NEW b \in Byte
  PROVE  Escape(<<b>>) = EscapeByte(b)
<1>1. Cells(<<b>>) = <<EscapeByte(b)>>
  BY DEF Cells
<1> QED BY <1>1, EscapeIs, CellType, FlattenOne

\* The byte at k + 1, and what comes after it.
LEMMA EscapeFrom ==
  ASSUME NEW s \in Seq(Byte), NEW k \in 0 .. Len(s) - 1
  PROVE  /\ s[k + 1] \in Byte
         /\ Escape(SubSeq(s, k + 1, Len(s)))
              = EscapeByte(s[k + 1]) \o Escape(SubSeq(s, k + 2, Len(s)))
<1>1. /\ s[k + 1] \in Byte /\ SubSeq(s, k + 2, Len(s)) \in Seq(Byte)
      /\ <<s[k + 1]>> \in Seq(Byte)
  OBVIOUS
<1>2. SubSeq(s, k + 1, Len(s)) = <<s[k + 1]>> \o SubSeq(s, k + 2, Len(s))
  OBVIOUS
<1> QED BY <1>1, <1>2, EscapeConcat, EscapeOne

----------------------------------------------------------------------------
(* Frames *)

LEMMA BigEndianBytes ==
  ASSUME NEW n \in Word
  PROVE  /\ BigEndian(n) \in Seq(Byte) /\ Len(BigEndian(n)) = 2
         /\ 256 * BigEndian(n)[1] + BigEndian(n)[2] = n
<1>1. n \div 256 \in Byte /\ n % 256 \in Byte /\ 256 * (n \div 256) + (n % 256) = n
  BY DEF Word, Byte
<1> QED BY <1>1 DEF BigEndian

LEMMA PacketType ==
  ASSUME NEW pkt \in Packets
  PROVE  /\ pkt \in Seq(Byte) /\ Len(pkt) \in Word /\ Len(pkt) >= 3
         /\ Checksum(Summed(pkt)) \in Word
<1>1. PICK n \in Counts : \E c \in Commands : \E p \in Payloads : pkt = Packet(n, c, p)
  BY DEF Packets
<1>0. PICK c \in Commands, p \in Payloads : pkt = Packet(n, c, p)
  BY <1>1
<1>2. n \in Byte /\ c \in Byte /\ Dst \in Byte
  <2>1. PICK i \in 0 .. MaxFrames : n = (FirstCount + i) % 256
    BY DEF Counts
  <2>2. FirstCount \in Nat /\ i \in Nat
    BY BoundAssumption DEF Byte
  <2>3. n \in Byte
    BY <2>1, <2>2 DEF Byte
  <2> QED BY <2>3, PacketAssumption
<1> DEFINE m == Len(p)
<1>3. p \in Seq(Byte) /\ m = Len(p)
  BY PacketAssumption
<1>8. m < 65533
  BY PacketAssumption
<1> HIDE DEF m
<1>9. m \in Nat
  BY <1>3
<1> DEFINE h == <<Dst, n, c>>
<1>4. h \in Seq(Byte) /\ Len(h) = 3
  BY <1>2
<1>5. pkt = Join(h, p)
  BY <1>0 DEF Packet, Join
<1> HIDE DEF h
<1>6. pkt \in Seq(Byte) /\ Len(pkt) = 3 + m
  <2>1. pkt \in Seq(Byte)
    BY <1>3, <1>4, <1>5, JoinType
  <2>2. Len(pkt) = Len(h) + Len(p)
    BY <1>3, <1>4, <1>5, JoinLen
  <2> QED BY <1>3, <1>4, <2>1, <2>2
<1>7. Len(pkt) \in Word /\ Len(pkt) >= 3
  BY <1>6, <1>8, <1>9 DEF Word
<1> QED BY <1>6, <1>7, ChecksumAssumption

\* A frame byte by byte: delimiter, length, packet, checksum.
LEMMA FrameBytes ==
  ASSUME NEW pkt \in Packets
  PROVE  LET f == Frame(pkt)
             n == Len(pkt)
         IN  /\ f \in Seq(Byte) /\ Len(f) = n + 5
             /\ f[1] = DELIM /\ 256 * f[2] + f[3] = n
             /\ SubSeq(f, 1, n + 3) = Summed(pkt)
             /\ SubSeq(f, 4, n + 3) = pkt
             /\ 256 * f[n + 4] + f[n + 5] = Checksum(Summed(pkt))
<1> DEFINE n == Len(pkt)
           l == BigEndian(n)
           c == BigEndian(Checksum(Summed(pkt)))
<1>1. pkt \in Seq(Byte) /\ n \in Word /\ n \in Nat /\ n >= 3
  BY PacketType DEF Word
<1>2. l \in Seq(Byte) /\ Len(l) = 2 /\ 256 * l[1] + l[2] = n
  BY <1>1, BigEndianBytes
<1>3. c \in Seq(Byte) /\ Len(c) = 2 /\ 256 * c[1] + c[2] = Checksum(Summed(pkt))
  BY PacketType, BigEndianBytes
<1>4. <<DELIM>> \in Seq(Byte)
  BY DEF Byte, DELIM
<1> DEFINE s == Summed(pkt)
           d == <<DELIM>>
           dl == Join(d, l)
<1>5. s = Join(dl, pkt)
  BY DEF Summed, Join
<1>6. Frame(pkt) = Join(s, c)
  BY DEF Frame, Join
<1>p. d \in Seq(Byte) /\ Len(d) = 1 /\ d[1] = DELIM
  BY <1>4
<1>n. n = Len(pkt)
  OBVIOUS
<1> HIDE DEF n, l, c, s, d
<1>7. /\ dl \in Seq(Byte) /\ Len(dl) = 3
      /\ dl[1] = DELIM /\ dl[2] = l[1] /\ dl[3] = l[2]
  <2>t. d \in Seq(Byte) /\ l \in Seq(Byte)
    BY <1>2, <1>p
  <2>1. dl \in Seq(Byte)
    BY <2>t, JoinType
  <2>2. Len(dl) = Len(d) + Len(l)
    BY <2>t, JoinLen
  <2>3. \A i \in 1 .. Len(d) : dl[i] = d[i]
    BY <2>t, JoinLeft
  <2>4. \A i \in 1 .. Len(l) : dl[Len(d) + i] = l[i]
    BY <2>t, JoinRight
  <2> HIDE DEF dl
  <2> QED BY <1>2, <1>p, <2>1, <2>2, <2>3, <2>4
<1> HIDE DEF dl
<1>8. /\ s \in Seq(Byte) /\ Len(s) = n + 3
      /\ s[1] = DELIM /\ s[2] = l[1] /\ s[3] = l[2]
      /\ \A i \in 1 .. n : s[3 + i] = pkt[i]
  <2>t. dl \in Seq(Byte) /\ pkt \in Seq(Byte)
    BY <1>1, <1>7
  <2>1. s \in Seq(Byte)
    BY <2>t, <1>5, JoinType
  <2>2. Len(s) = Len(dl) + Len(pkt)
    BY <2>t, <1>5, JoinLen
  <2>3. \A i \in 1 .. Len(dl) : s[i] = dl[i]
    BY <2>t, <1>5, JoinLeft
  <2>4. \A i \in 1 .. Len(pkt) : s[Len(dl) + i] = pkt[i]
    BY <2>t, <1>5, JoinRight
  <2> QED BY <1>1, <1>7, <1>n, <2>1, <2>2, <2>3, <2>4
<1> DEFINE f == Join(s, c)
<1>9. /\ f \in Seq(Byte) /\ Len(f) = (n + 3) + 2
      /\ \A i \in 1 .. n + 3 : f[i] = s[i]
      /\ f[(n + 3) + 1] = c[1] /\ f[(n + 3) + 2] = c[2]
  <2>t. s \in Seq(Byte) /\ c \in Seq(Byte)
    BY <1>3, <1>8
  <2>1. f \in Seq(Byte)
    BY <2>t, JoinType
  <2>2. Len(f) = Len(s) + Len(c)
    BY <2>t, JoinLen
  <2>3. \A i \in 1 .. Len(s) : f[i] = s[i]
    BY <2>t, JoinLeft
  <2>4. \A i \in 1 .. Len(c) : f[Len(s) + i] = c[i]
    BY <2>t, JoinRight
  <2> HIDE DEF f
  <2> QED BY <1>1, <1>3, <1>8, <2>1, <2>2, <2>3, <2>4
<1> HIDE DEF f
<1>10. /\ Len(f) = n + 5 /\ f[n + 4] = c[1] /\ f[n + 5] = c[2]
       /\ f[1] = DELIM /\ f[2] = l[1] /\ f[3] = l[2]
  BY <1>1, <1>8, <1>9
<1>11. SubSeq(f, 1, n + 3) = s
  BY <1>1, <1>8, <1>9, <1>10
<1>12. SubSeq(f, 4, n + 3) = pkt
  <2>1. \A i \in 1 .. n : f[3 + i] = pkt[i]
    BY <1>1, <1>8, <1>9
  <2> QED BY <2>1, <1>1, <1>9, <1>10, <1>n
<1>13. f = Frame(pkt)
  BY <1>6 DEF f
<1> QED BY <1>2, <1>3, <1>9, <1>10, <1>11, <1>12, <1>13, <1>n DEF s

\* What is left of a frame on the line.
LEMMA RemainsType ==
  ASSUME NEW f \in Seq(Byte), NEW k \in 0 .. Len(f)
  PROVE  Remains(f, k) \in Seq(Byte)
<1>1. SubSeq(f, 2, Len(f)) \in Seq(Byte) /\ SubSeq(f, k + 1, Len(f)) \in Seq(Byte)
  OBVIOUS
<1>2. <<DELIM>> \in Seq(Byte)
  BY DEF Byte, DELIM
<1>3. Escape(SubSeq(f, 2, Len(f))) \in Seq(Byte) /\ Escape(SubSeq(f, k + 1, Len(f))) \in Seq(Byte)
  BY <1>1, EscapeType
<1>4. <<DELIM>> \o Escape(SubSeq(f, 2, Len(f))) \in Seq(Byte)
  BY <1>2, <1>3
<1> QED BY <1>3, <1>4 DEF Remains

LEMMA RemainsEnd ==
  ASSUME NEW f \in Seq(Byte), f # <<>>
  PROVE  Remains(f, Len(f)) = <<>>
<1>1. SubSeq(f, Len(f) + 1, Len(f)) = <<>> /\ Len(f) # 0
  OBVIOUS
<1> QED BY <1>1, EscapeEmpty DEF Remains

LEMMA RemainsFirst ==
  ASSUME NEW f \in Seq(Byte), f # <<>>
  PROVE  Remains(f, 0) = <<DELIM>> \o Remains(f, 1)
BY DEF Remains

LEMMA RemainsNext ==
  ASSUME NEW f \in Seq(Byte), NEW k \in 1 .. Len(f) - 1
  PROVE  /\ f[k + 1] \in Byte
         /\ Remains(f, k) = EscapeByte(f[k + 1]) \o Remains(f, k + 1)
<1>1. k \in 0 .. Len(f) - 1 /\ k # 0 /\ k + 1 # 0 /\ (k + 1) + 1 = k + 2
  OBVIOUS
<1> QED BY <1>1, EscapeFrom DEF Remains

\* What WritePacket writes is the frame, escaped but for the delimiter.
LEMMA FlattenFive ==
  ASSUME NEW X, NEW a \in Seq(X), NEW b \in Seq(X), NEW c \in Seq(X),
         NEW d \in Seq(X), NEW e \in Seq(X)
  PROVE  FlattenSeq(<<a, b, c, d, e>>)
           = Join(a, Join(b, Join(c, Join(d, e))))
<1>1. FlattenSeq(<<e>>) = e
  BY FlattenOne
<1>2. FlattenSeq(<<d, e>>) = d \o e
  <2>1. <<d, e>> \in Seq(Seq(X)) /\ <<d, e>> # <<>> /\ <<d, e>>[1] = d /\ Tail(<<d, e>>) = <<e>>
    OBVIOUS
  <2> QED BY <2>1, <1>1, FlattenFirst
<1>3. FlattenSeq(<<c, d, e>>) = c \o Join(d, e)
  <2>1. <<c, d, e>> \in Seq(Seq(X)) /\ <<c, d, e>> # <<>> /\ <<c, d, e>>[1] = c
        /\ Tail(<<c, d, e>>) = <<d, e>>
    OBVIOUS
  <2> QED BY <2>1, <1>2, FlattenFirst DEF Join
<1>4. FlattenSeq(<<b, c, d, e>>) = b \o Join(c, Join(d, e))
  <2>1. <<b, c, d, e>> \in Seq(Seq(X)) /\ <<b, c, d, e>> # <<>> /\ <<b, c, d, e>>[1] = b
        /\ Tail(<<b, c, d, e>>) = <<c, d, e>>
    OBVIOUS
  <2>2. FlattenSeq(<<b, c, d, e>>) = b \o FlattenSeq(<<c, d, e>>)
    BY <2>1, FlattenFirst
  <2> QED BY <2>2, <1>3 DEF Join
<1>5. <<a, b, c, d, e>> \in Seq(Seq(X)) /\ <<a, b, c, d, e>> # <<>> /\ <<a, b, c, d, e>>[1] = a
      /\ Tail(<<a, b, c, d, e>>) = <<b, c, d, e>>
  OBVIOUS
<1>6. FlattenSeq(<<a, b, c, d, e>>) = a \o FlattenSeq(<<b, c, d, e>>)
  BY <1>5, FlattenFirst
<1> QED BY <1>6, <1>4 DEF Join

LEMMA PartsJoin ==
  ASSUME NEW pkt \in Packets
  PROVE  /\ Parts(pkt) \in Seq(Seq(Byte)) /\ Len(Parts(pkt)) = 5
         /\ FlattenSeq(Parts(pkt)) = Remains(Frame(pkt), 0)
<1> DEFINE n == Len(pkt)
           l == BigEndian(n)
           p1 == SubSeq(pkt, 1, 3)
           p2 == SubSeq(pkt, 4, n)
           c == BigEndian(Checksum(Summed(pkt)))
           f == Frame(pkt)
<1>1. pkt \in Seq(Byte) /\ n \in Word /\ n \in Nat /\ n >= 3
  BY PacketType DEF Word
<1>2. l \in Seq(Byte) /\ Len(l) = 2
  BY <1>1, BigEndianBytes
<1>3. c \in Seq(Byte) /\ Len(c) = 2
  BY PacketType, BigEndianBytes
<1>4. p1 \in Seq(Byte) /\ p2 \in Seq(Byte) /\ pkt = p1 \o p2
  BY <1>1
<1>5. <<DELIM>> \in Seq(Byte)
  BY DEF Byte, DELIM
<1>6. /\ Escape(l) \in Seq(Byte) /\ Escape(p1) \in Seq(Byte)
      /\ Escape(p2) \in Seq(Byte) /\ Escape(c) \in Seq(Byte)
  BY <1>2, <1>3, <1>4, EscapeType
<1> DEFINE a == <<DELIM>>  el == Escape(l)  e1 == Escape(p1)  e2 == Escape(p2)
           ec == Escape(c)
<1>7. Parts(pkt) = <<a, el, e1, e2, ec>>
  BY DEF Parts
<1>8. f = Join(Join(Join(a, l), pkt), c)
  BY DEF Frame, Summed, Join
<1>a. a \in Seq(Byte)
  BY <1>5
<1>el. el \in Seq(Byte)
  BY <1>6
<1>e1. e1 \in Seq(Byte)
  BY <1>6
<1>e2. e2 \in Seq(Byte)
  BY <1>6
<1>ec. ec \in Seq(Byte)
  BY <1>6
<1> HIDE DEF l, p1, p2, c, f, a, el, e1, e2, ec
<1>9. Parts(pkt) \in Seq(Seq(Byte)) /\ Len(Parts(pkt)) = 5
  BY <1>a, <1>el, <1>e1, <1>e2, <1>ec, <1>7
<1>10. FlattenSeq(<<a, el, e1, e2, ec>>) = Join(a, Join(el, Join(e1, Join(e2, ec))))
  BY <1>a, <1>el, <1>e1, <1>e2, <1>ec, FlattenFive
<1> DEFINE r2 == Join(p2, c)  r1 == Join(p1, r2)  r == Join(l, r1)
<1>11. r2 \in Seq(Byte)
  BY <1>3, <1>4, JoinType
<1>12. Escape(r2) = Join(e2, ec)
  BY <1>3, <1>4, EscapeConcat DEF Join, e2, ec
<1> HIDE DEF r2
<1>13. r1 \in Seq(Byte)
  BY <1>4, <1>11, JoinType
<1>14. Escape(r1) = Join(e1, Escape(r2))
  BY <1>4, <1>11, EscapeConcat DEF Join, e1
<1> HIDE DEF r1
<1>15. r \in Seq(Byte)
  BY <1>2, <1>13, JoinType
<1>16. Escape(r) = Join(el, Escape(r1))
  BY <1>2, <1>13, EscapeConcat DEF Join, el
<1>17. f = Join(a, r)
  <2>1. pkt = Join(p1, p2)
    BY <1>4 DEF Join
  <2>t. l \in Seq(Byte) /\ c \in Seq(Byte) /\ p1 \in Seq(Byte) /\ p2 \in Seq(Byte)
        /\ pkt \in Seq(Byte)
    BY <1>1, <1>2, <1>3, <1>4
  <2>2. r1 = Join(pkt, c)
    <3>1. Join(Join(p1, p2), c) = Join(p1, Join(p2, c))
      BY <2>t, JoinAssoc
    <3> QED BY <3>1, <2>1 DEF r1, r2
  <2>3. Join(Join(l, pkt), c) = Join(l, Join(pkt, c))
    BY <2>t, JoinAssoc
  <2>4. Join(Join(a, l), pkt) = Join(a, Join(l, pkt))
    BY <1>a, <2>t, JoinAssoc
  <2>5. Join(l, pkt) \in Seq(Byte)
    BY <2>t, JoinType
  <2>6. Join(Join(a, Join(l, pkt)), c) = Join(a, Join(Join(l, pkt), c))
    BY <1>a, <2>t, <2>5, JoinAssoc
  <2> QED BY <1>8, <2>2, <2>3, <2>4, <2>6
<1> HIDE DEF r
<1>18. SubSeq(f, 2, Len(f)) = r
  <2>1. DELIM \in Byte
    BY DEF Byte, DELIM
  <2>2. SubSeq(Join(<<DELIM>>, r), 2, Len(Join(<<DELIM>>, r))) = r
    BY <2>1, <1>15, JoinRest
  <2> QED BY <2>2, <1>17 DEF a
<1>19. Remains(f, 0) = Join(a, Escape(r))
  BY <1>18 DEF Remains, Join, a
<1>20. FlattenSeq(Parts(pkt)) = Remains(f, 0)
  BY <1>7, <1>10, <1>12, <1>14, <1>16, <1>19
<1> QED BY <1>9, <1>20 DEF f

----------------------------------------------------------------------------
(* The frames of several packets *)

Frames(pkts) == [i \in DOMAIN pkts |-> Remains(Frame(pkts[i]), 0)]

LEMMA FrameType ==
  ASSUME NEW pkt \in Packets
  PROVE  Remains(Frame(pkt), 0) \in Seq(Byte)
<1>1. Frame(pkt) \in Seq(Byte)
  BY FrameBytes
<1>2. 0 \in 0 .. Len(Frame(pkt))
  BY <1>1
<1> QED BY <1>1, <1>2, RemainsType

LEMMA FramesType ==
  ASSUME NEW pkts \in Seq(Packets)
  PROVE  /\ Frames(pkts) \in Seq(Seq(Byte)) /\ Len(Frames(pkts)) = Len(pkts)
         /\ \A i \in 1 .. Len(pkts) : Frames(pkts)[i] = Remains(Frame(pkts[i]), 0)
<1>1. DOMAIN pkts = 1 .. Len(pkts) /\ Len(pkts) \in Nat
  OBVIOUS
<1>2. \A i \in 1 .. Len(pkts) : Remains(Frame(pkts[i]), 0) \in Seq(Byte)
  <2> TAKE i \in 1 .. Len(pkts)
  <2>1. pkts[i] \in Packets
    OBVIOUS
  <2> QED BY <2>1, FrameType
<1>3. Frames(pkts) \in [1 .. Len(pkts) -> Seq(Byte)]
  BY <1>1, <1>2 DEF Frames
<1> QED BY <1>1, <1>3 DEF Frames

LEMMA StreamIs ==
  ASSUME NEW pkts
  PROVE  Stream(pkts) = FlattenSeq(Frames(pkts))
BY DEF Stream, Frames

LEMMA StreamType ==
  ASSUME NEW pkts \in Seq(Packets)
  PROVE  Stream(pkts) \in Seq(Byte)
BY StreamIs, FramesType, FlattenType

LEMMA StreamEmpty == Stream(<<>>) = <<>>
<1>1. Frames(<<>>) = <<>>
  BY DEF Frames
<1> QED BY <1>1, StreamIs, FlattenEmpty

LEMMA StreamAppend ==
  ASSUME NEW pkts \in Seq(Packets), NEW pkt \in Packets
  PROVE  Stream(Append(pkts, pkt)) = Stream(pkts) \o Remains(Frame(pkt), 0)
<1> DEFINE qkts == Append(pkts, pkt)  r == Remains(Frame(pkt), 0)
           ff == Append(Frames(pkts), r)
<1>1. /\ qkts \in Seq(Packets) /\ Len(qkts) = Len(pkts) + 1 /\ Len(pkts) \in Nat
      /\ qkts[Len(pkts) + 1] = pkt /\ \A i \in 1 .. Len(pkts) : qkts[i] = pkts[i]
  OBVIOUS
<1>2. r \in Seq(Byte)
  BY FrameType
<1>3. Frames(pkts) \in Seq(Seq(Byte)) /\ Len(Frames(pkts)) = Len(pkts)
  BY FramesType
<1>4. \A i \in 1 .. Len(pkts) : Frames(pkts)[i] = Remains(Frame(pkts[i]), 0)
  BY FramesType
<1> HIDE DEF qkts
<1>5. Frames(qkts) \in Seq(Seq(Byte)) /\ Len(Frames(qkts)) = Len(pkts) + 1
  BY <1>1, FramesType
<1>6. \A i \in 1 .. Len(pkts) + 1 : Frames(qkts)[i] = Remains(Frame(qkts[i]), 0)
  BY <1>1, FramesType
<1>7. /\ ff \in Seq(Seq(Byte)) /\ Len(ff) = Len(pkts) + 1 /\ ff[Len(pkts) + 1] = r
      /\ \A i \in 1 .. Len(pkts) : ff[i] = Frames(pkts)[i]
  <2> HIDE DEF r
  <2> QED BY <1>1, <1>2, <1>3
<1>8. ASSUME NEW i \in 1 .. Len(pkts) + 1 PROVE Frames(qkts)[i] = ff[i]
  <2> HIDE DEF ff
  <2>1. CASE i = Len(pkts) + 1
    <3>1. Frames(qkts)[i] = Remains(Frame(qkts[i]), 0)
      BY <1>6
    <3> QED BY <2>1, <3>1, <1>1, <1>7
  <2>2. CASE i # Len(pkts) + 1
    <3>1. i \in 1 .. Len(pkts)
      BY <2>2, <1>1
    <3>2. Frames(qkts)[i] = Remains(Frame(qkts[i]), 0) /\ qkts[i] = pkts[i]
      BY <3>1, <1>6, <1>1
    <3> QED BY <3>1, <3>2, <1>4, <1>7
  <2> QED BY <2>1, <2>2
<1> HIDE DEF ff, r
<1>9. Frames(qkts) = ff
  <2>1. Len(Frames(qkts)) = Len(ff) /\ \A i \in 1 .. Len(Frames(qkts)) : Frames(qkts)[i] = ff[i]
    BY <1>5, <1>7, <1>8
  <2> QED BY <1>5, <1>7, <2>1, SeqEqual
<1>10. FlattenSeq(ff) = FlattenSeq(Frames(pkts)) \o r
  BY <1>2, <1>3, FlattenAppend DEF ff
<1> QED BY <1>9, <1>10, StreamIs DEF qkts, r

LEMMA StreamFirst ==
  ASSUME NEW pkts \in Seq(Packets), pkts # <<>>
  PROVE  Stream(pkts) = Remains(Frame(pkts[1]), 0) \o Stream(Tail(pkts))
<1> DEFINE rest == Tail(pkts)
<1>1. /\ rest \in Seq(Packets) /\ Len(rest) = Len(pkts) - 1 /\ Len(pkts) \in Nat \ {0}
      /\ \A i \in 1 .. Len(pkts) - 1 : rest[i] = pkts[i + 1]
  OBVIOUS
<1>3. Frames(pkts) \in Seq(Seq(Byte)) /\ Len(Frames(pkts)) = Len(pkts)
  BY FramesType
<1>4. \A i \in 1 .. Len(pkts) : Frames(pkts)[i] = Remains(Frame(pkts[i]), 0)
  BY FramesType
<1> HIDE DEF rest
<1>5. Frames(rest) \in Seq(Seq(Byte)) /\ Len(Frames(rest)) = Len(pkts) - 1
  BY <1>1, FramesType
<1>6. \A i \in 1 .. Len(pkts) - 1 : Frames(rest)[i] = Remains(Frame(rest[i]), 0)
  BY <1>1, FramesType
<1> DEFINE ff == Tail(Frames(pkts))
<1>7. /\ ff \in Seq(Seq(Byte)) /\ Len(ff) = Len(pkts) - 1
      /\ \A i \in 1 .. Len(pkts) - 1 : ff[i] = Frames(pkts)[i + 1]
  BY <1>1, <1>3
<1> HIDE DEF ff
<1>8. ASSUME NEW i \in 1 .. Len(pkts) - 1 PROVE Frames(rest)[i] = ff[i]
  <2>1. i + 1 \in 1 .. Len(pkts)
    BY <1>1
  <2>2. Frames(pkts)[i + 1] = Remains(Frame(pkts[i + 1]), 0)
    BY <2>1, <1>4
  <2>3. Frames(rest)[i] = Remains(Frame(rest[i]), 0) /\ rest[i] = pkts[i + 1]
    BY <1>6, <1>1
  <2> QED BY <2>2, <2>3, <1>7
<1>9. Frames(rest) = ff
  <2>1. Len(Frames(rest)) = Len(ff) /\ \A i \in 1 .. Len(Frames(rest)) : Frames(rest)[i] = ff[i]
    BY <1>5, <1>7, <1>8
  <2> QED BY <1>5, <1>7, <2>1, SeqEqual
<1>10. Frames(pkts) # <<>>
  BY <1>1, <1>3
<1>11. FlattenSeq(Frames(pkts)) = Frames(pkts)[1] \o FlattenSeq(Tail(Frames(pkts)))
  BY <1>3, <1>10, FlattenFirst
<1>12. Frames(pkts)[1] = Remains(Frame(pkts[1]), 0)
  BY <1>1, <1>4
<1> QED BY <1>9, <1>11, <1>12, StreamIs DEF ff, rest

----------------------------------------------------------------------------
(* Unescaping one byte *)

\* The line begins with a delimiter.
LEMMA DelimiterAhead ==
  ASSUME NEW w \in Seq(Byte), NEW rest \in Seq(Byte), NEW e \in BOOLEAN,
         (IF e THEN <<ESC>> ELSE <<>>) \o w = <<DELIM>> \o rest, w # <<>>
  PROVE  ~e /\ Head(w) = DELIM /\ Tail(w) = rest
<1>1. ESC \in Byte /\ DELIM \in Byte /\ ESC # DELIM
  BY DEF Byte, ESC, DELIM
<1>2. (<<DELIM>> \o rest)[1] = DELIM /\ Tail(<<DELIM>> \o rest) = rest
  BY <1>1
<1>3. (<<ESC>> \o w)[1] = ESC
  BY <1>1
<1>4. ~e
  BY <1>1, <1>2, <1>3
<1>5. w = <<DELIM>> \o rest
  BY <1>4
<1> QED BY <1>4, <1>5, <1>2

\* The line begins with an escaped byte.
LEMMA CellAhead ==
  ASSUME NEW w \in Seq(Byte), NEW rest \in Seq(Byte), NEW e \in BOOLEAN, NEW x \in Byte,
         (IF e THEN <<ESC>> ELSE <<>>) \o w = EscapeByte(x) \o rest, w # <<>>
  PROVE  /\ e => Head(w) # ESC
         /\ Head(w) # ESC => /\ x = (IF e THEN HighBit(Head(w)) ELSE Head(w))
                             /\ Tail(w) = rest
<1>1. ESC \in Byte /\ DELIM \in Byte /\ ESC # DELIM /\ x % 128 \in Byte
  BY DEF Byte, ESC, DELIM
<1>2. CASE x \in {ESC, DELIM}
  <2> DEFINE y == x % 128
  <2>1. y \in Byte /\ y # ESC /\ HighBit(y) = x
    <3>1. CASE x = ESC
      <4>1. y = 124 /\ x = 252
        BY <3>1 DEF ESC
      <4> QED BY <4>1 DEF Byte, ESC, HighBit
    <3>2. CASE x = DELIM
      <4>1. y = 125 /\ x = 253
        BY <3>2 DEF DELIM
      <4> QED BY <4>1 DEF Byte, ESC, HighBit
    <3> QED BY <1>2, <3>1, <3>2
  <2>2. EscapeByte(x) = <<ESC, y>>
    BY <1>2 DEF EscapeByte
  <2> HIDE DEF y
  <2>3. /\ (<<ESC, y>> \o rest)[1] = ESC /\ (<<ESC, y>> \o rest)[2] = y
        /\ Tail(Tail(<<ESC, y>> \o rest)) = rest
    BY <1>1, <2>1
  <2>4. CASE e
    <3>1. <<ESC>> \o w = <<ESC, y>> \o rest
      BY <2>2, <2>4
    <3>2. (<<ESC>> \o w)[2] = w[1] /\ Tail(<<ESC>> \o w) = w
      BY <1>1
    <3>3. w[1] = y /\ Tail(w) = rest
      BY <3>1, <3>2, <2>3
    <3> QED BY <3>3, <2>1, <2>4
  <2>5. CASE ~e
    <3>1. w = <<ESC, y>> \o rest
      BY <2>2, <2>5
    <3> QED BY <3>1, <2>3, <2>5
  <2> QED BY <2>4, <2>5
<1>3. CASE x \notin {ESC, DELIM}
  <2>1. EscapeByte(x) = <<x>> /\ x # ESC
    BY <1>3 DEF EscapeByte
  <2>2. (<<x>> \o rest)[1] = x /\ Tail(<<x>> \o rest) = rest
    OBVIOUS
  <2>3. (<<ESC>> \o w)[1] = ESC
    BY <1>1
  <2>4. ~e
    BY <2>1, <2>2, <2>3
  <2>5. w = <<x>> \o rest
    BY <2>1, <2>4
  <2> QED BY <2>2, <2>4, <2>5
<1> QED BY <1>2, <1>3

----------------------------------------------------------------------------
(* The inductive invariant *)

\* The length field of what has been read.
LengthField == 256 * fullpkt[2] + fullpkt[3]

\* In each phase the bytes still missing are those between what has been
\* read and the end of the phase.
Fits ==
  \/ phase = "delimiter" /\ need = 1 /\ Len(fullpkt) = 0
  \/ phase = "length" /\ Len(fullpkt) \in {1, 2} /\ need = 3 - Len(fullpkt)
  \/ /\ phase = "body" /\ need > 0
     /\ Len(fullpkt) >= 3 /\ Len(fullpkt) + need = 3 + LengthField
  \/ /\ phase = "crc" /\ need \in {1, 2}
     /\ Len(fullpkt) >= 3 /\ Len(fullpkt) + need = 5 + LengthField
  \/ /\ phase = "parse" /\ need = 0
     /\ Len(fullpkt) >= 3 /\ Len(fullpkt) = 5 + LengthField

\* The counter is one that a packet may have.
Counted == \E k \in Nat : k <= writes /\ msgcnt = (FirstCount + k) % 256

IInv == TypeOK /\ Fits /\ Counted

LEMMA PacketIs ==
  ASSUME IInv, writes < MaxFrames, NEW c \in Commands, NEW p \in Payloads
  PROVE  Packet(msgcnt, c, p) \in Packets
<1>1. msgcnt \in Counts
  <2>1. PICK k \in Nat : k <= writes /\ msgcnt = (FirstCount + k) % 256
    BY DEF IInv, Counted
  <2>2. writes \in Nat /\ MaxFrames \in Nat
    BY BoundAssumption DEF IInv, TypeOK
  <2>3. k \in 0 .. MaxFrames
    BY <2>1, <2>2
  <2> QED BY <2>1, <2>3 DEF Counts
<1> QED BY <1>1 DEF Packets

LEMMA CountedNext ==
  ASSUME IInv, writes' = writes + 1, msgcnt' = msgcnt \/ msgcnt' = (msgcnt + 1) % 256
  PROVE  Counted' /\ msgcnt' \in Byte
<1>1. PICK k \in Nat : k <= writes /\ msgcnt = (FirstCount + k) % 256
  BY DEF IInv, Counted
<1>2. writes \in Nat /\ FirstCount \in Nat /\ msgcnt \in Byte /\ msgcnt \in Nat
  BY BoundAssumption DEF IInv, TypeOK, Byte
<1>3. CASE msgcnt' = msgcnt
  BY <1>1, <1>2, <1>3 DEF Counted
<1>4. CASE msgcnt' = (msgcnt + 1) % 256
  <2> DEFINE m == FirstCount + k
  <2>1. m \in Nat
    BY <1>2
  <2> HIDE DEF m
  <2>2. ((m % 256) + 1) % 256 = (m + 1) % 256
    BY <2>1
  <2>3. msgcnt' = (FirstCount + (k + 1)) % 256
    BY <1>1, <1>2, <1>4, <2>2 DEF m
  <2>4. msgcnt' \in Byte
    BY <1>2, <1>4 DEF Byte
  <2>5. k + 1 \in Nat /\ k + 1 <= writes'
    BY <1>1, <1>2
  <2> QED BY <2>3, <2>4, <2>5 DEF Counted
<1> QED BY <1>3, <1>4

LEMMA InitIInv == Init => IInv
<1> SUFFICES ASSUME Init PROVE IInv
  OBVIOUS
<1>1. FirstCount \in Byte /\ FirstCount \in Nat /\ MaxFrames \in Nat /\ MaxFaults \in Nat
  BY BoundAssumption DEF Byte
<1>2. <<>> \in Seq(Byte) /\ <<>> \in Seq(Packets) /\ Len(<<>>) = 0
  OBVIOUS
<1>3. TypeOK
  <2>1. need \in Word /\ chunk \in 0 .. need /\ writes \in 0 .. MaxFrames /\ faults \in 0 .. MaxFaults
    BY <1>1 DEF Init, Word
  <2>2. done \in 0 .. Len(sent) /\ chunk <= Len(wire) /\ ((need = 0) <=> (phase = "parse"))
    BY <1>2 DEF Init
  <2> QED BY <1>1, <1>2, <2>1, <2>2 DEF Init, TypeOK
<1>4. Fits
  BY <1>2 DEF Init, Fits
<1>5. Counted
  <2>1. (FirstCount + 0) % 256 = FirstCount
    BY <1>1 DEF Byte
  <2> QED BY <2>1 DEF Init, Counted
<1> QED BY <1>3, <1>4, <1>5 DEF IInv

\* What Collect does.
LEMMA CollectIs ==
  ASSUME fullpkt \in Seq(Byte), NEW b \in Byte, Collect(b)
  PROVE  /\ fullpkt' \in Seq(Byte) /\ Len(fullpkt') = Len(fullpkt) + 1
         /\ \A i \in 1 .. Len(fullpkt) : fullpkt'[i] = fullpkt[i]
         /\ fullpkt'[Len(fullpkt) + 1] = b
BY DEF Collect

\* One byte fewer is missing, or the reader goes on to the next phase.
LEMMA TakeType ==
  ASSUME IInv, NEW b \in Byte, Take(b)
  PROVE  /\ phase' \in {"delimiter", "length", "body", "crc", "parse"}
         /\ need' \in Word /\ ((need' = 0) <=> (phase' = "parse"))
         /\ need' >= need - 1
         /\ fullpkt' \in Seq(Byte) /\ Fits'
<1> DEFINE k == Len(fullpkt)
<1>1. /\ fullpkt \in Seq(Byte) /\ k \in Nat /\ need \in Nat /\ need < 65536
      /\ b \in Nat /\ b < 256
      /\ \A i \in 1 .. k : fullpkt[i] \in Nat /\ fullpkt[i] < 256
  <2>1. fullpkt \in Seq(Byte) /\ need \in Word
    BY Zenon DEF IInv, TypeOK
  <2>2. \A x \in Byte : x \in Nat /\ x < 256
    BY DEF Byte
  <2>3. \A i \in 1 .. k : fullpkt[i] \in Byte
    BY <2>1
  <2>4. need \in Nat /\ need < 65536
    BY <2>1 DEF Word
  <2>5. k \in Nat
    BY <2>1
  <2> QED BY <2>1, <2>2, <2>3, <2>4, <2>5
<1>2. Fits
  BY DEF IInv
<1>3. CASE StartOver /\ need = 1
  <2>1. /\ phase' = "delimiter" /\ need' = 1 /\ fullpkt' = <<>>
    BY <1>3 DEF StartOver, Expect
  <2> QED BY <2>1, <1>3 DEF Fits, Word
<1>4. ASSUME Collect(b)
      PROVE  /\ fullpkt' \in Seq(Byte) /\ Len(fullpkt') = k + 1
             /\ \A i \in 1 .. k : fullpkt'[i] = fullpkt[i]
             /\ fullpkt'[k + 1] = b
  BY <1>1, <1>4, CollectIs
<1>5. CASE phase = "delimiter"
  <2>1. need = 1 /\ k = 0
    BY <1>2, <1>5 DEF Fits
  <2>2. CASE StartOver
    BY <2>1, <2>2, <1>3
  <2>3. CASE Collect(b) /\ Expect("length", 2)
    <3>1. phase' = "length" /\ need' = 2 /\ Len(fullpkt') = 1 /\ fullpkt' \in Seq(Byte)
      BY <2>1, <2>3, <1>4 DEF Expect
    <3> QED BY <3>1, <2>1 DEF Fits, Word
  <2> QED BY <1>5, <2>2, <2>3 DEF Take, Delimiter
<1>6. CASE phase = "length"
  <2>0. Length(b)
    BY <1>6 DEF Take
  <2>1. k \in {1, 2} /\ need = 3 - k /\ Collect(b)
    BY <1>2, <1>6, <2>0 DEF Fits, Length
  <2>2. CASE need = 2
    <3>1. phase' = "length" /\ need' = 1 /\ Len(fullpkt') = 2 /\ fullpkt' \in Seq(Byte)
      BY <2>0, <2>1, <2>2, <1>4 DEF Length, Expect
    <3> QED BY <3>1, <2>2 DEF Fits, Word
  <2>3. CASE need = 1
    <3> DEFINE length == 256 * fullpkt[2] + b
    <3>1. k = 2 /\ Len(fullpkt') = 3 /\ fullpkt'[2] = fullpkt[2] /\ fullpkt'[3] = b
          /\ fullpkt' \in Seq(Byte)
      BY <2>1, <2>3, <1>4
    <3>2. length \in Nat /\ length < 65536
      <4>1. fullpkt[2] \in Nat /\ fullpkt[2] < 256
        BY <3>1, <1>1
      <4> QED BY <4>1, <1>1
    <3>3. (LengthField)' = length
      BY <3>1 DEF LengthField
    <3>4. IF length = 0 THEN Expect("crc", 2) ELSE Expect("body", length)
      BY <2>0, <2>3 DEF Length
    <3> HIDE DEF length
    <3>5. CASE length = 0
      <4>1. phase' = "crc" /\ need' = 2
        BY <3>4, <3>5 DEF Expect
      <4> QED BY <4>1, <3>1, <3>3, <3>5, <2>3 DEF Fits, Word
    <3>6. CASE length # 0
      <4>1. phase' = "body" /\ need' = length
        BY <3>4, <3>6 DEF Expect
      <4> QED BY <4>1, <3>1, <3>2, <3>3, <3>6, <2>3 DEF Fits, Word
    <3> QED BY <3>5, <3>6
  <2>4. need = 1 \/ need = 2
    BY <2>1, <1>1
  <2> QED BY <2>2, <2>3, <2>4
<1>7. ASSUME Collect(b), k >= 3
      PROVE  (LengthField)' = LengthField /\ LengthField \in Nat
  <2>1. fullpkt'[2] = fullpkt[2] /\ fullpkt'[3] = fullpkt[3]
    BY <1>1, <1>4, <1>7
  <2>2. fullpkt[2] \in Nat /\ fullpkt[3] \in Nat
    BY <1>1, <1>7
  <2> QED BY <2>1, <2>2 DEF LengthField
<1>8. CASE phase = "body"
  <2>0. Body(b) /\ Collect(b)
    BY <1>8 DEF Take, Body
  <2>1. k >= 3 /\ need > 0 /\ k + need = 3 + LengthField
    BY <1>2, <1>8 DEF Fits
  <2>2. (LengthField)' = LengthField /\ LengthField \in Nat
    BY <1>7, <2>0, <2>1
  <2>3. Len(fullpkt') = k + 1 /\ fullpkt' \in Seq(Byte)
    BY <1>4, <2>0
  <2>4. CASE need = 1
    <3>1. phase' = "crc" /\ need' = 2
      BY <2>0, <2>4 DEF Body, Expect
    <3> QED BY <3>1, <2>1, <2>2, <2>3, <2>4, <1>1 DEF Fits, Word
  <2>5. CASE need # 1
    <3>1. phase' = "body" /\ need' = need - 1
      BY <2>0, <2>5 DEF Body, Expect
    <3> QED BY <3>1, <2>1, <2>2, <2>3, <2>5, <1>1 DEF Fits, Word
  <2> QED BY <2>4, <2>5
<1>9. CASE phase = "crc"
  <2>1. k >= 3 /\ need \in {1, 2} /\ k + need = 5 + LengthField
    BY <1>2, <1>9 DEF Fits
  <2>2. CASE StartOver /\ need = 1
    BY <2>2, <1>3
  <2>3. CASE Collect(b) /\ need = 2 /\ Expect("crc", 1)
    <3>1. phase' = "crc" /\ need' = 1
      BY <2>3 DEF Expect
    <3>2. (LengthField)' = LengthField /\ LengthField \in Nat
      BY <1>7, <2>1, <2>3
    <3>3. Len(fullpkt') = k + 1 /\ fullpkt' \in Seq(Byte)
      BY <1>4, <2>3
    <3> QED BY <3>1, <3>2, <3>3, <2>1, <2>3, <1>1 DEF Fits, Word
  <2>4. CASE Collect(b) /\ need = 1 /\ Expect("parse", 0)
    <3>1. phase' = "parse" /\ need' = 0
      BY <2>4 DEF Expect
    <3>2. (LengthField)' = LengthField /\ LengthField \in Nat
      BY <1>7, <2>1, <2>4
    <3>3. Len(fullpkt') = k + 1 /\ fullpkt' \in Seq(Byte)
      BY <1>4, <2>4
    <3> QED BY <3>1, <3>2, <3>3, <2>1, <2>4, <1>1 DEF Fits, Word
  <2> QED BY <1>9, <2>2, <2>3, <2>4 DEF Take, Crc
<1> QED BY <1>5, <1>6, <1>8, <1>9 DEF Take

LEMMA FitsSame ==
  ASSUME Fits, UNCHANGED <<phase, need, fullpkt>>
  PROVE  Fits'
BY DEF Fits, LengthField

LEMMA CountedSame ==
  ASSUME Counted, UNCHANGED <<msgcnt, writes>>
  PROVE  Counted'
BY DEF Counted

\* TypeOK without its literal ranges.
LEMMA TypeFacts ==
  ASSUME IInv
  PROVE  /\ wire \in Seq(Byte) /\ Len(wire) \in Nat /\ fullpkt \in Seq(Byte)
         /\ need \in Nat /\ chunk \in Nat /\ chunk <= need /\ chunk <= Len(wire)
         /\ sent \in Seq(Packets) /\ Len(sent) \in Nat /\ done \in Nat /\ done <= Len(sent)
         /\ writes \in Nat /\ faults \in Nat /\ MaxFrames \in Nat /\ MaxFaults \in Nat
         /\ writes <= MaxFrames /\ faults <= MaxFaults /\ escapeByte \in BOOLEAN
<1>1. need \in Nat /\ chunk \in Nat /\ chunk <= need
  BY DEF IInv, TypeOK, Word
<1>2. writes \in Nat /\ faults \in Nat /\ MaxFrames \in Nat /\ MaxFaults \in Nat
      /\ writes <= MaxFrames /\ faults <= MaxFaults
  BY BoundAssumption DEF IInv, TypeOK
<1>3. wire \in Seq(Byte) /\ fullpkt \in Seq(Byte) /\ sent \in Seq(Packets)
      /\ escapeByte \in BOOLEAN /\ chunk <= Len(wire) /\ done \in 0 .. Len(sent)
  BY DEF IInv, TypeOK
<1>4. Len(wire) \in Nat /\ Len(sent) \in Nat
  BY <1>3
<1> QED BY <1>1, <1>2, <1>3, <1>4

\* The reader's part and the writer's part of the invariant.
ReaderType ==
  /\ phase \in {"delimiter", "length", "body", "crc", "parse"}
  /\ need \in Word /\ ((need = 0) <=> (phase = "parse"))
  /\ fullpkt \in Seq(Byte) /\ Fits
LineType ==
  /\ wire \in Seq(Byte) /\ chunk \in Nat /\ chunk <= Len(wire) /\ chunk <= need
  /\ escapeByte \in BOOLEAN
PacketsType ==
  /\ msgcnt \in Byte /\ writes \in Nat /\ writes <= MaxFrames /\ Counted
  /\ sent \in Seq(Packets) /\ done \in Nat /\ done <= Len(sent)
  /\ faults \in Nat /\ faults <= MaxFaults

LEMMA IInvParts == IInv => ReaderType /\ LineType /\ PacketsType
<1> SUFFICES ASSUME IInv PROVE ReaderType /\ LineType /\ PacketsType
  OBVIOUS
<1>1. ReaderType
  BY DEF IInv, TypeOK, ReaderType
<1>2. msgcnt \in Byte
  BY DEF IInv, TypeOK
<1> QED BY <1>1, <1>2, TypeFacts DEF IInv, LineType, PacketsType

LEMMA IInvFrom ==
  ASSUME ReaderType', LineType', PacketsType'
  PROVE  IInv'
<1>1. /\ need' \in Nat /\ MaxFrames \in Nat /\ MaxFaults \in Nat
      /\ Len(sent') \in Nat
  BY BoundAssumption DEF ReaderType, PacketsType, Word
<1>2. chunk' \in 0 .. need'
  BY <1>1 DEF LineType
<1>3. writes' \in 0 .. MaxFrames /\ done' \in 0 .. Len(sent') /\ faults' \in 0 .. MaxFaults
  BY <1>1 DEF PacketsType
<1>4. TypeOK'
  BY <1>2, <1>3 DEF ReaderType, LineType, PacketsType, TypeOK
<1> QED BY <1>4 DEF ReaderType, PacketsType, IInv

LEMMA ReaderSame ==
  ASSUME ReaderType, UNCHANGED <<phase, need, fullpkt>>
  PROVE  ReaderType'
BY FitsSame DEF ReaderType

LEMMA PacketsSame ==
  ASSUME PacketsType, UNCHANGED <<msgcnt, writes, sent, done, faults>>
  PROVE  PacketsType'
BY CountedSame DEF PacketsType

\* The least element of a set of numbers.
LEMMA MinIs ==
  ASSUME NEW S, S \subseteq Nat, S # {}
  PROVE  Min(S) \in S /\ \A y \in S : Min(S) <= y
<1> DEFINE Less == {p \in Nat \X Nat : p[1] < p[2]}
<1>1. IsWellFoundedOn(Less, Nat)
  BY NatLessThanWellFounded DEF OpToRel
<1>2. PICK m \in S : \A n \in S : <<n, m>> \notin Less
  <2> HIDE DEF Less
  <2> QED BY <1>1, WFMin
<1>3. \A y \in S : m <= y
  <2> TAKE y \in S
  <2>1. <<y, m>> \notin Less /\ y \in Nat /\ m \in Nat
    BY <1>2
  <2> QED BY <2>1
<1> QED BY <1>3 DEF Min

----------------------------------------------------------------------------
(* Type correctness: one lemma per action *)

LEMMA WritePacketType ==
  ASSUME IInv, NEW c \in Commands, NEW p \in Payloads, WritePacket(c, p)
  PROVE  IInv'
<1> DEFINE pkt == Packet(msgcnt, c, p)
           out == FlattenSeq(Parts(pkt))
<1>1. /\ writes < MaxFrames /\ writes' = writes + 1 /\ wire' = wire \o out
      /\ msgcnt' = (msgcnt + 1) % 256 /\ sent' = Append(sent, pkt)
      /\ UNCHANGED <<phase, need, chunk, escapeByte, fullpkt, done, faults>>
  BY DEF WritePacket, reader
<1>2. pkt \in Packets
  BY <1>1, PacketIs
<1>3. out \in Seq(Byte)
  BY <1>2, PartsJoin, FrameType
<1> HIDE DEF pkt, out
<1>4. ReaderType'
  BY <1>1, IInvParts, ReaderSame
<1>5. LineType'
  <2>1. wire \o out \in Seq(Byte) /\ Len(wire \o out) = Len(wire) + Len(out) /\ Len(out) \in Nat
    BY <1>3, TypeFacts
  <2> QED BY <2>1, <1>1, TypeFacts DEF LineType
<1>6. PacketsType'
  <2>1. Append(sent, pkt) \in Seq(Packets) /\ Len(Append(sent, pkt)) = Len(sent) + 1
    BY <1>2, TypeFacts
  <2>2. Counted' /\ msgcnt' \in Byte
    BY <1>1, CountedNext
  <2> QED BY <2>1, <2>2, <1>1, TypeFacts DEF PacketsType
<1> QED BY <1>4, <1>5, <1>6, IInvFrom

LEMMA WriteFailsType ==
  ASSUME IInv, NEW c \in Commands, NEW p \in Payloads, NEW n \in 1 .. 4, WriteFails(c, p, n)
  PROVE  IInv'
<1> DEFINE pkt == Packet(msgcnt, c, p)
           out == FlattenSeq(SubSeq(Parts(pkt), 1, n))
<1>1. /\ writes < MaxFrames /\ writes' = writes + 1 /\ wire' = wire \o out
      /\ msgcnt' = msgcnt \/ msgcnt' = (msgcnt + 1) % 256
      /\ faults < MaxFaults /\ faults' = faults + 1
      /\ UNCHANGED <<phase, need, chunk, escapeByte, fullpkt, sent, done>>
  BY DEF WriteFails, reader
<1>2. pkt \in Packets
  BY <1>1, PacketIs
<1>3. out \in Seq(Byte)
  <2>1. Parts(pkt) \in Seq(Seq(Byte)) /\ Len(Parts(pkt)) = 5
    BY <1>2, PartsJoin
  <2>2. SubSeq(Parts(pkt), 1, n) \in Seq(Seq(Byte))
    <3> DEFINE parts == Parts(pkt)
    <3>1. parts \in Seq(Seq(Byte))
      BY <2>1
    <3>3. Len(parts) = 5
      BY <2>1
    <3> HIDE DEF parts
    <3>2. SubSeq(parts, 1, n) \in Seq(Seq(Byte))
      <4>1. n \in Int /\ 1 <= n /\ n <= Len(parts)
        BY <3>3
      <4>2. \A i \in 1 .. n : parts[i] \in Seq(Byte)
        <5>1. parts \in [1 .. Len(parts) -> Seq(Byte)]
          BY <3>1
        <5>2. 1 .. n \subseteq 1 .. Len(parts)
          BY <4>1
        <5> QED BY <5>1, <5>2
      <4> QED BY <4>1, <4>2
    <3> QED BY <3>2 DEF parts
  <2> QED BY <2>2, FlattenType
<1> HIDE DEF pkt, out
<1>4. ReaderType'
  BY <1>1, IInvParts, ReaderSame
<1>5. LineType'
  <2>1. wire \o out \in Seq(Byte) /\ Len(wire \o out) = Len(wire) + Len(out) /\ Len(out) \in Nat
    BY <1>3, TypeFacts
  <2> QED BY <2>1, <1>1, TypeFacts DEF LineType
<1>6. PacketsType'
  <2>2. Counted' /\ msgcnt' \in Byte
    BY <1>1, CountedNext
  <2> QED BY <2>2, <1>1, TypeFacts DEF PacketsType
<1> QED BY <1>4, <1>5, <1>6, IInvFrom

LEMMA LoseByteType ==
  ASSUME IInv, NEW i \in chunk + 1 .. Len(wire), LoseByte(i)
  PROVE  IInv'
<1>1. /\ faults < MaxFaults /\ faults' = faults + 1 /\ wire' = RemoveAt(wire, i)
      /\ UNCHANGED <<msgcnt, writes, phase, need, chunk, escapeByte, fullpkt, sent, done>>
  BY DEF LoseByte, reader
<1>2. wire \in Seq(Byte) /\ chunk \in Nat /\ Len(wire) \in Nat
  BY TypeFacts
<1>3. RemoveAt(wire, i) \in Seq(Byte) /\ Len(RemoveAt(wire, i)) = Len(wire) - 1
  <2> DEFINE l == SubSeq(wire, 1, i - 1)  r == SubSeq(wire, i + 1, Len(wire))
  <2>1. l \in Seq(Byte) /\ Len(l) = i - 1 /\ r \in Seq(Byte) /\ Len(r) = Len(wire) - i
    BY <1>2
  <2>2. RemoveAt(wire, i) = l \o r
    BY DEF RemoveAt
  <2> HIDE DEF l, r
  <2>3. l \o r \in Seq(Byte) /\ Len(l \o r) = Len(l) + Len(r)
    BY <2>1
  <2> QED BY <1>2, <2>1, <2>2, <2>3
<1>4. ReaderType'
  BY <1>1, IInvParts, ReaderSame
<1>5. LineType'
  <2>1. chunk <= Len(wire) - 1
    BY <1>2
  <2> QED BY <2>1, <1>1, <1>3, TypeFacts DEF LineType
<1>6. PacketsType'
  <2>1. Counted' /\ msgcnt' \in Byte
    BY <1>1, IInvParts, CountedSame DEF PacketsType
  <2> QED BY <1>1, <2>1, TypeFacts DEF PacketsType
<1> QED BY <1>4, <1>5, <1>6, IInvFrom

LEMMA ChangeByteType ==
  ASSUME IInv, NEW i \in chunk + 1 .. Len(wire), NEW b \in Noise, ChangeByte(i, b)
  PROVE  IInv'
<1>1. /\ faults < MaxFaults /\ faults' = faults + 1 /\ wire' = [wire EXCEPT ![i] = b]
      /\ UNCHANGED <<msgcnt, writes, phase, need, chunk, escapeByte, fullpkt, sent, done>>
  BY DEF ChangeByte, reader
<1>2. b \in Byte /\ wire \in Seq(Byte)
  BY BoundAssumption, TypeFacts
<1>0. i \in 1 .. Len(wire)
  BY TypeFacts
<1>3. [wire EXCEPT ![i] = b] \in Seq(Byte) /\ Len([wire EXCEPT ![i] = b]) = Len(wire)
  BY <1>2, <1>0, ExceptSeq
<1>4. ReaderType'
  BY <1>1, IInvParts, ReaderSame
<1>5. LineType'
  BY <1>1, <1>3, TypeFacts DEF LineType
<1>6. PacketsType'
  <2>1. Counted' /\ msgcnt' \in Byte
    BY <1>1, IInvParts, CountedSame DEF PacketsType
  <2> QED BY <1>1, <2>1, TypeFacts DEF PacketsType
<1> QED BY <1>4, <1>5, <1>6, IInvFrom

LEMMA ReadRawType ==
  ASSUME IInv, NEW n \in 1 .. need, n <= Len(wire), ReadRaw(n)
  PROVE  IInv'
<1>1. /\ chunk' = n
      /\ UNCHANGED <<wire, msgcnt, writes, phase, need, escapeByte, fullpkt, sent, done, faults>>
  BY DEF ReadRaw, line
<1>2. ReaderType' /\ PacketsType'
  BY <1>1, IInvParts, ReaderSame, PacketsSame
<1>3. LineType'
  BY <1>1, TypeFacts DEF LineType
<1> QED BY <1>2, <1>3, IInvFrom

\* What a step that takes a byte from the line leaves.
LEMMA TailType ==
  ASSUME NEW w \in Seq(Byte), w # <<>>
  PROVE  Head(w) \in Byte /\ Tail(w) \in Seq(Byte) /\ Len(Tail(w)) = Len(w) - 1
OBVIOUS

LEMMA HighBitType ==
  ASSUME NEW b \in Byte
  PROVE  HighBit(b) \in Byte
BY DEF HighBit, Byte

LEMMA UnescapeType ==
  ASSUME IInv, Unescape
  PROVE  IInv'
<1> DEFINE b == Head(wire)
<1>1. /\ chunk > 0 /\ chunk' = chunk - 1 /\ wire' = Tail(wire)
      /\ UNCHANGED <<msgcnt, writes, sent, done, faults>>
  BY DEF Unescape
<1>2. wire # <<>> /\ b \in Byte /\ Tail(wire) \in Seq(Byte) /\ Len(Tail(wire)) = Len(wire) - 1
  <2>1. wire # <<>>
    BY <1>1, TypeFacts
  <2> QED BY <2>1, TypeFacts, TailType
<1>3. ReaderType' /\ need' \in Nat /\ need' >= need - 1 /\ escapeByte' \in BOOLEAN
  <2>1. CASE escapeByte' = TRUE /\ UNCHANGED <<phase, need, fullpkt>>
    <3>1. ReaderType'
      BY <2>1, IInvParts, ReaderSame
    <3> QED BY <3>1, <2>1, TypeFacts
  <2>2. CASE escapeByte' = FALSE /\ Take(IF escapeByte THEN HighBit(b) ELSE b)
    <3> DEFINE u == IF escapeByte THEN HighBit(b) ELSE b
    <3>1. u \in Byte
      BY <1>2, HighBitType
    <3>2. Take(u)
      BY <2>2
    <3> HIDE DEF u
    <3>3. ReaderType' /\ need' \in Word /\ need' >= need - 1
      BY <3>1, <3>2, TakeType DEF ReaderType
    <3>4. need' \in Nat
      BY <3>3 DEF Word
    <3> QED BY <3>3, <3>4, <2>2
  <2> QED BY <2>1, <2>2 DEF Unescape
<1>4. LineType'
  BY <1>1, <1>2, <1>3, TypeFacts DEF LineType
<1>5. PacketsType'
  BY <1>1, IInvParts, PacketsSame
<1> QED BY <1>3, <1>4, <1>5, IInvFrom

LEMMA ForceReadType ==
  ASSUME IInv, ForceRead
  PROVE  IInv'
<1> DEFINE u == HighBit(Head(wire))
<1>1. /\ chunk = 0 /\ wire # <<>> /\ wire' = Tail(wire) /\ escapeByte' = FALSE /\ Take(u)
      /\ UNCHANGED <<msgcnt, writes, chunk, sent, done, faults>>
  BY DEF ForceRead
<1>2. Head(wire) \in Byte /\ Tail(wire) \in Seq(Byte) /\ Len(Tail(wire)) \in Nat
  BY <1>1, TypeFacts, TailType
<1>3. ReaderType' /\ need' \in Nat
  <2>1. u \in Byte
    BY <1>2, HighBitType
  <2> HIDE DEF u
  <2>2. ReaderType' /\ need' \in Word
    BY <2>1, <1>1, TakeType DEF ReaderType
  <2> QED BY <2>2 DEF Word
<1>4. LineType'
  <2> HIDE DEF u
  <2>1. wire' \in Seq(Byte) /\ chunk' = 0 /\ chunk' <= Len(wire') /\ chunk' <= need'
    BY <1>1, <1>2, <1>3
  <2>2. chunk' \in Nat /\ escapeByte' \in BOOLEAN
    BY <1>1
  <2> QED BY <2>1, <2>2 DEF LineType
<1>5. PacketsType'
  BY <1>1, IInvParts, PacketsSame
<1> QED BY <1>3, <1>4, <1>5, IInvFrom

\* The packet returned is one that was written, after the one before.
LEMMA ReturnType ==
  ASSUME IInv, NEW pkt, Return(pkt)
  PROVE  /\ done' \in Nat /\ done' <= Len(sent)
         /\ \A i \in done + 1 .. Len(sent) :
              sent[i] = pkt => /\ done' \in done + 1 .. i
                               /\ sent[done'] = pkt
<1> DEFINE like == {i \in done + 1 .. Len(sent) : sent[i] = pkt}
           S == like \cup {Len(sent)}
<1>1. done' = Min(S)
  BY DEF Return
<1>2. done \in Nat /\ Len(sent) \in Nat
  BY TypeFacts
<1>3. S \subseteq Nat /\ S # {} /\ \A i \in S : i <= Len(sent)
  BY <1>2
<1>4. done' \in S /\ \A i \in S : done' <= i
  <2> HIDE DEF S
  <2> QED BY <1>1, <1>3, MinIs
<1>5. ASSUME NEW i \in done + 1 .. Len(sent), sent[i] = pkt
      PROVE  done' \in done + 1 .. i /\ sent[done'] = pkt
  <2>1. i \in S /\ i \in Nat /\ done + 1 <= i
    BY <1>5, <1>2
  <2>2. done' <= i
    BY <2>1, <1>4
  <2>3. CASE done' \in like
    <3>1. done' \in done + 1 .. Len(sent) /\ sent[done'] = pkt
      BY <2>3
    <3> QED BY <3>1, <2>1, <2>2, <1>2
  <2>4. CASE done' = Len(sent)
    <3>1. done' = i
      BY <2>1, <2>2, <2>4, <1>2, <1>3
    <3> QED BY <3>1, <2>1, <1>5, <1>2
  <2> QED BY <1>4, <2>3, <2>4
<1>6. done' \in Nat /\ done' <= Len(sent)
  <2> HIDE DEF S
  <2> QED BY <1>3, <1>4
<1> QED BY <1>5, <1>6

LEMMA ParsePacketType ==
  ASSUME IInv, ParsePacket
  PROVE  IInv'
<1>1. /\ phase = "parse" /\ phase' = "delimiter" /\ need' = 1 /\ fullpkt' = <<>>
      /\ UNCHANGED <<wire, msgcnt, writes, chunk, escapeByte, sent, faults>>
  BY DEF ParsePacket, StartOver, Expect, line
<1>2. ReaderType'
  <2>1. Len(<<>>) = 0 /\ <<>> \in Seq(Byte)
    OBVIOUS
  <2>2. Fits'
    BY <2>1, <1>1 DEF Fits
  <2> QED BY <1>1, <2>1, <2>2 DEF ReaderType, Word
<1>3. LineType'
  <2>1. chunk = 0
    <3>1. need = 0
      BY <1>1, IInvParts DEF ReaderType
    <3> QED BY <3>1, TypeFacts
  <2> QED BY <2>1, <1>1, TypeFacts DEF LineType
<1>4. done' \in Nat /\ done' <= Len(sent)
  <2>1. CASE UNCHANGED done
    BY <2>1, TypeFacts
  <2>2. ASSUME NEW pkt, Return(pkt) PROVE done' \in Nat /\ done' <= Len(sent)
    BY <2>2, ReturnType
  <2> QED BY <2>1, <2>2 DEF ParsePacket
<1>5. PacketsType'
  <2>1. Counted' /\ msgcnt' \in Byte
    BY <1>1, IInvParts, CountedSame DEF PacketsType
  <2> QED BY <1>1, <1>4, <2>1, TypeFacts DEF PacketsType
<1> QED BY <1>2, <1>3, <1>5, IInvFrom

LEMMA NextIInv == IInv /\ [Next]_vars => IInv'
<1> SUFFICES ASSUME IInv, [Next]_vars PROVE IInv'
  OBVIOUS
<1>1. CASE UNCHANGED vars
  <2>1. UNCHANGED <<wire, msgcnt, writes, phase, need, chunk, escapeByte, fullpkt,
                    sent, done, faults>>
    BY <1>1 DEF vars, line, reader
  <2>2. ReaderType' /\ PacketsType'
    BY <2>1, IInvParts, ReaderSame, PacketsSame
  <2>3. LineType'
    BY <2>1, IInvParts DEF LineType
  <2> QED BY <2>2, <2>3, IInvFrom
<1>2. CASE Read
  BY <1>2, ReadRawType, UnescapeType, ForceReadType, ParsePacketType DEF Read
<1>3. CASE Write
  BY <1>3, WritePacketType, WriteFailsType DEF Write
<1>4. CASE Disturb
  BY <1>4, LoseByteType, ChangeByteType DEF Disturb
<1> QED BY <1>1, <1>2, <1>3, <1>4 DEF Next

LEMMA IInvAlways == Spec => []IInv
BY InitIInv, NextIInv, PTL DEF Spec

\* The types are right whatever the line does to the bytes: of each disturbed
\* length the reader asks for as many bytes as a uint16 can count, a byte that
\* gets its high bit back stays a byte, and a read never asks for more than is
\* missing (uartgw.go, ReadPacket; escaping.go, unescapingReader.Read).
THEOREM TypeCorrect == Spec => []TypeOK
<1>1. IInv => TypeOK
  BY DEF IInv
<1> QED BY <1>1, IInvAlways, PTL

----------------------------------------------------------------------------
(* In step *)

\* Where the reader is in a frame that it has read the first k bytes of.
LEMMA InsideFacts ==
  ASSUME IInv, NEW pkt \in Packets, NEW pkts \in Seq(Packets), Inside(Frame(pkt), pkts)
  PROVE  LET k == Len(fullpkt)
             n == Len(pkt)
         IN  /\ k \in Nat /\ n \in Nat /\ n >= 3 /\ k <= n + 5
             /\ \A i \in 1 .. k : fullpkt[i] = Frame(pkt)[i]
             /\ k >= 3 => LengthField = n
             /\ phase = "parse" <=> k = n + 5
<1> DEFINE k == Len(fullpkt)
           n == Len(pkt)
           f == Frame(pkt)
<1>1. f \in Seq(Byte) /\ Len(f) = n + 5 /\ f[1] = DELIM /\ 256 * f[2] + f[3] = n
  BY FrameBytes
<1>2. n \in Nat /\ n >= 3
  BY PacketType DEF Word
<1>3. k <= Len(f) /\ fullpkt = SubSeq(f, 1, k) /\ k \in Nat
  BY TypeFacts DEF Inside
<1> HIDE DEF f, n
<1>4. \A i \in 1 .. k : fullpkt[i] = f[i]
  <2> DEFINE kk == k
  <2>1. fullpkt = SubSeq(f, 1, kk) /\ kk \in Nat /\ kk <= Len(f)
    BY <1>3
  <2> HIDE DEF kk
  <2>2. \A i \in 1 .. kk : SubSeq(f, 1, kk)[i] = f[i]
    BY <1>1, <2>1
  <2> QED BY <2>1, <2>2 DEF kk
<1>5. k >= 3 => LengthField = n
  <2> SUFFICES ASSUME k >= 3 PROVE LengthField = n
    OBVIOUS
  <2>1. 2 \in 1 .. k /\ 3 \in 1 .. k
    BY <1>3
  <2>2. fullpkt[2] = f[2] /\ fullpkt[3] = f[3]
    BY <2>1, <1>4
  <2> QED BY <2>2, <1>1 DEF LengthField
<1>6. phase = "parse" <=> k = n + 5
  <2> HIDE DEF k
  <2>0. Fits
    BY DEF IInv
  <2>1. CASE phase = "parse"
    <3>1. k >= 3 /\ k = 5 + LengthField
      BY <2>0, <2>1 DEF Fits, k
    <3> QED BY <3>1, <1>2, <1>5, <2>1
  <2>2. CASE phase = "delimiter"
    <3>1. k = 0
      BY <2>0, <2>2 DEF Fits, k
    <3> QED BY <3>1, <1>2, <2>2
  <2>3. CASE phase = "length"
    <3>1. k = 1 \/ k = 2
      BY <2>0, <2>3 DEF Fits, k
    <3> QED BY <3>1, <1>2, <2>3
  <2>4. CASE phase = "body"
    <3>1. k >= 3 /\ need > 0 /\ k + need = 3 + LengthField
      BY <2>0, <2>4 DEF Fits, k
    <3>2. need \in Nat
      BY TypeFacts
    <3>3. LengthField = n /\ k \in Nat
      BY <3>1, <1>3, <1>5
    <3>4. k # n + 5
      BY <3>1, <3>2, <3>3, <1>2
    <3> QED BY <3>4, <2>4
  <2>5. CASE phase = "crc"
    <3>1. k >= 3 /\ need \in {1, 2} /\ k + need = 5 + LengthField
      BY <2>0, <2>5 DEF Fits, k
    <3>3. LengthField = n /\ k \in Nat
      BY <3>1, <1>3, <1>5
    <3>4. k # n + 5
      BY <3>1, <3>3, <1>2
    <3> QED BY <3>4, <2>5
  <2> QED BY <2>0, <2>1, <2>2, <2>3, <2>4, <2>5 DEF Fits
<1> QED BY <1>1, <1>2, <1>3, <1>4, <1>5, <1>6 DEF n, f

\* The next byte of the frame is at the head of the line.
LEMMA NextByte ==
  ASSUME IInv, NEW pkt \in Packets, NEW pkts \in Seq(Packets), Inside(Frame(pkt), pkts),
         wire # <<>>, phase # "parse"
  PROVE  LET k == Len(fullpkt)
             b == Head(wire)
         IN  /\ Frame(pkt)[k + 1] \in Byte
             /\ escapeByte => b # ESC
             /\ b # ESC => /\ Frame(pkt)[k + 1] = (IF escapeByte THEN HighBit(b) ELSE b)
                           /\ Tail(wire) = Remains(Frame(pkt), k + 1) \o Stream(pkts)
<1> DEFINE k == Len(fullpkt)
           n == Len(pkt)
           f == Frame(pkt)
           b == Head(wire)
           st == Stream(pkts)
<1>1. k \in Nat /\ n \in Nat /\ n >= 3 /\ k <= n + 5 /\ k # n + 5
  BY InsideFacts
<1>2. f \in Seq(Byte) /\ Len(f) = n + 5 /\ f[1] = DELIM
  BY FrameBytes
<1>3. Ahead = Remains(f, k) \o st
  BY DEF Inside
<1>4. st \in Seq(Byte)
  BY StreamType
<1>5. wire \in Seq(Byte) /\ escapeByte \in BOOLEAN
  BY TypeFacts
<1> HIDE DEF n, f, k, b, st
<1>6. k + 1 \in 0 .. Len(f)
  BY <1>1, <1>2
<1> DEFINE rem == Remains(f, k + 1)
           rest == rem \o st
<1>7. rem \in Seq(Byte)
  BY <1>2, <1>6, RemainsType
<1> HIDE DEF rem
<1>8. rest \in Seq(Byte)
  BY <1>4, <1>7
<1>9. CASE k = 0
  <2>1. f # <<>>
    BY <1>1, <1>2
  <2>2. Remains(f, k) = <<DELIM>> \o rem
    BY <2>1, <1>2, <1>9, RemainsFirst DEF rem
  <2>3. <<DELIM>> \in Seq(Byte) /\ DELIM \in Byte /\ DELIM # ESC
    BY DEF Byte, DELIM, ESC
  <2>4. Ahead = <<DELIM>> \o rest
    BY <1>3, <1>4, <1>7, <2>2, <2>3
  <2> HIDE DEF rest
  <2>5. (IF escapeByte THEN <<ESC>> ELSE <<>>) \o wire = <<DELIM>> \o rest
    BY <2>4 DEF Ahead
  <2>6. ~escapeByte /\ Head(wire) = DELIM /\ Tail(wire) = rest
    BY <2>5, <1>5, <1>8, DelimiterAhead
  <2>7. f[k + 1] = DELIM
    BY <1>2, <1>9
  <2> QED BY <2>3, <2>6, <2>7 DEF rest, rem, f, k, b, st
<1>10. CASE k # 0
  <2>1. k \in 1 .. Len(f) - 1
    BY <1>1, <1>2, <1>10
  <2>2. f[k + 1] \in Byte /\ Remains(f, k) = EscapeByte(f[k + 1]) \o rem
    BY <2>1, <1>2, RemainsNext DEF rem
  <2> DEFINE x == f[k + 1]
  <2>3. x \in Byte /\ Remains(f, k) = EscapeByte(x) \o rem
    BY <2>2
  <2> HIDE DEF x
  <2>4. EscapeByte(x) \in Seq(Byte)
    BY <2>3, CellType
  <2>5. Ahead = EscapeByte(x) \o rest
    <3> DEFINE cell == EscapeByte(x)
    <3>1. cell \in Seq(Byte)
      BY <2>4
    <3>2. Ahead = (cell \o rem) \o st
      BY <1>3, <2>3
    <3> HIDE DEF cell
    <3>3. (cell \o rem) \o st = cell \o (rem \o st)
      BY <3>1, <1>4, <1>7
    <3> QED BY <3>2, <3>3 DEF cell
  <2> HIDE DEF rest
  <2>6. (IF escapeByte THEN <<ESC>> ELSE <<>>) \o wire = EscapeByte(x) \o rest
    BY <2>5 DEF Ahead
  <2>7. /\ escapeByte => b # ESC
        /\ b # ESC => /\ x = (IF escapeByte THEN HighBit(b) ELSE b)
                      /\ Tail(wire) = rest
    BY <2>6, <2>3, <1>5, <1>8, CellAhead DEF b
  <2> QED BY <2>3, <2>7 DEF x, rest, rem, f, k, b, st
<1> QED BY <1>9, <1>10

\* In step no byte is thrown away: the first one is the delimiter, and the
\* checksum is right.
LEMMA CollectInside ==
  ASSUME IInv, NEW pkt \in Packets, NEW pkts \in Seq(Packets), Inside(Frame(pkt), pkts),
         NEW u, u = Frame(pkt)[Len(fullpkt) + 1], Take(u)
  PROVE  Collect(u)
<1> DEFINE k == Len(fullpkt)
           n == Len(pkt)
           f == Frame(pkt)
<1>1. k \in Nat /\ n \in Nat /\ n >= 3 /\ k <= n + 5
  BY InsideFacts
<1>2. \A i \in 1 .. k : fullpkt[i] = f[i]
  BY InsideFacts
<1>3. k >= 3 => LengthField = n
  BY InsideFacts
<1>4. f[1] = DELIM /\ 256 * f[n + 4] + f[n + 5] = Checksum(Summed(pkt))
  BY FrameBytes
<1>5. f \in Seq(Byte) /\ Len(f) = n + 5 /\ SubSeq(f, 1, n + 3) = Summed(pkt)
  BY FrameBytes
<1>6. fullpkt = SubSeq(f, 1, k) /\ fullpkt \in Seq(Byte)
  BY TypeFacts DEF Inside
<1>7. u = f[k + 1]
  OBVIOUS
<1>8. Fits
  BY DEF IInv
<1>9. CASE phase = "delimiter"
  <2>1. k = 0
    BY <1>8, <1>9 DEF Fits
  <2>2. u = DELIM
    BY <2>1, <1>4, <1>7
  <2> QED BY <2>2, <1>9 DEF Take, Delimiter
<1>10. CASE phase = "crc" /\ need = 1
  <2>1. k >= 3 /\ k + 1 = 5 + LengthField
    BY <1>8, <1>10 DEF Fits
  <2>2. k = n + 4
    <3> HIDE DEF k, n
    <3>1. LengthField = n
      BY <2>1, <1>3
    <3> QED BY <3>1, <2>1, <1>1
  <2> HIDE DEF n, f, k
  <2>3. fullpkt[k] = f[n + 4] /\ u = f[n + 5]
    BY <2>2, <1>1, <1>2, <1>7
  <2>4. SubSeq(fullpkt, 1, k - 1) = Summed(pkt)
    <3> DEFINE m == n + 3
    <3>1. m \in Nat /\ m + 1 = k /\ m + 2 = Len(f)
      BY <2>2, <1>1, <1>5
    <3> HIDE DEF m
    <3>2. SubSeq(SubSeq(f, 1, m + 1), 1, m) = SubSeq(f, 1, m)
      BY <3>1, <1>5
    <3>3. SubSeq(f, 1, m) = Summed(pkt) /\ k - 1 = m
      BY <3>1, <1>5, <1>1 DEF m
    <3> QED BY <3>1, <3>2, <3>3, <1>6
  <2>5. 256 * fullpkt[k] + u = Checksum(SubSeq(fullpkt, 1, k - 1))
    BY <2>3, <2>4, <1>4
  <2>6. Crc(u)
    BY <1>10 DEF Take
  <2>7. \/ need = 1 /\ Collect(u)
        \/ need = 1 /\ 256 * fullpkt[k] + u # Checksum(SubSeq(fullpkt, 1, k - 1))
    BY <2>6, <1>10 DEF Crc, k
  <2> QED BY <2>5, <2>7
<1>11. CASE phase \in {"length", "body"} \/ (phase = "crc" /\ need # 1)
  BY <1>11 DEF Take, Length, Body, Crc
<1> QED BY <1>9, <1>10, <1>11 DEF Take

\* Each byte of the line is taken for the one of the frame that it stands for.
LEMMA ByteInside ==
  ASSUME IInv, NEW pkt \in Packets, NEW pkts \in Seq(Packets), Inside(Frame(pkt), pkts),
         wire # <<>>, escapeByte \/ Head(wire) # ESC, wire' = Tail(wire), escapeByte' = FALSE,
         Take(IF escapeByte THEN HighBit(Head(wire)) ELSE Head(wire))
  PROVE  Inside(Frame(pkt), pkts)'
<1> DEFINE k == Len(fullpkt)
           n == Len(pkt)
           f == Frame(pkt)
           u == IF escapeByte THEN HighBit(Head(wire)) ELSE Head(wire)
<1>1. phase # "parse"
  BY DEF Take
<1>2. u = f[k + 1] /\ u \in Byte /\ Tail(wire) = Remains(f, k + 1) \o Stream(pkts)
  BY <1>1, NextByte
<1>3. Take(u)
  OBVIOUS
<1> HIDE DEF u
<1>4. Collect(u)
  BY <1>2, <1>3, CollectInside
<1>5. k \in Nat /\ n \in Nat /\ k <= n + 5 /\ k # n + 5
  BY <1>1, InsideFacts
<1>6. f \in Seq(Byte) /\ Len(f) = n + 5
  BY FrameBytes
<1>7. fullpkt \in Seq(Byte) /\ fullpkt = SubSeq(f, 1, k)
  BY TypeFacts DEF Inside
<1>8. Len(fullpkt') = k + 1
  BY <1>2, <1>4, <1>7, CollectIs
<1>9. fullpkt' = SubSeq(f, 1, k + 1)
  <2>1. fullpkt' = Append(fullpkt, u)
    BY <1>4 DEF Collect
  <2> DEFINE kk == k  m == Len(f)
  <2>2. kk \in Nat /\ kk < m /\ m = Len(f)
    BY <1>5, <1>6
  <2>3. fullpkt' = Append(SubSeq(f, 1, kk), f[kk + 1])
    BY <2>1, <1>2, <1>7
  <2> HIDE DEF f, kk, m
  <2>4. Append(SubSeq(f, 1, kk), f[kk + 1]) = SubSeq(f, 1, kk + 1)
    BY <2>2, <1>6
  <2> QED BY <2>3, <2>4 DEF kk
<1>10. Ahead' = wire'
  <2>1. Tail(wire) \in Seq(Byte)
    BY TypeFacts, TailType
  <2>2. Ahead' = <<>> \o wire'
    BY DEF Ahead
  <2> QED BY <2>1, <2>2
<1>11. Ahead' = Remains(f, k + 1) \o Stream(pkts)
  BY <1>2, <1>10
<1>12. k + 1 <= Len(f)
  BY <1>5, <1>6
<1> QED BY <1>8, <1>9, <1>11, <1>12 DEF Inside

\* The two disjuncts of Between, with names for the packets.
LEMMA BetweenCases ==
  ASSUME IInv, NEW d \in done .. Len(sent), Between(d)
  PROVE  \/ d = Len(sent) /\ fullpkt = <<>> /\ Ahead = <<>>
         \/ /\ d + 1 \in 1 .. Len(sent)
            /\ \E pkt \in Packets : \E pkts \in Seq(Packets) :
                 /\ pkt = sent[d + 1] /\ pkts = SubSeq(sent, d + 2, Len(sent))
                 /\ Inside(Frame(pkt), pkts)
<1>1. sent \in Seq(Packets) /\ done \in Nat /\ Len(sent) \in Nat
  BY TypeFacts
<1>2. CASE \E frame \in {Frame(sent[i]) : i \in {d + 1} \cap DOMAIN sent} :
              Inside(frame, SubSeq(sent, d + 2, Len(sent)))
  <2>1. d + 1 \in DOMAIN sent /\ Inside(Frame(sent[d + 1]), SubSeq(sent, d + 2, Len(sent)))
    BY <1>2, Zenon
  <2>2. d + 1 \in 1 .. Len(sent) /\ sent[d + 1] \in Packets
    BY <1>1, <2>1
  <2>3. SubSeq(sent, d + 2, Len(sent)) \in Seq(Packets)
    BY <1>1
  <2> QED BY <2>1, <2>2, <2>3, Zenon
<1> QED BY <1>2 DEF Between

LEMMA BetweenFrom ==
  ASSUME NEW d \in Nat, NEW pkt, NEW pkts,
         \A i \in done' + 1 .. d : faults' > 0 \/ ~Readable(sent'[i]),
         d + 1 \in DOMAIN sent', pkt = sent'[d + 1], pkts = SubSeq(sent', d + 2, Len(sent')),
         Inside(Frame(pkt), pkts)'
  PROVE  Between(d)'
<1>1. Frame(pkt) \in {Frame(sent'[i]) : i \in {d + 1} \cap DOMAIN sent'}
  OBVIOUS
<1> QED BY <1>1, Zenon DEF Between

\* A step that takes a byte.
LEMMA ByteInStep ==
  ASSUME IInv, InStep, wire # <<>>, UNCHANGED <<sent, done, faults>>,
         escapeByte \/ Head(wire) # ESC, wire' = Tail(wire), escapeByte' = FALSE,
         Take(IF escapeByte THEN HighBit(Head(wire)) ELSE Head(wire))
  PROVE  InStep'
<1>1. PICK d \in done .. Len(sent) : Between(d)
  BY DEF InStep
<1>2. done \in Nat /\ Len(sent) \in Nat /\ sent \in Seq(Packets)
  BY TypeFacts
<1>3. CASE Ahead = <<>>
  <2>1. wire \in Seq(Byte) /\ ESC \in Byte
    BY TypeFacts DEF Byte, ESC
  <2>2. Ahead # <<>>
    BY <2>1 DEF Ahead
  <2> QED BY <1>3, <2>2
<1>4. CASE /\ d + 1 \in 1 .. Len(sent)
           /\ \E pkt \in Packets : \E pkts \in Seq(Packets) :
                /\ pkt = sent[d + 1] /\ pkts = SubSeq(sent, d + 2, Len(sent))
                /\ Inside(Frame(pkt), pkts)
  <2>1. PICK pkt \in Packets : \E pkts \in Seq(Packets) :
                /\ pkt = sent[d + 1] /\ pkts = SubSeq(sent, d + 2, Len(sent))
                /\ Inside(Frame(pkt), pkts)
    BY <1>4
  <2>2. PICK pkts \in Seq(Packets) :
                /\ pkt = sent[d + 1] /\ pkts = SubSeq(sent, d + 2, Len(sent))
                /\ Inside(Frame(pkt), pkts)
    BY <2>1
  <2>3. Inside(Frame(pkt), pkts)'
    BY <2>2, ByteInside
  <2>4. \A i \in done' + 1 .. d : faults' > 0 \/ ~Readable(sent'[i])
    BY <1>1 DEF Between
  <2>5. d \in Nat /\ d + 1 \in DOMAIN sent'
    BY <1>2, <1>4
  <2>6. pkt = sent'[d + 1] /\ pkts = SubSeq(sent', d + 2, Len(sent'))
    BY <2>2
  <2>7. Between(d)'
    BY <2>3, <2>4, <2>5, <2>6, BetweenFrom
  <2> QED BY <2>7, <1>1 DEF InStep
<1> QED BY <1>1, <1>3, <1>4, BetweenCases

\* Nothing that InStep is about changes.
LEMMA SameInStep ==
  ASSUME InStep, UNCHANGED <<sent, done, faults, fullpkt>>, Ahead' = Ahead
  PROVE  InStep'
BY DEF InStep, Between, Inside

LEMMA UnescapeInStep ==
  ASSUME IInv, InStep, Unescape
  PROVE  InStep'
<1> DEFINE b == Head(wire)
<1>1. chunk > 0 /\ wire' = Tail(wire) /\ UNCHANGED <<sent, done, faults>>
  BY DEF Unescape
<1>2. wire # <<>> /\ wire \in Seq(Byte)
  BY <1>1, TypeFacts
<1>3. CASE b # ESC
  <2>1. escapeByte' = FALSE /\ Take(IF escapeByte THEN HighBit(b) ELSE b)
    BY <1>3 DEF Unescape
  <2> QED BY <2>1, <1>1, <1>2, <1>3, ByteInStep
<1>4. CASE b = ESC
  <2>1. escapeByte' = TRUE /\ UNCHANGED <<phase, need, fullpkt>>
    BY <1>4 DEF Unescape, Take
  <2>2. CASE ~escapeByte
    <3>1. wire = <<ESC>> \o Tail(wire)
      BY <1>2, <1>4
    <3>2. Ahead' = <<ESC>> \o Tail(wire)
      BY <1>1, <2>1 DEF Ahead
    <3>3. Ahead = wire
      BY <1>2, <2>2 DEF Ahead
    <3> QED BY <3>1, <3>2, <3>3, <1>1, <2>1, SameInStep
  <2>3. CASE escapeByte
    <3>1. PICK d \in done .. Len(sent) : Between(d)
      BY DEF InStep
    <3>2. Ahead # <<>>
      <4>1. ESC \in Byte
        BY DEF Byte, ESC
      <4> QED BY <4>1, <1>2 DEF Ahead
    <3>3. phase # "parse"
      <4>1. need # 0
        BY <1>1, TypeFacts
      <4> QED BY <4>1 DEF IInv, TypeOK
    <3>4. PICK pkt \in Packets : \E pkts \in Seq(Packets) : Inside(Frame(pkt), pkts)
      BY <3>1, <3>2, BetweenCases
    <3>5. b # ESC
      BY <3>3, <3>4, <1>2, <2>3, NextByte
    <3> QED BY <3>5, <1>4
  <2> QED BY <2>2, <2>3
<1> QED BY <1>3, <1>4

LEMMA ForceReadInStep ==
  ASSUME IInv, InStep, ForceRead
  PROVE  InStep'
<1>1. /\ wire # <<>> /\ escapeByte /\ wire' = Tail(wire) /\ escapeByte' = FALSE
      /\ Take(HighBit(Head(wire))) /\ UNCHANGED <<sent, done, faults>>
  BY DEF ForceRead
<1>2. Take(IF escapeByte THEN HighBit(Head(wire)) ELSE Head(wire))
  BY <1>1
<1> QED BY <1>1, <1>2, ByteInStep

\* A frame read to its end.
LEMMA ParseFrame ==
  ASSUME IInv, phase = "parse", NEW pkt \in Packets, NEW pkts \in Seq(Packets),
         Inside(Frame(pkt), pkts)
  PROVE  /\ fullpkt = Frame(pkt) /\ Len(fullpkt) >= 8
         /\ SubSeq(fullpkt, 4, Len(fullpkt) - 2) = pkt
         /\ Ahead = Stream(pkts)
<1> DEFINE n == Len(pkt)
           f == Frame(pkt)
<1>1. Len(fullpkt) = n + 5 /\ n \in Nat /\ n >= 3
  BY InsideFacts
<1>2. f \in Seq(Byte) /\ Len(f) = n + 5 /\ SubSeq(f, 4, n + 3) = pkt
  BY FrameBytes
<1>3. fullpkt = SubSeq(f, 1, Len(fullpkt)) /\ Ahead = Remains(f, Len(fullpkt)) \o Stream(pkts)
  BY DEF Inside
<1> HIDE DEF n, f
<1>4. SubSeq(f, 1, Len(f)) = f
  BY <1>2
<1>5. fullpkt = f
  BY <1>1, <1>2, <1>3, <1>4
<1>6. Len(fullpkt) - 2 = n + 3
  BY <1>1
<1>7. Remains(f, Len(f)) = <<>>
  <2>1. f # <<>>
    BY <1>1, <1>2
  <2> QED BY <2>1, <1>2, RemainsEnd
<1>8. Ahead = Stream(pkts)
  <2>1. Stream(pkts) \in Seq(Byte)
    BY StreamType
  <2>2. Ahead = <<>> \o Stream(pkts)
    BY <1>1, <1>2, <1>3, <1>7
  <2> QED BY <2>1, <2>2
<1> QED BY <1>1, <1>2, <1>5, <1>6, <1>8 DEF f

\* In step, the reader parses a frame that was written; the packets before it
\* that have not been returned could not be interpreted or were disturbed.
LEMMA ParseWhere ==
  ASSUME IInv, InStep, phase = "parse"
  PROVE  \E d \in done .. Len(sent) :
           /\ d + 1 \in 1 .. Len(sent) /\ sent[d + 1] \in Packets
           /\ SubSeq(sent, d + 2, Len(sent)) \in Seq(Packets)
           /\ \A i \in done + 1 .. d : faults > 0 \/ ~Readable(sent[i])
           /\ fullpkt = Frame(sent[d + 1]) /\ Len(fullpkt) >= 8
           /\ SubSeq(fullpkt, 4, Len(fullpkt) - 2) = sent[d + 1]
           /\ Ahead = Stream(SubSeq(sent, d + 2, Len(sent)))
<1>1. PICK d \in done .. Len(sent) : Between(d)
  BY DEF InStep
<1>2. fullpkt # <<>>
  <2>1. Len(fullpkt) >= 3
    BY DEF IInv, Fits
  <2> QED BY <2>1
<1>3. d + 1 \in 1 .. Len(sent)
  BY <1>1, <1>2, BetweenCases
<1>4. PICK pkt \in Packets : \E pkts \in Seq(Packets) :
        /\ pkt = sent[d + 1] /\ pkts = SubSeq(sent, d + 2, Len(sent))
        /\ Inside(Frame(pkt), pkts)
  BY <1>1, <1>2, BetweenCases
<1>5. PICK pkts \in Seq(Packets) :
        /\ pkt = sent[d + 1] /\ pkts = SubSeq(sent, d + 2, Len(sent))
        /\ Inside(Frame(pkt), pkts)
  BY <1>4
<1>6. /\ fullpkt = Frame(pkt) /\ Len(fullpkt) >= 8
      /\ SubSeq(fullpkt, 4, Len(fullpkt) - 2) = pkt
      /\ Ahead = Stream(pkts)
  BY <1>5, ParseFrame
<1>7. \A i \in done + 1 .. d : faults > 0 \/ ~Readable(sent[i])
  BY <1>1 DEF Between
<1> QED BY <1>3, <1>5, <1>6, <1>7

\* The packets from a place on: the first one and the others.
LEMMA SubSeqFirst ==
  ASSUME NEW X, NEW s \in Seq(X), NEW m \in 1 .. Len(s)
  PROVE  /\ SubSeq(s, m, Len(s)) # <<>>
         /\ SubSeq(s, m, Len(s))[1] = s[m]
         /\ Tail(SubSeq(s, m, Len(s))) = SubSeq(s, m + 1, Len(s))
<1> DEFINE l == Len(s)  t == SubSeq(s, m, l)  u == SubSeq(s, m + 1, l)
<1>1. /\ l \in Nat /\ m \in Nat /\ 1 <= m /\ m <= l
      /\ t \in Seq(X) /\ Len(t) = (l - m) + 1
      /\ u \in Seq(X) /\ Len(u) = l - m
  OBVIOUS
<1>2. \A i \in 1 .. (l - m) + 1 : t[i] = s[m + i - 1]
  OBVIOUS
<1>3. \A i \in 1 .. l - m : u[i] = s[m + i]
  OBVIOUS
<1> HIDE DEF t, u, l
<1>4. t # <<>> /\ t[1] = s[m]
  BY <1>1, <1>2
<1>5. Tail(t) \in Seq(X) /\ Len(Tail(t)) = l - m
  BY <1>1, <1>4
<1>6. \A i \in 1 .. l - m : Tail(t)[i] = t[i + 1]
  BY <1>1, <1>4
<1>7. \A i \in 1 .. l - m : Tail(t)[i] = u[i]
  <2> TAKE i \in 1 .. l - m
  <2>1. i + 1 \in 1 .. (l - m) + 1 /\ m + (i + 1) - 1 = m + i
    BY <1>1
  <2> QED BY <2>1, <1>2, <1>3, <1>6
<1>8. Tail(t) = u
  BY <1>1, <1>5, <1>7, SeqEqual
<1> QED BY <1>4, <1>8 DEF t, u, l

LEMMA ParsePacketInStep ==
  ASSUME IInv, InStep, ParsePacket
  PROVE  InStep'
<1>1. /\ phase = "parse" /\ fullpkt' = <<>>
      /\ UNCHANGED <<wire, escapeByte, sent, faults>>
  BY DEF ParsePacket, StartOver, line
<1>2. PICK d \in done .. Len(sent) :
           /\ d + 1 \in 1 .. Len(sent) /\ sent[d + 1] \in Packets
           /\ SubSeq(sent, d + 2, Len(sent)) \in Seq(Packets)
           /\ \A i \in done + 1 .. d : faults > 0 \/ ~Readable(sent[i])
           /\ fullpkt = Frame(sent[d + 1]) /\ Len(fullpkt) >= 8
           /\ SubSeq(fullpkt, 4, Len(fullpkt) - 2) = sent[d + 1]
           /\ Ahead = Stream(SubSeq(sent, d + 2, Len(sent)))
  BY <1>1, ParseWhere
<1> DEFINE e == d + 1
           pkts == SubSeq(sent, d + 2, Len(sent))
<1>3. /\ sent \in Seq(Packets) /\ Len(sent) \in Nat /\ done \in Nat /\ d \in Nat
      /\ done <= d /\ e \in 1 .. Len(sent) /\ faults \in Nat
  BY <1>2, TypeFacts
<1>4. /\ done' \in Nat /\ done' <= e
      /\ \A i \in done' + 1 .. e : faults > 0 \/ ~Readable(sent[i])
  <2>1. CASE Readable(sent[e]) /\ Return(sent[e])
    <3>1. e \in done + 1 .. Len(sent)
      BY <1>3
    <3>2. done' \in done + 1 .. e /\ sent[done'] = sent[e]
      BY <2>1, <3>1, ReturnType
    <3>3. CASE faults = 0
      <4>1. done' \notin done + 1 .. d
        BY <1>2, <2>1, <3>2, <3>3
      <4>2. done' = e
        BY <3>2, <4>1, <1>3
      <4> QED BY <4>2, <1>3
    <3>4. done' \in Nat /\ done' <= e
      <4> HIDE DEF e
      <4> QED BY <3>2, <1>3
    <3>5. faults = 0 \/ faults > 0
      BY <1>3
    <3> QED BY <3>3, <3>4, <3>5
  <2>2. CASE ~Readable(sent[e]) /\ done' = done
    <3>1. ASSUME NEW i \in done' + 1 .. e PROVE faults > 0 \/ ~Readable(sent[i])
      <4>1. i = e \/ i \in done + 1 .. d
        BY <2>2, <1>3
      <4> QED BY <4>1, <1>2, <2>2
    <3> QED BY <3>1, <2>2, <1>3
  <2>3. \/ Readable(sent[e]) /\ Return(sent[e])
        \/ ~Readable(sent[e]) /\ done' = done
    BY <1>2 DEF ParsePacket
  <2> QED BY <2>1, <2>2, <2>3
<1>5. Ahead' = Stream(pkts)
  <2>1. Ahead' = Ahead
    BY <1>1 DEF Ahead
  <2> QED BY <2>1, <1>2
<1>6. CASE e = Len(sent)
  <2>1. pkts = <<>>
    BY <1>3, <1>6
  <2>2. Ahead' = <<>>
    BY <1>5, <2>1, StreamEmpty
  <2>3. \A i \in done' + 1 .. e : faults' > 0 \/ ~Readable(sent'[i])
    BY <1>1, <1>4
  <2>4. e = Len(sent')
    BY <1>1, <1>6
  <2>5. Between(e)'
    BY <1>1, <2>2, <2>3, <2>4 DEF Between
  <2>6. e \in done' .. Len(sent')
    BY <1>1, <1>3, <1>4
  <2> QED BY <2>5, <2>6 DEF InStep
<1>7. CASE e # Len(sent)
  <2> DEFINE nxt == sent[d + 2]
             rest == SubSeq(sent, d + 3, Len(sent))
  <2>1. d + 2 \in 1 .. Len(sent)
    BY <1>3, <1>7
  <2>2. nxt \in Packets /\ rest \in Seq(Packets)
    BY <1>3, <2>1
  <2>3. pkts # <<>> /\ pkts[1] = nxt /\ Tail(pkts) = rest
    <3>1. (d + 2) + 1 = d + 3
      BY <1>3
    <3> QED BY <3>1, <1>3, <2>1, SubSeqFirst
  <2>4. pkts \in Seq(Packets)
    BY <1>2
  <2>5. Stream(pkts) = Remains(Frame(nxt), 0) \o Stream(rest)
    <3> HIDE DEF pkts, nxt, rest
    <3> QED BY <2>3, <2>4, StreamFirst
  <2>6. PICK pkt \in Packets : pkt = nxt
    BY <2>2
  <2>7. PICK qkts \in Seq(Packets) : qkts = rest
    BY <2>2
  <2>8. Frame(pkt) \in Seq(Byte)
    BY FrameBytes
  <2>9. Inside(Frame(pkt), qkts)'
    <3> DEFINE f == Frame(pkt)
    <3>1. f \in Seq(Byte) /\ Len(<<>>) = 0
      BY <2>8
    <3> HIDE DEF f
    <3>2. 0 <= Len(f) /\ <<>> = SubSeq(f, 1, 0)
      BY <3>1
    <3>3. Ahead' = Remains(f, 0) \o Stream(qkts)
      BY <1>5, <2>5, <2>6, <2>7 DEF f
    <3>4. Len(fullpkt') = 0
      BY <1>1
    <3> QED BY <1>1, <3>2, <3>3, <3>4 DEF Inside, f
  <2>10. e + 1 \in DOMAIN sent' /\ pkt = sent'[e + 1] /\ qkts = SubSeq(sent', e + 2, Len(sent'))
    <3>1. e + 1 = d + 2 /\ e + 2 = d + 3
      BY <1>3
    <3> QED BY <3>1, <1>1, <1>3, <2>1, <2>6, <2>7
  <2>11. \A i \in done' + 1 .. e : faults' > 0 \/ ~Readable(sent'[i])
    BY <1>1, <1>4
  <2>12. e \in Nat
    BY <1>3
  <2>13. Between(e)'
    <3> HIDE DEF e
    <3> QED BY <2>9, <2>10, <2>11, <2>12, BetweenFrom
  <2>14. e \in done' .. Len(sent')
    BY <1>1, <1>3, <1>4
  <2> QED BY <2>13, <2>14 DEF InStep
<1> QED BY <1>6, <1>7

\* The packets from a place on, when one more is written.
LEMMA AppendFrom ==
  ASSUME NEW X, NEW s \in Seq(X), NEW x \in X, NEW m \in 1 .. Len(s) + 1
  PROVE  SubSeq(Append(s, x), m, Len(Append(s, x))) = Append(SubSeq(s, m, Len(s)), x)
<1> DEFINE l == Len(s)  a == Append(s, x)
           t == SubSeq(a, m, l + 1)  u == SubSeq(s, m, l)  v == Append(u, x)
<1>1. /\ l \in Nat /\ m \in Nat /\ 1 <= m /\ m <= l + 1
      /\ a \in Seq(X) /\ Len(a) = l + 1 /\ a[l + 1] = x
  OBVIOUS
<1>2. \A i \in 1 .. l : a[i] = s[i]
  OBVIOUS
<1>3. u \in Seq(X) /\ Len(u) = (l + 1) - m
  OBVIOUS
<1>4. \A i \in 1 .. (l + 1) - m : u[i] = s[m + i - 1]
  OBVIOUS
<1> HIDE DEF a, u
<1>5. t \in Seq(X) /\ Len(t) = (l + 2) - m
  BY <1>1
<1>6. \A i \in 1 .. (l + 2) - m : t[i] = a[m + i - 1]
  BY <1>1
<1>7. v \in Seq(X) /\ Len(v) = (l + 2) - m /\ v[(l + 2) - m] = x
  BY <1>1, <1>3
<1>8. \A i \in 1 .. (l + 1) - m : v[i] = u[i]
  BY <1>1, <1>3
<1> HIDE DEF t, v, l
<1>9. ASSUME NEW i \in 1 .. (l + 2) - m PROVE t[i] = v[i]
  <2>1. CASE i = (l + 2) - m
    <3>1. m + i - 1 = l + 1
      BY <2>1, <1>1
    <3> QED BY <3>1, <2>1, <1>1, <1>6, <1>7
  <2>2. CASE i # (l + 2) - m
    <3>1. i \in 1 .. (l + 1) - m /\ m + i - 1 \in 1 .. l
      BY <2>2, <1>1
    <3> QED BY <3>1, <1>2, <1>4, <1>6, <1>8
  <2> QED BY <2>1, <2>2
<1>10. t = v
  BY <1>5, <1>7, <1>9, SeqEqual
<1> QED BY <1>10, <1>1 DEF t, u, v, a, l

LEMMA WritePacketInStep ==
  ASSUME IInv, InStep, NEW c \in Commands, NEW p \in Payloads, WritePacket(c, p)
  PROVE  InStep'
<1> DEFINE pkt == Packet(msgcnt, c, p)
           r == Remains(Frame(pkt), 0)
<1>1. /\ writes < MaxFrames /\ wire' = wire \o FlattenSeq(Parts(pkt))
      /\ sent' = Append(sent, pkt) /\ UNCHANGED <<escapeByte, fullpkt, done, faults>>
  BY DEF WritePacket, reader
<1>2. pkt \in Packets
  BY <1>1, PacketIs
<1>3. r \in Seq(Byte) /\ wire' = wire \o r
  BY <1>1, <1>2, PartsJoin, FrameType
<1>4. PICK q \in Packets : q = pkt
  BY <1>2
<1> HIDE DEF pkt, r
<1>5. /\ sent \in Seq(Packets) /\ Len(sent) \in Nat /\ done \in Nat /\ wire \in Seq(Byte)
  BY TypeFacts
<1>6. Ahead' = Ahead \o r /\ Ahead \in Seq(Byte)
  <2> DEFINE e == IF escapeByte THEN <<ESC>> ELSE <<>>
  <2>1. e \in Seq(Byte)
    <3>1. ESC \in Byte
      BY DEF Byte, ESC
    <3> QED BY <3>1
  <2>2. Ahead = e \o wire /\ Ahead' = e \o (wire \o r)
    BY <1>1, <1>3 DEF Ahead
  <2> HIDE DEF e
  <2> QED BY <2>1, <2>2, <1>3, <1>5
<1>7. PICK d \in done .. Len(sent) : Between(d)
  BY DEF InStep
<1>8. /\ Len(sent') = Len(sent) + 1 /\ sent'[Len(sent) + 1] = pkt
      /\ \A i \in 1 .. Len(sent) : sent'[i] = sent[i]
  BY <1>1, <1>2, <1>5
<1>9. \A i \in done' + 1 .. d : faults' > 0 \/ ~Readable(sent'[i])
  <2> TAKE i \in done' + 1 .. d
  <2>1. i \in done + 1 .. d /\ i \in 1 .. Len(sent)
    BY <1>1, <1>5
  <2>2. faults > 0 \/ ~Readable(sent[i])
    BY <2>1, <1>7 DEF Between
  <2> QED BY <2>1, <2>2, <1>1, <1>8
<1>10. d \in Nat /\ d + 1 \in DOMAIN sent' /\ d \in done' .. Len(sent')
  BY <1>1, <1>2, <1>5, <1>8
<1>11. CASE d = Len(sent) /\ fullpkt = <<>> /\ Ahead = <<>>
  <2>1. q = sent'[d + 1]
    BY <1>4, <1>8, <1>11
  <2>2. <<>> = SubSeq(sent', d + 2, Len(sent'))
    BY <1>5, <1>8, <1>11
  <2>3. Inside(Frame(q), <<>>)'
    <3> DEFINE f == Frame(q)
    <3>1. f \in Seq(Byte) /\ Len(<<>>) = 0
      BY FrameBytes
    <3>2. Ahead' = r \o Stream(<<>>)
      BY <1>3, <1>6, <1>11, StreamEmpty
    <3>3. r = Remains(f, 0)
      BY <1>4 DEF r
    <3> HIDE DEF f
    <3>4. 0 <= Len(f) /\ <<>> = SubSeq(f, 1, 0)
      BY <3>1
    <3>5. fullpkt' = <<>> /\ Len(fullpkt') = 0
      BY <1>1, <1>11
    <3> QED BY <3>2, <3>3, <3>4, <3>5 DEF Inside, f
  <2>4. Between(d)'
    BY <1>9, <1>10, <2>1, <2>2, <2>3, BetweenFrom
  <2> QED BY <2>4, <1>10 DEF InStep
<1>12. CASE /\ d + 1 \in 1 .. Len(sent)
            /\ \E pkt0 \in Packets : \E pkts \in Seq(Packets) :
                 /\ pkt0 = sent[d + 1] /\ pkts = SubSeq(sent, d + 2, Len(sent))
                 /\ Inside(Frame(pkt0), pkts)
  <2>1. PICK pkt0 \in Packets : \E pkts \in Seq(Packets) :
                 /\ pkt0 = sent[d + 1] /\ pkts = SubSeq(sent, d + 2, Len(sent))
                 /\ Inside(Frame(pkt0), pkts)
    BY <1>12
  <2>2. PICK pkts \in Seq(Packets) :
                 /\ pkt0 = sent[d + 1] /\ pkts = SubSeq(sent, d + 2, Len(sent))
                 /\ Inside(Frame(pkt0), pkts)
    BY <2>1
  <2> DEFINE qkts == Append(pkts, q)
             f == Frame(pkt0)
             k == Len(fullpkt)
  <2>3. pkt0 = sent'[d + 1]
    BY <2>2, <1>8, <1>12
  <2>4. qkts = SubSeq(sent', d + 2, Len(sent'))
    <3>1. d + 2 \in 1 .. Len(sent) + 1
      BY <1>5, <1>12
    <3>2. SubSeq(Append(sent, q), d + 2, Len(Append(sent, q)))
            = Append(SubSeq(sent, d + 2, Len(sent)), q)
      BY <3>1, <1>5, AppendFrom
    <3>3. sent' = Append(sent, q)
      BY <1>1, <1>4
    <3> QED BY <3>2, <3>3, <2>2
  <2>5. Stream(qkts) = Stream(pkts) \o r
    BY <1>4, StreamAppend DEF r
  <2>6. Inside(f, qkts)'
    <3>1. /\ k <= Len(f) /\ fullpkt = SubSeq(f, 1, k)
          /\ Ahead = Remains(f, k) \o Stream(pkts)
      BY <2>2 DEF Inside
    <3>2. k \in 0 .. Len(f) /\ f \in Seq(Byte)
      BY <3>1, FrameBytes, TypeFacts
    <3>3. Remains(f, k) \in Seq(Byte) /\ Stream(pkts) \in Seq(Byte)
      BY <3>2, RemainsType, StreamType
    <3> DEFINE rem == Remains(f, k)  st == Stream(pkts)
    <3>4. (rem \o st) \o r = rem \o (st \o r)
      <4> HIDE DEF rem, st
      <4>1. rem \in Seq(Byte) /\ st \in Seq(Byte)
        BY <3>3 DEF rem, st
      <4> QED BY <4>1, <1>3
    <3>5. Ahead' = rem \o Stream(qkts)
      <4> HIDE DEF rem, qkts
      <4>1. Ahead = rem \o st
        BY <3>1 DEF rem
      <4>2. Stream(qkts) = st \o r
        BY <2>5
      <4> HIDE DEF st
      <4> QED BY <4>1, <4>2, <3>4, <1>6
    <3>6. fullpkt' = fullpkt
      BY <1>1
    <3> QED BY <3>1, <3>5, <3>6 DEF Inside
  <2>7. Between(d)'
    BY <1>9, <1>10, <2>3, <2>4, <2>6, BetweenFrom
  <2> QED BY <2>7, <1>10 DEF InStep
<1> QED BY <1>7, <1>11, <1>12, BetweenCases

LEMMA NextInStep == IInv /\ InStep /\ [Next]_vars /\ faults' = faults => InStep'
<1> SUFFICES ASSUME IInv, InStep, [Next]_vars, faults' = faults PROVE InStep'
  OBVIOUS
<1>1. CASE UNCHANGED vars
  <2>1. UNCHANGED <<sent, done, faults, fullpkt, escapeByte, wire>>
    BY <1>1 DEF vars, line, reader
  <2>2. Ahead' = Ahead
    BY <2>1 DEF Ahead
  <2> QED BY <2>1, <2>2, SameInStep
<1>2. CASE Read
  <2>1. ASSUME NEW n \in 1 .. need, ReadRaw(n) PROVE InStep'
    <3>1. UNCHANGED <<sent, done, faults, fullpkt, escapeByte, wire>>
      BY <2>1 DEF ReadRaw, line
    <3>2. Ahead' = Ahead
      BY <3>1 DEF Ahead
    <3> QED BY <3>1, <3>2, SameInStep
  <2> QED BY <1>2, <2>1, UnescapeInStep, ForceReadInStep, ParsePacketInStep DEF Read
<1>3. CASE Write
  <2>1. ASSUME NEW c, NEW p, NEW n, WriteFails(c, p, n) PROVE FALSE
    BY <2>1, TypeFacts DEF WriteFails
  <2> QED BY <1>3, <2>1, WritePacketInStep DEF Write
<1>4. CASE Disturb
  <2>1. faults' = faults + 1
    BY <1>4 DEF Disturb, LoseByte, ChangeByte
  <2> QED BY <2>1, TypeFacts
<1> QED BY <1>1, <1>2, <1>3, <1>4 DEF Next

LEMMA InitInStep == Init => InStep
<1> SUFFICES ASSUME Init PROVE InStep
  OBVIOUS
<1>1. sent = <<>> /\ done = 0 /\ fullpkt = <<>> /\ wire = <<>> /\ ~escapeByte /\ Len(<<>>) = 0
  BY DEF Init
<1>2. Ahead = <<>>
  BY <1>1 DEF Ahead
<1>3. Between(0)
  BY <1>1, <1>2 DEF Between
<1>4. 0 \in done .. Len(sent)
  BY <1>1
<1> QED BY <1>3, <1>4 DEF InStep

\* A step that disturbs nothing keeps the reader in step, wherever the line
\* was disturbed before: escape sequences, lengths and checksums are read as
\* they were written however read(2) cuts them, for all packets and for
\* every checksum (uartgw.go, WritePacket and ReadPacket; escaping.go).
THEOREM StaysInStepAlways == Spec => StaysInStep
<1>1. IInv /\ [Next]_vars => [InStep /\ faults' = faults => InStep']_vars
  BY NextInStep
<1>2. Spec => [][InStep /\ faults' = faults => InStep']_vars
  BY <1>1, IInvAlways, PTL DEF Spec
<1> QED BY <1>2 DEF StaysInStep

\* While nothing has disturbed the line.
Undisturbed == faults = 0 => InStep

LEMMA UndisturbedAlways == Spec => []Undisturbed
<1>1. Init => Undisturbed
  BY InitInStep DEF Undisturbed
<1>2. IInv /\ Undisturbed /\ [Next]_vars => Undisturbed'
  <2> SUFFICES ASSUME IInv, Undisturbed, [Next]_vars, faults' = 0 PROVE InStep'
    BY DEF Undisturbed
  <2>1. faults \in Nat
    BY TypeFacts
  <2>2. faults' = faults \/ faults' = faults + 1
    BY DEF Next, Read, ReadRaw, Unescape, ForceRead, ParsePacket, Write, WritePacket,
           WriteFails, Disturb, LoseByte, ChangeByte, vars
  <2>3. faults = 0 /\ faults' = faults
    BY <2>1, <2>2
  <2> QED BY <2>3, NextInStep DEF Undisturbed
<1> QED BY <1>1, <1>2, IInvAlways, PTL DEF Spec

----------------------------------------------------------------------------
(* What is parsed *)

\* What the proofs below need of a checksum: it finds every disturbance.
Trusted == faults > 0 => NothingForged

\* The packet that is parsed was written and not returned before; and unless
\* there was a disturbance, it is the first one that can be interpreted or one
\* before that.
LEMMA ParseGenuine ==
  ASSUME IInv, Undisturbed, Trusted, phase = "parse"
  PROVE  \E e \in done + 1 .. Len(sent) :
           /\ fullpkt = Frame(sent[e]) /\ Len(fullpkt) >= 8
           /\ SubSeq(fullpkt, 4, Len(fullpkt) - 2) = sent[e]
           /\ faults > 0 \/ \A i \in done + 1 .. e - 1 : ~Readable(sent[i])
<1>1. /\ sent \in Seq(Packets) /\ Len(sent) \in Nat /\ done \in Nat /\ faults \in Nat
  BY TypeFacts
<1>2. CASE faults = 0
  <2>1. InStep
    BY <1>2 DEF Undisturbed
  <2>2. PICK d \in done .. Len(sent) :
           /\ d + 1 \in 1 .. Len(sent)
           /\ \A i \in done + 1 .. d : faults > 0 \/ ~Readable(sent[i])
           /\ fullpkt = Frame(sent[d + 1]) /\ Len(fullpkt) >= 8
           /\ SubSeq(fullpkt, 4, Len(fullpkt) - 2) = sent[d + 1]
    BY <2>1, ParseWhere
  <2>3. d + 1 \in done + 1 .. Len(sent) /\ (d + 1) - 1 = d
    BY <2>2, <1>1
  <2> QED BY <2>2, <2>3, <1>2
<1>3. CASE faults > 0
  <2>1. PICK e \in done + 1 .. Len(sent) : fullpkt = Frame(sent[e])
    BY <1>3 DEF Trusted, NothingForged
  <2>2. PICK pkt \in Packets : pkt = sent[e]
    BY <2>1, <1>1
  <2> DEFINE n == Len(pkt)
  <2>3. /\ Len(fullpkt) = n + 5
        /\ SubSeq(fullpkt, 4, n + 3) = pkt
    BY <2>1, <2>2, FrameBytes
  <2>4. n \in Nat /\ n >= 3
    BY PacketType DEF Word
  <2>5. Len(fullpkt) - 2 = n + 3 /\ Len(fullpkt) >= 8
    <3> HIDE DEF n
    <3> QED BY <2>3, <2>4
  <2> QED BY <2>1, <2>2, <2>3, <2>5, <1>3
<1>4. faults = 0 \/ faults > 0
  BY <1>1
<1> QED BY <1>2, <1>3, <1>4

LEMMA NothingForgedWhy ==
  ASSUME IInv, Undisturbed, Trusted
  PROVE  NothingForged /\ NoPanic
BY ParseGenuine DEF NothingForged, NoPanic

\* On a line that nothing has disturbed only frames that were written pass
\* for one, and ReadPacket never looks for the command of a packet that has
\* none (uartgw.go, ReadPacket, "Parse packet").
THEOREM UndisturbedLine == Spec => [](faults = 0 => NothingForged /\ NoPanic)
<1>1. IInv /\ Undisturbed => (faults = 0 => NothingForged /\ NoPanic)
  <2> SUFFICES ASSUME IInv, Undisturbed, faults = 0 PROVE NothingForged /\ NoPanic
    OBVIOUS
  <2>1. Trusted
    BY DEF Trusted
  <2> QED BY <2>1, NothingForgedWhy
<1> QED BY <1>1, IInvAlways, UndisturbedAlways, PTL

----------------------------------------------------------------------------
(* The channel *)

\* A part of a part.
LEMMA SubSeqTwice ==
  ASSUME NEW X, NEW s \in Seq(X), NEW a \in Nat, NEW k \in 1 .. Len(s) - a
  PROVE  LET q == SubSeq(s, a + 1, Len(s))
         IN  /\ Len(q) = Len(s) - a /\ k \in DOMAIN q
             /\ \A i \in 1 .. k : q[i] = s[a + i]
             /\ SubSeq(q, k + 1, Len(q)) = SubSeq(s, (a + k) + 1, Len(s))
<1> DEFINE l == Len(s)  q == SubSeq(s, a + 1, l)
           t == SubSeq(q, k + 1, l - a)  u == SubSeq(s, (a + k) + 1, l)
<1>1. l \in Nat /\ k \in Nat /\ 1 <= k /\ k <= l - a /\ q \in Seq(X) /\ Len(q) = l - a
  OBVIOUS
<1>2. \A i \in 1 .. l - a : q[i] = s[a + i]
  OBVIOUS
<1>3. u \in Seq(X) /\ Len(u) = (l - a) - k
  OBVIOUS
<1>4. \A i \in 1 .. (l - a) - k : u[i] = s[(a + k) + i]
  OBVIOUS
<1> HIDE DEF q, u, l
<1>5. t \in Seq(X) /\ Len(t) = (l - a) - k
  BY <1>1
<1>6. \A i \in 1 .. (l - a) - k : t[i] = q[k + i]
  BY <1>1
<1> HIDE DEF t
<1>7. ASSUME NEW i \in 1 .. (l - a) - k PROVE t[i] = u[i]
  <2>1. k + i \in 1 .. l - a /\ a + (k + i) = (a + k) + i
    BY <1>1
  <2> QED BY <2>1, <1>2, <1>4, <1>6
<1>8. t = u
  BY <1>3, <1>5, <1>7, SeqEqual
<1>9. k \in DOMAIN q /\ \A i \in 1 .. k : q[i] = s[a + i]
  BY <1>1, <1>2
<1> QED BY <1>1, <1>8, <1>9 DEF t, q, u, l

\* A step that returns and writes nothing.
LEMMA KeepsChannelStutter ==
  ASSUME UNCHANGED <<sent, done, received>>, faults' = faults \/ faults' > 0
  PROVE  [Channel!Next]_(Channel!vars)
BY DEF Channel!Next, Channel!Disturb, Channel!vars

LEMMA WriteKeepsChannel ==
  ASSUME IInv, NEW c \in Commands, NEW p \in Payloads, WritePacket(c, p)
  PROVE  Channel!Next
<1> DEFINE pkt == Packet(msgcnt, c, p)
<1>1. writes < MaxFrames /\ sent' = Append(sent, pkt) /\ UNCHANGED <<done, received, faults>>
  BY DEF WritePacket
<1>2. pkt \in Packets
  BY <1>1, PacketIs
<1> HIDE DEF pkt
<1>3. sent \in Seq(Packets) /\ done + 1 \in 1 .. Len(sent) + 1
  BY TypeFacts
<1>4. SubSeq(sent', done' + 1, Len(sent')) = Append(SubSeq(sent, done + 1, Len(sent)), pkt)
  BY <1>1, <1>2, <1>3, AppendFrom
<1> QED BY <1>1, <1>2, <1>4 DEF Channel!Next, Channel!Send

LEMMA ParseKeepsChannel ==
  ASSUME IInv, Undisturbed, Trusted, ParsePacket
  PROVE  [Channel!Next]_(Channel!vars)
<1>1. phase = "parse" /\ UNCHANGED <<sent, faults>>
  BY DEF ParsePacket
<1>2. PICK e \in done + 1 .. Len(sent) :
           /\ SubSeq(fullpkt, 4, Len(fullpkt) - 2) = sent[e]
           /\ faults > 0 \/ \A i \in done + 1 .. e - 1 : ~Readable(sent[i])
  BY <1>1, ParseGenuine
<1>3. CASE UNCHANGED <<received, done>>
  BY <1>1, <1>3, KeepsChannelStutter
<1>4. CASE Readable(sent[e]) /\ Return(sent[e])
  <2>1. sent \in Seq(Packets) /\ Len(sent) \in Nat /\ done \in Nat
    BY TypeFacts
  <2>2. done' \in done + 1 .. e /\ sent[done'] = sent[e]
    BY <1>2, <1>4, ReturnType
  <2> DEFINE k == done' - done
             q == SubSeq(sent, done + 1, Len(sent))
  <2>3. k \in 1 .. Len(sent) - done /\ k \in 1 .. k /\ done + k = done'
    <3>1. /\ done' \in Int /\ e \in Int /\ done + 1 <= done' /\ done' <= e
          /\ e <= Len(sent)
      BY <1>2, <2>1, <2>2
    <3>2. k \in Int /\ 1 <= k /\ k <= Len(sent) - done /\ done + k = done'
      <4> DEFINE l == Len(sent)  b == done'
      <4>1. /\ b \in Int /\ e \in Int /\ done \in Int /\ l \in Int
            /\ done + 1 <= b /\ b <= e /\ e <= l
        BY <3>1, <2>1
      <4> HIDE DEF l, b
      <4>2. b - done \in Int /\ 1 <= b - done /\ b - done <= l - done /\ done + (b - done) = b
        BY <4>1
      <4> QED BY <4>2 DEF l, b
    <3> HIDE DEF k
    <3>3. Len(sent) - done \in Int
      BY <2>1
    <3> QED BY <3>2, <3>3
  <2> HIDE DEF k
  <2>4. /\ k \in DOMAIN q /\ \A i \in 1 .. k : q[i] = sent[done + i]
        /\ SubSeq(q, k + 1, Len(q)) = SubSeq(sent, (done + k) + 1, Len(sent))
    BY <2>1, <2>3, SubSeqTwice
  <2>5. q[k] = sent[e]
    BY <2>2, <2>3, <2>4
  <2>6. \A i \in 1 .. k - 1 : faults > 0 \/ ~Readable(q[i])
    <3> TAKE i \in 1 .. k - 1
    <3>1. done + i \in done + 1 .. e - 1 /\ i \in 1 .. k
      BY <1>2, <2>1, <2>2, <2>3
    <3> QED BY <3>1, <1>2, <2>4
  <2>7. received' = Append(received, q[k])
    BY <1>4, <2>5 DEF Return
  <2>8. SubSeq(sent', done' + 1, Len(sent')) = SubSeq(q, k + 1, Len(q))
    BY <1>1, <2>3, <2>4
  <2>9. Readable(q[k])
    BY <1>4, <2>5
  <2>10. Channel!Receive(k)
    BY <1>1, <2>6, <2>7, <2>8, <2>9 DEF Channel!Receive
  <2> QED BY <2>4, <2>10 DEF Channel!Next
<1> QED BY <1>2, <1>3, <1>4 DEF ParsePacket

LEMMA NextKeepsChannel ==
  IInv /\ Undisturbed /\ Trusted /\ [Next]_vars => [Channel!Next]_(Channel!vars)
<1> SUFFICES ASSUME IInv, Undisturbed, Trusted, [Next]_vars
             PROVE  [Channel!Next]_(Channel!vars)
  OBVIOUS
<1>1. CASE UNCHANGED vars
  BY <1>1, KeepsChannelStutter DEF vars
<1>2. CASE Read
  <2>1. CASE Unescape \/ ForceRead \/ \E n \in 1 .. need : ReadRaw(n)
    BY <2>1, KeepsChannelStutter DEF Unescape, ForceRead, ReadRaw
  <2> QED BY <1>2, <2>1, ParseKeepsChannel DEF Read
<1>3. CASE Write
  <2>1. ASSUME NEW c, NEW p, NEW n, WriteFails(c, p, n)
        PROVE  [Channel!Next]_(Channel!vars)
    <3>1. UNCHANGED <<sent, done, received>> /\ faults' = faults + 1
      BY <2>1 DEF WriteFails
    <3> QED BY <3>1, TypeFacts, KeepsChannelStutter
  <2> QED BY <1>3, <2>1, WriteKeepsChannel DEF Write
<1>4. CASE Disturb
  <2>1. UNCHANGED <<sent, done, received>> /\ faults' = faults + 1
    BY <1>4 DEF Disturb, LoseByte, ChangeByte
  <2> QED BY <2>1, TypeFacts, KeepsChannelStutter
<1> QED BY <1>1, <1>2, <1>3, <1>4 DEF Next

LEMMA InitKeepsChannel == Init => Channel!Init
<1> SUFFICES ASSUME Init PROVE Channel!Init
  OBVIOUS
<1>1. sent = <<>> /\ done = 0 /\ received = <<>> /\ faults = 0 /\ Len(<<>>) = 0
  BY DEF Init
<1>2. SubSeq(sent, done + 1, Len(sent)) = <<>>
  BY <1>1
<1> QED BY <1>1, <1>2 DEF Channel!Init

\* The framing implements FrameChannel as long as what passes the checksum
\* after a disturbance is a frame that was written and not yet returned: all
\* that the order, the completeness and the integrity of the packets rest on
\* besides the checksum is proved, and so is that a packet without a command
\* needs a forged frame (uartgw.go, WritePacket and ReadPacket; escaping.go).
THEOREM RefinesFrameChannel == Spec /\ []Trusted => KeepsChannel /\ []NoPanic
<1>1. Init => Channel!Init
  BY InitKeepsChannel
<1>2. IInv /\ Undisturbed /\ Trusted /\ [Next]_vars => [Channel!Next]_(Channel!vars)
  BY NextKeepsChannel
<1>3. IInv /\ Undisturbed /\ Trusted => NoPanic
  BY NothingForgedWhy
<1> QED BY <1>1, <1>2, <1>3, IInvAlways, UndisturbedAlways, PTL
     DEF Spec, KeepsChannel, Channel!Spec

\* On a line that is never disturbed it does so for every checksum.
COROLLARY RefinesUndisturbed == Spec /\ [](faults = 0) => KeepsChannel
<1>1. faults = 0 => Trusted
  BY DEF Trusted
<1> QED BY <1>1, RefinesFrameChannel, PTL

=============================================================================
