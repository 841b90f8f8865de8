---------------------------- MODULE MCUartFraming ----------------------------
(***************************************************************************)
(* Instances of UartFraming, with the checksum of the real line: crc16     *)
(* with polynomial 0x8005 and initial value 0xd77f (bidcosTable).          *)
(***************************************************************************)
EXTENDS UartFraming, Bitwise

\* One bit of the division: shift left, XOR the polynomial if 1 falls out.
Shift(c) ==
  LET d == (2 * c) % 65536
  IN  IF c < 32768 THEN d ELSE d ^^ 32773

\* As tuples, which TLC computes only once.
Tuple(f) == SubSeq(f, 1, Len(f))
Table == Tuple([i \in 1 .. 256 |->
           Shift(Shift(Shift(Shift(Shift(Shift(Shift(Shift(256 * (i - 1)))))))))])
XorTable == Tuple([i \in 1 .. 65536 |-> ((i - 1) \div 256) ^^ ((i - 1) % 256)])
ByteXor(a, b) == XorTable[256 * a + b + 1]

\* A function, whose arguments TLC computes only once.
Crc16(s) ==
  LET add[c \in 0 .. 65535, b \in Byte] ==
        LET t == Table[ByteXor(c \div 256, b) + 1]
        IN  256 * ByteXor(c % 256, t \div 256) + (t % 256)
      crc[k \in 0 .. Len(s)] ==
        IF k = 0 THEN 55167 ELSE add[crc[k - 1], s[k]]
  IN  crc[Len(s)]

\* FD000C000000436F5F4350555F424C7251, the first frame NewUARTGW reads.
ASSUME KnownFrame ==
  Crc16(<<253, 0, 12, 0, 0, 0, 67, 111, 95, 67, 80, 85, 95, 66, 76>>)
    = 7 * 4096 + 2 * 256 + 5 * 16 + 1

\* A delimiter, which is 125 on the line after an escape byte.
MCPayloads == { <<253>> }
\* A wrong length, and the two bytes with a meaning of their own.
MCNoise    == {3, 252, 253}

==============================================================================
