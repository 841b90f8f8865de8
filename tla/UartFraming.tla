----------------------------- MODULE UartFraming -----------------------------
(***************************************************************************)
(* The byte level of the serial line (internal/uartgw): WritePacket over   *)
(* escapingWriter at one end, ReadPacket over unescapingReader at the      *)
(* other.  The two ends of the real line are the driver and the firmware   *)
(* of the gateway, which speaks the same framing in both directions; the   *)
(* module joins the driver's own writer to its own reader.                 *)
(*                                                                         *)
(* A read(2) on the serial port returns any part of what has been asked    *)
(* for and has arrived, so a frame is cut anywhere, between an escape byte *)
(* and the byte it escapes too.  The reader takes one byte per step.       *)
(*                                                                         *)
(* Bytes may be lost or changed on the line, and a write may end in the    *)
(* middle of a frame.  ReadPacket then returns an error; main ends with    *)
(* log.Fatal, an HTTP handler answers with an error and the next caller    *)
(* reads on from where the line is: the module always reads on.            *)
(***************************************************************************)
EXTENDS Integers, Sequences, SequencesExt

CONSTANTS
  Checksum(_),   \* crc16 with the BidCoS parameters, of a sequence of bytes
  Dst,           \* the destination of every packet, a byte
  Commands,      \* command bytes that are written
  Known,         \* command bytes UARTGW.Command knows
  Payloads,      \* payloads that are written
  FirstCount,    \* message counter when the line is opened
  MaxFrames,     \* bound: WritePacket is called this often
  MaxFaults,     \* bound: faults of the line
  Noise          \* what a byte may be changed into

Byte  == 0 .. 255
DELIM == 253     \* 0xfd
ESC   == 252     \* 0xfc

ASSUME PacketAssumption ==
  /\ Dst \in Byte
  /\ Commands \subseteq Byte
  /\ Known \subseteq Byte
  /\ \A p \in Payloads : p \in Seq(Byte) /\ Len(p) < 65533
ASSUME BoundAssumption ==
  /\ FirstCount \in Byte
  /\ MaxFrames \in Nat
  /\ MaxFaults \in Nat
  /\ Noise \subseteq Byte

VARIABLES
  wire,        \* bytes written and not yet taken by the reader
  msgcnt,      \* UARTGW.msgcnt of the writer
  writes,      \* bound: calls of WritePacket
  phase,       \* where ReadPacket stands in the frame
  need,        \* bytes still missing in this phase
  chunk,       \* bytes of the current read(2) not yet looked at
  escapeByte,  \* the byte before was an escape byte
  fullpkt,     \* unescaped bytes since the delimiter
  sent,        \* history: the packets written without an error
  received,    \* history: the packets ReadPacket has returned
  done,        \* history: the packet of sent that was returned last
  faults       \* what has gone wrong on the line

line   == <<wire, msgcnt, writes>>
reader == <<phase, need, chunk, escapeByte, fullpkt>>
vars   == <<line, reader, sent, received, done, faults>>

----------------------------------------------------------------------------
(* Writing *)

BigEndian(n) == <<n \div 256, n % 256>>

EscapeByte(b) == IF b \in {ESC, DELIM} THEN <<ESC, b % 128>> ELSE <<b>>

Escape(s) == FlattenSeq([i \in DOMAIN s |-> EscapeByte(s[i])])

\* A packet as the bytes between length and checksum.
Packet(n, c, p) == <<Dst, n, c>> \o p
Counts  == {(FirstCount + i) % 256 : i \in 0 .. MaxFrames}
Packets == {Packet(n, c, p) : n \in Counts, c \in Commands, p \in Payloads}
Readable(pkt) == pkt[3] \in Known

\* What the checksum is computed of.
Summed(pkt) == <<DELIM>> \o BigEndian(Len(pkt)) \o pkt

\* crc16.Checksum returns a uint16.
Word == {n \in Nat : n < 65536}
ASSUME ChecksumAssumption ==
  \A pkt \in Packets : Checksum(Summed(pkt)) \in Word

\* What WritePacket hands to the serial port, one element per Write.
Parts(pkt) ==
  << <<DELIM>>, Escape(BigEndian(Len(pkt))), Escape(SubSeq(pkt, 1, 3)),
     Escape(SubSeq(pkt, 4, Len(pkt))),
     Escape(BigEndian(Checksum(Summed(pkt)))) >>

WritePacket(c, p) ==
  LET pkt == Packet(msgcnt, c, p)
  IN  /\ writes < MaxFrames
      /\ writes' = writes + 1
      /\ wire' = wire \o FlattenSeq(Parts(pkt))
      /\ msgcnt' = (msgcnt + 1) % 256
      /\ sent' = Append(sent, pkt)
      /\ UNCHANGED <<reader, received, done, faults>>

\* Only the first n Writes are made: a Write fails, or (n = 2) uartcmd.Byte
\* does not know the command.  Nothing takes back what is on the line.
WriteFails(c, p, n) ==
  LET pkt == Packet(msgcnt, c, p)
  IN  /\ writes < MaxFrames
      /\ faults < MaxFaults
      /\ writes' = writes + 1
      /\ faults' = faults + 1
      /\ wire' = wire \o FlattenSeq(SubSeq(Parts(pkt), 1, n))
      /\ msgcnt' = IF n < 3 THEN msgcnt ELSE (msgcnt + 1) % 256
      /\ UNCHANGED <<reader, sent, received, done>>

----------------------------------------------------------------------------
(* The line: the byte at position i, which no read has fetched yet, is lost *)
(* or changed.                                                              *)

LoseByte(i) ==
  /\ faults < MaxFaults
  /\ faults' = faults + 1
  /\ wire' = RemoveAt(wire, i)
  /\ UNCHANGED <<msgcnt, writes, reader, sent, received, done>>

ChangeByte(i, b) ==
  /\ faults < MaxFaults
  /\ faults' = faults + 1
  /\ wire[i] # b
  /\ wire' = [wire EXCEPT ![i] = b]
  /\ UNCHANGED <<msgcnt, writes, reader, sent, received, done>>

----------------------------------------------------------------------------
(* Reading: what is done with one unescaped byte, by phase *)

Expect(p, n) ==
  /\ phase' = p
  /\ need' = n

\* ReadPacket has returned, or looks at the next byte.
StartOver ==
  /\ Expect("delimiter", 1)
  /\ fullpkt' = <<>>

Collect(b) == fullpkt' = Append(fullpkt, b)

\* The byte is unescaped already: after a disturbance an escaped 0xfd from
\* the inside of a frame is taken for the start of one.
Delimiter(b) ==
  \/ b = DELIM /\ Expect("length", 2) /\ Collect(b)
  \/ b # DELIM /\ StartOver    \* skipping non-frame-delimiter byte

Length(b) ==
  /\ Collect(b)
  /\ \/ need = 2 /\ Expect("length", 1)
     \/ LET length == 256 * fullpkt[2] + b
        IN  /\ need = 1
            /\ IF length = 0 THEN Expect("crc", 2) ELSE Expect("body", length)

Body(b) ==
  /\ Collect(b)
  /\ IF need = 1 THEN Expect("crc", 2) ELSE Expect("body", need - 1)

\* Faulty variant: the checksum is read and not compared.
CrcIgnored(b) ==
  /\ Collect(b)
  /\ IF need = 2 THEN Expect("crc", 1) ELSE Expect("parse", 0)

\* want is computed before the checksum itself is read through the tee.
Crc(b) ==
  LET n    == Len(fullpkt)
      want == Checksum(SubSeq(fullpkt, 1, n - 1))
      got  == 256 * fullpkt[n] + b
  IN  \/ need = 2 /\ Expect("crc", 1) /\ Collect(b)
      \/ need = 1 /\ got = want /\ Expect("parse", 0) /\ Collect(b)
      \/ need = 1 /\ got # want /\ StartOver

Take(b) ==
  \/ phase = "delimiter" /\ Delimiter(b)
  \/ phase = "length" /\ Length(b)
  \/ phase = "body" /\ Body(b)
  \/ phase = "crc" /\ Crc(b)

----------------------------------------------------------------------------
(* unescapingReader.Read *)

\* Faulty variant: the bit is added.
AddHighBit(b) == b + 128

\* Faulty variant: the byte after an escape byte is taken as it is.
KeepLow(b) == b

HighBit(b) == IF b < 128 THEN b + 128 ELSE b

\* The read(2) of up to as many bytes as are still missing.
ReadRaw(n) ==
  /\ need > 0 /\ chunk = 0 /\ ~escapeByte
  /\ chunk' = n
  /\ UNCHANGED <<line, phase, need, escapeByte, fullpkt, sent,
                 received, done, faults>>

\* One turn of the loop over the bytes read.
Unescape ==
  LET b == Head(wire)
  IN  /\ chunk > 0
      /\ chunk' = chunk - 1
      /\ wire' = Tail(wire)
      /\ \/ /\ b = ESC
            /\ escapeByte' = TRUE
            /\ UNCHANGED <<phase, need, fullpkt>>
         \/ /\ b # ESC
            /\ escapeByte' = FALSE
            /\ Take(IF escapeByte THEN HighBit(b) ELSE b)
      /\ UNCHANGED <<msgcnt, writes, sent, received, done, faults>>

\* The bytes read end with an escape byte: read one more.
ForceRead ==
  /\ chunk = 0 /\ escapeByte
  /\ wire # <<>>
  /\ wire' = Tail(wire)
  /\ escapeByte' = FALSE
  /\ Take(HighBit(Head(wire)))
  /\ UNCHANGED <<msgcnt, writes, chunk, sent, received, done, faults>>

\* A packet returned is taken for the first one like it that was written
\* after the one returned before.
Return(pkt) ==
  LET like == {i \in done + 1 .. Len(sent) : sent[i] = pkt}
  IN  /\ received' = Append(received, pkt)
      /\ done' = Min(like \cup {Len(sent)})

\* The checksum was right.  A frame of less than three bytes would end the
\* program: ReadPacket looks at frame[2].
ParsePacket ==
  LET pkt == SubSeq(fullpkt, 4, Len(fullpkt) - 2)
  IN  /\ phase = "parse"
      /\ Len(pkt) >= 3
      /\ \/ Readable(pkt) /\ Return(pkt)
         \/ ~Readable(pkt) /\ UNCHANGED <<received, done>>
      /\ StartOver
      /\ UNCHANGED <<line, chunk, escapeByte, sent, faults>>

Init ==
  /\ wire = <<>> /\ msgcnt = FirstCount /\ writes = 0
  /\ phase = "delimiter" /\ need = 1
  /\ chunk = 0 /\ escapeByte = FALSE
  /\ fullpkt = <<>>
  /\ sent = <<>> /\ received = <<>> /\ done = 0
  /\ faults = 0

Read ==
  \/ \E n \in 1 .. need : n <= Len(wire) /\ ReadRaw(n)
  \/ Unescape \/ ForceRead \/ ParsePacket

Write ==
  \E c \in Commands, p \in Payloads :
    \/ WritePacket(c, p)
    \/ \E n \in 1 .. 4 : WriteFails(c, p, n)

Disturb ==
  \E i \in chunk + 1 .. Len(wire) :
    \/ LoseByte(i)
    \/ \E b \in Noise : ChangeByte(i, b)

Next == Read \/ Write \/ Disturb

Spec == Init /\ [][Next]_vars

\* The caller of ReadPacket keeps calling, and read(2) returns once bytes
\* have arrived.
FairSpec == Spec /\ WF_vars(Read)

----------------------------------------------------------------------------
(* Properties *)

\* The fields of the reader fit together; bytes stay bytes, noise or not.
TypeOK ==
  /\ wire \in Seq(Byte) /\ msgcnt \in Byte /\ writes \in 0 .. MaxFrames
  /\ phase \in {"delimiter", "length", "body", "crc", "parse"}
  /\ need \in Word /\ ((need = 0) <=> (phase = "parse"))
  /\ chunk \in 0 .. need /\ chunk <= Len(wire)
  /\ escapeByte \in BOOLEAN
  /\ fullpkt \in Seq(Byte)
  /\ sent \in Seq(Packets) /\ done \in 0 .. Len(sent)
  /\ faults \in 0 .. MaxFaults

\* ReadPacket never looks for the command of a packet that has none, which
\* would end the program with a panic: only the checksum stands between a
\* disturbed length and frame[2] (uartgw.go, "Parse packet").  It follows
\* from NothingForged.
NoPanic == phase = "parse" => Len(fullpkt) >= 8

(***************************************************************************)
(* Only a disturbance takes the reader out of step.  In step, what it has  *)
(* unescaped is the beginning of a frame that was written and not yet      *)
(* returned, and the line holds the rest of that frame and then the frames *)
(* of the packets written after it.  However a read cuts the bytes, and    *)
(* after a disturbance that it has got over as before the first one, each  *)
(* byte is unescaped as it was escaped and counted to its frame.           *)
(***************************************************************************)
\* A frame before escaping, and what is left of it on the line when the
\* first k bytes are read.
Frame(pkt) == Summed(pkt) \o BigEndian(Checksum(Summed(pkt)))
Remains(frame, k) ==
  IF k = 0 THEN <<DELIM>> \o Escape(SubSeq(frame, 2, Len(frame)))
  ELSE Escape(SubSeq(frame, k + 1, Len(frame)))

Stream(pkts) == FlattenSeq([i \in DOMAIN pkts |-> Remains(Frame(pkts[i]), 0)])

\* The escape byte that Unescape has taken already, and the line.
Ahead == (IF escapeByte THEN <<ESC>> ELSE <<>>) \o wire

\* The reader is somewhere in this frame, and pkts follow.
Inside(frame, pkts) ==
  /\ Len(fullpkt) <= Len(frame)
  /\ fullpkt = SubSeq(frame, 1, Len(fullpkt))
  /\ Ahead = Remains(frame, Len(fullpkt)) \o Stream(pkts)

\* The first d packets are dealt with, the frame of the next is to be read.
Between(d) ==
  /\ \A i \in done + 1 .. d : faults > 0 \/ ~Readable(sent[i])
  /\ \/ d = Len(sent) /\ fullpkt = <<>> /\ Ahead = <<>>
     \/ \E frame \in {Frame(sent[i]) : i \in {d + 1} \cap DOMAIN sent} :
          Inside(frame, SubSeq(sent, d + 2, Len(sent)))

InStep == \E d \in done .. Len(sent) : Between(d)

StaysInStep == [][InStep /\ faults' = faults => InStep']_vars

\* After a disturbance, too, what passes the checksum is a frame that was
\* written and not yet returned: the delimiter in the middle of a frame, a
\* wrong length or the beginning of one frame with the end of another does
\* not make a packet.
NothingForged ==
  phase = "parse" => \E i \in done + 1 .. Len(sent) : fullpkt = Frame(sent[i])

(***************************************************************************)
(* The framing keeps the promise of FrameChannel: whatever the packets     *)
(* contain and wherever a read cuts them, ReadPacket returns each packet   *)
(* once, as it was written and in order; and when bytes are lost or        *)
(* changed or a write ends early, it may miss packets but never makes one  *)
(* up, repeats one or swaps two.                                           *)
(***************************************************************************)
Channel == INSTANCE FrameChannel WITH
  Packets   <- Packets,
  Readable  <- Readable,
  queue     <- SubSeq(sent, done + 1, Len(sent)),
  received  <- received,
  disturbed <- faults > 0

KeepsChannel == Channel!Spec

\* Unless the line is disturbed every packet written is read in the end: no
\* escape sequence, length or cut leaves ReadPacket waiting for bytes that
\* are there, or makes it take bytes of the next frame.
EveryPacketRead ==
  <>[](faults > 0 \/ received = SelectSeq(sent, Readable))

==============================================================================
