------------------------------ MODULE IEEE1212Rom ------------------------------
(***************************************************************************)
(* The pure operators of the three IEEE 1212 configuration-ROM parsers in  *)
(* src/tools: ieee1212_parser.py ("parser"), ieee1212_parser1.py          *)
(* ("parser1") and ieee1212_parser_broken.py ("broken").  They share the   *)
(* CRC, the entry decoding and the tree walk; they differ in how they read *)
(* a dump stored in host (little-endian) quadlet order and in a few bounds *)
(* checks.                                                                 *)
(*                                                                         *)
(* A 32-bit quadlet is a pair of 16-bit halves (TLC's integers are 32-bit  *)
(* signed, and directory keys 0x81, 0xD1 ... set the top bit).  A dump is  *)
(* the sequence of quadlets that struct.unpack(">I") reads at byte offsets *)
(* 0, 4, 8, ...; le32 reads the same four bytes in the other order.        *)
(* Byte offsets are kept as in the code.                                   *)
(***************************************************************************)
EXTENDS Integers, Sequences, SequencesExt, Bitwise

Half == 0 .. 65535
Quadlet == [hi : Half, lo : Half]
Q(hi, lo) == [hi |-> hi, lo |-> lo]

Swap16(x) == (x % 256) * 256 + x \div 256

(* le32 of the bytes be32 reads as q: the four bytes reversed.             *)
ByteSwap(q) == Q(Swap16(q.lo), Swap16(q.hi))

Bytes(dump) == 4 * Len(dump)

(* struct.unpack_from raises unless four bytes are there.                  *)
InRom(dump, off) == off >= 0 /\ off + 4 <= Bytes(dump)

be32(dump, off) == dump[off \div 4 + 1]

le32(dump, off) == ByteSwap(be32(dump, off))

(* read32 = le32 if endianness == "little" else be32                       *)
Read32(dump, e, off) == IF e = "little" THEN le32(dump, off) ELSE be32(dump, off)

SIG1394 == Q(12595, 14644)      (* 0x31333934, "1394"                      *)

(* detect_endianness (parser and broken): the bus name in quadlet 1.       *)
DetectEndianness(dump) ==
  CASE Bytes(dump) < 8                  -> "big"
    [] be32(dump, 4) = SIG1394          -> "big"
    [] le32(dump, 4) = SIG1394          -> "little"
    [] OTHER                            -> "big"

(* parser1's main: swap unless be32 of quadlet 1 is "1394" (0 if short).   *)
NeedsSwap(dump) == (IF Bytes(dump) >= 8 THEN be32(dump, 4) ELSE Q(0, 0)) # SIG1394

(* swap_words: every 4-byte word reversed.                                 *)
SwapWords(dump) == [k \in 1 .. Len(dump) |-> ByteSwap(dump[k])]

-----------------------------------------------------------------------------
(* CRC-16 of IEEE 1212 as the code computes it: a nibble at a time.        *)

(* data >> shift & 0xF for shift = 28, 24, ..., 0                          *)
Nibbles(q) ==
  << q.hi \div 4096, (q.hi \div 256) % 16, (q.hi \div 16) % 16, q.hi % 16,
     q.lo \div 4096, (q.lo \div 256) % 16, (q.lo \div 16) % 16, q.lo % 16 >>

(* Mutation: the middle term shifted by 4 instead of 5.                    *)
CrcNibbleStepShift4(crc, d) ==
  LET s == (crc \div 4096) ^^ d
  IN  (((crc * 16) % 65536) ^^ ((s * 4096) % 65536)) ^^ (((s * 16) % 65536) ^^ s)

(* One pass of the loop body of crc16_quadlet_step.                        *)
CrcNibbleStep(crc, d) ==
  LET s == (crc \div 4096) ^^ d
  IN  (((crc * 16) % 65536) ^^ ((s * 4096) % 65536)) ^^ (((s * 32) % 65536) ^^ s)

(* for shift in range(28, -1, -4): crc = <step>                           *)
crc16_quadlet_step(crc, q) ==
  LET RECURSIVE Loop(_, _)
      Loop(c, k) == IF k > 8 \/ c \notin Half THEN c ELSE Loop(CrcNibbleStep(c, Nibbles(q)[k]), k + 1)
  IN  Loop(crc, 1)

(* crc = 0; for q in quadlets: crc = crc16_quadlet_step(crc, q)            *)
crc16_over_quadlets(qs) ==
  LET crcAfter[k \in 0 .. Len(qs)] ==
        IF k = 0 THEN 0
                  ELSE LET c == crcAfter[k - 1]
                       IN  IF c \notin Half THEN c ELSE crc16_quadlet_step(c, qs[k])
  IN  crcAfter[Len(qs)]

-----------------------------------------------------------------------------
(* Headers and entries.                                                    *)

(* split_bus_info_header: [info_len:8][crc_len:8][CRC:16]; both branches   *)
(* of parser's parse_bus_info_block decode the same fields.                *)
SplitBusInfoHeader(h) == [infoLen |-> h.hi \div 256, crcLen |-> h.hi % 256, crc |-> h.lo]

(* split_crc_len: [CRC:16][length:16].                                     *)
SplitCrcLen(h) == [crc |-> h.hi, len |-> h.lo]

(* Mutation: the byte-order test inverted.                                *)
LengthCrcOfInverted(e, h) ==
  IF e = "big" THEN [crc |-> h.lo, len |-> h.hi] ELSE SplitCrcLen(h)

(* parser's parse_directory and parse_leaf: for a little-endian dump the   *)
(* length is taken from bits 31:16 and the CRC from bits 15:0.             *)
LengthCrcOf(e, h) ==
  IF e = "little" THEN [crc |-> h.lo, len |-> h.hi] ELSE SplitCrcLen(h)

IMMEDIATE == 0
CSR_OFFSET == 1
LEAF_OFFSET == 2
DIR_OFFSET == 3
NoTarget == -1

(* Mutation: a pointer taken relative to the directory header.            *)
TargetFromHeader(dirOff, i, value) == dirOff + 4 * value

(* entry_offset + 4 * value: relative to the entry itself.                 *)
TargetOf(dirOff, i, value) == dirOff + 4 * i + 4 * value

(* The i-th entry quadlet of the directory at dirOff.                      *)
EntryOf(raw, dirOff, i) ==
  LET key   == raw.hi \div 256
      type  == key \div 64
      value == (raw.hi % 256) * 65536 + raw.lo
  IN  [type   |-> type,
       keyId  |-> key % 64,
       value  |-> value,
       target |-> IF type \in {LEAF_OFFSET, DIR_OFFSET}
                  THEN TargetOf(dirOff, i, value) ELSE NoTarget]

====
