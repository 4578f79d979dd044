---------------------------- MODULE ConfigRomParse ----------------------------
(***************************************************************************)
(* parse_config_rom of the three IEEE 1212 parsers, one step per stage:    *)
(* reading the dump (detect_endianness, or parser1's word swap in main),   *)
(* parse_bus_info_block, the root parse_directory, and each pass of the    *)
(* breadth-first loop of walk_tree with the parse_leaf calls it makes.     *)
(* An exception that the code does not catch ends the parse in "error".   *)
(***************************************************************************)
EXTENDS IEEE1212Rom, FiniteSetsExt, Graphs

CONSTANTS
  Inputs      (* records [parser, rom, order]: which of the three parsers, *)
              (* the ROM's quadlets, and "big" (wire order) or "little"    *)
              (* (host-order dump: each quadlet's bytes reversed)          *)

VARIABLES
  in,         (* the input of this run of the tool                         *)
  phase,      (* "read", "bus", "root", "walk", "done", "error"            *)
  reader,     (* [dump, e]: the bytes parsed and the read32 in use          *)
  bus,        (* parse_bus_info_block's result                              *)
  rootOff,    (* root_dir_offset                                            *)
  queue,      (* walk_tree: queue                                           *)
  seen,       (* walk_tree: seen                                            *)
  dirs,       (* walk_tree: dirs, offset -> [len, crcHdr, crcCalc]          *)
  leaves      (* walk_tree: leaves, offset -> [len, crcHdr, crcCalc]        *)

vars == <<in, phase, reader, bus, rootOff, queue, seen, dirs, leaves>>

Parsers == {"parser", "parser1", "broken"}
Phases == {"read", "bus", "root", "walk", "done", "error"}

(* The bytes of the file, as be32 reads them.                              *)
Stored(i) == IF i.order = "big" THEN i.rom ELSE SwapWords(i.rom)

Dump == reader.dump
E == reader.e

-----------------------------------------------------------------------------
(* parse_bus_info_block.                                                   *)

BusHeader == SplitBusInfoHeader(Read32(Dump, E, 0))

(* quadlets of the block: parser and parser1 read bus_info_length + 1 and  *)
(* raise past the end; broken raises below 4 bytes and truncates to the    *)
(* ROM, setting bus_info_length = total_quadlets - 1.                      *)
BusTotal ==
  IF in.parser = "broken" THEN Min({BusHeader.infoLen + 1, Len(Dump)})
  ELSE BusHeader.infoLen + 1

BusRaises == IF InRom(Dump, 0) THEN BusTotal > Len(Dump) ELSE TRUE

(* crc16_over_quadlets(quadlets[1:1 + crc_length]); the slice is clamped. *)
ParseBusInfo ==
  LET qs == [i \in 1 .. BusTotal |-> Read32(Dump, E, 4 * (i - 1))]
  IN  [infoLen |-> BusTotal - 1,
       crcLen  |-> IF in.parser = "broken" THEN BusTotal - 1 ELSE BusHeader.crcLen,
       crcHdr  |-> BusHeader.crc,
       crcCalc |-> crc16_over_quadlets(SubSeq(qs, 2, Min({1 + BusHeader.crcLen, BusTotal})))]

-----------------------------------------------------------------------------
(* parse_directory and parse_leaf.                                         *)

(* parser decodes the header by endianness; parser1 and broken call       *)
(* split_crc_len on the quadlet read32 returns.                            *)
HeaderAt(off) ==
  IF in.parser = "parser" THEN LengthCrcOf(E, Read32(Dump, E, off))
  ELSE SplitCrcLen(Read32(Dump, E, off))

(* read32 raises on the header or on the first entry past the end.         *)
DirRaises(off) ==
  IF InRom(Dump, off) THEN off + 4 * (HeaderAt(off).len + 1) > Bytes(Dump) ELSE TRUE

DirQuads(off) == [i \in 1 .. HeaderAt(off).len |-> Read32(Dump, E, off + 4 * i)]

Entries(off) == [i \in 1 .. HeaderAt(off).len |-> EntryOf(DirQuads(off)[i], off, i)]

ParseDirectory(off) ==
  [len |-> HeaderAt(off).len, crcHdr |-> HeaderAt(off).crc,
   crcCalc |-> crc16_over_quadlets(DirQuads(off))]

(* The payload is sliced and then unpacked: a short slice raises.          *)
LeafRaises(off) ==
  IF InRom(Dump, off) THEN off + 4 * (HeaderAt(off).len + 1) > Bytes(Dump) ELSE TRUE

(* broken unpacks the payload with ">I" whatever the endianness.           *)
LeafQuads(off) ==
  [i \in 1 .. HeaderAt(off).len |->
     IF in.parser = "broken" THEN be32(Dump, off + 4 * i) ELSE Read32(Dump, E, off + 4 * i)]

ParseLeaf(off) ==
  [len |-> HeaderAt(off).len, crcHdr |-> HeaderAt(off).crc,
   crcCalc |-> crc16_over_quadlets(LeafQuads(off))]

-----------------------------------------------------------------------------
(* walk_tree.                                                              *)

(* Mutation: only the lower bound checked.                                 *)
InRangeNoUpper(t) == 0 <= t

(* 0 <= e.target_rom_offset < len(rom)                                     *)
InRange(t) == 0 <= t /\ t < Bytes(Dump)

LeafTargets(off) ==
  {Entries(off)[i].target : i \in {j \in DOMAIN Entries(off) :
       Entries(off)[j].type = LEAF_OFFSET /\ InRange(Entries(off)[j].target)}}

DirTargets(off) ==
  LET isDir(x) == x.type = DIR_OFFSET /\ InRange(x.target)
      pick(x) == x.target
  IN  [k \in 1 .. Len(SelectSeq(Entries(off), isDir)) |->
         pick(SelectSeq(Entries(off), isDir)[k])]

Skipped(off) == off \in seen \/ off < 0 \/ off + 4 > Bytes(Dump)

-----------------------------------------------------------------------------
Init ==
  /\ in \in Inputs
  /\ phase = "read"
  /\ reader = [dump |-> <<>>, e |-> "big"]
  /\ bus = [infoLen |-> 0, crcLen |-> 0, crcHdr |-> 0, crcCalc |-> 0]
  /\ rootOff = 0
  /\ queue = <<>>
  /\ seen = {}
  /\ dirs = <<>>
  /\ leaves = <<>>

(* parse_config_rom's first line, or parser1's main before it.             *)
ReadDump ==
  /\ phase = "read"
  /\ reader' =
       IF in.parser = "parser1"
       THEN [dump |-> IF NeedsSwap(Stored(in)) THEN SwapWords(Stored(in)) ELSE Stored(in),
             e |-> "big"]
       ELSE [dump |-> Stored(in), e |-> DetectEndianness(Stored(in))]
  /\ phase' = "bus"
  /\ UNCHANGED <<in, bus, rootOff, queue, seen, dirs, leaves>>

BusInfo ==
  /\ phase = "bus"
  /\ ~BusRaises
  /\ bus' = ParseBusInfo
  /\ rootOff' = 4 * (ParseBusInfo.infoLen + 1)
  /\ phase' = "root"
  /\ UNCHANGED <<in, reader, queue, seen, dirs, leaves>>

BusInfoRaises ==
  /\ phase = "bus"
  /\ BusRaises
  /\ phase' = "error"
  /\ UNCHANGED <<in, reader, bus, rootOff, queue, seen, dirs, leaves>>

(* root = parse_directory(...) outside any try, then walk_tree starts.     *)
RootDir ==
  /\ phase = "root"
  /\ ~DirRaises(rootOff)
  /\ queue' = <<rootOff>>
  /\ phase' = "walk"
  /\ UNCHANGED <<in, reader, bus, rootOff, seen, dirs, leaves>>

RootRaises ==
  /\ phase = "root"
  /\ DirRaises(rootOff)
  /\ phase' = "error"
  /\ UNCHANGED <<in, reader, bus, rootOff, queue, seen, dirs, leaves>>

Visit(s, off) == s \cup {off}

WalkSkip ==
  /\ phase = "walk" /\ queue # <<>>
  /\ Skipped(Head(queue))
  /\ queue' = Tail(queue)
  /\ UNCHANGED <<in, phase, reader, bus, rootOff, seen, dirs, leaves>>

(* parse_directory raised inside the try: continue.                        *)
WalkDirRaises ==
  /\ phase = "walk" /\ queue # <<>>
  /\ ~Skipped(Head(queue)) /\ DirRaises(Head(queue))
  /\ seen' = Visit(seen, Head(queue))
  /\ queue' = Tail(queue)
  /\ UNCHANGED <<in, phase, reader, bus, rootOff, dirs, leaves>>

(* The directory is recorded, its new leaves parsed, its directories queued. *)
WalkDir ==
  LET off == Head(queue)
      new == LeafTargets(off) \ DOMAIN leaves
  IN
  /\ phase = "walk" /\ queue # <<>>
  /\ ~Skipped(off) /\ ~DirRaises(off)
  /\ \A t \in new : ~LeafRaises(t)
  /\ seen' = Visit(seen, off)
  /\ dirs' = dirs @@ (off :> ParseDirectory(off))
  /\ leaves' = leaves @@ [t \in new |-> ParseLeaf(t)]
  /\ queue' = Tail(queue) \o DirTargets(off)
  /\ UNCHANGED <<in, phase, reader, bus, rootOff>>

(* parse_leaf is outside the try: its exception ends parse_config_rom.     *)
WalkLeafRaises ==
  LET off == Head(queue) IN
  /\ phase = "walk" /\ queue # <<>>
  /\ ~Skipped(off) /\ ~DirRaises(off)
  /\ \E t \in LeafTargets(off) \ DOMAIN leaves : LeafRaises(t)
  /\ phase' = "error"
  /\ UNCHANGED <<in, reader, bus, rootOff, queue, seen, dirs, leaves>>

WalkDone ==
  /\ phase = "walk" /\ queue = <<>>
  /\ phase' = "done"
  /\ UNCHANGED <<in, reader, bus, rootOff, queue, seen, dirs, leaves>>

Next ==
  \/ ReadDump \/ BusInfo \/ BusInfoRaises \/ RootDir \/ RootRaises
  \/ WalkSkip \/ WalkDirRaises \/ WalkDir \/ WalkLeafRaises \/ WalkDone

Spec == Init /\ [][Next]_vars

-----------------------------------------------------------------------------
(* Reference definitions: the ROM as IEEE 1212 lays it out, read from the  *)
(* input's true quadlets, and its CRC-16 (generator x^16+x^12+x^5+1,       *)
(* 0x1021) computed a bit at a time, most significant bit first.           *)

Bits(q) == [i \in 1 .. 32 |->
              IF i <= 16 THEN (q.hi \div 2^(16 - i)) % 2 ELSE (q.lo \div 2^(32 - i)) % 2]

RefCrcBit(c, b) ==
  IF (c \div 32768) # b THEN ((c * 2) % 65536) ^^ 4129 ELSE (c * 2) % 65536

RefCrc(qs) ==
  LET RECURSIVE OverBits(_, _, _)
      OverBits(c, q, i) == IF i > 32 \/ c \notin Half THEN c
                           ELSE OverBits(RefCrcBit(c, Bits(q)[i]), q, i + 1)
      after[k \in 0 .. Len(qs)] == IF k = 0 THEN 0 ELSE OverBits(after[k - 1], qs[k], 1)
  IN  after[Len(qs)]

TrueBytes == Bytes(in.rom)
TrueQ(off) == in.rom[off \div 4 + 1]
TrueLen(off) == TrueQ(off).lo
TrueFits(off) == off + 4 <= TrueBytes /\ off + 4 * (TrueLen(off) + 1) <= TrueBytes
TrueBody(off) == SubSeq(in.rom, off \div 4 + 2, off \div 4 + 1 + TrueLen(off))
TrueCrcOk(off) == TrueQ(off).hi = RefCrc(TrueBody(off))

(* Targets of the entries of type ty: entry address + 4 * value.           *)
TrueTargets(off, ty) ==
  {off + 4 * i + 4 * ((TrueBody(off)[i].hi % 256) * 65536 + TrueBody(off)[i].lo) :
     i \in {j \in 1 .. TrueLen(off) : TrueBody(off)[j].hi \div 16384 = ty}}
  \cap (0 .. TrueBytes - 1)

(* The crc_length quadlets after the bus info header (a slice: clamped).  *)
TrueBusCrcBody == SubSeq(in.rom, 2, Min({1 + (TrueQ(0).hi % 256), Len(in.rom)}))
TrueInfoLen == in.rom[1].hi \div 256
TrueRoot == 4 * (TrueInfoLen + 1)
BusFits == TrueInfoLen + 1 <= Len(in.rom)

DirGraph ==
  LET nodes == {o \in {4 * k : k \in 0 .. Len(in.rom) - 1} : TrueFits(o)}
  IN  [node |-> nodes,
       edge |-> {<<o, t>> \in nodes \X nodes : t \in TrueTargets(o, DIR_OFFSET)}]

RECURSIVE Closure(_)
Closure(S) == IF AllSuccessors(DirGraph, S) \subseteq S THEN S
              ELSE Closure(S \cup AllSuccessors(DirGraph, S))

RefDirs == IF BusFits /\ TrueRoot \in DirGraph.node THEN Closure({TrueRoot}) ELSE {}
RefLeaves == UNION {TrueTargets(o, LEAF_OFFSET) : o \in RefDirs}

(* Every block the walk reaches is inside the ROM.                         *)
WellFormed ==
  /\ BusFits /\ TrueRoot \in DirGraph.node
  /\ \A o \in RefDirs : TrueTargets(o, DIR_OFFSET) \subseteq DirGraph.node
  /\ \A l \in RefLeaves : TrueFits(l)

-----------------------------------------------------------------------------
Block == [len : Half, crcHdr : Half, crcCalc : Half]

TypeOK ==
  /\ in \in Inputs /\ in.parser \in Parsers
  /\ phase \in Phases
  /\ reader.e \in {"big", "little"} /\ reader.dump \in Seq(Quadlet)
  /\ queue \in Seq(0 .. TrueBytes - 1)
  /\ seen \subseteq 0 .. TrueBytes - 1
  /\ DOMAIN dirs \subseteq seen /\ DOMAIN leaves \subseteq 0 .. TrueBytes - 1
  /\ \A o \in DOMAIN dirs : dirs[o] \in Block
  /\ \A o \in DOMAIN leaves : leaves[o] \in Block

(* CrcVerdictExact: for the bus info block and for every directory and   *)
(* leaf the walk parsed, the CRC check the dump prints (CRC hdr = CRC      *)
(* calc) says "match" exactly when the block's stored CRC is the IEEE 1212 *)
(* CRC of its quadlets: the nibble-wise crc16_quadlet_step agrees with the *)
(* bit-serial definition, and each parser feeds it the block's quadlets in *)
(* the right order and number.                                             *)
CrcVerdictExact ==
  /\ rootOff # 0 =>
       (bus.crcHdr = bus.crcCalc) = (TrueQ(0).lo = RefCrc(TrueBusCrcBody))
  /\ \A o \in DOMAIN dirs : (dirs[o].crcHdr = dirs[o].crcCalc) = TrueCrcOk(o)
  /\ \A o \in DOMAIN leaves : (leaves[o].crcHdr = leaves[o].crcCalc) = TrueCrcOk(o)

(* WalkFindsTree: when walk_tree returns, it has parsed exactly the        *)
(* directories reachable from the root directory through directory        *)
(* entries, and exactly the leaves those directories point to.            *)
WalkFindsTree ==
  phase = "done" => DOMAIN dirs = RefDirs /\ DOMAIN leaves = RefLeaves

(* ValidRomParses: a ROM whose bus info block, directories and leaves all  *)
(* lie inside the image is parsed without an exception, whichever byte     *)
(* order the dump is in (the module docstring: "Handles both big-endian    *)
(* (wire format) and little-endian (host dump) ROMs").                     *)
ValidRomParses == WellFormed => phase # "error"

====
