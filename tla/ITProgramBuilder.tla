--------------------------- MODULE ITProgramBuilder ---------------------------
(***************************************************************************)
(* The isochronous-transmit DMA program builder of                         *)
(* src/tools/it_dma_program.py: class ITProgramBuilder with its descriptor *)
(* dataclasses (encoding), add_data_packet, add_nodata_packet,             *)
(* finalize_ring (ring linker) and validate (validator).                   *)
(*                                                                         *)
(* Python keeps the later of two definitions in a class body, so the       *)
(* add_nodata_packet, finalize_ring and validate that run are the ones at  *)
(* lines 633-711; the earlier copies (542-628) are dead code.              *)
(*                                                                         *)
(* Data abstraction:                                                       *)
(*  - an encoded descriptor is a 16-byte slot [ctl, req, w1, w2, w3hi]:    *)
(*    quadlet 0 as its two 16-bit halves (control, reqCount), quadlets 1   *)
(*    and 2 as integers, and the upper half of quadlet 3 (the lower half   *)
(*    is zero in every descriptor this builder emits).  Quadlet 0 is kept  *)
(*    in halves because TLC integers are signed 32-bit;                    *)
(*  - addresses stay below 2^31 in the model, so the & 0xFFFFFFFF masks    *)
(*    of struct.pack are the identity and only the low-nibble masks of     *)
(*    pack_ptr_with_z matter; 16-bit fields keep their width (% 2^16);     *)
(*  - the CIP quadlets the builder computes but never stores are kept as   *)
(*    the two fields that matter (dbs, dbc) in a "cip" field of the block. *)
(***************************************************************************)
EXTENDS Integers, Sequences, SequencesExt, Functions, FiniteSets

CONSTANTS
  BaseAddresses,   (* base_address values passed to ITProgramBuilder()   *)
  SkipStrategies,  (* SkipStrategy values: subset of {"next","self",      *)
                   (* "sentinel"}                                         *)
  Samples,         (* samples argument of add_data_packet                *)
  Channels,        (* channels argument of add_data_packet/add_nodata    *)
  Fragments,       (* fragments argument of add_data_packet              *)
  StoreVals,       (* store_val argument of add_data_packet, or None     *)
  None,            (* store_val=None                                      *)
  Speed,           (* constructor speed (enters IT header quadlet 0)     *)
  Channel,         (* constructor channel (enters IT header quadlet 0)   *)
  MaxAdds          (* bound: number of add_* calls explored              *)

ASSUME Fragments \subseteq Nat /\ Samples \subseteq Nat /\ Channels \subseteq Nat
ASSUME MaxAdds \in Nat

VARIABLES
  baseAddress,     (* self.base_address                                  *)
  skipStrategy,    (* self.skip_strategy                                 *)
  blocks,          (* self.blocks: Seq of [descs, address, cip]          *)
  dbc,             (* self.dbc                                           *)
  payloadOffset,   (* self.payload_offset                                *)
  program,         (* bytes returned by the last finalize_ring(), as a   *)
                   (* sequence of 16-byte slots; <<>> before the first   *)
  adds             (* add_* calls made so far (bounds the model only)    *)

vars == <<baseAddress, skipStrategy, blocks, dbc, payloadOffset, program, adds>>

-----------------------------------------------------------------------------
(* Enumerations of the control field (ITCmd, ITKey, ITIrq, ITBranch).      *)
OUTPUT_MORE == 0
OUTPUT_LAST == 1
STORE_VALUE == 8
KEY_STANDARD == 0
KEY_IMMEDIATE == 2
KEY_STORE == 6
IRQ_ALWAYS == 3
BRANCH_NEVER == 0
BRANCH_ALWAYS == 3
BLOCK_SIZE == 16

(* Mutation: the key field shifted one bit too far (<< 9).                *)
MakeControlKeyShifted(cmd, s, key, irq, branch, wait) ==
  ( (cmd % 16) * 4096 + (s % 2) * 2048 + (key % 8) * 512
    + (irq % 4) * 16 + (branch % 4) * 4 + (wait % 4) ) % 65536

(* make_control: the 16-bit control field.  The fields are masked and do   *)
(* not overlap, so the bitwise ORs are sums.                               *)
MakeControl(cmd, s, key, irq, branch, wait) ==
  ( (cmd % 16) * 4096 + (s % 2) * 2048 + (key % 8) * 256
    + (irq % 4) * 16 + (branch % 4) * 4 + (wait % 4) ) % 65536

(* Mutation: irq_on_complete encoded as 1 (interrupt on a condition).    *)
IrqBitsOnCondition(flag) == IF flag THEN 1 ELSE 0

(* The irq field of the to_bytes methods: ALWAYS when irq_on_complete.    *)
IrqBits(flag) == IF flag THEN IRQ_ALWAYS ELSE 0

(* pack_ptr_with_z: address with its low nibble replaced by Z.            *)
PackPtrWithZ(addr, z) == (addr - (addr % 16)) + (z % 16)

(* build_it_header_q0 with tag=1, sy=0, tcode=ISOCH_DATA.                  *)
ItQ0 == (Speed % 8) * 65536 + 1 * 16384 + (Channel % 64) * 256 + 10 * 16

Slot(ctl, req, w1, w2, w3hi) ==
  [ctl |-> ctl, req |-> req, w1 |-> w1, w2 |-> w2, w3hi |-> w3hi]

ZeroSlot == Slot(0, 0, 0, 0, 0)

-----------------------------------------------------------------------------
(* The descriptor dataclasses, as the builder fills them in.  ptrAddress   *)
(* and ptrZ are skip_address/skip_z for StoreValue and                     *)
(* OutputMoreImmediate and branch_address/branch_z for OutputLast; hdrLen  *)
(* is the data length carried in it_q1 of OutputMoreImmediate.            *)
Desc(kind, size, req, data, irq, hdrLen) ==
  [kind |-> kind, size |-> size, reqCount |-> req, dataAddress |-> data,
   ptrAddress |-> 0, ptrZ |-> 0, irq |-> irq, hdrLen |-> hdrLen]

StoreValueDesc(value, addr) == Desc("StoreValue", 16, value, addr, FALSE, 0)
OutputMoreImmediateDesc(len) == Desc("OutputMoreImmediate", 32, 8, 0, FALSE, len)
OutputMoreDesc(req, addr) == Desc("OutputMore", 16, req, addr, FALSE, 0)
OutputLastDesc(req, addr, irq) == Desc("OutputLast", 16, req, addr, irq, 0)

(* The to_bytes methods: one descriptor as its 16-byte slots.              *)
EncodeDesc(d) ==
  CASE d.kind = "StoreValue" ->
         << Slot(MakeControl(STORE_VALUE, 0, KEY_STORE, IrqBits(d.irq), BRANCH_NEVER, 0),
                 d.reqCount % 65536, d.dataAddress,
                 PackPtrWithZ(d.ptrAddress, d.ptrZ), 0) >>
    [] d.kind = "OutputMoreImmediate" ->
         << Slot(MakeControl(OUTPUT_MORE, 0, KEY_IMMEDIATE, IrqBits(d.irq), BRANCH_NEVER, 0),
                 8, PackPtrWithZ(d.ptrAddress, d.ptrZ), ItQ0, d.hdrLen % 65536),
            ZeroSlot >>
    [] d.kind = "OutputMore" ->
         << Slot(MakeControl(OUTPUT_MORE, 0, KEY_STANDARD, 0, BRANCH_NEVER, 0),
                 d.reqCount % 65536, d.dataAddress, 0, 0) >>
    [] d.kind = "OutputLast" ->
         << Slot(MakeControl(OUTPUT_LAST, 1, KEY_STANDARD, IrqBits(d.irq), BRANCH_ALWAYS, 0),
                 d.reqCount % 65536, d.dataAddress,
                 PackPtrWithZ(d.ptrAddress, d.ptrZ), 0) >>

(* Sum of a sequence of integers.                                          *)
SeqSum(s) ==
  LET partial[k \in 0 .. Len(s)] == IF k = 0 THEN 0 ELSE partial[k - 1] + s[k]
  IN  partial[Len(s)]

(* DescriptorBlock.z_value and DescriptorBlock.to_bytes.                   *)
ZValue(b) ==
  (SeqSum([j \in DOMAIN b.descs |-> b.descs[j].size]) + 15) \div 16

BlockBytes(b) == FlattenSeq([j \in DOMAIN b.descs |-> EncodeDesc(b.descs[j])])

Serialize(bs) == FlattenSeq([i \in DOMAIN bs |-> BlockBytes(bs[i])])

-----------------------------------------------------------------------------
(* Builder state derived from the instance fields.                         *)
PayloadBase == baseAddress + 65536       (* base_address + 0x10000         *)
SentinelAddr == baseAddress + 65280      (* base_address + 0xFF00          *)

(* _next_block_address                                                     *)
NextBlockAddress ==
  IF blocks = <<>> THEN baseAddress
  ELSE Last(blocks).address + ZValue(Last(blocks)) * BLOCK_SIZE

Align16(size) == ((size + 15) \div 16) * 16

(* Mutation: _alloc_payload handing out the address after the bump.        *)
PayloadAddressAfterBump(size) == PayloadBase + payloadOffset + Align16(size)

(* _alloc_payload: the address it returns ...                              *)
PayloadAddress(size) == PayloadBase + payloadOffset

(* ... and the cursor it leaves behind.                                    *)
AllocPayload(size) == payloadOffset' = payloadOffset + Align16(size)

(* Mutation: DBC advanced without the & 0xFF wrap.                         *)
DbcAdvanceNoWrap(d, s) == d + s

DbcAdvance(d, s) == (d + s) % 256

PayloadLen(s, c) == 8 + s * c * 4

(* The fragment check of add_data_packet: payload_len // fragments must be *)
(* a multiple of 4; fragments = 0 raises ZeroDivisionError in the same     *)
(* place.                                                                  *)
FragmentAligned(len, f) == f # 0 /\ (len \div f) % 4 = 0

(* The descriptors of a DATA block (add_data_packet, steps 1-3).           *)
DataDescs(len, f, sv, irq, addr) ==
  LET fragSize == len \div f
      storePart == IF sv = None THEN <<>>
                   ELSE << StoreValueDesc(sv, PayloadBase - 4) >>
      mores == [k \in 1 .. f - 1 |-> OutputMoreDesc(fragSize, addr + (k - 1) * fragSize)]
  IN  storePart \o << OutputMoreImmediateDesc(len) >> \o mores
        \o << OutputLastDesc(fragSize + (len % f), addr + (f - 1) * fragSize, irq) >>

-----------------------------------------------------------------------------
(* Ring linker (finalize_ring).                                            *)
NextIndex(i, n) == (i % n) + 1          (* (i + 1) % count, 1-based        *)

Target(b) == [address |-> b.address, z |-> ZValue(b)]

(* Mutation: branch Z taken from the block itself instead of its successor. *)
BranchTargetOwnZ(i) ==
  [address |-> blocks[NextIndex(i, Len(blocks))].address, z |-> ZValue(blocks[i])]

(* The branch of every OUTPUT_LAST goes to next_block, whatever the skip   *)
(* strategy.                                                               *)
BranchTarget(i) == Target(blocks[NextIndex(i, Len(blocks))])

(* Mutation: SELF skip pointer given the successor's Z.                    *)
SkipTargetSelfNextZ(i) ==
  CASE skipStrategy = "next" -> Target(blocks[NextIndex(i, Len(blocks))])
    [] skipStrategy = "self" ->
         [address |-> blocks[i].address, z |-> ZValue(blocks[NextIndex(i, Len(blocks))])]
    [] OTHER -> [address |-> SentinelAddr, z |-> 1]

SkipTarget(i) ==
  CASE skipStrategy = "next" -> Target(blocks[NextIndex(i, Len(blocks))])
    [] skipStrategy = "self" -> Target(blocks[i])
    [] OTHER -> [address |-> SentinelAddr, z |-> 1]

LinkDesc(d, skip, branch) ==
  CASE d.kind \in {"StoreValue", "OutputMoreImmediate"} ->
         [d EXCEPT !.ptrAddress = skip.address, !.ptrZ = skip.z]
    [] d.kind = "OutputLast" ->
         [d EXCEPT !.ptrAddress = branch.address, !.ptrZ = branch.z]
    [] OTHER -> d

LinkedBlocks ==
  [i \in DOMAIN blocks |->
     [blocks[i] EXCEPT !.descs =
        [j \in DOMAIN blocks[i].descs |->
           LinkDesc(blocks[i].descs[j], SkipTarget(i), BranchTarget(i))]]]

-----------------------------------------------------------------------------
(* Validator (validate): the set of findings, as <<block index, cause>>.   *)
Misaligned(addr) == addr % 16 # 0

TooManyMore(n) == n > 8

ValidateBlock(i, b) ==
  LET kinds == {b.descs[j].kind : j \in DOMAIN b.descs}
      moreCount == Cardinality({j \in DOMAIN b.descs :
                                  b.descs[j].kind \in {"OutputMore", "OutputMoreImmediate"}})
      failed == [store_not_first |-> "StoreValue" \in kinds /\ b.descs[1].kind # "StoreValue",
                 too_many_more   |-> TooManyMore(moreCount),
                 missing_last    |-> "OutputLast" \notin kinds,
                 misaligned      |-> Misaligned(b.address)]
  IN  { <<i, cause>> : cause \in {c \in DOMAIN failed : failed[c]} }

Validate(bs) == UNION { ValidateBlock(i, bs[i]) : i \in DOMAIN bs }

-----------------------------------------------------------------------------
Init ==
  /\ baseAddress \in BaseAddresses
  /\ skipStrategy \in SkipStrategies
  /\ blocks = <<>>
  /\ dbc = 0
  /\ payloadOffset = 0
  /\ program = <<>>
  /\ adds = 0

(* add_data_packet that returns a block.                                   *)
AddDataPacket ==
  \E s \in Samples, c \in Channels, f \in Fragments, sv \in StoreVals, irq \in BOOLEAN :
    LET len == PayloadLen(s, c) IN
    /\ adds < MaxAdds
    /\ FragmentAligned(len, f)
    /\ blocks' = Append(blocks,
                   [descs |-> DataDescs(len, f, sv, irq, PayloadAddress(len)),
                    address |-> NextBlockAddress,
                    cip |-> [dbs |-> c, dbc |-> dbc]])
    /\ dbc' = DbcAdvance(dbc, s)
    /\ AllocPayload(len)
    /\ adds' = adds + 1
    /\ UNCHANGED <<baseAddress, skipStrategy, program>>

(* add_data_packet that raises: ValueError for an unaligned fragment size, *)
(* ZeroDivisionError for fragments = 0.  dbc (line 483) and the payload    *)
(* cursor (line 500) have already moved when it raises.                    *)
AddDataPacketRaises ==
  \E s \in Samples, c \in Channels, f \in Fragments :
    LET len == PayloadLen(s, c) IN
    /\ adds < MaxAdds
    /\ ~FragmentAligned(len, f)
    /\ dbc' = DbcAdvance(dbc, s)
    /\ AllocPayload(len)
    /\ adds' = adds + 1
    /\ UNCHANGED <<baseAddress, skipStrategy, blocks, program>>

(* add_nodata_packet (the definition at line 633).                         *)
AddNoDataPacket ==
  \E c \in Channels, irq \in BOOLEAN :
    /\ adds < MaxAdds
    /\ blocks' = Append(blocks,
                   [descs |-> << OutputMoreImmediateDesc(8),
                                 OutputLastDesc(8, PayloadAddress(8), irq) >>,
                    address |-> NextBlockAddress,
                    cip |-> [dbs |-> c, dbc |-> dbc]])
    /\ AllocPayload(8)
    /\ adds' = adds + 1
    /\ UNCHANGED <<baseAddress, skipStrategy, dbc, program>>

(* finalize_ring (the definition at line 654).  With no blocks it returns  *)
(* b'' and changes nothing, so only the non-empty case is a step.          *)
FinalizeRing ==
  /\ blocks # <<>>
  /\ blocks' = LinkedBlocks
  /\ program' = Serialize(LinkedBlocks)
  /\ UNCHANGED <<baseAddress, skipStrategy, dbc, payloadOffset, adds>>

Next ==
  \/ AddDataPacket
  \/ AddDataPacketRaises
  \/ AddNoDataPacket
  \/ FinalizeRing

Spec == Init /\ [][Next]_vars

-----------------------------------------------------------------------------
(***************************************************************************)
(* How the controller reads an image (OHCI 1.1), for the refinement        *)
(* mapping and the properties.  A fetch position is a slot (1-based; slot  *)
(* k lies at baseAddress + 16*(k-1)) and the Z of the pointer that led     *)
(* there: the controller fetches slots slot..slot+Z-1, the last of which   *)
(* must be an OUTPUT_LAST whose quadlet 2 is the branch word.  The control *)
(* field is decoded as analyze_it_log decodes it.                          *)
(***************************************************************************)
DecodeCmd(ctl) == (ctl \div 4096) % 16
DecodeKey(ctl) == (ctl \div 256) % 8
DecodeIrq(ctl) == (ctl \div 16) % 4

(* The slot a pointer word names, or 0 if it names no slot of the image.   *)
PtrSlot(ptr) ==
  LET a == ptr - (ptr % 16) IN
  IF a >= baseAddress /\ (a - baseAddress) % 16 = 0
  THEN (a - baseAddress) \div 16 + 1 ELSE 0

TerminalSlot(pos) == pos.slot + pos.z - 1

Fetchable(img, pos) ==
  /\ pos.slot >= 1 /\ pos.z >= 1
  /\ TerminalSlot(pos) <= Len(img)
  /\ DecodeCmd(img[TerminalSlot(pos)].ctl) = OUTPUT_LAST

BranchFrom(img, pos) ==
  LET br == img[TerminalSlot(pos)].w2 IN [slot |-> PtrSlot(br), z |-> br % 16]

IsPayloadSlot(sl) ==
  DecodeKey(sl.ctl) = KEY_STANDARD /\ DecodeCmd(sl.ctl) \in {OUTPUT_MORE, OUTPUT_LAST}

(* The packet the controller sends from the block at pos.                  *)
PacketAt(img, pos) ==
  LET blk == SubSeq(img, pos.slot, TerminalSlot(pos)) IN
  [len |-> SeqSum([k \in DOMAIN blk |-> IF IsPayloadSlot(blk[k]) THEN blk[k].req ELSE 0]),
   irq |-> DecodeIrq(img[TerminalSlot(pos)].ctl) = IRQ_ALWAYS]

BrokenPacket == [len |-> -1, irq |-> FALSE]

(* The packets of one lap from start along the branch words: the walk     *)
(* ends when a branch leads back to start; a fetch that fails, or a lap    *)
(* longer than the image, yields BrokenPacket.                             *)
RECURSIVE WalkRing(_, _, _, _)
WalkRing(img, start, at, fuel) ==
  LET Walk(pos) ==
        IF fuel = 0 \/ ~Fetchable(img, pos) THEN << BrokenPacket >>
        ELSE << PacketAt(img, pos) >>
               \o (IF BranchFrom(img, pos) = start THEN << >>
                   ELSE WalkRing(img, start, BranchFrom(img, pos), fuel - 1))
  IN  (* pos is bound to the value of at once, not re-derived per use *)
      CHOOSE w \in {Walk(pos) : pos \in {at}} : TRUE

(* The driver starts the context at block 0 with that block's Z.  (Image  *)
(* and blocks are parameters so that the primed mapping is evaluated on    *)
(* values.)                                                                *)
HardwareRingOf(img, bs) ==
  IF img = << >> THEN << >>
  ELSE LET start == [slot |-> 1, z |-> ZValue(bs[1])] IN
       WalkRing(img, start, start, Len(img))

(* The packet a block was asked to send: the bytes of its OUTPUT_MORE and  *)
(* OUTPUT_LAST fragments before encoding, and the interrupt flag.          *)
RequestedPacket(b) ==
  LET frags == SelectSeq(b.descs, LAMBDA d : d.kind \in {"OutputMore", "OutputLast"}) IN
  [len |-> SeqSum([k \in DOMAIN frags |-> frags[k].reqCount]), irq |-> Last(b.descs).irq]

RequestedPacketsOf(bs) == [i \in DOMAIN bs |-> RequestedPacket(bs[i])]

-----------------------------------------------------------------------------
(* Properties.                                                             *)

SlotType == [ctl : 0 .. 65535, req : 0 .. 65535, w1 : Nat, w2 : Nat, w3hi : 0 .. 65535]
DescType ==
  [kind : {"StoreValue", "OutputMoreImmediate", "OutputMore", "OutputLast"},
   size : {16, 32}, reqCount : Nat, dataAddress : Nat, ptrAddress : Nat, ptrZ : Nat,
   irq : BOOLEAN, hdrLen : Nat]

TypeOK ==
  /\ baseAddress \in BaseAddresses
  /\ skipStrategy \in SkipStrategies
  /\ blocks \in Seq([descs : Seq(DescType), address : Nat,
                     cip : [dbs : Channels, dbc : 0 .. 255]])
  /\ dbc \in 0 .. 255
  /\ payloadOffset \in Nat
  /\ program \in Seq(SlotType)
  /\ adds \in 0 .. MaxAdds

(* RingRefinement: the bytes finalize_ring returns, read by the controller *)
(* from block 0 along the branch words (each word's Z telling how many     *)
(* slots to fetch), transmit exactly the packets added to the builder, in  *)
(* order, and lead back to block 0; blocks added after a finalize_ring are *)
(* not in the bytes it returned.  This is the spec's ring-closure and      *)
(* size-conservation requirement, stated on the encoded bytes.             *)
Ring == INSTANCE ITPacketRing
          WITH packets <- RequestedPacketsOf(blocks), ring <- HardwareRingOf(program, blocks)

RingRefinement == Ring!Spec

(* Blocks of self.blocks that the last returned image contains.            *)
StartSlot(i) == (blocks[i].address - baseAddress) \div 16 + 1
EndSlot(i) == StartSlot(i) + ZValue(blocks[i]) - 1
ImageBlockCount == Cardinality({i \in DOMAIN blocks : EndSlot(i) <= Len(program)})

SkipCarrier(sl) ==
  \/ DecodeKey(sl.ctl) = KEY_STORE
  \/ DecodeKey(sl.ctl) = KEY_IMMEDIATE /\ DecodeCmd(sl.ctl) = OUTPUT_MORE

(* STORE_VALUE keeps its skip word in quadlet 2, OUTPUT_MORE-Immediate in  *)
(* quadlet 1 (to_bytes of each).                                           *)
SkipWord(sl) == IF DecodeKey(sl.ctl) = KEY_STORE THEN sl.w2 ELSE sl.w1

(* SkipAgreesWithBranch: in an image linked with the "next" strategy, a    *)
(* lost cycle continues exactly where the transmitted packet would have:   *)
(* every skip word (STORE_VALUE, OUTPUT_MORE-Immediate) equals the branch  *)
(* word of its own block's OUTPUT_LAST, address and Z.  With "self" a lost *)
(* cycle retries the block exactly as it is entered: every skip word       *)
(* equals the branch word that leads into the block.  (finalize_ring sets  *)
(* the two kinds of pointer in separate branches, from different blocks.)  *)
SkipAgreesWithBranch ==
  skipStrategy \in {"next", "self"} =>
    LET n == ImageBlockCount
        Branch(i) == program[EndSlot(i)].w2
        Pred(i) == IF i = 1 THEN n ELSE i - 1
    IN \A i \in 1 .. n : \A k \in StartSlot(i) .. EndSlot(i) :
         SkipCarrier(program[k]) =>
           SkipWord(program[k]) = IF skipStrategy = "next" THEN Branch(i) ELSE Branch(Pred(i))

(* BuffersDisjoint: the fragments of every block gather one contiguous     *)
(* payload buffer (each fragment starts where the previous ended), and the *)
(* buffers of different blocks never overlap, across every sequence of     *)
(* add_data_packet/add_nodata_packet calls, failed calls included.         *)
Frags(b) == SelectSeq(b.descs, LAMBDA d : d.kind \in {"OutputMore", "OutputLast"})
BufStart(b) == Frags(b)[1].dataAddress
BufEnd(b) == BufStart(b) + RequestedPacket(b).len

BuffersDisjoint ==
  /\ \A i \in DOMAIN blocks :
       LET fr == Frags(blocks[i]) IN
       \A k \in 1 .. Len(fr) - 1 : fr[k + 1].dataAddress = fr[k].dataAddress + fr[k].reqCount
  /\ \A i, j \in DOMAIN blocks :
       i < j => BufEnd(blocks[i]) <= BufStart(blocks[j]) \/ BufEnd(blocks[j]) <= BufStart(blocks[i])

(* DbcContinuity: the DBC stamped into the blocks' CIP headers (cip_q0,   *)
(* built from self.dbc) starts at 0 and advances by exactly the samples of *)
(* the block before: the wire protocol's block-counter continuity (spec    *)
(* 4.2), with calls that raise UnalignedFragment leaving no trace in the   *)
(* stream (spec 7).                                                        *)
SamplesOf(b) == (RequestedPacket(b).len - 8) \div (4 * b.cip.dbs)
DbcAfter(b) == (b.cip.dbc + SamplesOf(b)) % 256

DbcContinuity ==
  /\ blocks # <<>> => blocks[1].cip.dbc = 0
  /\ \A i \in 1 .. Len(blocks) - 1 : blocks[i + 1].cip.dbc = DbcAfter(blocks[i])

=============================================================================
