--------------------------- MODULE IRProgramBuilder ---------------------------
(***************************************************************************)
(* The isochronous-receive DMA program builder of                          *)
(* src/tools/ir_dma_program.py: class IRProgramBuilder with the            *)
(* descriptors InputLast (packet-per-buffer) and InputMore (buffer-fill),  *)
(* add_buffer and finalize_ring.  Every block holds one 16-byte            *)
(* descriptor, so its z_value is 1.                                        *)
(*                                                                         *)
(* Data abstraction: an encoded descriptor is its four little-endian       *)
(* quadlets as integers (control, data address, branch word, status       *)
(* word); addresses stay below 2^31, so the & 0xFFFFFFF0 of the branch     *)
(* word only clears the low nibble.                                        *)
(***************************************************************************)
EXTENDS Integers, Sequences

CONSTANTS
  BaseAddresses,    (* base_address values of IRProgramBuilder()          *)
  BufferBases,      (* buffer_base values                                 *)
  Modes,            (* mode values ("input-last", "input-more")           *)
  Sizes,            (* size argument of add_buffer                        *)
  MaxAdds           (* bound: add_buffer calls explored                   *)

VARIABLES
  baseAddress,      (* self.base_address                                  *)
  bufferBase,       (* self.buffer_base                                   *)
  mode,             (* self.mode                                          *)
  bufferOffset,     (* self.buffer_offset                                 *)
  blocks,           (* self.blocks: Seq of [desc, address]                *)
  program,          (* bytes returned by the last finalize_ring(), one     *)
                    (* descriptor per element; <<>> before the first       *)
  adds              (* add_buffer calls made so far                       *)

vars == <<baseAddress, bufferBase, mode, bufferOffset, blocks, program, adds>>

Dec == INSTANCE IRDescriptorAnalyzer

CMD_INPUT_MORE == 2
CMD_INPUT_LAST == 3
KEY_STANDARD == 0
BRANCH_NEVER == 0
BRANCH_ALWAYS == 3
IRQ_ALWAYS == 3
WAIT_YES == 3
BLOCK_SIZE == 16

-----------------------------------------------------------------------------
(* A descriptor as add_buffer creates it; "last" is its class (InputLast   *)
(* or InputMore).  wait keeps its default False.                           *)
IRDesc(last, size, addr, irq) ==
  [last |-> last, reqCount |-> size, dataAddress |-> addr, branchAddress |-> 0,
   branchZ |-> 0, bufferFill |-> ~last, writeStatus |-> TRUE, irq |-> irq,
   wait |-> FALSE, initialResCount |-> size]

(* Mutation: the interrupt field shifted into the reserved bits 23:22.     *)
IrqShiftReserved(i) == i * 4194304

(* Bits 21:20 of the control word.                                          *)
IrqShift(i) == i * 1048576

(* The control word of InputLast.to_bytes / InputMore.to_bytes: b is       *)
(* always BRANCH_ALWAYS for InputLast and follows buffer_fill for          *)
(* InputMore.                                                              *)
Control(d) ==
  LET cmd == IF d.last THEN CMD_INPUT_LAST ELSE CMD_INPUT_MORE
      b   == IF d.last \/ d.bufferFill THEN BRANCH_ALWAYS ELSE BRANCH_NEVER
  IN  cmd * 268435456 + (IF d.writeStatus THEN 1 ELSE 0) * 134217728
      + KEY_STANDARD * 16777216 + IrqShift(IF d.irq THEN IRQ_ALWAYS ELSE 0)
      + b * 262144 + (IF d.wait THEN WAIT_YES ELSE 0) * 65536
      + (d.reqCount % 65536)

(* validate(): to_bytes raises ValueError when this holds.                 *)
Invalid(d) == d.reqCount > 65535 \/ d.branchAddress % 16 # 0

(* to_bytes: struct.pack('<IIII', control, data, branch_ptr, status_res).  *)
Encode(d) ==
  [control |-> Control(d), dataAddress |-> d.dataAddress,
   branchWord |-> (d.branchAddress - (d.branchAddress % 16)) + (d.branchZ % 16),
   statusWord |-> d.initialResCount % 65536]

-----------------------------------------------------------------------------
(* _next_block_address: base, or just past the last block.                 *)
NextBlockAddress ==
  IF blocks = << >> THEN baseAddress
  ELSE blocks[Len(blocks)].address + 1 * BLOCK_SIZE

(* Mutation: rounding down instead of up.                                  *)
RoundDown16(size) == (size \div 16) * 16

(* Mutation: no rounding.                                                  *)
NoRound(size) == size

(* The cursor step of _alloc_buffer: (size + 15) & ~15.                    *)
AllocSize(size) == ((size + 15) \div 16) * 16

(* finalize_ring's loop: every block's descriptor branches to the next     *)
(* block (the last to block 0) with Z = 0.                                 *)
LinkedBlocks ==
  [i \in DOMAIN blocks |->
     [blocks[i] EXCEPT
        !.desc.branchAddress = blocks[(i % Len(blocks)) + 1].address,
        !.desc.branchZ = 0]]

Init ==
  /\ baseAddress \in BaseAddresses
  /\ bufferBase \in BufferBases
  /\ mode \in Modes
  /\ bufferOffset = 0
  /\ blocks = << >>
  /\ program = << >>
  /\ adds = 0

(* add_buffer(size, irq): mode "input-last" makes an InputLast, any other  *)
(* mode an InputMore with buffer_fill.                                     *)
AddBuffer ==
  \E size \in Sizes, irq \in BOOLEAN :
    /\ adds < MaxAdds
    /\ blocks' = Append(blocks,
                   [desc |-> IRDesc(mode = "input-last", size,
                                    bufferBase + bufferOffset, irq),
                    address |-> NextBlockAddress])
    /\ bufferOffset' = bufferOffset + AllocSize(size)
    /\ adds' = adds + 1
    /\ UNCHANGED <<baseAddress, bufferBase, mode, program>>

(* finalize_ring returning the program.  (With no blocks it returns b''    *)
(* and changes nothing.)                                                   *)
FinalizeRing ==
  /\ blocks # << >>
  /\ \A i \in DOMAIN LinkedBlocks : ~Invalid(LinkedBlocks[i].desc)
  /\ blocks' = LinkedBlocks
  /\ program' = [i \in DOMAIN LinkedBlocks |-> Encode(LinkedBlocks[i].desc)]
  /\ UNCHANGED <<baseAddress, bufferBase, mode, bufferOffset, adds>>

(* finalize_ring raising ValueError from validate() while serializing:     *)
(* the branch fields were already set by the loop before it.               *)
FinalizeRingRaises ==
  /\ blocks # << >>
  /\ \E i \in DOMAIN LinkedBlocks : Invalid(LinkedBlocks[i].desc)
  /\ blocks' = LinkedBlocks
  /\ UNCHANGED <<baseAddress, bufferBase, mode, bufferOffset, program, adds>>

Next == AddBuffer \/ FinalizeRing \/ FinalizeRingRaises

Spec == Init /\ [][Next]_vars


-----------------------------------------------------------------------------
(***************************************************************************)
(* How the controller reads a returned program (OHCI 1.1, IR), decoding    *)
(* each descriptor as analyze_ir_descriptor.py does.  The context starts   *)
(* at block 0 with Z = 1; it fetches Z descriptors, receives into the      *)
(* buffer of the last one, and with b = 3 follows the branch word.  A      *)
(* branch word with Z = 0 ends the program: the context stops.             *)
(***************************************************************************)
PtrSlot(ptr) ==
  LET a == Dec!BranchAddress([branchWord |-> ptr]) IN
  IF a >= baseAddress /\ (a - baseAddress) % BLOCK_SIZE = 0
  THEN (a - baseAddress) \div BLOCK_SIZE + 1 ELSE 0

Fetchable(img, pos) ==
  /\ pos.slot >= 1 /\ pos.z >= 1
  /\ pos.slot + pos.z - 1 <= Len(img)
  /\ Dec!Cmd(img[pos.slot + pos.z - 1]) \in {CMD_INPUT_MORE, CMD_INPUT_LAST}
  /\ Dec!B(img[pos.slot + pos.z - 1]) = BRANCH_ALWAYS

BranchFrom(img, pos) ==
  LET d == img[pos.slot + pos.z - 1] IN
  [slot |-> PtrSlot(d.branchWord), z |-> Dec!Z(d)]

(* The buffer filled at pos: its reqCount and whether it interrupts.      *)
BufferAt(img, pos) ==
  LET d == img[pos.slot + pos.z - 1] IN
  [len |-> Dec!ReqCount(d), irq |-> Dec!I(d) = IRQ_ALWAYS]

Stopped == [len |-> -1, irq |-> FALSE]

(* One lap from start: the buffers filled until a branch leads back to     *)
(* start; a stop or a failed fetch yields Stopped.                         *)
RECURSIVE WalkRing(_, _, _, _)
WalkRing(img, start, at, fuel) ==
  LET Walk(pos) ==
        IF fuel = 0 \/ ~Fetchable(img, pos) THEN << Stopped >>
        ELSE << BufferAt(img, pos) >>
             \o (IF BranchFrom(img, pos) = start THEN << >>
                 ELSE WalkRing(img, start, BranchFrom(img, pos), fuel - 1))
  IN  CHOOSE w \in {Walk(pos) : pos \in {at}} : TRUE

HardwareRingOf(img) ==
  IF img = << >> THEN << >>
  ELSE WalkRing(img, [slot |-> 1, z |-> 1], [slot |-> 1, z |-> 1], Len(img))

(* The buffer add_buffer was asked for.                                    *)
RequestedBuffersOf(bs) ==
  [i \in DOMAIN bs |-> [len |-> bs[i].desc.reqCount, irq |-> bs[i].desc.irq]]

-----------------------------------------------------------------------------
(* Properties.                                                             *)

EncodedType ==
  [control : 0 .. 2147483647, dataAddress : Nat, branchWord : Nat,
   statusWord : 0 .. 65535]

(* TypeOK: the fields of the builder, with the buffer cursor a multiple   *)
(* of 16.                                                                  *)
TypeOK ==
  /\ baseAddress \in BaseAddresses
  /\ bufferBase \in BufferBases
  /\ mode \in Modes
  /\ bufferOffset \in Nat /\ bufferOffset % 16 = 0
  /\ \A i \in DOMAIN blocks : blocks[i].desc.reqCount \in Sizes
  /\ program \in Seq(EncodedType)
  /\ adds \in 0 .. MaxAdds

(* DescriptorsDecode: every descriptor of the last returned program,       *)
(* decoded by analyze_ir_descriptor.py, is the one add_buffer was asked    *)
(* for (command by mode, reqCount, interrupt, resCount = reqCount, status  *)
(* 0), branches to the next block of that program (the last to block 0),   *)
(* carries no issue but possibly Z, and has the control word that          *)
(* IRDescriptor.build_control gives for the same fields: the two tools     *)
(* agree on the control-word layout, also after more blocks were added     *)
(* and a later finalize_ring raised.                                       *)
DescriptorsDecode ==
  \A i \in DOMAIN program :
    LET d   == program[i]
        req == blocks[i].desc
        cmd == IF mode = "input-last" THEN CMD_INPUT_LAST ELSE CMD_INPUT_MORE
        irq == IF req.irq THEN IRQ_ALWAYS ELSE 0
    IN  /\ Dec!Cmd(d) = cmd
        /\ Dec!ReqCount(d) = req.reqCount
        /\ Dec!I(d) = irq
        /\ Dec!BranchAddress(d) = blocks[(i % Len(program)) + 1].address
        /\ Dec!ResCount(d) = req.reqCount /\ Dec!XferStatus(d) = 0
        /\ Dec!Issues(d) \subseteq {"Z"}
        /\ d.control = Dec!BuildControl(req.reqCount, cmd, 1, irq, BRANCH_ALWAYS, 0)

(* BuffersDisjoint: the receive buffers of different blocks never overlap  *)
(* and all lie below the buffer cursor.                                    *)
BuffersDisjoint ==
  \A i, j \in DOMAIN blocks :
    LET a == blocks[i].desc  b == blocks[j].desc IN
    /\ a.dataAddress + a.reqCount <= bufferBase + bufferOffset
    /\ i < j => a.dataAddress + a.reqCount <= b.dataAddress

(* RingRefinement: the program finalize_ring returns, read by the          *)
(* controller from block 0, fills exactly the buffers added, in order,     *)
(* and leads back to block 0 (the module docstring's "ring", and           *)
(* analyze_ir_descriptor.py's "Z=0 STOPS context! Should be 1").          *)
Ring == INSTANCE ITPacketRing
          WITH packets <- RequestedBuffersOf(blocks), ring <- HardwareRingOf(program)

RingRefinement == Ring!Spec

=============================================================================
