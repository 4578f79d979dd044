------------------------------ MODULE ATZNibble ------------------------------
(***************************************************************************)
(* The CommandPtr Z-nibble rules of src/tools/validate_z_nibble.py: the     *)
(* descriptor chain of one AT packet (class DescriptorChain), its block     *)
(* count, the old rule (ATSubmitPolicy::ComputeZ(firstIsImmediate)), the   *)
(* new rule (Z = total blocks) and validate_chain's verdict.  An IOVA is    *)
(* kept as an address relative to a 16-byte aligned base, which leaves     *)
(* the low nibble, the only part the rules read, unchanged.                *)
(***************************************************************************)
EXTENDS Naturals

(* DescriptorChain(first_iova32, first_blocks, last_blocks, payload_size) *)
Chain(firstIova, firstBlocks, lastBlocks, payloadSize) ==
  [firstIova |-> firstIova, firstBlocks |-> firstBlocks,
   lastBlocks |-> lastBlocks, payloadSize |-> payloadSize]

(* DescriptorChain.total_blocks                                           *)
TotalBlocks(c) ==
  IF c.payloadSize = 0 THEN c.firstBlocks ELSE c.firstBlocks + c.lastBlocks

(* compute_z_old(first_is_immediate)                                      *)
ComputeZOld(firstIsImmediate) == IF firstIsImmediate THEN 2 ELSE 0

(* compute_z_new(total_blocks): total_blocks & 0xF                         *)
ComputeZNew(total) == total % 16

(* command_ptr_from_iova(iova, z): (iova & 0xFFFFFFF0) | (z & 0xF)        *)
CommandPtrFromIova(iova, z) == (iova - (iova % 16)) + (z % 16)

(* The check validate_chain applies to a CommandPtr word: its low nibble  *)
(* equals the chain's total block count.                                   *)
ZNibbleOk(c, cmdPtr) == cmdPtr % 16 = TotalBlocks(c)

(* validate_chain: the verdict (ok_new), the old rule's verdict (ok_old). *)
ValidateChain(c) ==
  LET total == TotalBlocks(c)
      zOld  == ComputeZOld(c.firstBlocks = 2)
      zNew  == ComputeZNew(total)
  IN  [okNew |-> ZNibbleOk(c, CommandPtrFromIova(c.firstIova, zNew)),
       okOld |-> ZNibbleOk(c, CommandPtrFromIova(c.firstIova, zOld))]

(* The header-only packet all modes of dma_program_test.py send: an       *)
(* OUTPUT_LAST-Immediate descriptor and its 16-byte immediate area, no    *)
(* payload (validate_z_nibble's built-in vector 1).                        *)
HeaderOnlyChain(iova) == Chain(iova, 2, 0, 0)

=============================================================================
