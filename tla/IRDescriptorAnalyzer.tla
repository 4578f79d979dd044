------------------------- MODULE IRDescriptorAnalyzer -------------------------
(***************************************************************************)
(* The isochronous-receive descriptor decoder and encoder of               *)
(* src/tools/analyze_ir_descriptor.py (class IRDescriptor): the field      *)
(* accessors of a 16-byte descriptor unpacked as four little-endian        *)
(* quadlets, the issue list its __str__ prints, and the static builders    *)
(* build_control and build_branch.  Shifts and masks are written as        *)
(* \div and %; every value stays below 2^31.                               *)
(***************************************************************************)
EXTENDS Naturals

(* IRDescriptor.from_bytes: struct.unpack('<IIII', data[:16]).             *)
Descriptor(control, dataAddress, branchWord, statusWord) ==
  [control |-> control, dataAddress |-> dataAddress,
   branchWord |-> branchWord, statusWord |-> statusWord]

(* Control word fields (control >> n) & mask.                              *)
Cmd(d)      == (d.control \div 268435456) % 16     (* >> 28 & 0xF        *)
S(d)        == (d.control \div 134217728) % 2      (* >> 27 & 0x1        *)
Key(d)      == (d.control \div 16777216) % 8       (* >> 24 & 0x7        *)
I(d)        == (d.control \div 1048576) % 4        (* >> 20 & 0x3        *)
B(d)        == (d.control \div 262144) % 4         (* >> 18 & 0x3        *)
W(d)        == (d.control \div 65536) % 4          (* >> 16 & 0x3        *)
ReqCount(d) == d.control % 65536                   (* & 0xFFFF           *)

(* Branch word: branchAddress (& 0xFFFFFFF0) and Z (& 0xF).                *)
BranchAddress(d) == d.branchWord - (d.branchWord % 16)
Z(d)             == d.branchWord % 16

(* Status word: xferStatus (>> 16) and resCount (& 0xFFFF).                *)
XferStatus(d) == (d.statusWord \div 65536) % 65536
ResCount(d)   == d.statusWord % 65536

(* The issues __str__ lists for a descriptor.                              *)
Issues(d) ==
  { t \in {"key", "b", "Z", "s"} :
      \/ t = "key" /\ Key(d) # 0
      \/ t = "b"   /\ B(d) # 3
      \/ t = "Z"   /\ Z(d) = 0
      \/ t = "s"   /\ S(d) = 0 }

(* IRDescriptor.build_control: the high half from cmd, s, key = 0, i, b,   *)
(* w, shifted up 16, with reqCount in the low half.                        *)
BuildControl(reqCount, cmd, s, i, b, w) ==
  LET high == (cmd % 16) * 4096 + (s % 2) * 2048 + 0 * 256
              + (i % 4) * 16 + (b % 4) * 4 + (w % 4)
  IN  high * 65536 + (reqCount % 65536)

(* IRDescriptor.build_branch.                                               *)
BuildBranch(addr, z) == (addr - (addr % 16)) + (z % 16)

=============================================================================
