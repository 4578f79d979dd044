------------------------ MODULE MC_IRProgramBuilder ------------------------
(***************************************************************************)
(* Model-checking instances of IRProgramBuilder.  Addresses are small      *)
(* (descriptors at 0x100, buffers at 0x1000): the defaults 0x80000000 and  *)
(* 0x90000000 exceed TLC's integers, and no arithmetic here wraps.         *)
(***************************************************************************)
EXTENDS IRProgramBuilder

MCBases == {256}
MCBufferBases == {4096}
MCModes == {"input-last", "input-more"}

(* Sizes 0 (an empty buffer), 20 (rounded up to 32) and 65536 (one more    *)
(* than reqCount holds: finalize_ring raises).                             *)
MCSizes == {0, 20, 65536}

(* Ring run: one 20-byte buffer.                                           *)
MCRingSizes == {20}
=============================================================================
