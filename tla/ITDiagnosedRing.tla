---------------------------- MODULE ITDiagnosedRing ----------------------------
(***************************************************************************)
(* The builder and the fault diagnoser of src/tools/it_dma_program.py meet *)
(* only in the bytes: the diagnoser decodes a dump of the memory the       *)
(* builder's finalize_ring returned.  This module runs the builder and, in *)
(* every state, hands analyze_it_log the log a dead context would leave:   *)
(* the base address, a dump of every slot of the returned image (quadlets  *)
(* 0, 1, 2 as ctl, dat, br) and a dead event whose CommandPtr is the       *)
(* packed pointer to one block of the ring.                                *)
(* It also hands the returned ring to pagesize_debug's page analysis, the *)
(* tool written for exactly these rings of 16-byte descriptors.           *)
(***************************************************************************)
EXTENDS ITProgramBuilder

Diag == INSTANCE ITFaultDiagnoser
          WITH Lines <- {}, MaxLines <- 0, log <- << >>, events <- << >>,
               descriptors <- << >>, baseAddress <- None, report <- None, pc <- "scan"

(* descriptors as the dump lines of the whole image fill it: index k is    *)
(* slot k + 1 of the image.                                                *)
DumpOf(img) ==
  [k \in 0 .. Len(img) - 1 |->
     [control |-> img[k + 1].ctl, req |-> img[k + 1].req,
      dat |-> img[k + 1].w1, br |-> img[k + 1].w2]]

(* The one event of the log: dead, CommandPtr naming block i with its Z.   *)
DeathAt(i) ==
  << [code |-> None, cmd |-> PackPtrWithZ(blocks[i].address, ZValue(blocks[i])),
      dead |-> TRUE, line |-> 1] >>

Page == INSTANCE PageBoundary

KindName ==
  [StoreValue |-> "STORE_VALUE", OutputMoreImmediate |-> "OUTPUT_MORE-Immediate",
   OutputMore |-> "OUTPUT_MORE", OutputLast |-> "OUTPUT_LAST"]

(* DiagnosisOfBuiltRing: for a context dead at any block of a ring the     *)
(* builder returned, analyze_it_log names the block's first slot, decodes *)
(* it as the descriptor the builder put there, finds the dump, and finds   *)
(* it initialized: codec and diagnoser agree on the control-word layout    *)
(* and on CommandPtr's slot arithmetic.  Where the first descriptor keeps  *)
(* its pointer in quadlet 2 (a STORE_VALUE, whose skip pointer the linker  *)
(* set), the diagnosis reads that pointer as a valid one.  For a block     *)
(* that starts with OUTPUT_MORE-Immediate the diagnoser reads quadlet 2,   *)
(* the IT header, as the pointer; nothing is claimed about that verdict   *)
(* here (the diag_nullskip run shows what it misses).                      *)
DiagnosisOfBuiltRing ==
  \A i \in 1 .. ImageBlockCount :
    LET r == Diag!Diagnosis(DeathAt(i), DumpOf(program), baseAddress)
        first == blocks[i].descs[1]
    IN  /\ r.index = StartSlot(i) - 1
        /\ r.type = KindName[first.kind]
        /\ r.tags \cap {"uninitialized", "no_dump"} = {}
        /\ first.kind = "StoreValue" => "branch_valid" \in r.tags

(* PageAnalysisOfBuiltRing: analyze_descriptor_ring run on the ring the    *)
(* builder returned (its slots as 16-byte descriptors from base_address,  *)
(* 4 KiB pages, the tool's default Z of 3) marks as page-crossing exactly *)
(* the slots whose 32-byte prefetch leaves their page, flags every one of *)
(* them unsafe, and the max_safe_descriptors it recommends are all        *)
(* prefetched within their page.                                           *)
PageAnalysisOfBuiltRing ==
  LET n == Len(program)
      a == Page!analyze_descriptor_ring(n, BLOCK_SIZE, 3, baseAddress,
                                        Page!DEFAULT_PAGE_SIZE)
      Crosses(i) == Page!FetchCrossesPage(baseAddress + i * BLOCK_SIZE,
                                          Page!DEFAULT_PAGE_SIZE)
  IN  /\ a.crossing = {i \in 0 .. n - 1 : Crosses(i)}
      /\ a.crossing \subseteq a.unsafe
      /\ \A i \in 0 .. a.maxSafe - 1 : ~Crosses(i)

=============================================================================
