--------------------------- MODULE MC_PhyGapCount ---------------------------
(* Gap counts of the simulations (0x3F) and two others (1, 5).                 *)
EXTENDS PhyGapCount

MCGapValues == {1, 5, 63}
=============================================================================
