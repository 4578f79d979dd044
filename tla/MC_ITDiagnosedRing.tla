------------------------- MODULE MC_ITDiagnosedRing -------------------------
(* The inputs of the builder's ring run, described in MC_ITProgramBuilder; *)
(* the builder's ring properties and the diagnosis are checked together.   *)
(* The second base puts the ring across a 4 KiB page boundary (its fourth *)
(* slot, at 0xFF0, is prefetched into the next page).                     *)
EXTENDS ITDiagnosedRing

MCRingBases == {256, 4032}
MCStrategies == {"next", "self", "sentinel"}
MCRingSamples == {0, 2, 100}
MCRingFragments == {1, 5}
MCChannels == {2}
MCStoreVals == {None, 5}
=============================================================================
