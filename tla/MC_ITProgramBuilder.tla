------------------------ MODULE MC_ITProgramBuilder ------------------------
(***************************************************************************)
(* Model-checking instances of ITProgramBuilder.  Each run picks its       *)
(* inputs through the definitions below (named in its .cfg).               *)
(***************************************************************************)
EXTENDS ITProgramBuilder

(* Ring run: an aligned base (0x100) and every skip strategy.  With 2    *)
(* channels, samples 0 make an 8-byte packet (whose 5-way split raises:    *)
(* 8 // 5 = 1), samples 2 a 24-byte one (split 5 ways into 4,4,4,4 and a   *)
(* last fragment of 8), samples 100 an 808-byte one (whose 5-way split     *)
(* raises: 808 // 5 = 161) that wraps the 8-bit DBC within three calls.    *)
MCRingBases == {256}
MCStrategies == {"next", "self", "sentinel"}
MCRingSamples == {0, 2, 100}
MCRingFragments == {1, 5}

MCChannels == {2}
MCStoreVals == {None, 5}

=============================================================================
