------------------------- MODULE MC_ConfigRomParse -------------------------
(***************************************************************************)
(* ROM images for ConfigRomParse.  Every block's CRC is computed with the  *)
(* reference RefCrc, as a device's ROM carries it, except in CorruptLeaf.  *)
(***************************************************************************)
EXTENDS ConfigRomParse

(* A directory entry: key = type << 6 | key_id, then a 24-bit value.       *)
Ent(type, keyId, value) == Q((type * 64 + keyId) * 256 + value \div 65536, value % 65536)

(* A directory or leaf: [CRC:16][length:16], then its quadlets.           *)
Blk(qs) == << Q(RefCrc(qs), Len(qs)) >> \o qs

(* Bus info block: length 4, CRC length 4, "1394", capabilities, EUI-64. *)
BusBody == << SIG1394, Q(57344, 32768), Q(17, 8755), Q(17493, 26231) >>
Bus == << Q(4 * 256 + 4, RefCrc(BusBody)) >> \o BusBody

TextLeaf == Blk(<< Q(0, 0), Q(16706, 17220) >>)
UnitDir == Blk(<< Ent(0, 18, 41005), Ent(0, 19, 65537) >>)

(* Root (byte 20): Vendor_ID, a descriptor leaf at 36, a unit dir at 48.  *)
Good == Bus \o Blk(<< Ent(0, 3, 987), Ent(2, 1, 2), Ent(3, 17, 4) >>) \o TextLeaf \o UnitDir

(* The leaf's text changed after its CRC was computed.                     *)
CorruptLeaf == [Good EXCEPT ![11] = Q(16706, 17221)]

(* A bus info quadlet changed after the bus CRC was computed.              *)
CorruptBus == [Good EXCEPT ![3] = Q(57344, 32769)]

(* Two unit entries pointing to one directory (byte 32).                   *)
Shared == Bus \o Blk(<< Ent(3, 17, 2), Ent(3, 17, 1) >>) \o Blk(<< Ent(0, 18, 1) >>)

(* A unit directory at 28 whose length (5) runs past the end.              *)
BadDir == Bus \o Blk(<< Ent(3, 17, 1) >>) \o << Q(0, 5), Q(0, 0) >>

(* A leaf at 28 whose length (3) runs past the end.                        *)
BadLeaf == Bus \o Blk(<< Ent(2, 1, 1) >>) \o << Q(0, 3), Q(0, 0) >>

(* A unit directory pointer, and a leaf pointer, beyond the image.         *)
DirPtrOut == Bus \o Blk(<< Ent(3, 17, 100), Ent(0, 3, 987) >>)
LeafPtrOut == Bus \o Blk(<< Ent(0, 3, 987), Ent(2, 1, 100) >>)

(* A bus info block that claims 4 quadlets in a 3-quadlet image.           *)
ShortBus == << Bus[1], SIG1394, Q(57344, 32768) >>

(* A root directory of 9 entries in an image that ends 2 quadlets later.   *)
RootOverrun == Bus \o << Q(0, 9), Ent(0, 3, 987), Ent(0, 23, 1) >>

MCImages == {Good, CorruptLeaf, CorruptBus, Shared, BadDir, BadLeaf, DirPtrOut, LeafPtrOut, ShortBus, RootOverrun}

(* Every parser on wire-order images; parser1 also on host-order dumps,   *)
(* which its main word-swaps.                                              *)
MCPassInputs ==
  [parser : Parsers, rom : MCImages, order : {"big"}]
    \cup [parser : {"parser1"}, rom : MCImages, order : {"little"}]

(* parser (ieee1212_parser.py) on a host-order dump of a well-formed ROM.  *)
MCHostDumpInputs == [parser : {"parser"}, rom : {Good, Shared}, order : {"little"}]
=============================================================================
