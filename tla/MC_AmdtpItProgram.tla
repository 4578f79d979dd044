------------------------- MODULE MC_AmdtpItProgram -------------------------
(***************************************************************************)
(* Command lines for AmdtpItProgram.  CIP quadlets as a 48 kHz AM824      *)
(* stream sends them: q0 = 0x00020010 (SID 0, DBS 2, DBC 16), q1 =        *)
(* 0x90021234 (FMT 0x10, FDF 0x02, SYT 0x1234); a NO-DATA packet has SYT   *)
(* 0xFFFF and no payload; a DATA packet one 8-byte data block.  The       *)
(* isochronous header 0x001040A0 says 16 bytes, tag 1, channel 0, tcode A. *)
(***************************************************************************)
EXTENDS AmdtpItProgram

DataPkt == << Q(2, 16), Q(36866, 4660), ZeroQ, ZeroQ >>
NoDataPkt == << Q(2, 24), Q(36866, 65535) >>
ShortPkt == << Q(2, 16) >>
HeaderedDataPkt == << Q(16, 16544), ZeroQ >> \o DataPkt
Swapped(d) == [k \in DOMAIN d |-> Rom!ByteSwap(d[k])]

Line(hex, header, le) ==
  [fromLog |-> FALSE, hex |-> hex, log |-> << >>, channel |-> 0, limit |-> 0,
   header |-> header, leHeader |-> FALSE, lePayload |-> le, itBase |-> 256]

(* --from-log LOG --channel 0 [--limit n]                                 *)
FromLog(log, limit) ==
  [fromLog |-> TRUE, hex |-> << >>, log |-> log, channel |-> 0, limit |-> limit,
   header |-> FALSE, leHeader |-> FALSE, lePayload |-> FALSE, itBase |-> 256]

Hdr(ch, n) == [kind |-> "header", ch |-> ch, size |-> n]
Dat(qs) == [kind |-> "data", quads |-> qs]
Blank == [kind |-> "blank"]
Other == [kind |-> "other"]

(* Channel 0 DATA, a channel 1 packet, then channel 0 NO-DATA whose data   *)
(* follows an unmatched line.                                              *)
MixedLog == << Hdr(0, 16), Dat(DataPkt), Blank, Hdr(1, 8), Dat(NoDataPkt),
               Hdr(0, 8), Other, Dat(NoDataPkt) >>
(* A DATA packet whose second data line comes after a blank line (so it is *)
(* short and dropped), then NO-DATA, then a 4-byte packet that raises.     *)
BrokenLog == << Hdr(0, 16), Dat(SubSeq(DataPkt, 1, 2)), Blank, Dat(SubSeq(DataPkt, 3, 4)),
                Hdr(0, 8), Dat(NoDataPkt), Hdr(0, 4), Dat(ShortPkt) >>

MCCommands ==
  { Line(<< DataPkt, NoDataPkt, DataPkt >>, FALSE, FALSE),
    Line(<< NoDataPkt >>, FALSE, FALSE),
    Line(<< DataPkt, ShortPkt >>, FALSE, FALSE),
    Line(<< >>, FALSE, FALSE),
    Line(<< HeaderedDataPkt, HeaderedDataPkt >>, TRUE, FALSE),
    Line(<< ShortPkt >>, TRUE, FALSE),
    Line(<< Swapped(NoDataPkt), Swapped(DataPkt) >>, FALSE, TRUE),
    FromLog(MixedLog, 0), FromLog(MixedLog, -1), FromLog(MixedLog, 1),
    FromLog(BrokenLog, 0), FromLog(SubSeq(BrokenLog, 1, 6), 0) }

=============================================================================
