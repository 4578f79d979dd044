--------------------------- MODULE AmdtpItProgram ---------------------------
(***************************************************************************)
(* src/tools/parse_amdtp.py with --it-program: main parses each hex packet *)
(* with parse_amdtp_packet (any failure aborts the run), feeds the packets *)
(* to its own ITProgramBuilder (interrupt on the last one only), and calls *)
(* finalize, whose bytes it prints.  The builder gives a NO-DATA packet    *)
(* one OutputLastImmediate holding the CIP quadlets, and a DATA packet an  *)
(* OutputMoreImmediate holding the CIP quadlets and an OutputLast for the  *)
(* payload.                                                                *)
(*                                                                         *)
(* Data abstraction: a hex packet is the sequence of quadlets ">I" reads   *)
(* from it (so its length is a multiple of 4); payload bytes are never     *)
(* looked at, so they are all zero.  The isochronous-header fields, the    *)
(* sample rate and the printed forms are print-only and left out.  A slot  *)
(* of the image is its four quadlets as a little-endian controller reads   *)
(* them, in the 16-bit halves of IEEE1212Rom.                              *)
(***************************************************************************)
EXTENDS Integers, Sequences, SequencesExt

CONSTANTS
  Commands      (* command lines: [fromLog, hex, log, channel, limit,      *)
                (* header, leHeader, lePayload, itBase]; limit 0 is None  *)

VARIABLES
  cmd,          (* the command line of this run                           *)
  pc,           (* "log", "parse", "parsed", "build", "done", "failed"    *)
  logPos,       (* log lines parse_firebug_log has read                   *)
  cur,          (* current_packet_bytes, as quadlets                      *)
  curChannel,   (* current_channel                                        *)
  expectedSize, (* expected_size                                          *)
  expecting,    (* expecting_data                                         *)
  packets,      (* main's packets list                                    *)
  blocks,       (* builder.blocks: Seq of [descs, address]                *)
  payloadOffset,(* builder.payload_offset                                 *)
  program       (* the bytes finalize returned; <<>> before               *)

logVars == <<logPos, cur, curChannel, expectedSize, expecting>>
vars == <<cmd, pc, logVars, packets, blocks, payloadOffset, program>>

Rom == INSTANCE IEEE1212Rom
Q(hi, lo) == Rom!Q(hi, lo)
ZeroQ == Q(0, 0)

CMD_OUTPUT_MORE == 0
CMD_OUTPUT_LAST == 1
KEY_STANDARD == 0
KEY_IMMEDIATE == 2
BRANCH_ALWAYS == 3
IRQ_ALWAYS == 3
BLOCK_SIZE == 16
PAYLOAD_AREA == 65536       (* payload_base = base_address + 0x10000       *)
CIP_BYTES == 8

-----------------------------------------------------------------------------
(* The CIP codec, on the two 16-bit halves of a quadlet.                   *)
decode_cip_q0(q) ==
  [sid |-> (q.hi \div 256) % 64, dbs |-> q.hi % 256, fn |-> q.lo \div 16384,
   qpc |-> (q.lo \div 2048) % 8, sph |-> (q.lo \div 1024) % 2,
   rsv |-> (q.lo \div 256) % 4, dbc |-> q.lo % 256]

decode_cip_q1(q) ==
  [fmt |-> (q.hi \div 256) % 64, fdf |-> q.hi % 256, syt |-> q.lo,
   prefixOk |-> q.hi \div 16384 = 2]

(* rsv keeps its default 0; the top two bits are 00.                       *)
build_cip_q0(p) ==
  Q((p.sid % 64) * 256 + (p.dbs % 256),
    (p.fn % 4) * 16384 + (p.qpc % 8) * 2048 + (p.sph % 2) * 1024 + (p.dbc % 256))

(* The top two bits are forced to the 10b prefix.                          *)
build_cip_q1(p) == Q(2 * 16384 + (p.fmt % 64) * 256 + (p.fdf % 256), p.syt % 65536)

(* AmdtpPacket.get_cip_quadlets.                                           *)
get_cip_quadlets(p) == << build_cip_q0(p), build_cip_q1(p) >>

-----------------------------------------------------------------------------
(* parse_amdtp_packet: the quadlet at byte offset off, read "<I" or ">I".  *)
ReadQ(d, le, off) == IF le THEN Rom!ByteSwap(d[off \div 4 + 1]) ELSE d[off \div 4 + 1]

CipOffset(c) == IF c.header THEN 8 ELSE 0

(* The two ValueErrors "Packet too short ...".                             *)
ParseRaises(d, c) ==
  \/ c.header /\ 4 * Len(d) < 8
  \/ 4 * Len(d) - CipOffset(c) < 8

parse_amdtp_packet(d, c) ==
  LET off == CipOffset(c)
      h0 == decode_cip_q0(ReadQ(d, c.lePayload, off))
      h1 == decode_cip_q1(ReadQ(d, c.lePayload, off + 4))
      size == 4 * Len(d) - off - 8
  IN  [sid |-> h0.sid, dbs |-> h0.dbs, fn |-> h0.fn, qpc |-> h0.qpc, sph |-> h0.sph,
       dbc |-> h0.dbc, fmt |-> h1.fmt, fdf |-> h1.fdf, syt |-> h1.syt,
       payloadSize |-> size, noData |-> size = 0]

-----------------------------------------------------------------------------
(* The descriptors, with the fields the builder sets.                      *)
OMI(q) == [kind |-> "OMI", size |-> 32, cip |-> q, req |-> 0, data |-> 0,
           brAddr |-> 0, brZ |-> 0, irq |-> FALSE]
OL(req, data, irq) == [kind |-> "OL", size |-> 16, cip |-> << >>, req |-> req,
                       data |-> data, brAddr |-> 0, brZ |-> 0, irq |-> irq]
OLI(q, irq) == [kind |-> "OLI", size |-> 32, cip |-> q, req |-> 0, data |-> 0,
                brAddr |-> 0, brZ |-> 0, irq |-> irq]

(* DescriptorBlock.z_value.                                                *)
ZValue(b) == (FoldSeq(LAMBDA d, acc : d.size + acc, 0, b.descs) + 15) \div 16

(* The address add_packet gives the next block.                            *)
NextAddress(bs) ==
  IF bs = << >> THEN cmd.itBase
  ELSE Last(bs).address + ZValue(Last(bs)) * BLOCK_SIZE

(* (payload_offset + size + 15) & ~15                                      *)
RoundUp16(x) == ((x + 15) \div 16) * 16

(* finalize's loop: block i branches to block i+1 (mod n).                 *)
Relink(bs) ==
  [i \in DOMAIN bs |->
     LET nb == bs[(i % Len(bs)) + 1]
         n == Len(bs[i].descs)
     IN  [bs[i] EXCEPT !.descs[n].brAddr = nb.address, !.descs[n].brZ = ZValue(nb)]]

-----------------------------------------------------------------------------
(* to_bytes: '<IIII' words as the controller reads them; the immediate     *)
(* data is packed '>II', so a little-endian read sees each CIP quadlet     *)
(* byte-reversed.                                                          *)
IntQ(x) == Q(x \div 65536, x % 65536)

(* control = cmd<<28 | key<<24 | i<<20 | b<<18 | req & 0xFFFF              *)
Control(c, key, i, b, req) == Q(c * 4096 + key * 256 + i * 16 + b * 4, req % 65536)

IBits(irq) == IF irq THEN IRQ_ALWAYS ELSE 0

(* (branch_address & 0xFFFFFFF0) | (branch_z & 0xF)                        *)
BranchPtr(d) == IntQ((d.brAddr \div 16) * 16 + (d.brZ % 16))

ImmSlot(d) == << Rom!ByteSwap(d.cip[1]), Rom!ByteSwap(d.cip[2]), ZeroQ, ZeroQ >>

DescBytes(d) ==
  CASE d.kind = "OMI" ->
         << << Control(CMD_OUTPUT_MORE, KEY_IMMEDIATE, 0, 0, 8), ZeroQ, ZeroQ, ZeroQ >>,
            ImmSlot(d) >>
    [] d.kind = "OL" ->
         << << Control(CMD_OUTPUT_LAST, KEY_STANDARD, IBits(d.irq), BRANCH_ALWAYS, d.req),
               IntQ(d.data), BranchPtr(d), ZeroQ >> >>
    [] d.kind = "OLI" ->
         << << Control(CMD_OUTPUT_LAST, KEY_IMMEDIATE, IBits(d.irq), BRANCH_ALWAYS, 8),
               ZeroQ, BranchPtr(d), ZeroQ >>,
            ImmSlot(d) >>

BlockBytes(b) == FlattenSeq([k \in DOMAIN b.descs |-> DescBytes(b.descs[k])])
Image(bs) == FlattenSeq([i \in DOMAIN bs |-> BlockBytes(bs[i])])

-----------------------------------------------------------------------------
Init ==
  /\ cmd \in Commands
  /\ pc = IF cmd.fromLog THEN "log" ELSE "parse"
  /\ logPos = 0 /\ cur = << >> /\ curChannel = -1 /\ expectedSize = 0
  /\ expecting = FALSE
  /\ packets = << >>
  /\ blocks = << >>
  /\ payloadOffset = 0
  /\ program = << >>

(* main's parse loop, one hex packet per step; a ValueError ends the run.  *)
ParsePacket ==
  /\ pc = "parse"
  /\ Len(packets) < Len(cmd.hex)
  /\ LET d == cmd.hex[Len(packets) + 1] IN
       IF ParseRaises(d, cmd)
       THEN pc' = "failed" /\ UNCHANGED packets
       ELSE packets' = Append(packets, parse_amdtp_packet(d, cmd)) /\ UNCHANGED pc
  /\ UNCHANGED <<cmd, logVars, blocks, payloadOffset, program>>

-----------------------------------------------------------------------------
(* parse_firebug_log.  A log line is a record of kind "header" with ch    *)
(* and size ("Isoch channel ch, ... size n"), "data" with quads (an offset *)
(* and hex quadlets), "blank", or "other" (neither regex matches).  Sizes  *)
(* are multiples of 4.                                                     *)

(* "if current_packet_bytes and current_channel == filter_channel" and the *)
(* length test: the packet cut to expected_size, or nothing.               *)
Finished(c, ch, n) ==
  IF c # << >> /\ ch = cmd.channel /\ 4 * Len(c) >= n
  THEN << SubSeq(c, 1, n \div 4) >> ELSE << >>

NoHeader == [header |-> FALSE, lePayload |-> FALSE]

(* packets.append(parse_amdtp_packet(..., has_header=False)); a raise      *)
(* leaves parse_firebug_log and main.                                      *)
LogRaises(done) == done # << >> /\ ParseRaises(done[1], NoHeader)
AppendParsed(ps, done) == ps \o [k \in DOMAIN done |-> parse_amdtp_packet(done[k], NoHeader)]

(* One iteration of the line loop.                                         *)
ReadLogLine ==
  /\ pc = "log"
  /\ logPos < Len(cmd.log)
  /\ logPos' = logPos + 1
  /\ LET l == cmd.log[logPos + 1] IN
       IF l.kind = "header"
       THEN /\ LET done == Finished(cur, curChannel, expectedSize) IN
                 IF LogRaises(done) THEN pc' = "failed" /\ UNCHANGED packets
                 ELSE packets' = AppendParsed(packets, done) /\ UNCHANGED pc
            /\ cur' = << >> /\ curChannel' = l.ch /\ expectedSize' = l.size
            /\ expecting' = TRUE
       ELSE /\ UNCHANGED <<pc, packets, curChannel, expectedSize>>
            /\ cur' = IF expecting /\ l.kind = "data" THEN cur \o l.quads ELSE cur
            /\ expecting' = (expecting /\ l.kind # "blank")
  /\ UNCHANGED <<cmd, blocks, payloadOffset, program>>

(* packets[:args.limit] when args.limit is not 0 or None.                  *)
ApplyLimit(ps, n) ==
  IF n = 0 THEN ps
  ELSE SubSeq(ps, 1, IF n > 0 THEN IF n < Len(ps) THEN n ELSE Len(ps)
                     ELSE IF Len(ps) + n > 0 THEN Len(ps) + n ELSE 0)

(* The last packet after the loop, then the limit.                         *)
EndOfLog ==
  /\ pc = "log"
  /\ logPos = Len(cmd.log)
  /\ LET done == Finished(cur, curChannel, expectedSize) IN
       IF LogRaises(done) THEN pc' = "failed" /\ UNCHANGED packets
       ELSE pc' = "parsed" /\ packets' = ApplyLimit(AppendParsed(packets, done), cmd.limit)
  /\ UNCHANGED <<cmd, logVars, blocks, payloadOffset, program>>

-----------------------------------------------------------------------------
(* Every packet parsed: ITProgramBuilder(base_address=args.it_base).       *)
StartBuilder ==
  /\ \/ pc = "parse" /\ Len(packets) = Len(cmd.hex)
     \/ pc = "parsed"
  /\ pc' = "build"
  /\ blocks' = << >> /\ payloadOffset' = 0
  /\ UNCHANGED <<cmd, logVars, packets, program>>

(* builder.add_packet(p, irq=(i == len(packets)-1)) for the next packet.   *)
add_packet ==
  /\ pc = "build"
  /\ Len(blocks) < Len(packets)
  /\ LET i == Len(blocks) + 1
         p == packets[i]
         irq == i = Len(packets)
         q == get_cip_quadlets(p)
         addr == NextAddress(blocks)
         pAddr == cmd.itBase + PAYLOAD_AREA + payloadOffset
     IN  IF p.noData
         THEN /\ blocks' = Append(blocks, [descs |-> << OLI(q, irq) >>, address |-> addr])
              /\ UNCHANGED payloadOffset
         ELSE /\ payloadOffset' = RoundUp16(payloadOffset + p.payloadSize)
              /\ blocks' = Append(blocks, [descs |-> << OMI(q), OL(p.payloadSize, pAddr, irq) >>,
                                           address |-> addr])
  /\ UNCHANGED <<cmd, pc, logVars, packets, program>>

(* prog = builder.finalize(): b'' without blocks, else relink and encode.  *)
finalize ==
  /\ pc = "build"
  /\ Len(blocks) = Len(packets)
  /\ pc' = "done"
  /\ IF blocks = << >>
     THEN UNCHANGED <<blocks, program>>
     ELSE blocks' = Relink(blocks) /\ program' = Image(Relink(blocks))
  /\ UNCHANGED <<cmd, logVars, packets, payloadOffset>>

Next == ParsePacket \/ ReadLogLine \/ EndOfLog \/ StartBuilder \/ add_packet \/ finalize

Spec == Init /\ [][Next]_vars

-----------------------------------------------------------------------------
(* The controller (OHCI 1.1) reading the image from slot 1, as in          *)
(* ITProgramBuilder: a fetch position is a slot and a Z; the block holds   *)
(* slots slot .. slot+Z-1, its descriptors follow one another (an          *)
(* Immediate one takes two slots), and the last must be an OUTPUT_LAST     *)
(* ending exactly at the last slot.  The data of a packet is what its      *)
(* non-immediate descriptors gather; the immediate quadlets of the first   *)
(* descriptor are the isochronous header.                                  *)
Cmd(w) == w.hi \div 4096
Key(w) == (w.hi \div 256) % 8
IrqOf(w) == (w.hi \div 16) % 4

Width(img, k) == IF Key(img[k][1]) = KEY_IMMEDIATE THEN 2 ELSE 1

RECURSIVE DescPositions(_, _, _)
DescPositions(img, k, e) ==
  IF k > e THEN << >> ELSE << k >> \o DescPositions(img, k + Width(img, k), e)

BlockEnd(pos) == pos.slot + pos.z - 1
LastDesc(img, pos) == Last(DescPositions(img, pos.slot, BlockEnd(pos)))

Fetchable(img, pos) ==
  /\ pos.slot >= 1 /\ pos.z >= 1 /\ BlockEnd(pos) <= Len(img)
  /\ LastDesc(img, pos) + Width(img, LastDesc(img, pos)) - 1 = BlockEnd(pos)
  /\ Cmd(img[LastDesc(img, pos)][1]) = CMD_OUTPUT_LAST

PtrSlot(w) ==
  LET a == w.hi * 65536 + (w.lo \div 16) * 16 IN
  IF a >= cmd.itBase THEN (a - cmd.itBase) \div 16 + 1 ELSE 0

BranchFrom(img, pos) ==
  LET w == img[LastDesc(img, pos)][3] IN [slot |-> PtrSlot(w), z |-> w.lo % 16]

PacketAt(img, pos) ==
  LET ds == DescPositions(img, pos.slot, BlockEnd(pos)) IN
  [len |-> FoldSeq(LAMBDA k, acc :
                     (IF Key(img[k][1]) = KEY_STANDARD THEN img[k][1].lo ELSE 0) + acc, 0, ds),
   irq |-> IrqOf(img[LastDesc(img, pos)][1]) = IRQ_ALWAYS]

BrokenPacket == [len |-> -1, irq |-> FALSE]

RECURSIVE WalkRing(_, _, _, _)
WalkRing(img, start, at, fuel) ==
  LET Walk(pos) ==
        IF fuel = 0 \/ ~Fetchable(img, pos) THEN << BrokenPacket >>
        ELSE << PacketAt(img, pos) >>
               \o (IF BranchFrom(img, pos) = start THEN << >>
                   ELSE WalkRing(img, start, BranchFrom(img, pos), fuel - 1))
  IN  CHOOSE w \in {Walk(pos) : pos \in {at}} : TRUE

(* The host starts the context at block 0 with that block's Z.             *)
HardwareRingOf(img, bs) ==
  IF img = << >> THEN << >>
  ELSE LET start == [slot |-> 1, z |-> ZValue(bs[1])] IN WalkRing(img, start, start, Len(img))

(* The AMDTP packet each block was built for: the CIP quadlets and the     *)
(* payload, and the block's interrupt flag.                                *)
RequestedPacketsOf(bs) ==
  [i \in DOMAIN bs |-> [len |-> CIP_BYTES + packets[i].payloadSize,
                        irq |-> Last(bs[i].descs).irq]]

-----------------------------------------------------------------------------
(* Properties.                                                             *)

(* RingRefinement: the program parse_amdtp prints implements ITPacketRing, *)
(* whose packet is what the controller gathers for one cycle (CIP header   *)
(* plus audio, as it_dma_program's add_data_packet lays it out): read from *)
(* block 0, the image transmits each parsed packet, CIP included, in       *)
(* order, and returns to block 0.                                          *)
Ring == INSTANCE ITPacketRing
          WITH packets <- RequestedPacketsOf(blocks), ring <- HardwareRingOf(program, blocks)

RingRefinement == Ring!Spec

====
