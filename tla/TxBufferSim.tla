------------------------------ MODULE TxBufferSim ------------------------------
(***************************************************************************)
(* One trial of the TX buffer simulation of src/tools/calc_buffer_sizes.py *)
(* (run_single_trial with apply_legacy_refill): the startup prefill and    *)
(* prime, then per 125 us bus cycle, in the code's order, the CoreAudio    *)
(* callbacks that write core_buffer_frames into the TX queue, the refills  *)
(* that pump the queue into the ring buffer, and the IT packet that takes  *)
(* its frames from the ring.                                               *)
(*                                                                         *)
(* Time is abstracted to counts: the code clamps a callback interval to at *)
(* least 0.1 ms and a refill step to at least 0.05 ms, so within one       *)
(* 0.125 ms cycle at most two callbacks and three refills fall due, and     *)
(* with unbounded jitter any smaller number may.  The model lets each      *)
(* cycle run any such number, which covers every jitter draw.  The fill    *)
(* statistics (min, max, mean, time under target) are left out.            *)
(***************************************************************************)
EXTENDS Integers, Sequences, SequencesExt

CONSTANTS
  Configs,      (* EffectiveConfig records (the buffer fields)             *)
  Cycles,       (* cycles_total                                            *)
  SweepSpecs    (* --sweep arguments, by shape                             *)

VARIABLES
  cfg, queueFill, ringFill,
  cycle,           (* cycle = cycle_index                                    *)
  phase,           (* "callbacks", "refills" or "packet" within a cycle      *)
  due,             (* callbacks or refills already run in this cycle         *)
  underrunEvents, underrunFrames, underrunWindows, inUnderrunWindow,
  overrunEvents, overrunFrames,
  offered,         (* history: frames the callbacks offered                 *)
  written,         (* history: frames the callbacks got into the queue       *)
  sent,            (* history: frames taken by DATA packets                  *)
  discarded,       (* history: ring frames dropped by underruns              *)
  demanded,        (* history: frames DATA packets needed                    *)
  dataOutcomes     (* history: per DATA packet, whether it underran          *)

vars == <<cfg, queueFill, ringFill, cycle, phase, due, underrunEvents,
          underrunFrames, underrunWindows, inUnderrunWindow, overrunEvents,
          overrunFrames, offered, written, sent, discarded, demanded,
          dataOutcomes>>
history == <<offered, written, sent, discarded, demanded, dataOutcomes>>

K_TRANSFER_CHUNK_FRAMES == 256
MaxCallbacksPerCycle == 2   (* 0.125 ms / 0.1 ms, rounded up               *)
MaxRefillsPerCycle == 3     (* 0.125 ms / 0.05 ms, rounded up              *)

(* validate_profile and validate_config on the buffer fields.              *)
ValidConfig(c) ==
  /\ c.coreBufferFrames > 0 /\ c.txQueueCapacity > 0 /\ c.ringCapacity > 0
  /\ c.startWait > 0 /\ c.rbTarget > 0 /\ c.rbTarget <= c.rbMax
  /\ c.maxChunks > 0
  /\ c.startWait <= c.txQueueCapacity /\ c.rbMax <= c.ringCapacity
  /\ c.sampleRate > 0 /\ c.channels > 0
  /\ c.refillHz > 0 /\ c.refillHz <= 8000

(* The startup fill: min(start_wait, capacity) in the queue.               *)
Prefill(c) == Min({c.startWait, c.txQueueCapacity})

(* The prime budget: all of it when prime_limit is 0, else at most        *)
(* prime_limit, and no more than the ring holds.                           *)
PrimeBudget(c) ==
  Min({IF c.primeLimit = 0 THEN Prefill(c) ELSE Min({c.primeLimit, Prefill(c)}),
       c.ringCapacity})

(* Mutation: one NO-DATA cycle in eight instead of one in four.           *)
BlockingCycleIsDataEvery8(i) == i % 8 # 0

(* blocking_cycle_is_data: NO-DATA when cycle % 4 == 0.                    *)
BlockingCycleIsData(i) == i % 4 # 0

(* The frames the packet of cycle i needs.                                 *)
Needed(i) ==
  IF cfg.streamMode = "blocking"
    THEN IF BlockingCycleIsData(i) THEN 8 ELSE 0
    ELSE 6

(* The while loop of apply_legacy_refill, from (queue, ring, want,        *)
(* chunks) to the final (queue, ring).                                     *)
RECURSIVE RefillLoop(_, _, _, _)
RefillLoop(q, r, want, chunks) ==
  IF want > 0 /\ chunks < cfg.maxChunks /\ q > 0 /\ cfg.ringCapacity - r > 0
    THEN LET toRead == Min({want, q, cfg.ringCapacity - r, K_TRANSFER_CHUNK_FRAMES})
         IN  IF toRead <= 0 THEN <<q, r>>
             ELSE IF r + toRead >= cfg.rbMax THEN <<q - toRead, r + toRead>>
             ELSE RefillLoop(q - toRead, r + toRead, want - toRead, chunks + 1)
    ELSE <<q, r>>

(* Mutation: the queue is not drained by what the refill pumps.          *)
ApplyRefillKeepQueue(q, r) ==
  IF r < cfg.rbTarget THEN <<q, RefillLoop(q, r, cfg.rbTarget - r, 0)[2]>>
  ELSE <<q, r>>

(* Mutation: refill up to rb_max instead of rb_target.                     *)
ApplyRefillToMax(q, r) ==
  IF r < cfg.rbTarget THEN RefillLoop(q, r, cfg.rbMax - r, 0) ELSE <<q, r>>

(* apply_legacy_refill(queue_fill, ring_fill): the new (queue, ring).      *)
ApplyLegacyRefill(q, r) ==
  IF r < cfg.rbTarget THEN RefillLoop(q, r, cfg.rbTarget - r, 0) ELSE <<q, r>>

(* Mutation: the callback writes without looking at the free space.       *)
WritableNoFreeCheck(q) == cfg.coreBufferFrames

(* written = min(write_frames, free)                                       *)
Writable(q) == Min({cfg.coreBufferFrames, cfg.txQueueCapacity - q})

(* Mutation: a NO-DATA packet closes the underrun window too.             *)
InWindowAfterNoDataReset(n) == FALSE

(* in_underrun_window after a packet that got its n frames: a DATA packet *)
(* closes the window, a NO-DATA packet (n = 0) leaves it.                 *)
InWindowAfter(n) == IF n > 0 THEN FALSE ELSE inUnderrunWindow

-----------------------------------------------------------------------------
(* The deterministic view (deterministic_calc) and the rb_target sweep.   *)
(* Rates are in frames per second; a float ratio of the code is kept as a *)
(* pair <<numerator, denominator>>.                                        *)
K_CYCLES_PER_SECOND == 8000
K_CIP_HEADER_BYTES == 8
K_BYTES_PER_SAMPLE == 4
K_MAX_PACKET_PAYLOAD_BYTES == 4096

(* Python's round() on n / d: halves go to the even neighbour.            *)
RoundHalfEven(n, d) ==
  LET q == n \div d
      r == n % d
  IN  IF 2 * r > d \/ (2 * r = d /\ q % 2 = 1) THEN q + 1 ELSE q

(* stream_mode_packet_model: the 48 kHz blocking and non-blocking cadences *)
(* and the generic fallback for every other rate.                         *)
StreamModePacketModel(rate, mode) ==
  CASE rate = 48000 /\ mode = "blocking" ->
         [dataPer8 |-> 6, noDataPer8 |-> 2, samplesPerDataPacket |-> 8,
          framesPerCycle |-> <<6, 1>>, framesPerMs |-> <<48, 1>>]
    [] rate = 48000 /\ mode = "non-blocking" ->
         [dataPer8 |-> 8, noDataPer8 |-> 0, samplesPerDataPacket |-> 6,
          framesPerCycle |-> <<6, 1>>, framesPerMs |-> <<48, 1>>]
    [] OTHER ->
         [dataPer8 |-> 8, noDataPer8 |-> 0,
          samplesPerDataPacket |-> Max({1, RoundHalfEven(rate, K_CYCLES_PER_SECOND)}),
          framesPerCycle |-> <<rate, K_CYCLES_PER_SECOND>>,
          framesPerMs |-> <<rate, 1000>>]

(* deterministic_calc: packetization, the startup prefill and prime       *)
(* budget, the latency sums in frames, and which of the six notes it adds *)
(* (the ms and cycle conversions of each depth are left out).             *)
DeterministicCalc(c) ==
  LET spp == StreamModePacketModel(c.sampleRate, c.streamMode).samplesPerDataPacket
      payload == K_CIP_HEADER_BYTES + spp * c.channels * K_BYTES_PER_SAMPLE
      prefill == Min({c.startWait, c.txQueueCapacity})
      meetsWait == c.primeLimit = 0 \/ c.primeLimit >= c.startWait
      transport == c.coreBufferFrames + c.rbTarget
      adk == c.adkOutputLatencyFrames + c.adkOutputSafetyFrames
  IN  [payloadBytes |-> payload,
       payloadOk |-> payload <= K_MAX_PACKET_PAYLOAD_BYTES,
       prefill |-> prefill,
       primeBudget |-> IF c.primeLimit = 0 THEN prefill
                       ELSE Min({c.primeLimit, prefill}),
       primeLimitHit |-> c.primeLimit # 0 /\ c.primeLimit <= prefill,
       meetsWait |-> meetsWait,
       transportFrames |-> transport,
       transportMaxFrames |-> c.coreBufferFrames + c.rbMax,
       adkFrames |-> transport + adk,
       notes |-> {n \in {"non48k", "payload", "primeUnbounded", "primeBelowWait",
                         "lowHeadroom", "clipRisk"} :
                  \/ n = "non48k" /\ c.sampleRate # 48000
                  \/ n = "payload" /\ payload > K_MAX_PACKET_PAYLOAD_BYTES
                  \/ n = "primeUnbounded" /\ c.primeLimit = 0
                  \/ n = "primeBelowWait" /\ ~meetsWait
                  \/ n = "lowHeadroom" /\ c.startWait < c.coreBufferFrames
                  \/ n = "clipRisk" /\ (c.rbMax - c.rbTarget) * c.refillHz < c.sampleRate}]

(* range(start, stop + 1, step)                                            *)
RangeSeq(start, stop, step) ==
  IF start > stop THEN << >>
  ELSE [k \in 1 .. ((stop - start) \div step) + 1 |-> start + (k - 1) * step]

(* Mutation: the list values are returned as given.                       *)
SortedSetAsGiven(vals) == vals

(* sorted(set(vals))                                                       *)
SortedSet(vals) == SetToSortSeq(ToSet(vals), <)

(* A token of the comma list that is empty, or that is not all digits.    *)
EmptyToken == -1
NonDigitToken == -2

(* parse_sweep_spec on a --sweep argument given by its shape: "auto",     *)
(* "start:stop:step", a comma list (tokens: a number, EmptyToken or       *)
(* NonDigitToken), or anything else.  It gives [ok, targets]; ok = FALSE  *)
(* is fail().                                                              *)
ParseSweepSpec(spec, rbMax) ==
  CASE spec.form = "auto" ->
         [ok |-> TRUE, targets |-> RangeSeq(Max({64, Min({64, rbMax})}), rbMax, 64)]
    [] spec.form = "range" ->
         IF spec.step <= 0 \/ spec.start <= 0 \/ spec.stop <= 0 \/ spec.start > spec.stop
           THEN [ok |-> FALSE, targets |-> << >>]
           ELSE [ok |-> TRUE, targets |-> RangeSeq(spec.start, spec.stop, spec.step)]
    [] spec.form = "list" ->
         LET vals == SelectSeq(spec.tokens, LAMBDA t : t >= 0)
         IN  IF NonDigitToken \in ToSet(spec.tokens) \/ vals = << >>
               THEN [ok |-> FALSE, targets |-> << >>]
               ELSE [ok |-> TRUE, targets |-> SortedSet(vals)]
    [] OTHER -> [ok |-> FALSE, targets |-> << >>]

(* run_sweep: the targets in 1 .. rb_max get a row; the pick is the first *)
(* of them whose Monte Carlo run meets the threshold (those in Meets), or *)
(* 0 for None.                                                             *)
SweepRows(targets, rbMax) == SelectSeq(targets, LAMBDA t : t > 0 /\ t <= rbMax)

RunSweepPick(targets, rbMax, meets) ==
  LET rows == SweepRows(targets, rbMax)
      i == SelectInSeq(rows, LAMBDA t : t \in meets)
  IN  IF i = 0 THEN 0 ELSE rows[i]

-----------------------------------------------------------------------------
(* The start of run_single_trial: prefill the queue, prime the ring.      *)
(* main runs trials only at 48 kHz (trials is set to 0 otherwise).      *)
Init ==
  /\ cfg \in {c \in Configs : ValidConfig(c) /\ c.sampleRate = 48000}
  /\ queueFill = Prefill(cfg) - PrimeBudget(cfg)
  /\ ringFill = PrimeBudget(cfg)
  /\ cycle = 0 /\ phase = "callbacks" /\ due = 0
  /\ underrunEvents = 0 /\ underrunFrames = 0 /\ underrunWindows = 0
  /\ inUnderrunWindow = FALSE
  /\ overrunEvents = 0 /\ overrunFrames = 0
  /\ offered = 0 /\ written = 0 /\ sent = 0 /\ discarded = 0 /\ demanded = 0
  /\ dataOutcomes = << >>

(* One producer callback: write what fits of core_buffer_frames, count    *)
(* an overrun for the rest.                                                *)
Callback ==
  /\ cycle < Cycles /\ phase = "callbacks" /\ due < MaxCallbacksPerCycle
  /\ LET w == Writable(queueFill)
     IN  /\ queueFill' = queueFill + w
         /\ written' = written + w
         /\ offered' = offered + cfg.coreBufferFrames
         /\ IF w < cfg.coreBufferFrames
              THEN /\ overrunEvents' = overrunEvents + 1
                   /\ overrunFrames' = overrunFrames + (cfg.coreBufferFrames - w)
              ELSE UNCHANGED <<overrunEvents, overrunFrames>>
  /\ due' = due + 1
  /\ UNCHANGED <<cfg, ringFill, cycle, phase, underrunEvents, underrunFrames,
                 underrunWindows, inUnderrunWindow, sent, discarded, demanded,
                 dataOutcomes>>

(* No further callback is due in this cycle.                               *)
CallbacksDone ==
  /\ cycle < Cycles /\ phase = "callbacks"
  /\ phase' = "refills" /\ due' = 0
  /\ UNCHANGED <<cfg, queueFill, ringFill, cycle, underrunEvents,
                 underrunFrames, underrunWindows, inUnderrunWindow,
                 overrunEvents, overrunFrames, history>>

(* One refill: apply_legacy_refill.                                        *)
Refill ==
  /\ cycle < Cycles /\ phase = "refills" /\ due < MaxRefillsPerCycle
  /\ LET qr == ApplyLegacyRefill(queueFill, ringFill)
     IN  queueFill' = qr[1] /\ ringFill' = qr[2]
  /\ due' = due + 1
  /\ UNCHANGED <<cfg, cycle, phase, underrunEvents, underrunFrames,
                 underrunWindows, inUnderrunWindow, overrunEvents,
                 overrunFrames, history>>

(* No further refill is due in this cycle.                                 *)
RefillsDone ==
  /\ cycle < Cycles /\ phase = "refills"
  /\ phase' = "packet" /\ due' = 0
  /\ UNCHANGED <<cfg, queueFill, ringFill, cycle, underrunEvents,
                 underrunFrames, underrunWindows, inUnderrunWindow,
                 overrunEvents, overrunFrames, history>>

(* The cycle's IT packet: a DATA packet takes Needed frames from the ring; *)
(* with fewer there, the underrun is counted, a new window opens unless   *)
(* one is open, and the ring is emptied.  A DATA packet that gets its     *)
(* frames closes the window; a NO-DATA packet leaves it as it is.         *)
Packet ==
  /\ cycle < Cycles /\ phase = "packet"
  /\ LET n == Needed(cycle) IN
     /\ IF n > 0 /\ ringFill < n
          THEN /\ underrunEvents' = underrunEvents + 1
               /\ underrunFrames' = underrunFrames + (n - ringFill)
               /\ underrunWindows' = IF inUnderrunWindow THEN underrunWindows
                                     ELSE underrunWindows + 1
               /\ inUnderrunWindow' = TRUE
               /\ ringFill' = 0
               /\ discarded' = discarded + ringFill
               /\ UNCHANGED sent
          ELSE /\ ringFill' = ringFill - n
               /\ inUnderrunWindow' = InWindowAfter(n)
               /\ sent' = sent + n
               /\ UNCHANGED <<underrunEvents, underrunFrames, underrunWindows,
                              discarded>>
     /\ demanded' = demanded + n
     /\ dataOutcomes' = IF n > 0 THEN Append(dataOutcomes, ringFill < n)
                        ELSE dataOutcomes
  /\ cycle' = cycle + 1 /\ phase' = "callbacks" /\ due' = 0
  /\ UNCHANGED <<cfg, queueFill, overrunEvents, overrunFrames, offered, written>>

Next == Callback \/ CallbacksDone \/ Refill \/ RefillsDone \/ Packet

(* The trial ends after cycles_total cycles.                               *)
Spec == Init /\ [][Next]_vars

-----------------------------------------------------------------------------
(* TypeOK                                                                  *)
TypeOK ==
  /\ cfg \in Configs
  /\ queueFill \in 0 .. cfg.txQueueCapacity
  /\ ringFill \in 0 .. cfg.ringCapacity
  /\ cycle \in 0 .. Cycles
  /\ phase \in {"callbacks", "refills", "packet"}
  /\ due \in 0 .. MaxRefillsPerCycle
  /\ inUnderrunWindow \in BOOLEAN
  /\ dataOutcomes \in Seq(BOOLEAN)

(* FramesConserved: every frame a callback offers is either written or     *)
(* counted as overrun, every frame written is in the queue, in the ring,   *)
(* sent, or dropped from the ring by an underrun, and every frame a DATA   *)
(* packet needs is either sent, taken from the dropped remainder or        *)
(* counted in underrun_frames.  It ties the producer's overrun count, the  *)
(* refill's pumping and the packet's underrun count together.              *)
FramesConserved ==
  /\ offered = written + overrunFrames
  /\ Prefill(cfg) + written = queueFill + ringFill + sent + discarded
  /\ demanded = sent + discarded + underrunFrames

(* The underrun windows a sequence of DATA-packet outcomes has: the runs   *)
(* of consecutive underruns.                                               *)
WindowsOf(s) ==
  Cardinality({i \in 1 .. Len(s) : s[i] /\ (i = 1 \/ ~s[i - 1])})

(* UnderrunWindowsCounted: underrun_events is the number of DATA packets   *)
(* that underran and underrun_windows the number of runs of them, with     *)
(* NO-DATA cycles neither ending nor starting a run; in_underrun_window    *)
(* says whether the last DATA packet underran.                             *)
UnderrunWindowsCounted ==
  /\ underrunEvents = Cardinality({i \in 1 .. Len(dataOutcomes) : dataOutcomes[i]})
  /\ underrunWindows = WindowsOf(dataOutcomes)
  /\ inUnderrunWindow = (dataOutcomes # << >> /\ dataOutcomes[Len(dataOutcomes)])

(* RefillStopsAtTarget: a refill never takes the ring above rb_target (or  *)
(* above what it already held), whatever the queue, the chunk limit and    *)
(* rb_max; the loop's rb_max break is therefore never what stops it.      *)
RefillStopsAtTarget ==
  [][Refill => ringFill' <= Max({ringFill, cfg.rbTarget})]_vars

(* DemandMatchesPacketModel: after every whole group of 8 cycles the      *)
(* trial's packets (the cadence hard-coded in run_single_trial with       *)
(* blocking_cycle_is_data) have been DATA packets and demanded frames     *)
(* exactly as stream_mode_packet_model, which deterministic_calc reports, *)
(* says: dataPer8 DATA packets of samplesPerDataPacket frames, and the    *)
(* average frames per cycle.                                               *)
DemandMatchesPacketModel ==
  LET pm == StreamModePacketModel(cfg.sampleRate, cfg.streamMode)
      groups == cycle \div 8
  IN  cycle % 8 = 0 =>
        /\ Len(dataOutcomes) = groups * pm.dataPer8
        /\ demanded = groups * pm.dataPer8 * pm.samplesPerDataPacket
        /\ demanded * pm.framesPerCycle[2] = cycle * pm.framesPerCycle[1]

(* SweepPicksSmallestTarget: for every --sweep argument parse_sweep_spec  *)
(* accepts against the configuration's rb_max (main parses it before the  *)
(* trials, at cycle 0) and every outcome of the per-target Monte Carlo     *)
(* runs, run_sweep picks the smallest rb_target in 1 .. rb_max that meets  *)
(* the risk threshold, and 0 (None) when none does; it relies on the       *)
(* targets coming out of parse_sweep_spec in ascending order.              *)
SweepPicksSmallestTarget ==
  \A spec \in SweepSpecs :
    LET rbMax == cfg.rbMax
        r == ParseSweepSpec(spec, rbMax)
    IN  cycle = 0 /\ r.ok =>
          \A meets \in SUBSET ToSet(r.targets) :
            LET good == {t \in meets : 0 < t /\ t <= rbMax}
            IN  RunSweepPick(r.targets, rbMax, meets) =
                  IF good = {} THEN 0 ELSE Min(good)

=============================================================================
