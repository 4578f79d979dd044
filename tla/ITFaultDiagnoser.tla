--------------------------- MODULE ITFaultDiagnoser ---------------------------
(***************************************************************************)
(* analyze_it_log of src/tools/it_dma_program.py: one pass over the lines *)
(* of a driver log, collecting events (event code, CommandPtr, dead flag), *)
(* the first base address and descriptor dumps, then the choice of the     *)
(* critical event and the deep diagnosis of the descriptor CommandPtr      *)
(* names.                                                                  *)
(*                                                                         *)
(* A log line is a record of what the regexes find in it (pat_event,      *)
(* pat_cmdp, pat_dead, pat_base, pat_desc); the text is abstracted away.   *)
(* The report is the set of diagnostic lines produced, as tags, with the   *)
(* numbers the properties need (the line diagnosed, the descriptor index). *)
(* A dumped ctl word is kept as its two 16-bit halves (control, reqCount). *)
(***************************************************************************)
EXTENDS Integers, Sequences, SequencesExt, TLC

CONSTANTS
  Lines,     (* the log lines a run may read                              *)
  None,      (* a field a line does not have (Python None)               *)
  MaxLines   (* bound: length of the log                                 *)

VARIABLES
  log,          (* lines read so far                                     *)
  events,       (* events: Seq of [code, cmd, dead, line]                 *)
  descriptors,  (* index -> [control, req, dat, br] from the dumps       *)
  baseAddress,  (* the first base= value, or None                        *)
  report,       (* the diagnosis, or None while scanning                 *)
  pc            (* "scan" or "done"                                      *)

vars == <<log, events, descriptors, baseAddress, report, pc>>

-----------------------------------------------------------------------------
(* Event codes the diagnosis names (EVENT_CODE_NAMES).                     *)
EVT_NO_STATUS == 0
ACK_COMPLETE == 2
EVT_TIMEOUT == 10
ACK_PENDING == 17
EVT_SKIP_OVERFLOW == 33
UNINIT_HALF == 57054             (* 0xDEDE: each half of 0xDEDEDEDE      *)

(* Python truthiness of an optional integer: None and 0 are false.         *)
Truthy(x) == x # None /\ x # 0

IsEvent(l) == l.ev # None \/ l.cmd # None \/ l.dead

(* Mutation: ack_pending (0x11) dropped from the benign codes.             *)
AlarmingNoPending(e) == e.dead \/ (e.code # None /\ e.code \notin {EVT_NO_STATUS, ACK_COMPLETE})

(* An event that stops the search for the critical event.                  *)
Alarming(e) ==
  e.dead \/ (e.code # None /\ e.code \notin {EVT_NO_STATUS, ACK_COMPLETE, ACK_PENDING})

(* Mutation: the search loop without its break (the last alarm wins).     *)
CriticalLast(evs) ==
  LET alarms == {k \in DOMAIN evs : Alarming(evs[k])} IN
  IF alarms = {} THEN 0 ELSE Max(alarms)

(* The position of the critical event in events, or 0 if none.            *)
Critical(evs) ==
  LET alarms == {k \in DOMAIN evs : Alarming(evs[k])} IN
  IF alarms = {} THEN 0 ELSE Min(alarms)

(* The fields of a dumped descriptor, as the deep diagnosis decodes them.  *)
CmdOf(d) == (d.control \div 4096) % 16
KeyOf(d) == (d.control \div 256) % 8

(* p_key of the "second half" check: (p_ctl >> 8) & 0x7 of the whole ctl  *)
(* word reqCount | control << 16, which is bits 10:8 of reqCount.          *)
PrevKeyOf(d) == (d.req \div 256) % 8

DescName(d) ==
  CASE CmdOf(d) = 0 /\ KeyOf(d) = 0 -> "OUTPUT_MORE"
    [] CmdOf(d) = 0 /\ KeyOf(d) = 2 -> "OUTPUT_MORE-Immediate"
    [] CmdOf(d) = 1 /\ KeyOf(d) = 0 -> "OUTPUT_LAST"
    [] CmdOf(d) = 1 /\ KeyOf(d) = 2 -> "OUTPUT_LAST-Immediate"
    [] CmdOf(d) = 8 /\ KeyOf(d) = 6 -> "STORE_VALUE"
    [] OTHER -> "UNKNOWN"

(* The verdict on the descriptor's pointer (the if/elif chain on d_val,   *)
(* br_z and br_addr).                                                      *)
Verdict(d) ==
  LET z == d.br % 16
      addr == d.br - z
  IN  CASE d.control = UNINIT_HALF /\ d.req = UNINIT_HALF -> {"uninitialized"}
        [] z = 0 -> IF CmdOf(d) = 1 THEN {"stopped_naturally"} ELSE {}
        [] addr = 0 ->
             IF CmdOf(d) = 0 /\ KeyOf(d) = 0 THEN {"standard_output_more"}
             ELSE {"null_branch"} \cup
                  (IF CmdOf(d) = 0 /\ KeyOf(d) = 2 THEN {"null_skip_note"} ELSE {})
        [] OTHER -> {"branch_valid"}

(* Mutation: the "before base" check dropped.                             *)
DescriptorIndexNoLowerCheck(cmd, base) ==
  LET offset == (cmd - (cmd % 16)) - base IN
  IF offset % 16 # 0 THEN None ELSE offset \div 16

(* The index CommandPtr names, or None when the offset is negative or     *)
(* not a multiple of 16 (the first two branches of the deep diagnosis).    *)
DescriptorIndex(cmd, base) ==
  LET offset == (cmd - (cmd % 16)) - base IN
  IF offset < 0 \/ offset % 16 # 0 THEN None ELSE offset \div 16

(* The deep diagnosis of one event against the dumps and the base.         *)
Deep(cmd, descs, base) ==
  IF ~(Truthy(cmd) /\ Truthy(base)) THEN [tags |-> {"no_deep"}, index |-> None]
  ELSE
    LET offset == (cmd - (cmd % 16)) - base
        idx == DescriptorIndex(cmd, base)
    IN  IF idx = None
        THEN [tags |-> IF offset < 0 THEN {"before_base"} ELSE {"misaligned"}, index |-> None]
        ELSE [tags |-> {"failure_index"}
                       \cup (IF idx - 1 \in DOMAIN descs /\ PrevKeyOf(descs[idx - 1]) = 2
                             THEN {"second_half"} ELSE {})
                       \cup (IF idx \in DOMAIN descs
                             THEN {"content"} \cup Verdict(descs[idx]) ELSE {"no_dump"}),
              index |-> idx]

(* The whole report (everything after the scanning loop).                  *)
Diagnosis(evs, descs, base) ==
  IF evs = <<>> THEN [tags |-> {"no_events"}, line |-> 0, index |-> None, type |-> None]
  ELSE
    LET crit == Critical(evs)
        ev == evs[IF crit # 0 THEN crit ELSE Len(evs)]
        deep == Deep(ev.cmd, descs, base)
        basic == (IF crit # 0 THEN {"critical_found"} ELSE {})
                 \cup (IF ev.code # None THEN {"event_code"} ELSE {})
                 \cup (IF ev.code = EVT_TIMEOUT THEN {"timeout"} ELSE {})
                 \cup (IF ev.code = EVT_SKIP_OVERFLOW THEN {"skip_overflow"} ELSE {})
                 \cup (IF Truthy(ev.cmd) THEN {"cmd_ptr"} ELSE {})
                 \cup (IF ev.dead THEN {"dead"} ELSE {})
    IN  [tags |-> basic \cup deep.tags, line |-> ev.line, index |-> deep.index,
         type |-> IF "content" \in deep.tags THEN DescName(descs[deep.index]) ELSE None]

(* Mutation: a later dump of the same index ignored.                     *)
RecordDumpKeepFirst(descs, d) ==
  descs @@ (d.idx :> [control |-> d.control, req |-> d.req, dat |-> d.dat, br |-> d.br])

(* descriptors[idx] = (ctl, dat, br): a later dump of an index replaces    *)
(* the earlier one.                                                        *)
RecordDump(descs, d) ==
  (d.idx :> [control |-> d.control, req |-> d.req, dat |-> d.dat, br |-> d.br]) @@ descs

-----------------------------------------------------------------------------
Init ==
  /\ log = <<>>
  /\ events = <<>>
  /\ descriptors = << >>
  /\ baseAddress = None
  /\ report = None
  /\ pc = "scan"

(* One iteration of the loop over log_text.splitlines().                  *)
ScanLine ==
  /\ pc = "scan"
  /\ Len(log) < MaxLines
  /\ \E l \in Lines :
       /\ log' = Append(log, l)
       /\ events' = IF IsEvent(l)
                    THEN Append(events, [code |-> l.ev, cmd |-> l.cmd, dead |-> l.dead,
                                         line |-> Len(log) + 1])
                    ELSE events
       /\ baseAddress' = IF l.base # None /\ baseAddress = None THEN l.base ELSE baseAddress
       /\ descriptors' = IF l.dump = None THEN descriptors
                         ELSE RecordDump(descriptors, l.dump)
  /\ UNCHANGED <<report, pc>>

(* The end of the log: the diagnosis is computed and returned.            *)
Diagnose ==
  /\ pc = "scan"
  /\ pc' = "done"
  /\ report' = Diagnosis(events, descriptors, baseAddress)
  /\ UNCHANGED <<log, events, descriptors, baseAddress>>

Next == ScanLine \/ Diagnose

Spec == Init /\ [][Next]_vars

-----------------------------------------------------------------------------
(* Properties.                                                             *)
Opt(S) == S \cup {None}
Tags == {"no_events", "critical_found", "event_code", "timeout", "skip_overflow",
         "cmd_ptr", "dead", "no_deep", "before_base", "misaligned", "failure_index",
         "second_half", "content", "no_dump", "uninitialized", "stopped_naturally",
         "standard_output_more", "null_branch", "null_skip_note", "branch_valid"}

TypeOK ==
  /\ log \in Seq(Lines) /\ Len(log) <= MaxLines
  /\ \A k \in DOMAIN events : events[k].line \in DOMAIN log
  /\ DOMAIN descriptors \subseteq Nat
  /\ pc \in {"scan", "done"}
  /\ pc = "done" <=> report # None
  /\ report # None =>
       /\ report.tags \subseteq Tags
       /\ report.line \in 0 .. Len(log)
       /\ report.index \in Opt(Nat)

(* The log lines the regexes recognise as events, and those of them the    *)
(* spec (4.5 step 2) calls critical: dead, or an event code outside the    *)
(* benign {no-status, ack-complete, ack-pending}.                          *)
EventLines == {k \in DOMAIN log : IsEvent(log[k])}
CriticalLines ==
  {k \in EventLines : log[k].dead \/ (log[k].ev # None /\ log[k].ev \notin {0, 2, 17})}

(* CriticalIsFirstAlarm: the line the diagnosis analyses is the first      *)
(* critical line of the whole log, and the last event line when no line    *)
(* is critical; the report says whether a critical event was found.        *)
CriticalIsFirstAlarm ==
  pc = "done" /\ EventLines # {} =>
    /\ report.line = IF CriticalLines = {} THEN Max(EventLines) ELSE Min(CriticalLines)
    /\ ("critical_found" \in report.tags) <=> CriticalLines # {}

(* The dump line of index i that the diagnosis should read: the last one.  *)
LatestDump(i) ==
  log[Max({k \in DOMAIN log : log[k].dump # None /\ log[k].dump.idx = i})].dump

(* DiagnosisReadsCmdPtrTarget: a descriptor index in the report is the     *)
(* 16-byte slot, counted from the first base= of the log, that the         *)
(* analysed line's CommandPtr names (never one before the base), and the   *)
(* descriptor classified there is the latest dump of that index.           *)
DiagnosisReadsCmdPtrTarget ==
  pc = "done" /\ report.index # None =>
    LET cmd == log[report.line].cmd IN
    /\ report.index >= 0
    /\ baseAddress + 16 * report.index = cmd - (cmd % 16)
    /\ report.type # None => report.type = DescName(LatestDump(report.index))

(* NullSkipDetected: when the context died on an OUTPUT_MORE-Immediate     *)
(* whose skip pointer has Z # 0 and a null address, the diagnosis reports  *)
(* the null pointer (spec 4.5 step 5).  The skip pointer is quadlet 1 of   *)
(* the descriptor, where OutputMoreImmediate.to_bytes writes it and where  *)
(* the dump shows it as dat=.                                              *)
NullSkipDetected ==
  pc = "done" /\ report.type = "OUTPUT_MORE-Immediate" =>
    LET d == descriptors[report.index] IN
    d.dat % 16 # 0 /\ d.dat - (d.dat % 16) = 0 => "null_branch" \in report.tags

=============================================================================
