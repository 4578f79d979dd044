------------------------------ MODULE ATProgram ------------------------------
(***************************************************************************)
(* The asynchronous-transmit DMA programs of src/tools/dma_program_test.py *)
(* (four Config ROM quadlet reads) in its five modes, run against an OHCI  *)
(* AT context.  The driver side is the code: the blocks and CommandPtr     *)
(* words it builds, the branch words it patches, the registers each step   *)
(* it prints writes (CommandPtr, RUN, WAKE) and Apple's state byte.  The   *)
(* context is the environment: it transmits the block at its position,    *)
(* follows the block's branch word when its Z is non-zero, goes idle on    *)
(* Z = 0, and on WAKE re-reads the branch word of the block it stopped at. *)
(* The controller reads a branch word where the mode's builder puts it     *)
(* (bytes 4..7 of a 32-byte block, +0x08 of a Linux descriptor): both are  *)
(* one word per block here.  A word addr|Z is a record [blk, z].           *)
(***************************************************************************)
EXTENDS Integers, Sequences

CONSTANTS
  Modes,        (* the command-line modes main() accepts                   *)
  BlocksCount   (* requests per run: 4 (READ_OFFS)                         *)

VARIABLES
  mode,         (* sys.argv[1]                                             *)
  mem,          (* branch word of every block                              *)
  cmdPtr,       (* CommandPtr register                                     *)
  run, active, wake,  (* ContextControl RUN, ACTIVE, WAKE                  *)
  pos,          (* block the context is at                                 *)
  done,         (* that block has been transmitted (status written)        *)
  sent,         (* requests transmitted, in order                          *)
  req,          (* next request the program submits                        *)
  phase,        (* "idle", "stop" (stopDMAAfterTransmit) or "wake"         *)
  stateByte     (* Apple's software state byte this+28                     *)

vars == <<mode, mem, cmdPtr, run, active, wake, pos, done, sent, req,
          phase, stateByte>>

Reqs == 0 .. BlocksCount - 1
NoBlk == -1
Ptr(i, z) == [blk |-> i, z |-> z]
Null == Ptr(NoBlk, 0)
Words == [blk : Reqs \cup {NoBlk}, z : 0 .. 15]

Z_FOR_32B == 2
LinuxZ == 3     (* program_linux: "Z=3 for next packet (4 descriptors)"     *)

(* (alloc_iova(idx) & 0xFFFFFFF0) | Z_FOR_32B                              *)
CmdPtr(i) == Ptr(i, Z_FOR_32B)

(* Mutation: the last packet also branches to a next one.                *)
LinuxBranchPastEnd(i) == Ptr(i + 1, LinuxZ)

(* program_linux: next_iova of packet idx, 0 for the last one.             *)
LinuxBranch(i) == IF i < BlocksCount - 1 THEN Ptr(i + 1, LinuxZ) ELSE Null

(* Mutation: the flush on the third request instead of the fourth.        *)
NeedsFlushThird(i) == i = 2

(* program_apple2: needs_flush = [False, False, False, True].              *)
NeedsFlush(i) == i = 3

(* Mutation: PATH 2 patches the new request's own block.                 *)
PatchSelf(i) == i

(* PATH 2 patches the branch word of the previous request's block.         *)
PatchTarget(i) == i - 1

(* Modes that run every request through PATH 1 and stop after it.         *)
StopModes == {"path1", "apple1"}
UsesPath1 ==
  \/ mode \in StopModes
  \/ mode = "path2" /\ req = 0
  \/ mode = "apple2" /\ stateByte = 0
UsesPath2 ==
  \/ mode = "path2" /\ req > 0
  \/ mode = "apple2" /\ stateByte = 1

Completed(i) == \E k \in 1 .. Len(sent) : sent[k] = i

-----------------------------------------------------------------------------
(* main(): the mode; every block built with branch 0 (Linux: the whole    *)
(* chain before the context runs); Apple's state byte starts IDLE.         *)
Init ==
  /\ mode \in Modes
  /\ mem = [i \in Reqs |-> IF mode = "linux" THEN LinuxBranch(i) ELSE Null]
  /\ cmdPtr = Null
  /\ run = FALSE /\ active = FALSE /\ wake = FALSE
  /\ pos = NoBlk /\ done = FALSE
  /\ sent = << >>
  /\ req = 0
  /\ phase = "idle"
  /\ stateByte = 0

(* Writing RUN: the context starts at CommandPtr if its Z is non-zero.    *)
StartAt(w) ==
  /\ cmdPtr' = w
  /\ run' = TRUE
  /\ active' = (w.z # 0)
  /\ pos' = w.blk
  /\ done' = FALSE

(* PATH 1: CommandPtr = cmdptr, WriteControlSet(RUN), state byte 1; then  *)
(* stop after it (path1, apple1, apple2 with needsFlush) or return.       *)
Path1Submit ==
  /\ mode # "linux" /\ phase = "idle" /\ req < BlocksCount /\ UsesPath1
  /\ StartAt(CmdPtr(req))
  /\ stateByte' = IF mode \in {"apple1", "apple2"} THEN 1 ELSE stateByte
  /\ IF mode \in StopModes \/ (mode = "apple2" /\ NeedsFlush(req))
       THEN phase' = "stop" /\ req' = req
       ELSE phase' = "idle" /\ req' = req + 1
  /\ UNCHANGED <<mode, mem, wake, sent>>

(* stopDMAAfterTransmit: wait for the descriptor status and, in the Apple *)
(* modes, for ACTIVE = 0 (WaitForDMA); clear RUN; state byte 0.  path1    *)
(* stops "after AR response/completion".                                  *)
StopAfterTransmit ==
  /\ phase = "stop"
  /\ Completed(req)
  /\ mode # "path1" => ~active
  /\ run' = FALSE /\ active' = FALSE
  /\ stateByte' = IF mode = "path1" THEN stateByte ELSE 0
  /\ phase' = "idle" /\ req' = req + 1
  /\ UNCHANGED <<mode, mem, cmdPtr, wake, pos, done, sent>>

(* PATH 2, step 1: patch prev.branchWord = cmdptr.                         *)
Path2Patch ==
  /\ mode # "linux" /\ phase = "idle" /\ req < BlocksCount /\ UsesPath2
  /\ mem' = [mem EXCEPT ![PatchTarget(req)] = CmdPtr(req)]
  /\ phase' = "wake"
  /\ UNCHANGED <<mode, cmdPtr, run, active, wake, pos, done, sent, req,
                 stateByte>>

(* PATH 2, step 2: WriteControlSet(WAKE); apple2 with needsFlush sets the *)
(* state byte to 0 (and clears nothing else).                              *)
Path2Wake ==
  /\ phase = "wake"
  /\ wake' = TRUE
  /\ stateByte' = IF mode = "apple2" /\ NeedsFlush(req) THEN 0 ELSE stateByte
  /\ phase' = "idle" /\ req' = req + 1
  /\ UNCHANGED <<mode, mem, cmdPtr, run, active, pos, done, sent>>

(* program_linux: CommandPtr = packet 0 | 3, RUN; the chain is in memory. *)
LinuxStart ==
  /\ mode = "linux" /\ req = 0
  /\ StartAt(Ptr(0, LinuxZ))
  /\ req' = BlocksCount
  /\ UNCHANGED <<mode, mem, wake, sent, phase, stateByte>>

Driver == Path1Submit \/ StopAfterTransmit \/ Path2Patch \/ Path2Wake
          \/ LinuxStart

-----------------------------------------------------------------------------
(* The OHCI AT context.                                                    *)

(* The packet of the block at pos goes on the wire; status is written.    *)
CtxTransmit ==
  /\ run /\ active /\ ~done
  /\ sent' = Append(sent, pos)
  /\ done' = TRUE
  /\ UNCHANGED <<mode, mem, cmdPtr, run, active, wake, pos, req, phase,
                 stateByte>>

(* The branch word of a completed block: follow it, or idle on Z = 0.     *)
CtxBranch ==
  /\ run /\ active /\ done
  /\ IF mem[pos].z # 0
       THEN pos' = mem[pos].blk /\ done' = FALSE /\ UNCHANGED active
       ELSE active' = FALSE /\ UNCHANGED <<pos, done>>
  /\ UNCHANGED <<mode, mem, cmdPtr, run, wake, sent, req, phase, stateByte>>

(* WAKE on an idle running context: re-read the branch word it stopped at. *)
CtxWake ==
  /\ run /\ ~active /\ wake /\ pos # NoBlk
  /\ wake' = FALSE
  /\ IF mem[pos].z # 0
       THEN pos' = mem[pos].blk /\ done' = FALSE /\ active' = TRUE
       ELSE UNCHANGED <<pos, done, active>>
  /\ UNCHANGED <<mode, mem, cmdPtr, run, sent, req, phase, stateByte>>

Context == CtxTransmit \/ CtxBranch \/ CtxWake

Next == Driver \/ Context

(* The program runs its steps in order and the controller, once RUN is    *)
(* set, keeps processing: both are weakly fair.                            *)
Spec == Init /\ [][Next]_vars /\ WF_vars(Driver) /\ WF_vars(Context)

-----------------------------------------------------------------------------
(* TypeOK                                                                  *)
TypeOK ==
  /\ mode \in Modes
  /\ mem \in [Reqs -> Words] /\ cmdPtr \in Words
  /\ {run, active, wake, done} \subseteq BOOLEAN
  /\ pos \in Reqs \cup {NoBlk}
  /\ sent \in Seq(Reqs) /\ Len(sent) <= 2 * BlocksCount
  /\ req \in 0 .. BlocksCount
  /\ phase \in {"idle", "stop", "wake"}
  /\ stateByte \in {0, 1}

AllDelivered == <>(Len(sent) = BlocksCount)

(* NoSubmitIntoRunningContext: PATH 1 (CommandPtr write, then RUN) is     *)
(* only taken on a context whose RUN bit is clear.  The program decides    *)
(* between PATH 1 and PATH 2 from its own state (the request number, or   *)
(* Apple's state byte), never from the controller: after a stop it must    *)
(* have cleared RUN, and a state byte of 0 must mean a stopped context     *)
(* for every request still to come, flushes included.                      *)
NoSubmitIntoRunningContext == [][Path1Submit => ~run]_vars

=============================================================================
