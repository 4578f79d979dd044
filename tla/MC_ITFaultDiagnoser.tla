------------------------ MODULE MC_ITFaultDiagnoser -------------------------
(***************************************************************************)
(* Log lines for checking ITFaultDiagnoser.  The program the lines speak   *)
(* of sits at base 0x100: slot 0 holds an OUTPUT_MORE-Immediate or a       *)
(* STORE_VALUE, slot 1 the second half of the Immediate, slot 2 an         *)
(* OUTPUT_LAST.  CommandPtr values name slot 0 (0x103), slot 1 (0x112),    *)
(* slot 2 (0x121) or an address below the base (0xF3).                     *)
(***************************************************************************)
EXTENDS ITFaultDiagnoser

Line(ev, cmd, dead, base, dump) ==
  [ev |-> ev, cmd |-> cmd, dead |-> dead, base |-> base, dump |-> dump]

Dump(idx, control, req, dat, br) ==
  [idx |-> idx, control |-> control, req |-> req, dat |-> dat, br |-> br]

(* Control halves: OUTPUT_MORE-Immediate 0x0200, OUTPUT_LAST with s=1 and  *)
(* branch ALWAYS 0x180C, STORE_VALUE 0x8600.  The IT header quadlet 0 of   *)
(* speed S400 on channel 0 is 0x000240A0 (quadlet 2 of the Immediate).     *)
(* An uninitialized dump is 0xDEDEDEDE in every word; its dat and br are   *)
(* kept as their low halves (the diagnosis does not read them).            *)
ImmediateOK == Dump(0, 512, 8, 259, 147616)     (* skip 0x100|Z=3          *)
ImmediateNullSkip == Dump(0, 512, 8, 3, 147616) (* skip 0x0|Z=3            *)
StoreValueOK == Dump(0, 34304, 5, 65788, 259)
LastLinked == Dump(2, 6156, 24, 65792, 259)
LastNullZ == Dump(2, 6156, 24, 65792, 3)
LastStopped == Dump(2, 6156, 24, 65792, 0)
Uninitialized == Dump(2, 57054, 57054, 57054, 57054)

AckComplete == Line(2, None, FALSE, None, None)
PendingAt0 == Line(17, 259, FALSE, None, None)
TimeoutAt0 == Line(10, 259, FALSE, None, None)
TimeoutAt2 == Line(10, 289, FALSE, None, None)
DeadAt1 == Line(None, 274, TRUE, None, None)
UnknownBelowBase == Line(14, 243, FALSE, None, None)
Base(b) == Line(None, None, FALSE, b, None)
DumpLine(d) == Line(None, None, FALSE, None, d)

(* Diagnosis run: every branch of the deep diagnosis.                      *)
MCLines ==
  {AckComplete, PendingAt0, TimeoutAt2, DeadAt1, UnknownBelowBase, Base(256), Base(264)}
  \cup {DumpLine(d) : d \in {ImmediateOK, StoreValueOK, LastLinked, LastNullZ,
                             LastStopped, Uninitialized}}

(* Null-skip run: the context died on an Immediate whose skip is null.     *)
MCNullSkipLines == {TimeoutAt0, Base(256), DumpLine(ImmediateNullSkip)}

=============================================================================
