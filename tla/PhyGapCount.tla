------------------------------ MODULE PhyGapCount ------------------------------
(***************************************************************************)
(* PHY register 1 and its persistent core as src/tools/gap_count_simulator.py *)
(* simulates them (class PHYRegister1), driven by the operations its three *)
(* simulations call in a fixed order: the gap-count write, enabling        *)
(* Enab_accel, InitiateBusReset (by write or by update, the buggy and the  *)
(* fixed driver) and the bus reset itself.  Here the operations may come   *)
(* in any order: a bus reset in particular is a bus event, not a step the  *)
(* driver schedules.                                                       *)
(***************************************************************************)
EXTENDS Naturals, Bitwise

CONSTANTS
  ResetBy,     (* InitiateBusReset: "write" (WritePhyRegister(1, 0x40)) or *)
               (* "update" (UpdatePhyRegister(1, 0, 0x40))                 *)
  GapValues    (* gap counts the driver writes                            *)

VARIABLES
  value,           (* self.value: register 1                              *)
  persistentCore,  (* self.persistent_core                                *)
  enabAccel,       (* self.enab_accel (PHY register 5 bit 6)              *)
  intended         (* the gap count the driver last configured (the       *)
                   (* strap value before any write)                       *)

vars == <<value, persistentCore, enabAccel, intended>>

IBR == 64                         (* bit 6: Initiate Bus Reset            *)
GapMask == 63                     (* bits 5:0: gap count                  *)

GapCount == value % 64            (* get_gap_count: value & 0x3F          *)

-----------------------------------------------------------------------------
(* PHYRegister1.write: the register takes the byte; with Enab_accel the    *)
(* core takes it too.                                                      *)
WriteReg(data) ==
  /\ value' = data % 256
  /\ persistentCore' = IF enabAccel THEN data % 256 ELSE persistentCore

(* Mutation: update that does not read the register first.                *)
UpdateNoRead(clearBits, setBits) == setBits

(* Mutation: the set mask shifted two bits too far (IBR at bit 8).        *)
UpdateSetShifted(clearBits, setBits) ==
  (value & (255 - clearBits)) | (setBits * 4)

(* The new register value of PHYRegister1.update.                         *)
UpdatedValue(clearBits, setBits) == (value & (255 - clearBits)) | setBits

UpdateReg(clearBits, setBits) ==
  /\ value' = UpdatedValue(clearBits, setBits)
  /\ persistentCore' = IF enabAccel THEN value' ELSE persistentCore

-----------------------------------------------------------------------------
(* PHYRegister1(): register and core 0; or, as simulate_linux_approach    *)
(* sets them, a PHY strapped to gap 0x3F in both.                          *)
Init ==
  /\ value \in {0, 63}
  /\ persistentCore = value
  /\ enabAccel = FALSE
  /\ intended = value

(* The driver configures the gap count: phy.write(gap).                    *)
WriteGap ==
  \E g \in GapValues :
    /\ WriteReg(g)
    /\ intended' = g
    /\ UNCHANGED enabAccel

(* set_enab_accel(enabled)                                                 *)
SetEnabAccel ==
  \E b \in BOOLEAN :
    /\ enabAccel' = b
    /\ UNCHANGED <<value, persistentCore, intended>>

(* InitiateBusReset: write(0x40) or update(0x00, 0x40).                   *)
InitiateBusReset ==
  /\ IF ResetBy = "write" THEN WriteReg(IBR) ELSE UpdateReg(0, IBR)
  /\ UNCHANGED <<enabAccel, intended>>

(* PHYRegister1.bus_reset: reload from the core with Enab_accel, else the  *)
(* hardware default 0.                                                     *)
BusReset ==
  /\ value' = IF enabAccel THEN persistentCore % 64 ELSE 0
  /\ UNCHANGED <<persistentCore, enabAccel, intended>>

Next == WriteGap \/ SetEnabAccel \/ InitiateBusReset \/ BusReset

Spec == Init /\ [][Next]_vars

-----------------------------------------------------------------------------
(* TypeOK: register 1 and the core hold bytes.                             *)
TypeOK ==
  /\ value \in 0 .. 255
  /\ persistentCore \in 0 .. 255
  /\ enabAccel \in BOOLEAN
  /\ intended \in GapValues \cup {0, 63}

(* The configured gap count is in register 1 and in the core, and the core *)
(* will be reloaded.                                                       *)
Persisted ==
  /\ enabAccel
  /\ GapCount = intended
  /\ persistentCore % 64 = intended

(* PersistedGapStays: once the configured gap count is in the persistent   *)
(* core with Enab_accel on, no driver operation and no bus reset takes it  *)
(* out again while Enab_accel stays on, short of configuring another gap.  *)
(* This is what the fixed InitiateBusReset (read-modify-write) is for.     *)
PersistedGapStays ==
  [][Persisted /\ enabAccel' /\ intended' = intended => Persisted']_vars

=============================================================================
