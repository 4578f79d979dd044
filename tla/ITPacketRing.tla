---------------------------- MODULE ITPacketRing ----------------------------
(***************************************************************************)
(* What an isochronous-transmit DMA program promises, with no descriptors, *)
(* addresses or pointers in sight: packets are appended one at a time, and *)
(* linking publishes a ring that, read from its first packet, transmits    *)
(* exactly the packets appended so far, in order, and then returns to the  *)
(* first one.                                                              *)
(*                                                                         *)
(* A packet is what the controller puts on the wire for one cycle: the     *)
(* number of payload bytes it gathers (CIP header plus audio) and whether  *)
(* it raises an interrupt when the packet completes.                       *)
(***************************************************************************)
EXTENDS Naturals, Sequences, SequencesExt

VARIABLES
  packets,  (* packets appended so far, oldest first                      *)
  ring      (* the packets of the last published ring, one lap from the   *)
            (* first packet; <<>> while nothing has been published        *)

vars == <<packets, ring>>

Packet == [len : Nat, irq : BOOLEAN]

Init ==
  /\ packets = <<>>
  /\ ring = <<>>

(* One more packet at the end; the published ring is not touched.          *)
AddPacket ==
  /\ Len(packets') = Len(packets) + 1
  /\ IsPrefix(packets, packets')
  /\ packets'[Len(packets')] \in Packet
  /\ UNCHANGED ring

(* Publish every packet appended so far as the ring.                       *)
Link ==
  /\ packets # <<>>
  /\ ring' = packets
  /\ UNCHANGED packets

Next == AddPacket \/ Link

Spec == Init /\ [][Next]_vars

TypeOK ==
  /\ packets \in Seq(Packet)
  /\ ring \in Seq(Packet)

=============================================================================
