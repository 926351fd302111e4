---------------------------- MODULE MCInterrupts ----------------------------
(***************************************************************************)
(* The I/O APICs for Interrupts: one with three entries, and a second one  *)
(* with two entries and a base of its own.                                 *)
(***************************************************************************)
EXTENDS Interrupts

One == <<[gsi_base |-> 0, max_rentry |-> 2]>>
Two == <<[gsi_base |-> 0, max_rentry |-> 2], [gsi_base |-> 3, max_rentry |-> 1]>>

OneIoApic == {One}
AllMadts == {One, Two}
=============================================================================
