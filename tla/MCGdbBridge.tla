---------------------------- MODULE MCGdbBridge ----------------------------
(***************************************************************************)
(* GdbBridge with two breakpoint registers, as few as the insertion of a   *)
(* third one needs to fail.                                                *)
(***************************************************************************)
EXTENDS GdbBridge

CONSTANTS a1, a2, a3

ThreeAddresses == {a1, a2, a3}
TwoAddresses == {a1, a2}
=============================================================================
