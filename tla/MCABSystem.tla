---------------------------- MODULE MCABSystem ----------------------------
(* The two slots of the device, and small bounds, for TLC. *)
EXTENDS ABSystem

CONSTANTS slotA, slotB, none, torn

MCSlots == {slotA, slotB}
=============================================================================
