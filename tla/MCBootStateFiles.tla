-------------------------- MODULE MCBootStateFiles --------------------------
(* Callers and commands for TLC: what may run at once while slot a is being *)
(* watched by its health gate.                                              *)
EXTENDS BootStateFiles

CONSTANTS slotA, slotB, none, torn, caller1, caller2

MCSlots == {slotA, slotB}
MCProcs == {caller1, caller2}

Accept == [op |-> "accept", slot |-> slotA]
Recovery == [op |-> "recovery", slot |-> none]
Status == [op |-> "status", slot |-> none]

AllKinds == {Accept, Recovery, Status}
StatusAndAccept == {Accept, Status}
AcceptAndRecovery == {Accept, Recovery}
=============================================================================
