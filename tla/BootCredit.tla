----------------------------- MODULE BootCredit -----------------------------
(***************************************************************************)
(* What A/B booting promises, with none of its mechanism.  A slot may be   *)
(* started only against a credit, starting it spends the credit, and no    *)
(* credit appears while the device is down or booting: it comes from a     *)
(* system that is up, by its health gate or by an administrator.  So a     *)
(* system that never gets healthy is not started twice, whatever power     *)
(* losses and failures come between.                                       *)
(***************************************************************************)
CONSTANTS Slots, NoSlot, FactorySlot

VARIABLES
    phase,   \* "down", "boot" or "up"
    slot,    \* the slot started and not given up, or NoSlot
    credit   \* the slots that may still be started

vars == <<phase, slot, credit>>

Init == phase = "down" /\ slot = NoSlot /\ credit = {FactorySlot}

PowerOn ==
    /\ phase = "down"
    /\ phase' = "boot"
    /\ UNCHANGED <<slot, credit>>

(* The only step that selects a slot. *)
Start(s) ==
    /\ phase = "boot" /\ slot = NoSlot /\ s \in credit
    /\ slot' = s
    /\ credit' = credit \ {s}
    /\ UNCHANGED phase

GiveUp ==
    /\ phase = "boot"
    /\ slot' = NoSlot
    /\ credit' \subseteq credit
    /\ phase' \in {"boot", "up"}

Run ==
    /\ phase = "boot" /\ slot # NoSlot
    /\ phase' = "up"
    /\ UNCHANGED <<slot, credit>>

Down ==
    /\ phase' = "down"
    /\ slot' = NoSlot
    /\ credit' \subseteq credit

(* A system that is up decides what may be started next: its health gate   *)
(* gives the running slot a start back, an update adds one for the new     *)
(* image, an administrator adds or takes away.                             *)
Grant ==
    /\ phase = "up"
    /\ credit' \in SUBSET Slots
    /\ UNCHANGED <<phase, slot>>

Next ==
    \/ PowerOn \/ GiveUp \/ Run \/ Down \/ Grant
    \/ \E s \in Slots : Start(s)

Spec == Init /\ [][Next]_vars
=============================================================================
