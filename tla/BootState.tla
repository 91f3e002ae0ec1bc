----------------------------- MODULE BootState -----------------------------
(***************************************************************************)
(* The A/B record kept in UBI volume 6 and the commands of                 *)
(* persistent-overlay/usr/libexec/rg-ma2820/bootstate, as functions from   *)
(* the record a command reads to the record it writes.  Each guard is the  *)
(* condition under which the command does not die.                         *)
(*                                                                         *)
(* Left out: `format' (a constant), `last_result' (informative text that   *)
(* no command reads) and `generation' (see BootStateFiles).                *)
(***************************************************************************)
CONSTANTS
    Slots,        \* the system slots, volumes 4 and 5
    NoSlot,       \* the word `none'
    FactorySlot,  \* the slot default_state makes active, `a'
    Invalid       \* what read_state refuses: missing, torn or bad checksum

SlotOrNone == Slots \cup {NoSlot}

(* The fields a valid record has after the checks of read_state. *)
Record == [active : Slots, pending : SlotOrNone, booting : SlotOrNone,
           force : BOOLEAN]

ASSUME SlotAssumption == FactorySlot \in Slots /\ NoSlot \notin Slots
ASSUME InvalidAssumption == Invalid \notin Record

Volume == Record \cup {Invalid}

DefaultState == [active |-> FactorySlot, pending |-> NoSlot,
                 booting |-> NoSlot, force |-> FALSE]

(* `read_state || default_state' *)
ReadOrDefault(v) == IF v = Invalid THEN DefaultState ELSE v

-----------------------------------------------------------------------------
(* prepare, run by PID 1 of the bootstrap. *)
Bootable(v) == v # Invalid /\ ~v.force

TrialUnaccepted(r) == r.booting # NoSlot /\ r.pending = r.booting
ActiveUnaccepted(r) == r.booting # NoSlot /\ r.pending # r.booting

(* Variant: the failed trial stays pending. *)
DropBootingOnly(r) == [r EXCEPT !.booting = NoSlot]

DropPending(r) == [r EXCEPT !.pending = NoSlot, !.booting = NoSlot]
FailActive(r) == [r EXCEPT !.booting = NoSlot, !.force = TRUE]

NextSlot(r) == IF r.pending # NoSlot THEN r.pending ELSE r.active
(* Variant: the attempt is entered for the active slot. *)
StartActive(r) == [r EXCEPT !.booting = r.active]

StartBoot(r) == [r EXCEPT !.booting = NextSlot(r)]

(* reject SLOT and accept SLOT both insist on the current boot attempt. *)
IsBooting(v, s) == v # Invalid /\ v.booting = s

Rejected(r, s) ==
    IF r.pending = s
    THEN [r EXCEPT !.booting = NoSlot, !.pending = NoSlot]
    ELSE [r EXCEPT !.booting = NoSlot, !.force = TRUE]

MayAccept(v, s) == IsBooting(v, s) /\ v.pending \in {NoSlot, s}
Accepted(s) == [active |-> s, pending |-> NoSlot, booting |-> NoSlot,
                force |-> FALSE]

(* stage SLOT, by the updater of a running system. *)
MayStage(v, s) == v # Invalid /\ v.booting = NoSlot /\ s # v.active
Staged(r, s) == [r EXCEPT !.pending = s, !.force = FALSE]

(* activate SLOT, by the updater of the recovery root.  read_state only     *)
(* sets variables that activate overwrites, so the old record is unused.    *)
Activated(s) == [active |-> s, pending |-> NoSlot, booting |-> NoSlot,
                 force |-> FALSE]

(* recovery and retry, by an administrator or a factory reset. *)
(* Variant: recovery leaves the open attempt in the record. *)
RecoveryOverAttempt(v) == [ReadOrDefault(v) EXCEPT !.force = TRUE]

RecoveryRequested(v) ==
    [ReadOrDefault(v) EXCEPT !.booting = NoSlot, !.force = TRUE]
Retried(r) == [r EXCEPT !.pending = NoSlot, !.booting = NoSlot,
                        !.force = FALSE]

-----------------------------------------------------------------------------
(* What the commands keep true of a record whatever order they come in.    *)
RecordInv(r) ==
    /\ r.pending # r.active
    /\ r.booting # NoSlot => r.booting = NextSlot(r)
    /\ r.force => r.booting = NoSlot

(* The slots a record still allows the bootstrap to start: those it names  *)
(* and has not yet tried.                                                  *)
Credit(v) ==
    IF Bootable(v) THEN {v.active, v.pending} \ {NoSlot, v.booting} ELSE {}
=============================================================================
