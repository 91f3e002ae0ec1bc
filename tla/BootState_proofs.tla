--------------------------- MODULE BootState_proofs ---------------------------
(***************************************************************************)
(* The two models of the A/B record: the cycle of updates and boots that   *)
(* takes each bootstate command as one step (ABSystem), and the commands   *)
(* as they take their lock and write their files (BootStateFiles), which   *)
(* says why that may be done.                                              *)
(*                                                                         *)
(* ABSystem, for any set of slots and any bounds.  Type correctness is not *)
(* inductive alone: accept writes the slot the gate remembered, so its     *)
(* type rests on who holds which slot (SlotHeld), which rests on the       *)
(* coherence of the record.  IInv is their conjunction.                    *)
(*                                                                         *)
(* BootStateFiles, for any number of callers, commands and signals.  The   *)
(* directory admits one caller more for each status and each INT or TERM   *)
(* since a last caller left (LockExcludes), so that as long as there was   *)
(* none (strays = 0) a caller inside is alone there (AloneInside), the     *)
(* shared files are its own (FilesFollow), and what it commits is atomic.  *)
(***************************************************************************)
EXTENDS ABSystem, BootStateFiles, FiniteSetTheorems, TLAPS

IInv ==
    /\ TypeOK
    /\ RecordCoherent
    /\ BootingIsRunning
    /\ SlotHeld

Coherent(r) == r \in Record /\ RecordInv(r)

-----------------------------------------------------------------------------
(* The commands on a coherent record. *)

LEMMA FieldTypes ==
    ASSUME NEW r \in Record
    PROVE  /\ r.active \in Slots /\ r.active # NoSlot
           /\ r.pending \in SlotOrNone /\ r.booting \in SlotOrNone
           /\ r.force \in BOOLEAN
           /\ r # Invalid
BY SlotAssumption, InvalidAssumption DEF Record

LEMMA DefaultCoherent == Coherent(DefaultState) /\ DefaultState.booting = NoSlot
BY SlotAssumption
   DEF Coherent, DefaultState, Record, RecordInv, NextSlot, SlotOrNone

LEMMA DropPendingCoherent ==
    ASSUME NEW r, Coherent(r), ~r.force
    PROVE  /\ Coherent(DropPending(r))
           /\ DropPending(r).booting = NoSlot
           /\ DropPending(r).pending = NoSlot
           /\ DropPending(r).active = r.active
           /\ DropPending(r).force = FALSE
BY SlotAssumption
   DEF Coherent, DropPending, Record, RecordInv, NextSlot, SlotOrNone

LEMMA FailActiveCoherent ==
    ASSUME NEW r, Coherent(r)
    PROVE  /\ Coherent(FailActive(r))
           /\ FailActive(r).force
BY SlotAssumption
   DEF Coherent, FailActive, Record, RecordInv, NextSlot, SlotOrNone

LEMMA StartBootCoherent ==
    ASSUME NEW r, Coherent(r), ~r.force
    PROVE  /\ Coherent(StartBoot(r))
           /\ NextSlot(r) \in Slots
           /\ StartBoot(r).booting = NextSlot(r)
           /\ StartBoot(r).force = FALSE
           /\ StartBoot(r).active = r.active
           /\ StartBoot(r).pending = r.pending
BY SlotAssumption
   DEF Coherent, StartBoot, Record, RecordInv, NextSlot, SlotOrNone

LEMMA RejectedCoherent ==
    ASSUME NEW r, Coherent(r), NEW s \in Slots, r.booting = s, ~r.force
    PROVE  /\ Coherent(Rejected(r, s))
           /\ Rejected(r, s).active = r.active
           /\ Rejected(r, s).booting = NoSlot
           /\ r.pending = s => /\ Rejected(r, s).pending = NoSlot
                               /\ Rejected(r, s).force = FALSE
           /\ r.pending # s => Rejected(r, s).force
BY SlotAssumption
   DEF Coherent, Rejected, Record, RecordInv, NextSlot, SlotOrNone

LEMMA AcceptedCoherent ==
    ASSUME NEW s \in Slots
    PROVE  Coherent(Accepted(s)) /\ Accepted(s).booting = NoSlot
BY SlotAssumption DEF Coherent, Accepted, Record, RecordInv, NextSlot, SlotOrNone

LEMMA ActivatedCoherent ==
    ASSUME NEW s \in Slots
    PROVE  Coherent(Activated(s)) /\ Activated(s).booting = NoSlot
BY SlotAssumption DEF Coherent, Activated, Record, RecordInv, NextSlot, SlotOrNone

LEMMA StagedCoherent ==
    ASSUME NEW r, Coherent(r), NEW s \in Slots, MayStage(r, s)
    PROVE  Coherent(Staged(r, s)) /\ Staged(r, s).booting = NoSlot
BY SlotAssumption
   DEF Coherent, Staged, MayStage, Record, RecordInv, NextSlot, SlotOrNone

LEMMA RecoveryCoherent ==
    ASSUME NEW v \in Volume, v # Invalid => RecordInv(v)
    PROVE  /\ Coherent(RecoveryRequested(v))
           /\ RecoveryRequested(v).booting = NoSlot
           /\ v # Invalid => RecoveryRequested(v).active = v.active
<1>1. Coherent(ReadOrDefault(v))
  BY DefaultCoherent DEF ReadOrDefault, Coherent, Volume
<1>2. QED
  BY <1>1, SlotAssumption
     DEF Coherent, RecoveryRequested, ReadOrDefault, Record, RecordInv, NextSlot,
         SlotOrNone

LEMMA RetriedCoherent ==
    ASSUME NEW r, Coherent(r)
    PROVE  /\ Coherent(Retried(r))
           /\ Retried(r).booting = NoSlot
           /\ Retried(r).active = r.active
BY SlotAssumption
   DEF Coherent, Retried, Record, RecordInv, NextSlot, SlotOrNone

-----------------------------------------------------------------------------
(* Steps of the device keep IInv. *)

LEMMA Facts ==
    ASSUME IInv
    PROVE  /\ vol # Invalid => Coherent(vol)
           /\ slot = NoSlot <=> ~(mode = "system" \/ Selected)
           /\ NoUpgrade.pc = "idle" /\ NoUpgrade.slot = NoSlot
           /\ GateStart.pc = "watch"
BY SlotAssumption
   DEF IInv, TypeOK, Volume, RecordCoherent, Coherent, SlotHeld, SlotOrNone,
       NoUpgrade, GateStart

LEMMA StartTypes ==
    /\ NoUpgrade \in [pc : {"idle", "write", "verify", "mark", "reboot"},
                      slot : SlotOrNone, kind : Kinds, rec : BOOLEAN]
    /\ GateStart \in [pc : {"watch", "accept", "commit", "mark", "done", "reboot"},
                      stable : Nat, elapsed : Nat, slot : SlotOrNone]
    /\ BootStart \in [pc : {"prepare", "try", "reject"}, tries : Nat]
BY DEF NoUpgrade, GateStart, BootStart, SlotOrNone, Kinds

LEMMA InitIInv == Init => IInv
<1> SUFFICES ASSUME Init PROVE IInv
  OBVIOUS
<1>1. vol \in Record /\ RecordInv(vol) /\ vol.booting = NoSlot
  BY DefaultCoherent DEF Init, Coherent
<1>2. TypeOK
  BY <1>1, StartTypes DEF Init, TypeOK, Volume, Kinds, SlotOrNone
<1>3. RecordCoherent /\ BootingIsRunning
  BY <1>1 DEF Init, RecordCoherent, BootingIsRunning
<1>4. SlotHeld
  BY SlotAssumption DEF Init, SlotHeld, Selected, GateStart, NoUpgrade, Up
<1>5. QED
  BY <1>2, <1>3, <1>4 DEF IInv

(* Whatever stops the device leaves nothing running and no slot held. *)
LEMMA HaltIInv ==
    ASSUME IInv, Halt \/ HaltLeaving(Invalid),
           faults' \in Nat, requests' \in Nat, reboots' \in Nat
    PROVE  IInv'
<1> USE DEF IInv
<1>1. vol' \in Volume /\ (vol' # Invalid => RecordInv(vol'))
  BY DEF Halt, HaltLeaving, TypeOK, Volume, RecordCoherent
<1>2. image' \in [Slots -> Kinds] /\ verified' \subseteq Slots
  BY DEF Halt, HaltLeaving, TypeOK, Kinds
<1>3. TypeOK'
  BY <1>1, <1>2, StartTypes DEF Halt, HaltLeaving, SwitchedOff, TypeOK, SlotOrNone
<1>4. RecordCoherent' /\ BootingIsRunning'
  BY <1>1 DEF Halt, HaltLeaving, SwitchedOff, RecordCoherent, BootingIsRunning
<1>5. SlotHeld'
  BY SlotAssumption
     DEF Halt, HaltLeaving, SwitchedOff, SlotHeld, Selected, GateStart, NoUpgrade, Up
<1>6. QED
  BY <1>3, <1>4, <1>5

(* PID 1. *)
LEMMA RecoveryIInv ==
    ASSUME IInv, mode = "boot", EnterRecovery,
           vol' = Invalid \/ Coherent(vol'),
           faults' \in Nat, uploads' \in Nat, requests' \in Nat, reboots' \in Nat
    PROVE  IInv'
<1> USE DEF IInv
<1>1. TypeOK'
  BY StartTypes DEF EnterRecovery, TypeOK, Volume, Coherent, SlotOrNone
<1>2. RecordCoherent' /\ BootingIsRunning'
  BY DEF EnterRecovery, RecordCoherent, BootingIsRunning, Coherent
<1>3. SlotHeld'
  BY SlotAssumption DEF EnterRecovery, SlotHeld, Selected, GateStart, Up
<1>4. QED
  BY <1>1, <1>2, <1>3

LEMMA BootstrapIInv ==
    ASSUME IInv, BootstrapNext
    PROVE  IInv'
<1> USE DEF IInv, bounds, Bootstrap
<1>0. /\ vol # Invalid => Coherent(vol)
      /\ NoSlot \notin Slots
  BY Facts, SlotAssumption
<1>1. CASE PrepareRefused
  BY <1>0, <1>1, RecoveryIInv DEF PrepareRefused, TypeOK
<1>2. CASE PrepareFailActive
  BY <1>0, <1>2, FailActiveCoherent, RecoveryIInv
     DEF PrepareFailActive, TypeOK, Bootable
<1>3. CASE PrepareDropPending
  <2>1. Coherent(vol') /\ vol' # Invalid
    BY <1>0, <1>3, DropPendingCoherent, FieldTypes
       DEF PrepareDropPending, Bootable, Coherent
  <2>2. TypeOK'
    BY <1>3, <2>1 DEF PrepareDropPending, TypeOK, Volume, Coherent
  <2>3. RecordCoherent' /\ BootingIsRunning'
    BY <1>3, <2>1
       DEF PrepareDropPending, RecordCoherent, BootingIsRunning, Coherent
  <2>4. SlotHeld'
    BY <1>3 DEF PrepareDropPending, SlotHeld, Selected, Up
  <2>5. QED
    BY <2>2, <2>3, <2>4
<1>4. CASE PrepareStart
  <2>1. /\ Coherent(vol') /\ vol' # Invalid
        /\ vol'.booting = slot' /\ vol'.force = FALSE
        /\ slot' \in Slots
    BY <1>0, <1>4, StartBootCoherent, FieldTypes
       DEF PrepareStart, Bootable, Coherent
  <2>2. boot' \in [pc : {"prepare", "try", "reject"}, tries : Nat]
        /\ boot'.pc = "try"
    BY <1>4 DEF PrepareStart, TypeOK
  <2>3. TypeOK'
    BY <1>4, <2>1, <2>2 DEF PrepareStart, TypeOK, Volume, Coherent, SlotOrNone
  <2>4. RecordCoherent' /\ BootingIsRunning'
    BY <1>4, <2>1 DEF PrepareStart, RecordCoherent, BootingIsRunning, Coherent
  <2>5. SlotHeld'
    BY <1>4, <2>1, <2>2
       DEF PrepareStart, SlotHeld, Selected, Bootable, IsBooting, Up
  <2>6. QED
    BY <2>3, <2>4, <2>5
<1>5. CASE TrySystem
  <2>1. slot \in Slots /\ vol # Invalid /\ vol.booting = slot
    BY <1>5 DEF TrySystem, SlotHeld, Selected, IsBooting
  <2>2. TypeOK'
    BY <1>5, StartTypes DEF TrySystem, TypeOK
  <2>3. RecordCoherent' /\ BootingIsRunning'
    BY <1>5, <2>1 DEF TrySystem, RecordCoherent, BootingIsRunning, GateStart
  <2>4. upg.pc = "idle"
    BY <1>5 DEF TrySystem, SlotHeld, Up
  <2>5. SlotHeld'
    BY <1>5, <2>1, <2>4 DEF TrySystem, SlotHeld, Selected, GateStart, Up
  <2>6. QED
    BY <2>2, <2>3, <2>5
<1>6. CASE TryFails
  <2>1. boot' \in [pc : {"prepare", "try", "reject"}, tries : Nat]
        /\ boot'.pc = "reject"
    BY <1>6 DEF TryFails, TypeOK
  <2>2. TypeOK'
    BY <1>6, <2>1 DEF TryFails, Fault, TypeOK
  <2>3. RecordCoherent' /\ BootingIsRunning' /\ SlotHeld'
    BY <1>6, <2>1
       DEF TryFails, RecordCoherent, BootingIsRunning, SlotHeld, Selected,
           Bootable, IsBooting, Up
  <2>4. QED
    BY <2>2, <2>3
<1>7. CASE Reject
  <2>1. slot \in Slots /\ vol # Invalid /\ vol.booting = slot /\ ~vol.force
    BY <1>7 DEF Reject, SlotHeld, Selected, IsBooting, Bootable
  <2>2. Coherent(vol') /\ vol' # Invalid
    BY <1>0, <1>7, <2>1, RejectedCoherent, FieldTypes DEF Reject, Coherent
  <2>3. /\ boot' \in [pc : {"prepare", "try", "reject"}, tries : Nat]
        /\ boot'.pc = "prepare"
    BY <1>7 DEF Reject, TypeOK
  <2>4. TypeOK'
    BY <1>7, <2>2, <2>3, StartTypes
       DEF Reject, TypeOK, Volume, Coherent, SlotOrNone
  <2>5. RecordCoherent' /\ BootingIsRunning'
    BY <1>7, <2>2 DEF Reject, RecordCoherent, BootingIsRunning, Coherent
  <2>6. SlotHeld'
    BY <1>0, <1>7, <2>3 DEF Reject, SlotHeld, Selected, GateStart, Up
  <2>7. QED
    BY <2>4, <2>5, <2>6
<1>8. CASE BootstrapWriteFails
  BY <1>0, <1>8, RecoveryIInv DEF BootstrapWriteFails, Fault, TypeOK
<1>9. QED
  BY <1>1, <1>2, <1>3, <1>4, <1>5, <1>6, <1>7, <1>8 DEF BootstrapNext

-----------------------------------------------------------------------------
(* The health gate. *)

(* What a step of the gate that leaves the record alone must see to. *)
LEMMA GateOnlyIInv ==
    ASSUME IInv, Up, GateOnly, vol' = vol,
           gate' \in [pc : {"watch", "accept", "commit", "mark", "done", "reboot"},
                     stable : Nat, elapsed : Nat, slot : SlotOrNone],
           gate'.pc = "commit" => mode = "system" /\ gate'.slot = slot,
           faults' \in Nat, uploads' \in Nat, requests' \in Nat, reboots' \in Nat
    PROVE  IInv'
<1> USE DEF IInv, GateOnly
<1>1. TypeOK'
  BY DEF TypeOK
<1>2. RecordCoherent' /\ BootingIsRunning'
  BY DEF RecordCoherent, BootingIsRunning
<1>3. SlotHeld'
  BY DEF SlotHeld, Selected, Up
<1>4. QED
  BY <1>1, <1>2, <1>3

(* What a step that writes the record while the device is up must see to:  *)
(* no attempt is left open, and an updater that is about to write still    *)
(* has a slot that is not the accepted one.                                *)
LEMMA GateWriteIInv ==
    ASSUME IInv, Up, GateOnly,
           vol' = Invalid \/ (Coherent(vol') /\ vol'.booting = NoSlot),
           mode = "system" => upg.pc # "write",
           gate' \in [pc : {"watch", "accept", "commit", "mark", "done", "reboot"},
                     stable : Nat, elapsed : Nat, slot : SlotOrNone],
           gate'.pc # "commit",
           faults' \in Nat, uploads' \in Nat, requests' \in Nat, reboots' \in Nat
    PROVE  IInv'
<1> USE DEF IInv, GateOnly
<1>1. TypeOK'
  BY DEF TypeOK, Volume, Coherent
<1>2. RecordCoherent' /\ BootingIsRunning'
  BY DEF RecordCoherent, BootingIsRunning, Coherent
<1>3. SlotHeld'
  BY DEF SlotHeld, Selected, Up
<1>4. QED
  BY <1>1, <1>2, <1>3

LEMMA GateIInv ==
    ASSUME IInv, GateNext
    PROVE  IInv'
<1> USE DEF IInv, bounds, Gate
<1>0. /\ vol # Invalid => Coherent(vol)
      /\ NoSlot \notin Slots
  BY Facts, SlotAssumption
<1>1. CASE GateCheck
  <2>1. PICK services \in BOOLEAN :
          gate' = IF ~BootHealthy(services)
                  THEN [gate EXCEPT !.stable = 0, !.elapsed = @ + 1]
                  ELSE IF gate.stable + 1 >= StableChecks
                       THEN [gate EXCEPT !.pc = "accept", !.stable = @ + 1]
                       ELSE [gate EXCEPT !.stable = @ + 1, !.elapsed = @ + 1]
    BY <1>1 DEF GateCheck
  <2>. DEFINE GateRecord ==
         [pc : {"watch", "accept", "commit", "mark", "done", "reboot"},
          stable : Nat, elapsed : Nat, slot : SlotOrNone]
  <2>2. /\ [gate EXCEPT !.stable = 0, !.elapsed = @ + 1] \in GateRecord
        /\ [gate EXCEPT !.pc = "accept", !.stable = @ + 1] \in GateRecord
        /\ [gate EXCEPT !.stable = @ + 1, !.elapsed = @ + 1] \in GateRecord
    <3>1. gate \in GateRecord
      BY DEF TypeOK
    <3>2. /\ gate.stable \in Nat /\ gate.stable + 1 \in Nat
          /\ gate.elapsed \in Nat /\ gate.elapsed + 1 \in Nat
      BY <3>1
    <3>3. QED
      BY <3>1, <3>2
  <2>6. gate.pc = "watch" /\ gate \in GateRecord
    BY <1>1 DEF GateCheck, TypeOK
  <2>4. gate' \in GateRecord
    BY <2>1, <2>2
  <2>5. gate'.pc # "commit"
    BY <2>1, <2>6
  <2>3. QED
    BY <1>1, <2>4, <2>5, GateOnlyIInv DEF GateCheck, TypeOK
<1>2. CASE GateTimeout
  BY <1>2, GateOnlyIInv DEF GateTimeout, TypeOK
<1>3. CASE AcceptRead
  <2>1. AcceptNext = "commit" =>
          /\ mode = "system" /\ vol # Invalid /\ vol.booting # NoSlot
          /\ vol.booting = slot /\ slot \in Slots
    BY <1>0, <1>3
       DEF AcceptRead, AcceptNext, IsBooting, Up, BootingIsRunning, SlotHeld
  <2>2. AcceptNext \in {"mark", "reboot", "commit"}
    BY DEF AcceptNext
  <2>3. gate' \in [pc : {"watch", "accept", "commit", "mark", "done", "reboot"},
                  stable : Nat, elapsed : Nat, slot : SlotOrNone]
        /\ (gate'.pc = "commit" => mode = "system" /\ gate'.slot = slot)
    BY <1>3, <2>1, <2>2 DEF AcceptRead, TypeOK, SlotOrNone
  <2>4. QED
    BY <1>3, <2>3, GateOnlyIInv DEF AcceptRead, TypeOK
<1>4. CASE AcceptCommit
  <2>1. CASE MayAccept(vol, gate.slot)
    <3>1. gate.slot \in Slots /\ gate.slot = slot /\ mode = "system"
      BY <1>4 DEF AcceptCommit, SlotHeld
    <3>2. Coherent(vol') /\ vol'.booting = NoSlot
      BY <1>4, <2>1, <3>1, AcceptedCoherent DEF AcceptCommit
    <3>3. upg.pc # "write"
      BY <2>1, <3>1, <1>0 DEF SlotHeld, MayAccept, IsBooting
    <3>4. gate' \in [pc : {"watch", "accept", "commit", "mark", "done", "reboot"},
                    stable : Nat, elapsed : Nat, slot : SlotOrNone]
          /\ gate'.pc = "mark"
      BY <1>4, <2>1 DEF AcceptCommit, TypeOK
    <3>5. QED
      BY <1>4, <3>2, <3>3, <3>4, GateWriteIInv DEF AcceptCommit, TypeOK
  <2>2. CASE ~MayAccept(vol, gate.slot)
    BY <1>4, <2>2, GateOnlyIInv DEF AcceptCommit, TypeOK
  <2>3. QED
    BY <2>1, <2>2
<1>5. CASE AcceptWriteFails
  <2>1. gate' \in [pc : {"watch", "accept", "commit", "mark", "done", "reboot"},
                  stable : Nat, elapsed : Nat, slot : SlotOrNone]
        /\ gate'.pc = "reboot"
    BY <1>5 DEF AcceptWriteFails, TypeOK
  <2>2. upg.pc # "write"
    BY <1>0, <1>5 DEF AcceptWriteFails, SlotHeld, MayAccept, IsBooting
  <2>3. faults' \in Nat
    BY <1>5 DEF AcceptWriteFails, Fault, TypeOK
  <2>4. uploads' \in Nat /\ requests' \in Nat /\ reboots' \in Nat
    BY <1>5 DEF AcceptWriteFails, TypeOK
  <2>5. CASE vol' = vol
    BY <1>5, <2>1, <2>3, <2>4, <2>5, GateOnlyIInv DEF AcceptWriteFails
  <2>6. CASE vol' = Invalid
    BY <1>5, <2>1, <2>2, <2>3, <2>4, <2>6, GateWriteIInv DEF AcceptWriteFails
  <2>7. QED
    BY <1>5, <2>5, <2>6 DEF AcceptWriteFails
<1>6. CASE MarkAccepted
  <2>1. gate' \in [pc : {"watch", "accept", "commit", "mark", "done", "reboot"},
                  stable : Nat, elapsed : Nat, slot : SlotOrNone]
        /\ gate'.pc # "commit"
    BY <1>6 DEF MarkAccepted, TypeOK
  <2>2. faults' \in Nat
    BY <1>6 DEF MarkAccepted, Fault, TypeOK
  <2>3. QED
    BY <1>6, <2>1, <2>2, GateOnlyIInv DEF MarkAccepted, TypeOK
<1>7. CASE RollbackReboot
  BY <1>7, HaltIInv DEF RollbackReboot, TypeOK
<1>8. QED
  BY <1>1, <1>2, <1>3, <1>4, <1>5, <1>6, <1>7 DEF GateNext

-----------------------------------------------------------------------------
(* The updater. *)

(* What a step of the updater must see to: the record it leaves has no open *)
(* attempt or is the one it found, and while it may still write, its slot   *)
(* is not the accepted one of a running system.                             *)
LEMMA UpdaterIInv ==
    ASSUME IInv, Up, UpdaterOnly,
           vol' = vol \/ vol' = Invalid
             \/ (Coherent(vol') /\ vol'.booting = NoSlot),
           image' \in [Slots -> Kinds], verified' \subseteq Slots,
           upg' \in [pc : {"idle", "write", "verify", "mark", "reboot"},
                    slot : SlotOrNone, kind : Kinds, rec : BOOLEAN],
           upg'.pc # "idle" => upg'.slot \in Slots,
           mode = "system" /\ upg'.pc = "write" =>
             vol' = vol /\ IsBooting(vol, NoSlot) /\ upg'.slot # vol.active,
           faults' \in Nat, uploads' \in Nat, requests' \in Nat, reboots' \in Nat
    PROVE  IInv'
<1> USE DEF IInv, UpdaterOnly
<1>1. TypeOK'
  BY DEF TypeOK, Volume, Coherent
<1>2. RecordCoherent' /\ BootingIsRunning'
  BY DEF RecordCoherent, BootingIsRunning, Coherent
<1>3. SlotHeld'
  <2>1. mode' = mode /\ slot' = slot /\ boot' = boot /\ gate' = gate /\ Up'
    BY DEF Up
  <2>2. Selected' = Selected /\ ~Selected
    BY <2>1 DEF Selected, Up
  <2>3. mode' = "system" /\ upg'.pc = "write" =>
          IsBooting(vol', NoSlot) /\ upg'.slot # vol'.active
    BY <2>1 DEF IsBooting
  <2>4. QED
    BY <2>1, <2>2, <2>3 DEF SlotHeld
<1>4. QED
  BY <1>1, <1>2, <1>3

LEMMA UpgradeIInv ==
    ASSUME IInv, UpgradeNext
    PROVE  IInv'
<1> USE DEF IInv, bounds, Updater
<1>. DEFINE Upgrade == [pc : {"idle", "write", "verify", "mark", "reboot"},
                        slot : SlotOrNone, kind : Kinds, rec : BOOLEAN]
<1>0. /\ vol # Invalid => Coherent(vol)
      /\ upg \in Upgrade
      /\ upg.pc # "idle" => upg.slot \in Slots
      /\ NoUpgrade \in Upgrade /\ NoUpgrade.pc = "idle"
  BY Facts, StartTypes DEF TypeOK, SlotHeld, NoUpgrade
<1>1. CASE UpgradeStart
  <2>1. PICK s \in Slots, k \in Kinds :
          /\ MayUpdate(s)
          /\ upg' = [pc |-> "write", slot |-> s, kind |-> k,
                     rec |-> mode = "recovery"]
    BY <1>1 DEF UpgradeStart
  <2>2. upg' \in Upgrade /\ upg'.pc = "write" /\ upg'.slot = s
    BY <2>1 DEF SlotOrNone
  <2>3. mode = "system" => IsBooting(vol, NoSlot) /\ s # vol.active
    BY <2>1 DEF MayUpdate, IsBooting
  <2>4. uploads' \in Nat
    BY <1>1 DEF UpgradeStart, TypeOK
  <2>5. QED
    BY <1>1, <2>2, <2>3, <2>4, UpdaterIInv DEF UpgradeStart, TypeOK
<1>2. CASE UpgradeWrite
  <2>1. CASE upg.slot = slot
    BY <1>0, <1>2, <2>1, UpdaterIInv DEF UpgradeWrite, TypeOK
  <2>2. CASE upg.slot # slot
    <3>1. upg' = [upg EXCEPT !.pc = "verify"]
      BY <1>2, <2>2 DEF UpgradeWrite
    <3>2. upg' \in Upgrade /\ upg'.pc = "verify" /\ upg'.slot = upg.slot
      BY <1>0, <3>1
    <3>3. image' \in [Slots -> Kinds] /\ verified' \subseteq Slots
      BY <1>0, <1>2, <2>2 DEF UpgradeWrite, TypeOK
    <3>4. upg.slot \in Slots
      BY <1>0, <1>2 DEF UpgradeWrite
    <3>5. QED
      BY <1>2, <3>2, <3>3, <3>4, UpdaterIInv DEF UpgradeWrite, TypeOK
  <2>3. QED
    BY <2>1, <2>2
<1>3. CASE UpgradeVerify
  <2>1. upg.slot \in Slots
    BY <1>0, <1>3 DEF UpgradeVerify
  <2>2. upg' \in Upgrade /\ upg'.pc # "write"
        /\ (upg'.pc # "idle" => upg'.slot = upg.slot)
    BY <1>0, <1>3 DEF UpgradeVerify
  <2>3. verified' \subseteq Slots
    BY <1>3, <2>1 DEF UpgradeVerify, TypeOK
  <2>4. QED
    BY <1>3, <2>1, <2>2, <2>3, UpdaterIInv DEF UpgradeVerify, TypeOK
<1>4. CASE UpgradeMark
  <2>1. upg.slot \in Slots
    BY <1>0, <1>4 DEF UpgradeMark
  <2>2. upg' \in Upgrade /\ upg'.pc # "write"
        /\ (upg'.pc # "idle" => upg'.slot = upg.slot)
    BY <1>0, <1>4 DEF UpgradeMark
  <2>3. vol' = vol \/ (Coherent(vol') /\ vol'.booting = NoSlot)
    <3>1. CASE upg.rec
      BY <1>4, <2>1, <3>1, ActivatedCoherent DEF UpgradeMark
    <3>2. CASE ~upg.rec /\ MayStage(vol, upg.slot)
      BY <1>0, <1>4, <2>1, <3>2, StagedCoherent DEF UpgradeMark, MayStage
    <3>3. CASE ~upg.rec /\ ~MayStage(vol, upg.slot)
      BY <1>4, <3>3 DEF UpgradeMark
    <3>4. QED
      BY <3>1, <3>2, <3>3
  <2>4. QED
    BY <1>4, <2>1, <2>2, <2>3, UpdaterIInv DEF UpgradeMark, TypeOK
<1>5. CASE UpgradeWriteFails
  <2>1. faults' \in Nat
    BY <1>5 DEF UpgradeWriteFails, Fault, TypeOK
  <2>2. QED
    BY <1>0, <1>5, <2>1, UpdaterIInv DEF UpgradeWriteFails, TypeOK
<1>6. CASE UpgradeReboot
  BY <1>6, HaltIInv DEF UpgradeReboot, TypeOK
<1>7. QED
  BY <1>1, <1>2, <1>3, <1>4, <1>5, <1>6 DEF UpgradeNext

-----------------------------------------------------------------------------
(* Power, the LAN and the administrator. *)

LEMMA LanIInv ==
    ASSUME IInv, LanFails \/ LanRecovers
    PROVE  IInv'
<1> USE DEF IInv, bounds
<1>0. /\ UNCHANGED <<vol, image, verified, mode, slot, boot, gate, upg, uploads,
                     requests, reboots>>
      /\ lan' \in BOOLEAN /\ faults' \in Nat
  <2>1. CASE LanFails
    <3>1. UNCHANGED <<vol, image, verified, mode, slot, boot, gate, upg,
                      uploads, requests, reboots>>
          /\ lan' = FALSE /\ Fault
      BY <2>1, Zenon DEF LanFails
    <3>2. faults' \in Nat
      BY <3>1 DEF Fault, TypeOK
    <3>3. QED
      BY <3>1, <3>2
  <2>2. CASE LanRecovers
    BY <2>2 DEF LanRecovers, TypeOK
  <2>3. QED
    BY <2>1, <2>2
<1>1. TypeOK'
  BY <1>0 DEF TypeOK
<1>2. RecordCoherent' /\ BootingIsRunning' /\ SlotHeld'
  BY <1>0 DEF RecordCoherent, BootingIsRunning, SlotHeld, Selected, Up
<1>3. QED
  BY <1>1, <1>2

LEMMA RequestIInv ==
    ASSUME IInv, RequestRecovery \/ RequestRetry
    PROVE  IInv'
<1> USE DEF IInv, Request, RecordOnly
<1>1. /\ vol # Invalid => Coherent(vol)
      /\ vol \in Volume /\ (vol # Invalid => RecordInv(vol))
      /\ Up
  BY Facts DEF TypeOK, RecordCoherent, RequestRecovery, RequestRetry
<1>2. Coherent(vol') /\ vol'.booting = NoSlot
      /\ (vol # Invalid => vol'.active = vol.active)
  <2>1. CASE RequestRecovery
    BY <1>1, <2>1, RecoveryCoherent DEF RequestRecovery
  <2>2. CASE RequestRetry
    BY <1>1, <2>2, RetriedCoherent DEF RequestRetry
  <2>3. QED
    BY <2>1, <2>2
<1>3. /\ UNCHANGED <<image, verified, mode, slot, boot, gate, upg, lan>>
      /\ faults' \in Nat /\ uploads' \in Nat
      /\ requests' \in Nat /\ reboots' \in Nat
  BY DEF RequestRecovery, RequestRetry, TypeOK
<1>4. TypeOK'
  BY <1>2, <1>3 DEF TypeOK, Volume, Coherent
<1>5. RecordCoherent' /\ BootingIsRunning'
  BY <1>2, <1>3 DEF RecordCoherent, BootingIsRunning, Coherent
<1>6. SlotHeld'
  BY <1>1, <1>2, <1>3, FieldTypes
     DEF SlotHeld, Selected, Up, IsBooting, Coherent
<1>7. QED
  BY <1>4, <1>5, <1>6

LEMMA HaltStepIInv ==
    ASSUME IInv, PowerLoss \/ RequestReboot \/ Reboot
    PROVE  IInv'
<1>1. Halt
  BY DEF PowerLoss, RequestReboot, Reboot
<1>2. faults' \in Nat /\ requests' \in Nat /\ reboots' \in Nat
  BY DEF IInv, TypeOK, PowerLoss, RequestReboot, Reboot, Fault, Request
<1>3. QED
  BY <1>1, <1>2, HaltIInv

LEMMA CutOffIInv ==
    ASSUME IInv, RequestCutOff
    PROVE  IInv'
<1>1. faults' \in Nat /\ requests' \in Nat /\ reboots' \in Nat
  BY DEF IInv, TypeOK, RequestCutOff, Fault, Request
<1>2. HaltLeaving(Invalid)
  BY DEF RequestCutOff
<1>3. QED
  BY <1>1, <1>2, HaltIInv

LEMMA PowerOnIInv ==
    ASSUME IInv, PowerOn
    PROVE  IInv'
<1> USE DEF IInv, PowerOn, bounds
<1>1. TypeOK'
  BY StartTypes DEF TypeOK
<1>2. RecordCoherent' /\ BootingIsRunning'
  BY DEF RecordCoherent, BootingIsRunning
<1>3. SlotHeld'
  BY DEF SlotHeld, Selected, Up, BootStart
<1>4. QED
  BY <1>1, <1>2, <1>3

LEMMA StepIInv == IInv /\ [Next]_vars => IInv'
<1> SUFFICES ASSUME IInv, [Next]_vars PROVE IInv'
  OBVIOUS
<1>1. CASE UNCHANGED vars
  BY <1>1
     DEF vars, IInv, TypeOK, RecordCoherent, BootingIsRunning, SlotHeld,
         Selected, Up
<1>2. CASE Next
  BY <1>2, PowerOnIInv, BootstrapIInv, GateIInv, UpgradeIInv, LanIInv,
     RequestIInv, HaltStepIInv, CutOffIInv DEF Next
<1>3. QED
  BY <1>1, <1>2

-----------------------------------------------------------------------------
THEOREM IInvHolds == Spec => []IInv
<1>1. QED
  BY InitIInv, StepIInv, PTL DEF Spec

(* Every variable stays in its range, for any slots and bounds. *)
THEOREM TypeCorrect == Spec => []TypeOK
<1>1. IInv => TypeOK
  BY DEF IInv
<1>2. QED
  BY <1>1, IInvHolds, PTL

(* A readable record is coherent whatever commands, failures and power     *)
(* losses came before it.                                                  *)
THEOREM CoherentAlways == Spec => []RecordCoherent
<1>1. IInv => RecordCoherent
  BY DEF IInv
<1>2. QED
  BY <1>1, IInvHolds, PTL

(* The health gate commits the system that runs and no other. *)
THEOREM GateCommitsRunning == Spec => []BootingIsRunning
<1>1. IInv => BootingIsRunning
  BY DEF IInv
<1>2. QED
  BY <1>1, IInvHolds, PTL

(* PID 1, the running system, the gate and the updater agree on slots. *)
THEOREM SlotsHeld == Spec => []SlotHeld
<1>1. IInv => SlotHeld
  BY DEF IInv
<1>2. QED
  BY <1>1, IInvHolds, PTL

-----------------------------------------------------------------------------
(* The accepted slot of a running system. *)

LEMMA ImageStep ==
    ASSUME IInv, Next, mode = "system", vol # Invalid,
           NEW s \in Slots, image'[s] # image[s]
    PROVE  s # vol.active
<1> USE DEF IInv, bounds
<1>1. image \in [Slots -> Kinds]
  BY DEF TypeOK
<1>2. upg.pc = "write" /\ s = upg.slot
  <2>1. CASE Halt \/ HaltLeaving(Invalid)
    BY <1>1, <2>1 DEF Halt, HaltLeaving, SlotBeingWritten
  <2>2. CASE UpgradeWrite
    BY <1>1, <2>2 DEF UpgradeWrite, Updater
  <2>3. CASE image' = image
    BY <2>3
  <2>4. CASE BootstrapNext
    BY <2>4, <2>3
       DEF BootstrapNext, PrepareRefused, PrepareFailActive, PrepareDropPending,
           PrepareStart, TrySystem, TryFails, Reject, BootstrapWriteFails,
           EnterRecovery
  <2>5. CASE GateNext
    BY <2>5, <2>1, <2>3
       DEF GateNext, GateCheck, GateTimeout, AcceptRead, AcceptCommit,
           AcceptWriteFails, MarkAccepted, RollbackReboot, GateOnly
  <2>6. CASE UpgradeNext
    BY <2>6, <2>1, <2>2, <2>3
       DEF UpgradeNext, UpgradeStart, UpgradeVerify, UpgradeMark,
           UpgradeWriteFails, UpgradeReboot
  <2>7. QED
    BY <2>1, <2>3, <2>4, <2>5, <2>6
       DEF Next, PowerOn, PowerLoss, LanFails, LanRecovers, RequestRecovery,
           RequestRetry, RequestCutOff, RequestReboot, Reboot, RecordOnly
<1>3. QED
  BY <1>2 DEF SlotHeld

(* The updater of a running system never alters the slot the device would  *)
(* fall back to, for any number of slots.                                  *)
THEOREM FallbackUntouched == Spec => AcceptedUntouched
<1>1. IInv /\ [Next]_vars =>
        [\A s \in Slots :
           image'[s] # image[s] /\ mode = "system" /\ vol # Invalid
             => s # vol.active]_vars
  BY ImageStep
<1>2. QED
  BY <1>1, IInvHolds, PTL DEF Spec, AcceptedUntouched

-----------------------------------------------------------------------------
(* ABSystem implements BootCredit. *)

LEMMA CreditOfSlots ==
    ASSUME NEW v \in Volume
    PROVE  Credit(v) \subseteq Slots
BY SlotAssumption DEF Credit, Bootable, Volume, Record, SlotOrNone

(* Whatever the device does while it stays up is a Grant. *)
LEMMA UpStep ==
    ASSUME IInv, IInv', Up, mode' = mode, slot' = slot
    PROVE  Abstract!Next
<1>1. Phase = "up" /\ Phase' = "up"
  BY DEF Phase, Up
<1>2. Credit(vol)' \in SUBSET Slots
  <2>1. vol' \in Volume
    BY DEF IInv, TypeOK
  <2>2. QED
    BY <2>1, CreditOfSlots
<1>3. QED
  BY <1>1, <1>2 DEF Abstract!Next, Abstract!Grant

LEMMA HaltStep ==
    ASSUME IInv, Halt \/ HaltLeaving(Invalid)
    PROVE  Abstract!Next
<1>1. Phase' = "down" /\ slot' = NoSlot
  BY DEF Halt, HaltLeaving, SwitchedOff, Phase, Up
<1>2. Credit(vol)' \subseteq Credit(vol)
  BY DEF Halt, HaltLeaving, Credit, Bootable
<1>3. QED
  BY <1>1, <1>2 DEF Abstract!Next, Abstract!Down

(* What PID 1 writes spends credit or gives it up. *)
LEMMA BootstrapStep ==
    ASSUME IInv, BootstrapNext
    PROVE  Abstract!Next \/ UNCHANGED <<Phase, slot, Credit(vol)>>
<1> USE DEF IInv, bounds, Bootstrap
<1>0. /\ vol # Invalid => Coherent(vol)
      /\ NoSlot \notin Slots
      /\ mode = "boot" => Phase = "boot"
      /\ mode = "boot" /\ boot.pc = "prepare" => slot = NoSlot
  BY Facts, SlotAssumption DEF Phase, Up, SlotHeld, Selected
<1>g. ASSUME mode = "boot", mode' \in {"boot", "recovery"}, slot' = NoSlot,
             Credit(vol)' \subseteq Credit(vol)
      PROVE  Abstract!Next
  <2>1. Phase' \in {"boot", "up"}
    BY <1>g DEF Phase, Up
  <2>2. QED
    BY <1>0, <1>g, <2>1 DEF Abstract!Next, Abstract!GiveUp
<1>1. CASE PrepareRefused
  BY <1>1, <1>g DEF PrepareRefused, EnterRecovery
<1>2. CASE PrepareFailActive
  <2>1. Credit(vol)' = {}
    BY <1>0, <1>2, FailActiveCoherent
       DEF PrepareFailActive, Bootable, Credit
  <2>2. QED
    BY <1>2, <2>1, <1>g DEF PrepareFailActive, EnterRecovery
<1>3. CASE PrepareDropPending
  <2>1. vol \in Record /\ vol.active # NoSlot /\ vol' \in Record
        /\ vol.pending = vol.booting /\ ~vol.force
        /\ vol'.active = vol.active /\ vol'.booting = NoSlot
        /\ vol'.pending = NoSlot
        /\ vol.pending # vol.active
    BY <1>0, <1>3, DropPendingCoherent, FieldTypes
       DEF PrepareDropPending, Bootable, TrialUnaccepted, Coherent, RecordInv
  <2>2. Credit(vol)' \subseteq Credit(vol)
    BY <2>1, <1>0, FieldTypes DEF Credit, Bootable
  <2>3. QED
    BY <1>0, <1>3, <2>2, <1>g DEF PrepareDropPending
<1>4. CASE PrepareStart
  <2>1. vol \in Record /\ ~vol.force /\ vol.booting = NoSlot
        /\ vol' \in Record /\ ~vol'.force
        /\ vol'.active = vol.active /\ vol'.pending = vol.pending
        /\ vol'.booting = NextSlot(vol) /\ slot' = NextSlot(vol)
        /\ NextSlot(vol) \in Slots
    BY <1>0, <1>4, StartBootCoherent DEF PrepareStart, Bootable, Coherent
  <2>2. slot' \in Credit(vol)
    BY <2>1, <1>0, FieldTypes DEF Credit, Bootable, NextSlot
  <2>3. Credit(vol)' = Credit(vol) \ {slot'}
    BY <2>1, FieldTypes DEF Credit, Bootable
  <2>4. Phase' = Phase /\ slot = NoSlot /\ Phase = "boot" /\ slot' \in Slots
    BY <1>0, <1>4, <2>1 DEF PrepareStart, Phase, Up
  <2>5. Abstract!Start(slot')
    BY <2>2, <2>3, <2>4 DEF Abstract!Start
  <2>6. QED
    BY <2>4, <2>5 DEF Abstract!Next
<1>5. CASE TrySystem
  <2>1. slot # NoSlot /\ slot' = slot /\ vol' = vol /\ Phase' = "up"
    BY <1>0, <1>5 DEF TrySystem, SlotHeld, Selected, Phase, Up
  <2>2. QED
    BY <1>0, <1>5, <2>1 DEF TrySystem, Abstract!Next, Abstract!Run
<1>6. CASE TryFails
  BY <1>6 DEF TryFails, Phase, Up
<1>7. CASE Reject
  <2>1. vol \in Record /\ slot \in Slots /\ vol.booting = slot /\ ~vol.force
    BY <1>0, <1>7
       DEF Reject, SlotHeld, Selected, IsBooting, Bootable, Coherent
  <2>2. /\ vol' \in Record
        /\ vol'.active = vol.active /\ vol'.booting = NoSlot
        /\ vol.pending = slot => vol'.pending = NoSlot
        /\ vol.pending # slot => vol'.force
        /\ vol.pending # vol.active
    BY <1>0, <1>7, <2>1, RejectedCoherent, FieldTypes
       DEF Reject, Coherent, RecordInv
  <2>3. Credit(vol)' \subseteq Credit(vol)
    BY <2>1, <2>2, <1>0, FieldTypes DEF Credit, Bootable
  <2>4. QED
    BY <1>7, <2>3, <1>g DEF Reject
<1>8. CASE BootstrapWriteFails
  <2>1. Credit(vol)' \subseteq Credit(vol)
    BY <1>8 DEF BootstrapWriteFails, Credit, Bootable
  <2>2. QED
    BY <1>8, <2>1, <1>g DEF BootstrapWriteFails, EnterRecovery
<1>9. QED
  BY <1>1, <1>2, <1>3, <1>4, <1>5, <1>6, <1>7, <1>8 DEF BootstrapNext

LEMMA InitImplements == Init => Abstract!Init
<1>1. Credit(DefaultState) = {FactorySlot}
  <2>1. DefaultState # Invalid /\ ~DefaultState.force
    BY DefaultCoherent, FieldTypes DEF Coherent, DefaultState
  <2>2. DefaultState.active = FactorySlot /\ DefaultState.pending = NoSlot
        /\ DefaultState.booting = NoSlot
    BY DEF DefaultState
  <2>3. {FactorySlot, NoSlot} \ {NoSlot, NoSlot} = {FactorySlot}
    BY SlotAssumption
  <2>4. QED
    BY <2>1, <2>2, <2>3 DEF Credit, Bootable
<1>2. QED
  BY <1>1 DEF Init, Abstract!Init, Phase, Up

LEMMA StepImplements ==
    ASSUME IInv, IInv', [Next]_vars
    PROVE  [Abstract!Next]_<<Phase, slot, Credit(vol)>>
<1> USE DEF bounds
<1>1. CASE UNCHANGED vars
  BY <1>1 DEF vars, Phase, Up
<1>2. CASE PowerOn
  BY <1>2 DEF PowerOn, Phase, Up, Abstract!Next, Abstract!PowerOn
<1>3. CASE BootstrapNext
  BY <1>3, BootstrapStep
<1>4. CASE GateNext
  BY <1>4, HaltStep, UpStep
     DEF GateNext, GateCheck, GateTimeout, AcceptRead, AcceptCommit,
         AcceptWriteFails, MarkAccepted, RollbackReboot, GateOnly, Gate
<1>5. CASE UpgradeNext
  BY <1>5, HaltStep, UpStep
     DEF UpgradeNext, UpgradeStart, UpgradeWrite, UpgradeVerify, UpgradeMark,
         UpgradeWriteFails, UpgradeReboot, UpdaterOnly, Updater
<1>6. CASE LanFails \/ LanRecovers
  <2>1. UNCHANGED <<vol, mode, slot>>
    BY <1>6 DEF LanFails, LanRecovers
  <2>2. QED
    BY <2>1 DEF Phase, Up
<1>7. CASE RequestRecovery \/ RequestRetry
  BY <1>7, UpStep DEF RequestRecovery, RequestRetry, Request, RecordOnly
<1>8. CASE PowerLoss \/ RequestCutOff \/ RequestReboot \/ Reboot
  BY <1>8, HaltStep DEF PowerLoss, RequestCutOff, RequestReboot, Reboot
<1>9. QED
  BY <1>1, <1>2, <1>3, <1>4, <1>5, <1>6, <1>7, <1>8 DEF Next

(* No slot is started twice without an approval in between: the whole     *)
(* mechanism of records, gates, updates and failures implements BootCredit. *)
THEOREM ImplementsBootCredit == Spec => OneStartPerCredit
<1>1. IInv /\ IInv' /\ [Next]_vars => [Abstract!Next]_<<Phase, slot, Credit(vol)>>
  BY StepImplements
<1>2. QED
  BY InitImplements, <1>1, IInvHolds, PTL
     DEF Spec, OneStartPerCredit, Abstract!Spec, Abstract!vars

-----------------------------------------------------------------------------
(* Without faults and requests the device never stands without a system.   *)

Calm == faults = 0 /\ requests = 0

(* What the next start finds.                                              *)
Startable ==
    /\ vol # Invalid /\ ~vol.force /\ Mountable(image[vol.active])
    /\ mode = "off" \/ Bootstrap("prepare") => vol.booting \in {NoSlot, vol.pending}

(* Only a trial is rejected, and only once.                                *)
Booting ==
    mode = "boot" =>
        /\ boot.tries = 0 \/ (boot.tries = 1 /\ vol.pending = NoSlot)
        /\ boot.pc = "reject" => vol.pending = slot

(* An accepted system is healthy at each check, so it is accepted again    *)
(* before the time is over; the updater waits for that.                    *)
Running ==
    mode = "system" =>
        /\ Mountable(image[slot])
        /\ vol.booting = NoSlot <=> gate.pc \in {"mark", "done"}
        /\ gate.pc = "reboot" => vol.pending = vol.booting
        /\ gate.pc = "watch" /\ vol.pending = NoSlot =>
               /\ gate.elapsed = gate.stable
               /\ gate.elapsed = 0 \/ gate.elapsed < StableChecks
        /\ upg.pc # "idle" => vol.booting = NoSlot /\ upg.rec = FALSE

Standing == Calm => mode # "recovery" /\ lan = TRUE /\ Startable /\ Booting /\ Running

StandingInv == IInv /\ Standing

LEMMA InitStanding == Init => Standing
<1> SUFFICES ASSUME Init PROVE Standing
  OBVIOUS
<1>1. vol = DefaultState /\ Coherent(vol) /\ ~vol.force /\ vol # Invalid
      /\ vol.booting = NoSlot
  BY DefaultCoherent, FieldTypes DEF Init, Coherent, DefaultState
<1>2. Startable
  BY <1>1, FieldTypes DEF Init, Startable, Mountable, Coherent
<1>3. mode = "off" /\ lan = TRUE
  BY DEF Init
<1>4. QED
  BY <1>2, <1>3 DEF Standing, Booting, Running

(* A step into a calm state starts in one and is no fault and no request.  *)
LEMMA CalmStep ==
    ASSUME IInv, Next, Calm'
    PROVE  Calm /\ ~Fault /\ ~Request
<1>1. faults \in Nat /\ requests \in Nat
  BY DEF IInv, TypeOK
<1>2. ~Fault /\ ~Request
  BY <1>1 DEF Fault, Request, Calm
<1>3. faults' = faults /\ requests' = requests
  <2> USE DEF bounds
  <2>1. CASE PowerOn \/ LanRecovers \/ LanFails \/ PowerLoss
    BY <1>2, <2>1 DEF PowerOn, LanRecovers, LanFails, PowerLoss
  <2>2. CASE BootstrapNext
    BY <1>2, <2>2
       DEF BootstrapNext, PrepareRefused, PrepareFailActive, PrepareDropPending,
           PrepareStart, TrySystem, TryFails, Reject, BootstrapWriteFails
  <2>3. CASE GateNext
    BY <1>2, <2>3
       DEF GateNext, GateCheck, GateTimeout, AcceptRead, AcceptCommit,
           AcceptWriteFails, MarkAccepted, RollbackReboot
  <2>4. CASE UpgradeNext
    BY <1>2, <2>4
       DEF UpgradeNext, UpgradeStart, UpgradeWrite, UpgradeVerify, UpgradeMark,
           UpgradeWriteFails, UpgradeReboot
  <2>5. CASE Reboot
    BY <2>5 DEF Reboot
  <2>6. QED
    BY <1>2, <2>1, <2>2, <2>3, <2>4, <2>5
       DEF Next, RequestRecovery, RequestRetry, RequestCutOff, RequestReboot
<1>4. QED
  BY <1>2, <1>3 DEF Calm

(* What a halt leaves to the next start.  Nothing was writing the record,  *)
(* and a slot that was being written is not the accepted one.              *)
LEMMA HaltStanding ==
    ASSUME IInv, Standing, Calm, Halt, ~RecordBeingWritten,
           vol.booting \in {NoSlot, vol.pending}
    PROVE  Standing'
<1>1. /\ vol' = vol /\ mode' = "off" /\ lan' = lan
      /\ \/ image' = image
         \/ /\ SlotBeingWritten
            /\ image' = [image EXCEPT ![upg.slot] = "unmountable"]
  BY DEF Halt, HaltLeaving, SwitchedOff
<1>2. Startable /\ mode # "recovery" /\ lan = TRUE
  BY DEF Standing
<1>3. SlotBeingWritten => upg.slot # vol.active
  BY <1>2 DEF SlotBeingWritten, IInv, SlotHeld, Up
<1>4. image'[vol.active] = image[vol.active]
  <2>1. image \in [Slots -> Kinds] /\ vol.active \in Slots
    BY <1>2, Facts, FieldTypes DEF IInv, TypeOK, Startable, Coherent
  <2>2. QED
    BY <1>1, <1>3, <2>1
<1>5. Startable'
  BY <1>1, <1>2, <1>4 DEF Startable
<1>6. QED
  BY <1>1, <1>2, <1>5 DEF Standing, Booting, Running

(* Halts of a calm device: the gate gave a trial up, the updater has        *)
(* staged its image, or somebody reboots a device at rest.                 *)
LEMMA HaltsStanding ==
    ASSUME IInv, Standing, Calm, RollbackReboot \/ UpgradeReboot \/ Reboot
    PROVE  Standing'
<1>1. mode = "system" /\ Running /\ Startable /\ vol # Invalid
  BY DEF RollbackReboot, UpgradeReboot, Reboot, Gate, Updater, Up, Standing,
         Startable
<1>2. vol.booting \in {NoSlot, vol.pending}
  BY <1>1 DEF RollbackReboot, UpgradeReboot, Reboot, Gate, Updater, Running
<1>3. ~RecordBeingWritten
  <2>1. CASE RollbackReboot
    BY <1>1, <2>1
       DEF RollbackReboot, Gate, Running, RecordBeingWritten
  <2>2. CASE UpgradeReboot
    BY <1>1, <2>2 DEF UpgradeReboot, Updater, Running, RecordBeingWritten
  <2>3. CASE Reboot
    BY <1>1, <2>3 DEF Reboot, Gate, RecordBeingWritten
  <2>4. QED
    BY <2>1, <2>2, <2>3
<1>4. Halt
  BY DEF RollbackReboot, UpgradeReboot, Reboot
<1>5. QED
  BY <1>2, <1>3, <1>4, HaltStanding

(* PID 1 rejects a trial only, and after that starts the accepted slot.    *)
LEMMA BootstrapStanding ==
    ASSUME IInv, Standing, Calm, ~Fault, BootstrapNext
    PROVE  Standing'
<1> USE DEF bounds, Bootstrap
<1>0. /\ mode = "boot" /\ lan = TRUE /\ Startable /\ Booting
      /\ vol # Invalid /\ Coherent(vol) /\ RecordInv(vol)
      /\ ~vol.force /\ vol.active \in Slots /\ vol.active # NoSlot
      /\ NoSlot \notin Slots
  <2>1. mode = "boot"
    BY DEF BootstrapNext, PrepareRefused, PrepareFailActive, PrepareDropPending,
           PrepareStart, TrySystem, TryFails, Reject, BootstrapWriteFails
  <2>2. Startable /\ Booting /\ lan = TRUE
    BY DEF Standing
  <2>3. QED
    BY <2>1, <2>2, Facts, FieldTypes, SlotAssumption DEF Startable, Coherent
<1>1. CASE PrepareRefused
  BY <1>0, <1>1 DEF PrepareRefused, Bootable
<1>2. CASE PrepareFailActive
  BY <1>0, <1>2 DEF PrepareFailActive, ActiveUnaccepted, Startable
<1>3. CASE PrepareDropPending
  <2>1. /\ vol'.active = vol.active /\ vol'.booting = NoSlot
        /\ vol'.pending = NoSlot /\ vol'.force = FALSE /\ vol' # Invalid
    BY <1>0, <1>3, DropPendingCoherent, FieldTypes
       DEF PrepareDropPending, Coherent
  <2>2. /\ UNCHANGED <<image, mode, slot, boot, lan>>
        /\ boot.pc = "prepare"
    BY <1>3 DEF PrepareDropPending
  <2>3. Startable'
    BY <1>0, <2>1, <2>2 DEF Startable
  <2>4. Booting'
    BY <1>0, <2>1, <2>2 DEF Booting
  <2>5. QED
    BY <1>0, <2>2, <2>3, <2>4 DEF Standing, Running
<1>4. CASE PrepareStart
  <2>1. /\ vol'.active = vol.active /\ vol'.pending = vol.pending
        /\ vol'.force = FALSE /\ vol' # Invalid
    BY <1>0, <1>4, StartBootCoherent, FieldTypes DEF PrepareStart, Coherent
  <2>2. UNCHANGED <<image, mode, lan>>
    BY <1>4 DEF PrepareStart
  <2>3. boot'.pc = "try" /\ boot'.tries = boot.tries
    BY <1>4 DEF PrepareStart, IInv, TypeOK
  <2>4. Startable'
    BY <1>0, <2>1, <2>2, <2>3 DEF Startable
  <2>5. Booting'
    BY <1>0, <2>1, <2>3 DEF Booting
  <2>6. QED
    BY <1>0, <2>2, <2>4, <2>5 DEF Standing, Running
<1>5. CASE TrySystem
  <2>1. /\ mode' = "system" /\ UNCHANGED <<vol, image, slot, lan, upg>>
        /\ gate' = GateStart /\ Mountable(image[slot])
        /\ slot \in Slots /\ vol.booting = slot /\ upg.pc = "idle"
    BY <1>5 DEF TrySystem, IInv, SlotHeld, Selected, IsBooting, Up
  <2>2. Startable'
    BY <1>0, <2>1 DEF Startable
  <2>3. Running'
    BY <1>0, <2>1 DEF Running, GateStart
  <2>4. QED
    BY <1>0, <2>1, <2>2, <2>3 DEF Standing, Booting
<1>6. CASE TryFails
  <2>1. /\ ~Mountable(image[slot]) /\ UNCHANGED <<vol, image, mode, slot, lan>>
        /\ slot \in Slots /\ vol.booting = slot
    BY <1>6 DEF TryFails, IInv, SlotHeld, Selected, IsBooting
  <2>2. boot'.pc = "reject" /\ boot'.tries = boot.tries
    BY <1>6 DEF TryFails, IInv, TypeOK
  <2>3. vol.pending = slot
    BY <1>0, <2>1 DEF RecordInv, NextSlot, Startable
  <2>4. Startable'
    BY <1>0, <2>1, <2>2 DEF Startable
  <2>5. Booting'
    BY <1>0, <2>1, <2>2, <2>3 DEF Booting
  <2>6. QED
    BY <1>0, <2>1, <2>4, <2>5 DEF Standing, Running
<1>7. CASE Reject
  <2>1. /\ vol.pending = slot /\ slot \in Slots /\ vol.booting = slot
        /\ boot.tries = 0
    BY <1>0, <1>7 DEF Reject, Booting, IInv, SlotHeld, Selected, IsBooting
  <2>2. boot' = [pc |-> "prepare", tries |-> 1] /\ mode' = mode
    BY <1>7, <2>1 DEF Reject
  <2>3. /\ vol'.active = vol.active /\ vol'.pending = NoSlot
        /\ vol'.booting = NoSlot /\ vol'.force = FALSE /\ vol' # Invalid
    BY <1>0, <1>7, <2>1, RejectedCoherent, FieldTypes DEF Reject, Coherent
  <2>4. image' = image /\ lan' = lan
    BY <1>7 DEF Reject
  <2>5. Startable'
    BY <1>0, <2>3, <2>4 DEF Startable
  <2>6. Booting'
    BY <2>2, <2>3 DEF Booting
  <2>7. QED
    BY <1>0, <2>2, <2>4, <2>5, <2>6 DEF Standing, Running
<1>8. CASE BootstrapWriteFails
  BY <1>8 DEF BootstrapWriteFails
<1>9. QED
  BY <1>1, <1>2, <1>3, <1>4, <1>5, <1>6, <1>7, <1>8 DEF BootstrapNext

(* An accepted system is healthy at every check; only a trial times out.   *)
LEMMA AcceptedHealthy ==
    ASSUME IInv, Standing, Calm, Gate("watch"), vol.pending = NoSlot,
           NEW services \in BOOLEAN
    PROVE  BootHealthy(services)
<1>1. mode = "system" /\ lan = TRUE /\ vol # Invalid /\ Running
  BY DEF Standing, Startable, Gate, Up
<1>2. vol.booting # NoSlot /\ vol.booting = vol.active
  BY <1>1, Facts DEF Running, Gate, Coherent, RecordInv, NextSlot
<1>3. HealthMode = "accepted"
  BY <1>1, <1>2 DEF HealthMode, TrialUnaccepted
<1>4. QED
  BY <1>1, <1>3 DEF BootHealthy

LEMMA GateCheckStanding ==
    ASSUME IInv, Standing, Calm, GateCheck
    PROVE  Standing'
<1> USE DEF bounds
<1>1. /\ mode = "system" /\ lan = TRUE /\ Startable /\ Running
      /\ gate.pc = "watch" /\ vol.booting # NoSlot
  BY DEF GateCheck, Gate, Up, Standing, Running
<1>2. UNCHANGED <<vol, image, mode, slot, boot, upg, lan>>
  BY DEF GateCheck, GateOnly
<1>3. PICK services \in BOOLEAN :
        gate' = IF ~BootHealthy(services)
                THEN [gate EXCEPT !.stable = 0, !.elapsed = @ + 1]
                ELSE IF gate.stable + 1 >= StableChecks
                     THEN [gate EXCEPT !.pc = "accept", !.stable = @ + 1]
                     ELSE [gate EXCEPT !.stable = @ + 1, !.elapsed = @ + 1]
  BY DEF GateCheck
<1>. DEFINE GateRecord ==
       [pc : {"watch", "accept", "commit", "mark", "done", "reboot"},
        stable : Nat, elapsed : Nat, slot : SlotOrNone]
<1>4. gate \in GateRecord /\ StableChecks \in Nat
  BY BoundAssumption DEF IInv, TypeOK
<1>5. gate'.pc \in {"watch", "accept"}
  BY <1>1, <1>3, <1>4
<1>6. gate'.pc = "watch" /\ vol.pending = NoSlot =>
        gate'.elapsed = gate'.stable /\ gate'.elapsed < StableChecks
  <2> SUFFICES ASSUME gate'.pc = "watch", vol.pending = NoSlot
               PROVE  gate'.elapsed = gate'.stable /\ gate'.elapsed < StableChecks
    OBVIOUS
  <2>1. BootHealthy(services)
    BY AcceptedHealthy DEF GateCheck
  <2>2. ~(gate.stable + 1 >= StableChecks)
    BY <1>3, <1>4, <2>1
  <2>3. gate' = [gate EXCEPT !.stable = @ + 1, !.elapsed = @ + 1]
    BY <1>3, <2>1, <2>2
  <2>4. gate'.stable = gate.stable + 1 /\ gate'.elapsed = gate.elapsed + 1
    BY <1>4, <2>3
  <2>5. gate.elapsed = gate.stable
    BY <1>1 DEF Running
  <2>6. gate.stable \in Nat /\ gate.elapsed \in Nat
    BY <1>4
  <2>7. QED
    BY <1>4, <2>2, <2>4, <2>5, <2>6
<1>7. Startable'
  BY <1>1, <1>2 DEF Startable, Bootstrap
<1>8. Running'
  BY <1>1, <1>2, <1>5, <1>6 DEF Running
<1>9. QED
  BY <1>1, <1>2, <1>7, <1>8 DEF Standing, Booting

LEMMA TrialTimesOut ==
    ASSUME IInv, Standing, Calm, GateTimeout
    PROVE  vol.booting # NoSlot /\ vol.pending = vol.booting
<1>1. /\ mode = "system" /\ Running /\ gate.pc = "watch" /\ vol # Invalid
      /\ vol.booting # NoSlot
  BY DEF GateTimeout, Gate, Up, Standing, Running, Startable
<1>2. vol.pending # NoSlot
  <2> SUFFICES ASSUME vol.pending = NoSlot PROVE FALSE
    OBVIOUS
  <2>1. gate.elapsed = 0 \/ gate.elapsed < StableChecks
    BY <1>1 DEF Running
  <2>2. gate.elapsed >= HealthChecks /\ gate.elapsed \in Nat
    BY DEF GateTimeout, IInv, TypeOK
  <2>3. QED
    BY <2>1, <2>2, BoundAssumption, GateAssumption
<1>3. QED
  BY <1>1, <1>2, Facts DEF Coherent, RecordInv, NextSlot

LEMMA GateStanding ==
    ASSUME IInv, Standing, Calm, ~Fault, GateNext
    PROVE  Standing'
<1> USE DEF bounds
<1>0. /\ mode = "system" /\ lan = TRUE /\ Startable /\ Running
      /\ vol # Invalid /\ Coherent(vol) /\ RecordInv(vol)
      /\ NoSlot \notin Slots
  <2>1. Up
    BY DEF GateNext, GateCheck, GateTimeout, AcceptRead, AcceptCommit,
           AcceptWriteFails, MarkAccepted, RollbackReboot, Gate
  <2>2. mode = "system" /\ lan = TRUE /\ Startable /\ Running
    BY <2>1 DEF Standing, Up
  <2>3. QED
    BY <2>2, Facts, SlotAssumption DEF Startable, Coherent
<1>g. ASSUME GateOnly, vol' = vol, Running'
      PROVE  Standing'
  BY <1>0, <1>g DEF GateOnly, Standing, Startable, Bootstrap, Booting
<1>1. CASE GateCheck
  BY <1>1, GateCheckStanding
<1>2. CASE GateTimeout
  <2>1. GateOnly /\ vol' = vol /\ gate'.pc = "reboot" /\ vol.pending = vol.booting
        /\ vol.booting # NoSlot
    BY <1>2, TrialTimesOut DEF GateTimeout, IInv, TypeOK
  <2>2. Running'
    BY <1>0, <2>1 DEF Running, GateOnly
  <2>3. QED
    BY <1>g, <2>1, <2>2
<1>3. CASE AcceptRead
  <2>1. vol.booting # NoSlot /\ gate.pc = "accept"
    BY <1>0, <1>3 DEF AcceptRead, Gate, Running
  <2>2. AcceptNext = "commit"
    BY <1>0, <2>1 DEF AcceptNext, IsBooting
  <2>3. GateOnly /\ vol' = vol /\ gate'.pc = "commit"
    BY <1>3, <2>2 DEF AcceptRead, IInv, TypeOK
  <2>4. Running'
    BY <1>0, <2>1, <2>3 DEF Running, GateOnly
  <2>5. QED
    BY <1>g, <2>3, <2>4
<1>4. CASE AcceptCommit
  <2>1. /\ gate.pc = "commit" /\ gate.slot = slot /\ slot \in Slots
        /\ vol.booting # NoSlot
    BY <1>0, <1>4 DEF AcceptCommit, Gate, Running, IInv, SlotHeld
  <2>2. vol.booting = slot
    BY <1>0, <2>1 DEF IInv, BootingIsRunning
  <2>3. MayAccept(vol, gate.slot)
    BY <1>0, <2>1, <2>2 DEF MayAccept, IsBooting, RecordInv, NextSlot
  <2>4. vol' = Accepted(slot) /\ gate'.pc = "mark" /\ GateOnly
    BY <1>4, <2>1, <2>3 DEF AcceptCommit, IInv, TypeOK
  <2>5. /\ vol' # Invalid /\ vol'.active = slot /\ vol'.booting = NoSlot
        /\ vol'.force = FALSE
    BY <2>1, <2>4, AcceptedCoherent, FieldTypes DEF Accepted, Coherent
  <2>6. Startable'
    BY <1>0, <2>4, <2>5 DEF Startable, Running, GateOnly
  <2>7. upg.pc = "idle"
    BY <1>0, <2>1 DEF Running
  <2>8. Running'
    BY <1>0, <2>4, <2>5, <2>7 DEF Running, GateOnly
  <2>9. QED
    BY <1>0, <2>4, <2>6, <2>8 DEF Standing, Booting, GateOnly
<1>5. CASE AcceptWriteFails
  BY <1>5 DEF AcceptWriteFails
<1>6. CASE MarkAccepted
  <2>1. /\ gate.pc = "mark" /\ gate'.pc = "done" /\ GateOnly /\ vol' = vol
    BY <1>6 DEF MarkAccepted, Gate, IInv, TypeOK
  <2>2. Running'
    BY <1>0, <2>1 DEF Running, GateOnly
  <2>3. QED
    BY <1>g, <2>1, <2>2
<1>7. CASE RollbackReboot
  BY <1>7, HaltsStanding
<1>8. QED
  BY <1>1, <1>2, <1>3, <1>4, <1>5, <1>6, <1>7 DEF GateNext

(* An update in a running system alters neither its slot nor the accepted  *)
(* one, and what it stages leaves the accepted one to fall back to.        *)
LEMMA UpgradeStanding ==
    ASSUME IInv, Standing, Calm, ~Fault, UpgradeNext
    PROVE  Standing'
<1> USE DEF bounds
<1>0. /\ mode = "system" /\ lan = TRUE /\ Startable /\ Running
      /\ vol # Invalid /\ Coherent(vol) /\ vol.active \in Slots
      /\ slot \in Slots /\ image \in [Slots -> Kinds]
  <2>1. Up
    BY DEF UpgradeNext, UpgradeStart, UpgradeWrite, UpgradeVerify, UpgradeMark,
           UpgradeWriteFails, UpgradeReboot, Updater
  <2>2. mode = "system" /\ lan = TRUE /\ Startable /\ Running
    BY <2>1 DEF Standing, Up
  <2>3. vol # Invalid /\ Coherent(vol)
    BY <2>2, Facts DEF Startable
  <2>4. QED
    BY <2>2, <2>3, FieldTypes DEF Coherent, IInv, TypeOK, SlotHeld
<1>g. ASSUME UpdaterOnly, vol' = vol, image' = image,
             upg'.pc # "idle" => vol.booting = NoSlot /\ upg'.rec = FALSE
      PROVE  Standing'
  <2>1. Startable'
    BY <1>0, <1>g DEF UpdaterOnly, Startable, Bootstrap
  <2>2. Running'
    BY <1>0, <1>g DEF UpdaterOnly, Running
  <2>3. QED
    BY <1>0, <1>g, <2>1, <2>2 DEF UpdaterOnly, Standing, Booting
<1>1. CASE UpgradeStart
  <2>1. PICK s \in Slots, k \in Kinds :
          /\ MayUpdate(s)
          /\ upg' = [pc |-> "write", slot |-> s, kind |-> k,
                     rec |-> mode = "recovery"]
    BY <1>1 DEF UpgradeStart
  <2>2. upg'.rec = FALSE /\ vol.booting = NoSlot
    BY <1>0, <2>1 DEF MayUpdate
  <2>3. UpdaterOnly /\ vol' = vol /\ image' = image
    BY <1>1 DEF UpgradeStart
  <2>4. QED
    BY <1>g, <2>2, <2>3
<1>2. CASE UpgradeWrite
  <2>1. /\ UpdaterOnly /\ vol' = vol /\ upg.pc = "write"
        /\ vol.booting = NoSlot /\ upg.rec = FALSE
    BY <1>0, <1>2 DEF UpgradeWrite, Updater, Running
  <2>2. CASE upg.slot = slot
    <3>1. upg'.pc = "idle" /\ image' = image
      BY <1>2, <2>2 DEF UpgradeWrite, NoUpgrade
    <3>2. QED
      BY <2>1, <3>1, <1>g
  <2>3. CASE upg.slot # slot
    <3>1. /\ image' = [image EXCEPT ![upg.slot] = upg.kind]
          /\ upg' = [upg EXCEPT !.pc = "verify"]
      BY <1>2, <2>3 DEF UpgradeWrite
    <3>2. upg.slot # vol.active
      BY <1>0, <2>1 DEF IInv, SlotHeld
    <3>3. image'[vol.active] = image[vol.active] /\ image'[slot] = image[slot]
      BY <1>0, <2>3, <3>1, <3>2
    <3>4. upg'.rec = FALSE
      BY <2>1, <3>1 DEF IInv, TypeOK
    <3>5. Startable'
      BY <1>0, <2>1, <3>3 DEF UpdaterOnly, Startable, Bootstrap
    <3>6. Running'
      BY <1>0, <2>1, <3>3, <3>4 DEF UpdaterOnly, Running
    <3>7. QED
      BY <1>0, <2>1, <3>5, <3>6 DEF UpdaterOnly, Standing, Booting
  <2>4. QED
    BY <2>2, <2>3
<1>3. CASE UpgradeVerify
  <2>1. /\ UpdaterOnly /\ vol' = vol /\ image' = image /\ upg.pc = "verify"
        /\ vol.booting = NoSlot /\ upg.rec = FALSE
    BY <1>0, <1>3 DEF UpgradeVerify, Updater, Running
  <2>2. upg'.pc # "idle" => upg'.rec = FALSE
    BY <1>3, <2>1 DEF UpgradeVerify, NoUpgrade, IInv, TypeOK
  <2>3. QED
    BY <1>g, <2>1, <2>2
<1>4. CASE UpgradeMark
  <2>1. /\ UpdaterOnly /\ image' = image /\ upg.pc = "mark"
        /\ vol.booting = NoSlot /\ upg.rec = FALSE
    BY <1>0, <1>4 DEF UpgradeMark, Updater, Running
  <2>2. upg'.pc # "idle" => upg'.rec = FALSE
    BY <1>4, <2>1 DEF UpgradeMark, NoUpgrade, IInv, TypeOK
  <2>3. CASE vol' = vol
    BY <1>g, <2>1, <2>2, <2>3
  <2>4. CASE MayStage(vol, upg.slot) /\ vol' = Staged(vol, upg.slot)
    <3>1. upg.slot \in Slots
      BY <2>1 DEF IInv, SlotHeld
    <3>2. /\ vol' # Invalid /\ vol'.active = vol.active
          /\ vol'.booting = NoSlot /\ vol'.force = FALSE
      BY <1>0, <2>1, <2>4, <3>1, StagedCoherent, FieldTypes
         DEF Coherent, Staged, Record
    <3>3. Startable'
      BY <1>0, <2>1, <3>2 DEF UpdaterOnly, Startable, Bootstrap
    <3>4. Running'
      BY <1>0, <2>1, <2>2, <3>2 DEF UpdaterOnly, Running
    <3>5. QED
      BY <1>0, <2>1, <3>3, <3>4 DEF UpdaterOnly, Standing, Booting
  <2>5. QED
    BY <1>4, <2>1, <2>3, <2>4 DEF UpgradeMark
<1>5. CASE UpgradeWriteFails
  BY <1>5 DEF UpgradeWriteFails
<1>6. CASE UpgradeReboot
  BY <1>6, HaltsStanding
<1>7. QED
  BY <1>1, <1>2, <1>3, <1>4, <1>5, <1>6 DEF UpgradeNext

LEMMA PowerOnStanding ==
    ASSUME Standing, Calm, PowerOn
    PROVE  Standing'
<1> USE DEF bounds
<1>1. /\ mode = "off" /\ mode' = "boot" /\ boot' = BootStart
      /\ UNCHANGED <<vol, image, lan>>
  BY DEF PowerOn
<1>2. Startable'
  BY <1>1 DEF Standing, Startable
<1>3. QED
  BY <1>1, <1>2 DEF Standing, Booting, BootStart, Running

LEMMA StepStanding == StandingInv /\ [Next]_vars => Standing'
<1> SUFFICES ASSUME IInv, Standing, [Next]_vars PROVE Standing'
  BY DEF StandingInv
<1>1. CASE UNCHANGED vars
  BY <1>1 DEF vars, Standing, Calm, Startable, Booting, Running, Bootstrap
<1>2. CASE Next /\ ~Calm'
  BY <1>2 DEF Standing
<1>3. CASE Next /\ Calm'
  <2>1. Calm /\ ~Fault /\ ~Request
    BY <1>3, CalmStep
  <2>2. lan = TRUE
    BY <2>1 DEF Standing
  <2>3. QED
    BY <1>3, <2>1, <2>2, PowerOnStanding, BootstrapStanding, GateStanding,
       UpgradeStanding, HaltsStanding
       DEF Next, PowerLoss, LanFails, LanRecovers, RequestRecovery,
           RequestRetry, RequestCutOff, RequestReboot
<1>4. QED
  BY <1>1, <1>2, <1>3

(* A bad image of any kind, however often it is tried, and services that   *)
(* never come up do not cost the device its system: as long as no write or *)
(* mount fails by itself and nobody interferes, it never ends in recovery. *)
THEOREM NeverStranded == Spec => []BadImageNeverStrands
<1>1. Init => StandingInv
  BY InitIInv, InitStanding DEF StandingInv
<1>2. StandingInv /\ [Next]_vars => StandingInv'
  BY StepIInv, StepStanding DEF StandingInv
<1>3. StandingInv => BadImageNeverStrands
  BY DEF StandingInv, Standing, Calm, BadImageNeverStrands
<1>4. QED
  BY <1>1, <1>2, <1>3, PTL DEF Spec

-----------------------------------------------------------------------------
(* The files and the lock of bootstate (BootStateFiles).                   *)
-----------------------------------------------------------------------------
(* Types. *)

(* A command that is allowed writes a record with valid fields. *)
LEMMA NewRecordType ==
    ASSUME NEW c \in Commands, NEW v \in Volume, Allowed(c, v)
    PROVE  NewRecord(c, v) \in Record
<1> USE CommandsAssumption, SlotAssumption, InvalidAssumption
<1>1. c.op \in {"accept", "stage", "activate"} => c.slot \in Slots
  OBVIOUS
<1>2. c.op \in {"accept", "stage", "activate", "status", "recovery", "retry"}
  OBVIOUS
<1>3. CASE c.op = "accept"
  BY <1>1, <1>3 DEF NewRecord, Accepted, Record, SlotOrNone
<1>4. CASE c.op = "stage"
  <2>1. v \in Record
    BY <1>4 DEF Allowed, MayStage, Volume
  <2>2. QED
    BY <1>1, <1>4, <2>1 DEF NewRecord, Staged, Record, SlotOrNone
<1>5. CASE c.op = "activate"
  BY <1>1, <1>5 DEF NewRecord, Activated, Record, SlotOrNone
<1>6. CASE c.op = "retry"
  <2>1. v \in Record
    BY <1>6 DEF Allowed, Volume
  <2>2. QED
    BY <1>6, <2>1 DEF NewRecord, Retried, Record, SlotOrNone
<1>7. CASE c.op = "recovery"
  <2>1. ReadOrDefault(v) \in Record
    BY DEF ReadOrDefault, DefaultState, Volume, Record, SlotOrNone
  <2>2. QED
    BY <1>7, <2>1 DEF NewRecord, RecoveryRequested, Record, SlotOrNone
<1>8. CASE c.op = "status"
  BY <1>8 DEF Allowed
<1>9. QED
  BY <1>2, <1>3, <1>4, <1>5, <1>6, <1>7, <1>8

LEMMA WrittenType ==
    ASSUME NEW c \in Commands, NEW b \in Bodies \cup {Invalid},
           Allowed(c, RecordOf(b))
    PROVE  Written(c, b) \in Bodies
<1>1. RecordOf(b) \in Volume
  BY DEF RecordOf, Bodies, Volume
<1>2. GenerationOf(b) + 1 \in Nat
  BY DEF GenerationOf, Bodies
<1>3. QED
  BY <1>1, <1>2, NewRecordType DEF Written, Bodies

(* Filling and emptying a scratch file keeps the types. *)
LEMMA FillType ==
    ASSUME FilesTypeOK, NEW p \in Procs, NEW step \in DOMAIN Target,
           NEW content \in Contents, NEW next \in Steps,
           Fill(p, step, content, next)
    PROVE  FilesTypeOK'
<1>1. Target[step] \in FileNames
  BY DEF Target, FileNames
<1>2. QED
  BY <1>1 DEF FilesTypeOK, Fill, Goto

LEMMA EmptyType == Empty \in Contents
  BY DEF Empty, Contents

(* Type correctness: every variable stays in its range. *)
THEOREM FilesTypeCorrect == FilesSpec => []FilesTypeOK
<1>1. FilesInit => FilesTypeOK
  <2> SUFFICES ASSUME FilesInit PROVE FilesTypeOK
    OBVIOUS
  <2>1. InitialBody \in Bodies
    BY SlotAssumption
       DEF InitialBody, Bodies, Record, StartBoot, NextSlot, DefaultState,
           SlotOrNone
  <2>2. cmd \in [Procs -> Commands]
    BY CommandsAssumption DEF FilesInit
  <2>3. QED
    BY <2>1, <2>2, EmptyType DEF FilesInit, FilesTypeOK, Sealed, Contents, Steps
<1>2. FilesTypeOK /\ [FilesNext]_fileVars => FilesTypeOK'
  <2> SUFFICES ASSUME FilesTypeOK, [FilesNext]_fileVars PROVE FilesTypeOK'
    OBVIOUS
  <2> USE EmptyType
  <2>1. ASSUME NEW p \in Procs, Give(p) PROVE FilesTypeOK'
    BY <2>1 DEF Give, FilesTypeOK, Goto, Steps
  <2>2. ASSUME NEW p \in Procs, Acquire(p) PROVE FilesTypeOK'
    BY <2>2 DEF Acquire, FilesTypeOK, Goto, Steps
  <2>3. ASSUME NEW p \in Procs, TimeOut(p) PROVE FilesTypeOK'
    BY <2>3 DEF TimeOut, FilesTypeOK, Goto, Steps
  <2>4. ASSUME NEW p \in Procs, Truncate(p) PROVE FilesTypeOK'
    <3>1. Target[pc[p]] \in FileNames
      BY <2>4 DEF Truncate, Target, FileNames
    <3>2. QED
      BY <2>4, <3>1 DEF Truncate, FilesTypeOK
  <2>5. ASSUME NEW p \in Procs, ReadVolume(p) PROVE FilesTypeOK'
    BY <2>5, FillType DEF ReadVolume, Target, Steps, FilesTypeOK
  <2>6. ASSUME NEW p \in Procs, ReadText(p) PROVE FilesTypeOK'
    <3>1. file["RAW"] \in Contents
      BY DEF FilesTypeOK, FileNames
    <3>2. QED
      BY <2>6, <3>1, FillType DEF ReadText, Target, Steps
  <2>7. ASSUME NEW p \in Procs, ReadPayload(p) PROVE FilesTypeOK'
    <3>1. [Empty EXCEPT !.body = file["TEXT"].body] \in Contents
      BY DEF FilesTypeOK, FileNames, Empty, Contents
    <3>2. QED
      BY <2>7, <3>1, FillType DEF ReadPayload, Target, Steps
  <2>8. ASSUME NEW p \in Procs, Parse(p) PROVE FilesTypeOK'
    BY <2>8 DEF Parse, FilesTypeOK, Goto, Steps, FileNames
  <2>9. ASSUME NEW p \in Procs, Decide(p) PROVE FilesTypeOK'
    <3>1. ReadResult(p) \in Bodies \cup {Invalid}
      BY DEF ReadResult, FilesTypeOK, Contents
    <3>2. CASE Allowed(cmd[p], RecordOf(ReadResult(p)))
      <4>1. Written(cmd[p], ReadResult(p)) \in Bodies
        BY <3>1, <3>2, WrittenType DEF FilesTypeOK
      <4>2. mem'[p] \in Contents /\ mem' = [mem EXCEPT ![p] = mem'[p]]
        BY <2>9, <3>2, <4>1 DEF Decide, FilesTypeOK, Empty, Contents
      <4>3. QED
        BY <2>9, <3>2, <4>2 DEF Decide, FilesTypeOK, Goto, Steps
    <3>3. CASE ~Allowed(cmd[p], RecordOf(ReadResult(p)))
      BY <2>9, <3>3 DEF Decide, FilesTypeOK, Goto, Steps
    <3>4. QED
      BY <3>2, <3>3
  <2>10. ASSUME NEW p \in Procs, WritePayload(p) PROVE FilesTypeOK'
    <3>1. [Empty EXCEPT !.body = mem[p].body] \in Contents
      BY DEF FilesTypeOK, Empty, Contents
    <3>2. QED
      BY <2>10, <3>1, FillType DEF WritePayload, Target, Steps
  <2>11. ASSUME NEW p \in Procs, SumPayload(p) PROVE FilesTypeOK'
    <3>1. [mem[p] EXCEPT !.sum = file["PAYLOAD"].body] \in Contents
      BY DEF FilesTypeOK, FileNames, Contents
    <3>2. QED
      BY <2>11, <3>1 DEF SumPayload, FilesTypeOK, Goto, Steps
  <2>12. ASSUME NEW p \in Procs, WriteNew(p) PROVE FilesTypeOK'
    <3>1. [body |-> file["PAYLOAD"].body, sum |-> mem[p].sum] \in Contents
      BY DEF FilesTypeOK, FileNames, Contents
    <3>2. QED
      BY <2>12, <3>1, FillType DEF WriteNew, Target, Steps
  <2>13. ASSUME NEW p \in Procs, UpdateVolume(p) PROVE FilesTypeOK'
    BY <2>13 DEF UpdateVolume, FilesTypeOK, Goto, Steps, FileNames
  <2>14. ASSUME NEW p \in Procs, Exit(p) PROVE FilesTypeOK'
    BY <2>14 DEF Exit, FilesTypeOK, Goto, Steps
  <2>15. ASSUME NEW p \in Procs, Kill(p) PROVE FilesTypeOK'
    <3>1. volume' \in Contents
      BY <2>15 DEF Kill, FilesTypeOK, FileNames
    <3>2. QED
      BY <2>15, <3>1 DEF Kill, FilesTypeOK, Goto, Steps
  <2>18. ASSUME NEW p \in Procs, Interrupt(p) PROVE FilesTypeOK'
    <3>1. /\ lock' = FALSE /\ signals' = signals + 1 /\ strays' = strays + 1
          /\ UNCHANGED <<volume, file, pc, opened, cmd, mem, given>>
      BY <2>18 DEF Interrupt
    <3>2. lock' \in BOOLEAN
      BY <3>1
    <3>3. signals' \in Nat /\ strays' \in Nat
      <4>1. signals \in Nat /\ strays \in Nat
        BY DEF FilesTypeOK
      <4>2. QED
        BY <3>1, <4>1
    <3>4. QED
      BY <3>1, <3>2, <3>3 DEF FilesTypeOK
  <2>16. CASE UNCHANGED fileVars
    BY <2>16 DEF fileVars, FilesTypeOK
  <2>17. QED
    BY <2>1, <2>2, <2>3, <2>4, <2>5, <2>6, <2>7, <2>8, <2>9, <2>10, <2>11,
       <2>12, <2>13, <2>14, <2>15, <2>16, <2>18 DEF FilesNext, Run
<1>3. QED
  BY <1>1, <1>2, PTL DEF FilesSpec

-----------------------------------------------------------------------------
(* Mutual exclusion. *)

Acts(p) == Give(p) \/ Run(p) \/ Interrupt(p) \/ Kill(p)

(* Only the caller that acts moves. *)
LEMMA OthersStay ==
    ASSUME FilesTypeOK, NEW p \in Procs, Acts(p), NEW q \in Procs, q # p
    PROVE  pc'[q] = pc[q] /\ cmd'[q] = cmd[q] /\ mem'[q] = mem[q]
           /\ opened'[q] = opened[q]
BY DEF FilesTypeOK, Acts, Give, Run, Interrupt, Kill, Acquire, TimeOut, Truncate,
       ReadVolume, ReadText, ReadPayload, Parse, Decide, WritePayload,
       SumPayload, WriteNew, UpdateVolume, Exit, Fill, Goto

(* Who is inside is a finite set, before and after a step. *)
LEMMA InsideFinite ==
    /\ IsFiniteSet(InsideNow) /\ Cardinality(InsideNow) \in Nat
    /\ IsFiniteSet(InsideNow') /\ Cardinality(InsideNow') \in Nat
<1>1. InsideNow \subseteq Procs /\ InsideNow' \subseteq Procs
  BY DEF InsideNow
<1>2. IsFiniteSet(InsideNow) /\ IsFiniteSet(InsideNow')
  BY <1>1, ProcsAssumption, FS_Subset
<1>3. QED
  BY <1>2, FS_CardinalityType

(* A step lets its caller in, out or neither. *)
LEMMA InsideMoves ==
    ASSUME FilesTypeOK, NEW p \in Procs, Acts(p)
    PROVE  /\ Inside(p)' /\ ~Inside(p) =>
                Cardinality(InsideNow') = Cardinality(InsideNow) + 1
           /\ Inside(p) /\ ~Inside(p)' =>
                /\ Cardinality(InsideNow') = Cardinality(InsideNow) - 1
                /\ InsideNow = {p} => Cardinality(InsideNow') = 0
           /\ (Inside(p)' <=> Inside(p)) => InsideNow' = InsideNow
<1>1. \A q \in Procs \ {p} : Inside(q)' <=> Inside(q)
  BY OthersStay DEF Inside
<1>2. CASE Inside(p)' /\ ~Inside(p)
  <2>1. InsideNow' = InsideNow \cup {p} /\ p \notin InsideNow
    BY <1>1, <1>2 DEF InsideNow
  <2>2. QED
    BY <1>2, <2>1, InsideFinite, FS_AddElement
<1>3. CASE Inside(p) /\ ~Inside(p)'
  <2>1. InsideNow' = InsideNow \ {p} /\ p \in InsideNow
    BY <1>1, <1>3 DEF InsideNow
  <2>2. Cardinality(InsideNow') = Cardinality(InsideNow) - 1
    BY <2>1, InsideFinite, FS_RemoveElement
  <2>3. InsideNow = {p} => InsideNow' = {}
    BY <2>1
  <2>4. QED
    BY <1>3, <2>2, <2>3, FS_EmptySet
<1>4. CASE Inside(p)' <=> Inside(p)
  <2>1. InsideNow' = InsideNow
    BY <1>1, <1>4 DEF InsideNow
  <2>2. QED
    BY <1>4, <2>1
<1>5. QED
  BY <1>2, <1>3, <1>4

(* What each step does to its caller's place, the directory and the count   *)
(* of strays.                                                               *)
LEMMA LockMoves ==
    ASSUME FilesTypeOK, NEW p \in Procs, Acts(p)
    PROVE  \/ (* in by the directory *)
              ~lock /\ lock' /\ ~Inside(p) /\ Inside(p)' /\ strays' = strays
           \/ (* in without it *)
              lock' = lock /\ ~Inside(p) /\ Inside(p)' /\ strays' = strays + 1
           \/ (* interrupted inside *)
              /\ ~lock' /\ Inside(p) /\ Inside(p)' /\ strays' = strays + 1
           \/ (* out by the trap *)
              /\ Inside(p) /\ ~Inside(p)' /\ lock' \in {lock, FALSE}
              /\ strays' = IF InsideNow = {p} THEN 0 ELSE strays
           \/ (* out without it *)
              Inside(p) /\ ~Inside(p)' /\ lock' = lock /\ strays' = strays
           \/ (* neither *)
              (Inside(p)' <=> Inside(p)) /\ lock' = lock /\ strays' = strays
<1> USE DEF Inside, Goto, At
<1>1. pc \in [Procs -> Steps] /\ lock \in BOOLEAN
  BY DEF FilesTypeOK
<1>2. CASE Give(p)
  <2>1. PICK c \in Commands :
          /\ pc' = [pc EXCEPT ![p] = IF Locked(c) THEN "lock" ELSE "dd"]
          /\ strays' = IF Locked(c) THEN strays ELSE strays + 1
    BY <1>2 DEF Give
  <2>2. lock' = lock /\ pc[p] = "idle"
    BY <1>2 DEF Give
  <2>3. QED
    BY <1>1, <2>1, <2>2
<1>3. CASE Acquire(p)
  BY <1>1, <1>3 DEF Acquire
<1>4. CASE TimeOut(p)
  BY <1>1, <1>4 DEF TimeOut
<1>5. CASE Truncate(p)
  BY <1>1, <1>5 DEF Truncate
<1>6. CASE \/ ReadVolume(p) \/ ReadText(p) \/ ReadPayload(p)
           \/ WritePayload(p) \/ WriteNew(p)
  BY <1>1, <1>6 DEF ReadVolume, ReadText, ReadPayload, WritePayload, WriteNew,
     Fill
<1>7. CASE Parse(p) \/ Decide(p) \/ SumPayload(p)
  BY <1>1, <1>7 DEF Parse, Decide, SumPayload
<1>8. CASE UpdateVolume(p)
  BY <1>1, <1>8 DEF UpdateVolume
<1>9. CASE Exit(p)
  BY <1>1, <1>9 DEF Exit
<1>10. CASE Kill(p)
  BY <1>1, <1>10 DEF Kill
<1>11. CASE Interrupt(p)
  BY <1>1, <1>11 DEF Interrupt
<1>12. QED
  BY <1>2, <1>3, <1>4, <1>5, <1>6, <1>7, <1>8, <1>9, <1>10, <1>11 DEF Run, Acts

LEMMA LockExcludesStep ==
    ASSUME FilesTypeOK, LockExcludes, [FilesNext]_fileVars
    PROVE  LockExcludes'
<1>1. CASE UNCHANGED fileVars
  <2>1. InsideNow' = InsideNow /\ lock' = lock /\ strays' = strays
    BY <1>1 DEF fileVars, InsideNow, Inside
  <2>2. QED
    BY <2>1 DEF LockExcludes
<1>2. ASSUME NEW p \in Procs, Acts(p)
      PROVE  LockExcludes'
  <2> DEFINE n == Cardinality(InsideNow)
             m == Cardinality(InsideNow')
  <2>1. n \in Nat /\ m \in Nat /\ strays \in Nat /\ lock \in BOOLEAN
    BY InsideFinite DEF FilesTypeOK
  <2>2. n <= (IF lock THEN 1 ELSE 0) + strays
    BY DEF LockExcludes
  <2>3. /\ Inside(p)' /\ ~Inside(p) => m = n + 1
        /\ Inside(p) /\ ~Inside(p)' => m = n - 1 /\ (InsideNow = {p} => m = 0)
        /\ (Inside(p)' <=> Inside(p)) => m = n
    BY <1>2, InsideMoves
  <2>4. \/ ~lock /\ lock' /\ m = n + 1 /\ strays' = strays
        \/ lock' = lock /\ m = n + 1 /\ strays' = strays + 1
        \/ ~lock' /\ m = n /\ strays' = strays + 1
        \/ m = 0 /\ strays' = 0
        \/ m = n - 1 /\ strays' = strays
        \/ lock' = lock /\ m = n /\ strays' = strays
    <3> HIDE DEF n, m
    <3>1. CASE Inside(p)
      BY <1>2, <2>3, <3>1, LockMoves, Zenon
    <3>2. CASE ~Inside(p)
      BY <1>2, <2>3, <3>2, LockMoves, Zenon
    <3>3. QED
      BY <3>1, <3>2
  <2> HIDE DEF n, m
  <2>7. m <= (IF lock' THEN 1 ELSE 0) + strays'
    BY <2>1, <2>2, <2>4
  <2>5. QED
    BY <2>7 DEF m, LockExcludes
<1>3. QED
  BY <1>1, <1>2 DEF FilesNext, Acts

(* One caller more for each status and each signal, and else one caller. *)
THEOREM MutualExclusion == FilesSpec => []LockExcludes
<1>1. FilesInit => LockExcludes
  <2> SUFFICES ASSUME FilesInit PROVE LockExcludes
    OBVIOUS
  <2>1. InsideNow = {}
    BY DEF FilesInit, InsideNow, Inside
  <2>2. Cardinality(InsideNow) = 0 /\ lock = FALSE /\ strays = 0
    BY <2>1, FS_EmptySet DEF FilesInit
  <2>3. QED
    BY <2>2 DEF LockExcludes
<1>2. FilesTypeOK /\ LockExcludes /\ [FilesNext]_fileVars => LockExcludes'
  BY LockExcludesStep
<1>3. QED
  BY <1>1, <1>2, FilesTypeCorrect, PTL DEF FilesSpec

(* Without a stray a caller inside is alone there, and has the directory. *)
LEMMA AloneInside ==
    ASSUME FilesTypeOK, LockExcludes, strays = 0,
           NEW p \in Procs, Inside(p)
    PROVE  lock /\ \A q \in Procs : Inside(q) => q = p
<1> DEFINE n == Cardinality(InsideNow)
<1>1. p \in InsideNow
  BY DEF InsideNow
<1>2. IsFiniteSet(InsideNow) /\ n \in Nat
  BY InsideFinite
<1>3. n <= IF lock THEN 1 ELSE 0
  BY <1>2 DEF LockExcludes
<1>4. n # 0
  BY <1>1, <1>2, FS_EmptySet
<1>5. lock /\ n = 1
  <2> HIDE DEF n
  <2>1. lock \in BOOLEAN
    BY DEF FilesTypeOK
  <2>2. QED
    BY <1>2, <1>3, <1>4, <2>1
<1>6. Cardinality(InsideNow \ {p}) = n - 1 /\ IsFiniteSet(InsideNow \ {p})
  BY <1>1, <1>2, FS_RemoveElement
<1>7. InsideNow \ {p} = {}
  BY <1>5, <1>6, FS_EmptySet
<1>8. QED
  BY <1>5, <1>7 DEF InsideNow

-----------------------------------------------------------------------------
(* Atomicity. *)

(* A step of a caller that is alone inside keeps its own files in line.    *)
LEMMA HolderFollows ==
    ASSUME FilesTypeOK, FilesFollow, strays = 0,
           NEW p \in Procs, Run(p), Inside(p)
    PROVE  Inside(p)' =>
        /\ At(p, "tr")' => file'["RAW"] = volume'
        /\ At(p, "sed")' => file'["TEXT"] = volume'
        /\ At(p, "parse")' => /\ file'["TEXT"] = volume'
                              /\ file'["PAYLOAD"].body = volume'.body
        /\ At(p, "check")' => /\ mem'[p] = volume'
                              /\ file'["PAYLOAD"].body = volume'.body
        /\ pc'[p] \in {"payload", "sum", "new", "update"} =>
             /\ mem'[p].body = Written(cmd'[p], Stored(volume'))
             /\ mem'[p].body # Invalid
        /\ pc'[p] \in {"sum", "new"} => file'["PAYLOAD"].body = mem'[p].body
        /\ At(p, "new")' => mem'[p].sum = mem'[p].body
        /\ At(p, "update")' => file'["NEW"] = Sealed(mem'[p].body)
<1> USE DEF Inside, Goto, At
<1> DEFINE F == /\ pc[p] = "tr" => file["RAW"] = volume
                /\ pc[p] = "sed" => file["TEXT"] = volume
                /\ pc[p] = "parse" => /\ file["TEXT"] = volume
                                      /\ file["PAYLOAD"].body = volume.body
                /\ pc[p] = "check" => /\ mem[p] = volume
                                      /\ file["PAYLOAD"].body = volume.body
                /\ pc[p] \in {"payload", "sum", "new", "update"} =>
                     /\ mem[p].body = Written(cmd[p], Stored(volume))
                     /\ mem[p].body # Invalid
                /\ pc[p] \in {"sum", "new"} => file["PAYLOAD"].body = mem[p].body
                /\ pc[p] = "new" => mem[p].sum = mem[p].body
                /\ pc[p] = "update" => file["NEW"] = Sealed(mem[p].body)
<1>1. F
  BY DEF FilesFollow
<1>2. CASE Acquire(p) \/ TimeOut(p)
  BY <1>2 DEF Acquire, TimeOut, FilesTypeOK
<1>3. CASE Truncate(p)
  BY <1>1, <1>3 DEF Truncate, FilesTypeOK, Target, FileNames
<1>4. CASE ReadVolume(p) \/ ReadText(p)
  BY <1>1, <1>4 DEF ReadVolume, ReadText, Fill, Target, FilesTypeOK, FileNames
<1>5. CASE ReadPayload(p)
  BY <1>1, <1>5 DEF ReadPayload, Fill, Target, FilesTypeOK, FileNames, Empty
<1>6. CASE Parse(p)
  BY <1>1, <1>6 DEF Parse, FilesTypeOK
<1>7. CASE Decide(p)
  <2>1. ReadResult(p) = Stored(volume)
    BY <1>1, <1>7 DEF Decide, ReadResult, Stored, Readable
  <2>2. CASE Allowed(cmd[p], RecordOf(ReadResult(p)))
    <3>1. ReadResult(p) \in Bodies \cup {Invalid}
      BY DEF ReadResult, FilesTypeOK, Contents
    <3>2. Written(cmd[p], ReadResult(p)) # Invalid
      BY <2>2, <3>1, WrittenType, InvalidBodyAssumption DEF FilesTypeOK
    <3>3. QED
      BY <1>7, <2>1, <2>2, <3>2 DEF Decide, FilesTypeOK, Empty
  <2>3. CASE ~Allowed(cmd[p], RecordOf(ReadResult(p)))
    BY <1>7, <2>3 DEF Decide, FilesTypeOK
  <2>4. QED
    BY <2>2, <2>3
<1>8. CASE WritePayload(p)
  BY <1>1, <1>8 DEF WritePayload, Fill, Target, FilesTypeOK, FileNames, Empty
<1>9. CASE SumPayload(p)
  <2>1. mem' = [mem EXCEPT ![p] = [mem[p] EXCEPT !.sum = file["PAYLOAD"].body]]
    BY <1>9 DEF SumPayload
  <2>2. /\ mem'[p].sum = file["PAYLOAD"].body
        /\ mem'[p].body = mem[p].body
    BY <2>1 DEF FilesTypeOK, Contents
  <2>3. QED
    BY <1>1, <1>9, <2>2 DEF SumPayload, FilesTypeOK
<1>10. CASE WriteNew(p)
  BY <1>1, <1>10 DEF WriteNew, Fill, Target, FilesTypeOK, FileNames, Sealed
<1>11. CASE UpdateVolume(p) \/ Exit(p)
  BY <1>11 DEF UpdateVolume, Exit, FilesTypeOK
<1>12. QED
  BY <1>2, <1>3, <1>4, <1>5, <1>6, <1>7, <1>8, <1>9, <1>10, <1>11 DEF Run

(* A step of one caller leaves another one that is alone inside alone: it  *)
(* can only be idle, waiting, giving up or dead, unless it strays in.      *)
LEMMA BystanderFollows ==
    ASSUME FilesTypeOK, LockExcludes, strays = 0, strays' = 0,
           NEW q \in Procs, Inside(q),
           NEW p \in Procs, p # q, Acts(p)
    PROVE  file' = file /\ volume' = volume
<1> USE DEF Inside, Goto, At
<1>1. ~Inside(p) /\ lock
  BY AloneInside
<1>2. pc[p] \in {"idle", "lock", "killed"}
  BY <1>1 DEF FilesTypeOK
<1>3. QED
  BY <1>1, <1>2 DEF Acts, Give, Run, Interrupt, Kill, Acquire, TimeOut, Truncate,
     ReadVolume, ReadText, ReadPayload, Parse, Decide, WritePayload, SumPayload,
     WriteNew, UpdateVolume, Exit, Fill, Target

(* A caller that comes in begins with the read. *)
LEMMA HoldingBegins ==
    ASSUME FilesTypeOK, NEW p \in Procs, Acts(p), ~Inside(p), Inside(p)'
    PROVE  pc'[p] = "dd"
<1> USE DEF Inside, Goto, At
<1>1. pc[p] \in {"idle", "lock", "killed"} /\ pc \in [Procs -> Steps]
  BY DEF FilesTypeOK
<1>2. CASE Give(p)
  <2>1. PICK c \in Commands :
          pc' = [pc EXCEPT ![p] = IF Locked(c) THEN "lock" ELSE "dd"]
    BY <1>2 DEF Give
  <2>2. QED
    BY <1>1, <2>1
<1>3. CASE Run(p)
  BY <1>1, <1>3 DEF Run, Acquire, TimeOut, Truncate, ReadVolume, ReadText,
     ReadPayload, Parse, Decide, WritePayload, SumPayload, WriteNew,
     UpdateVolume, Exit, Fill, Target
<1>4. CASE Kill(p) \/ Interrupt(p)
  BY <1>1, <1>4 DEF Kill, Interrupt
<1>5. QED
  BY <1>2, <1>3, <1>4 DEF Acts

(* A step that leaves nobody astray leaves the last exit, or began so. *)
LEMMA StraysEnd ==
    ASSUME FilesTypeOK, NEW p \in Procs, Acts(p), strays' = 0
    PROVE  strays = 0 \/ \A q \in Procs : ~Inside(q)'
<1>1. strays \in Nat
  BY DEF FilesTypeOK
<1>2. strays = 0 \/ (InsideNow = {p} /\ ~Inside(p)')
  <2>1. \/ strays' = strays \/ strays' = strays + 1
        \/ ~Inside(p)' /\ strays' = IF InsideNow = {p} THEN 0 ELSE strays
    BY LockMoves, Zenon
  <2>2. QED
    BY <1>1, <2>1
<1>3. ASSUME InsideNow = {p}, ~Inside(p)', NEW q \in Procs PROVE ~Inside(q)'
  <2>1. CASE q = p
    BY <1>3, <2>1
  <2>2. CASE q # p
    BY <1>3, <2>2, OthersStay DEF InsideNow, Inside
  <2>3. QED
    BY <2>1, <2>2
<1>4. QED
  BY <1>2, <1>3

LEMMA FilesFollowStep ==
    ASSUME FilesTypeOK, LockExcludes, FilesFollow, [FilesNext]_fileVars
    PROVE  FilesFollow'
<1>1. CASE UNCHANGED fileVars
  BY <1>1 DEF fileVars, FilesFollow, Inside, At
<1>2. ASSUME NEW p \in Procs, Acts(p)
      PROVE  FilesFollow'
  <2> DEFINE F(q) ==
        /\ At(q, "tr") => file["RAW"] = volume
        /\ At(q, "sed") => file["TEXT"] = volume
        /\ At(q, "parse") => /\ file["TEXT"] = volume
                             /\ file["PAYLOAD"].body = volume.body
        /\ At(q, "check") => /\ mem[q] = volume
                             /\ file["PAYLOAD"].body = volume.body
        /\ pc[q] \in {"payload", "sum", "new", "update"} =>
             /\ mem[q].body = Written(cmd[q], Stored(volume))
             /\ mem[q].body # Invalid
        /\ pc[q] \in {"sum", "new"} => file["PAYLOAD"].body = mem[q].body
        /\ At(q, "new") => mem[q].sum = mem[q].body
        /\ At(q, "update") => file["NEW"] = Sealed(mem[q].body)
  <2>1. SUFFICES ASSUME strays' = 0, NEW q \in Procs, Inside(q)' PROVE F(q)'
    BY DEF FilesFollow
  <2>6. strays = 0
    BY <1>2, <2>1, StraysEnd
  <2>2. CASE q # p
    <3>1. /\ pc'[q] = pc[q] /\ cmd'[q] = cmd[q] /\ mem'[q] = mem[q]
      BY <1>2, <2>2, OthersStay
    <3>2. Inside(q)
      BY <2>1, <3>1 DEF Inside
    <3>3. file' = file /\ volume' = volume
      BY <1>2, <2>1, <2>2, <2>6, <3>2, BystanderFollows
    <3>4. F(q)
      BY <2>6, <3>2 DEF FilesFollow
    <3>5. QED
      BY <3>1, <3>3, <3>4 DEF At
  <2>3. CASE q = p /\ ~Inside(p)
    <3>1. pc'[q] = "dd"
      BY <1>2, <2>1, <2>3, HoldingBegins
    <3>2. QED
      BY <3>1 DEF At
  <2>4. CASE q = p /\ Inside(p)
    <3>1. CASE Run(p)
      <4>1. F(p)'
        BY <2>1, <2>4, <2>6, <3>1, HolderFollows
      <4>2. QED
        BY <2>4, <4>1
    <3>2. CASE Give(p) \/ Kill(p)
      BY <2>1, <2>4, <3>2 DEF Give, Kill, Inside, At, Goto, FilesTypeOK
    <3>3. CASE Interrupt(p)
      BY <2>1, <2>6, <3>3 DEF Interrupt
    <3>4. QED
      BY <1>2, <3>1, <3>2, <3>3 DEF Acts
  <2>5. QED
    BY <2>2, <2>3, <2>4
<1>3. QED
  BY <1>1, <1>2 DEF FilesNext, Acts

(* While a caller is alone inside, the shared files hold what it put there. *)
THEOREM FilesFollowAlways == FilesSpec => []FilesFollow
<1>1. FilesInit => FilesFollow
  BY DEF FilesInit, FilesFollow, Inside
<1>2. FilesTypeOK /\ LockExcludes /\ FilesFollow /\ [FilesNext]_fileVars => FilesFollow'
  BY FilesFollowStep
<1>3. QED
  BY <1>1, <1>2, FilesTypeCorrect, MutualExclusion, PTL DEF FilesSpec

(* What a caller commits while none is inside without the lock is its own   *)
(* record, made from the one it replaces: no update is lost or mixed with   *)
(* another.                                                                 *)
THEOREM Atomicity == FilesSpec => CommitsAreAtomic
<1>1. FilesTypeOK /\ LockExcludes /\ FilesFollow /\ [FilesNext]_fileVars
        => [strays = 0 => \A p \in Procs : CommitsItsOwn(p)]_fileVars
  <2> SUFFICES ASSUME FilesTypeOK, LockExcludes, FilesFollow, FilesNext,
                      strays = 0,
                      NEW p \in Procs, At(p, "update"), ~At(p, "update")',
                      pc'[p] # "killed"
               PROVE  \/ volume' = Sealed(Written(cmd[p], Stored(volume)))
                      \/ ReadersOf(p) # {} /\ volume' = volume
    BY DEF CommitsItsOwn
  <2>1. PICK q \in Procs : Acts(q)
    BY DEF FilesNext, Acts
  <2>2. q = p
    BY <2>1, OthersStay DEF At
  <2>3. UpdateVolume(p)
    BY <2>1, <2>2 DEF Acts, Give, Run, Interrupt, Kill, Acquire, TimeOut, Truncate,
       ReadVolume, ReadText, ReadPayload, Parse, Decide, WritePayload,
       SumPayload, WriteNew, Exit, Fill, Goto, At, FilesTypeOK, Target
  <2>4. Inside(p)
    BY DEF Inside, At
  <2>5. file["NEW"] = Sealed(Written(cmd[p], Stored(volume)))
    BY <2>4 DEF FilesFollow, At
  <2>6. QED
    BY <2>3, <2>5 DEF UpdateVolume
<1>2. QED
  BY <1>1, FilesTypeCorrect, MutualExclusion, FilesFollowAlways, PTL
     DEF FilesSpec, CommitsAreAtomic
=============================================================================
