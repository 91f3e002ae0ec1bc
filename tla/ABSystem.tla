------------------------------ MODULE ABSystem ------------------------------
(***************************************************************************)
(* One access point through updates, boots and power losses: the record of *)
(* BootState, the two system volumes, PID 1 of the immutable bootstrap     *)
(* (rg-ma2820-bootstrap-init), the health gate of the system it starts     *)
(* (rg-ma2820-boot-success), the updater (rg-ma2820-system-upgrade) and    *)
(* the administrator's bootstate commands.                                 *)
(*                                                                         *)
(* A bootstate command is one step here, as its lock intends;              *)
(* BootStateFiles takes that lock and its files apart.                     *)
(***************************************************************************)
EXTENDS BootState, Naturals

CONSTANTS
    HealthChecks,  \* checks before HEALTH_TIMEOUT: 360 s / 10 s
    StableChecks,  \* healthy checks in a row to accept: 90 s / 10 s
    MaxFaults,     \* bound: power losses, flash, mount and LAN failures
    MaxUploads,    \* bound: images given to the updater
    MaxRequests,   \* bound: bootstate commands and hasty reboots
    MaxReboots     \* bound: reboots of a device at rest

ASSUME BoundAssumption ==
    /\ HealthChecks \in Nat /\ StableChecks \in Nat
    /\ MaxFaults \in Nat /\ MaxUploads \in Nat /\ MaxRequests \in Nat
    /\ MaxReboots \in Nat
ASSUME GateAssumption == HealthChecks > 0 /\ StableChecks <= HealthChecks

VARIABLES
    vol,       \* the A/B record
    image,     \* what each system volume holds
    verified,  \* slots whose present content passed the updater's checks
    mode,      \* "off", "boot", "system" or "recovery"
    slot,      \* the slot PID 1 works on, then the running system
    boot,      \* PID 1: next step and failed tries
    gate,      \* boot-success: next step, healthy checks in a row, checks
    upg,       \* the updater: next step, its slot, its image, from recovery?
    lan,       \* whether management and SSH can be healthy
    faults, uploads, requests, reboots   \* how much of each bound is used

vars == <<vol, image, verified, mode, slot, boot, gate, upg, lan,
          faults, uploads, requests, reboots>>

(* "good"; "sick": complete, but its services never come up; "damaged":    *)
(* mounts, but a file cannot be read; "unmountable": torn, empty or built  *)
(* for something else.                                                     *)
Kinds == {"good", "sick", "damaged", "unmountable"}

Mountable(k) == k # "unmountable"
FullyReadable(k) == k \in {"good", "sick"}

Up == mode \in {"system", "recovery"}

NoUpgrade == [pc |-> "idle", slot |-> NoSlot, kind |-> "good", rec |-> FALSE]
GateStart == [pc |-> "watch", stable |-> 0, elapsed |-> 0, slot |-> NoSlot]
BootStart == [pc |-> "prepare", tries |-> 0]

Init ==
    /\ vol = DefaultState
    /\ image = [s \in Slots |-> "good"]
    /\ verified = Slots
    /\ mode = "off" /\ slot = NoSlot
    /\ boot = BootStart /\ gate = GateStart /\ upg = NoUpgrade
    /\ lan = TRUE
    /\ faults = 0 /\ uploads = 0 /\ requests = 0 /\ reboots = 0

Fault == faults < MaxFaults /\ faults' = faults + 1
bounds == <<faults, uploads, requests, reboots>>

-----------------------------------------------------------------------------
(* Power.  ubiupdatevol is not atomic: UBI marks the volume as being       *)
(* updated and a volume cut off in that state cannot be read.              *)

PowerOn ==
    /\ mode = "off"
    /\ mode' = "boot" /\ boot' = BootStart
    /\ UNCHANGED <<vol, image, verified, slot, gate, upg, lan, bounds>>

SwitchedOff ==
    /\ mode' = "off" /\ slot' = NoSlot
    /\ boot' = BootStart /\ gate' = GateStart /\ upg' = NoUpgrade

RecordBeingWritten ==
    \/ mode = "boot" /\ boot.pc # "try" /\ Bootable(vol)
    \/ Up /\ (gate.pc = "commit" \/ upg.pc = "mark")

SlotBeingWritten == upg.pc = "write" /\ upg.slot # slot

(* Whatever stops the device stops a write with it. *)
HaltLeaving(v) ==
    /\ vol' = v
    /\ SwitchedOff
    /\ \/ UNCHANGED <<image, verified>>
       \/ /\ SlotBeingWritten
          /\ image' = [image EXCEPT ![upg.slot] = "unmountable"]
          /\ verified' = verified \ {upg.slot}
    /\ UNCHANGED <<lan, uploads>>

Halt ==
    \/ HaltLeaving(vol)
    \/ RecordBeingWritten /\ HaltLeaving(Invalid)

PowerLoss == mode # "off" /\ Fault /\ Halt /\ UNCHANGED <<requests, reboots>>

-----------------------------------------------------------------------------
(* PID 1: bootstate prepare, try_system, bootstate reject, at most twice.  *)

Bootstrap(pc) == mode = "boot" /\ boot.pc = pc
EnterRecovery ==
    /\ mode' = "recovery" /\ slot' = NoSlot
    /\ gate' = GateStart
    /\ UNCHANGED <<image, verified, boot, upg, lan>>

PrepareRefused ==
    /\ Bootstrap("prepare") /\ ~Bootable(vol)
    /\ EnterRecovery
    /\ UNCHANGED <<vol, bounds>>

(* The accepted system did not accept its previous boot. *)
PrepareFailActive ==
    /\ Bootstrap("prepare") /\ Bootable(vol)
    /\ ActiveUnaccepted(vol)
    /\ vol' = FailActive(vol)
    /\ EnterRecovery
    /\ UNCHANGED bounds

(* The first of prepare's two writes when a trial was not accepted.  Power *)
(* may be lost before the second, PrepareStart, which then finds the       *)
(* record written here.                                                    *)
PrepareDropPending ==
    /\ Bootstrap("prepare") /\ Bootable(vol)
    /\ TrialUnaccepted(vol)
    /\ vol' = DropPending(vol)
    /\ UNCHANGED <<image, verified, mode, slot, boot, gate, upg, lan, bounds>>

PrepareStart ==
    /\ Bootstrap("prepare") /\ Bootable(vol)
    /\ vol.booting = NoSlot
    /\ vol' = StartBoot(vol)
    /\ slot' = NextSlot(vol)
    /\ boot' = [boot EXCEPT !.pc = "try"]
    /\ UNCHANGED <<image, verified, mode, gate, upg, lan, bounds>>

TrySystem ==
    /\ Bootstrap("try") /\ Mountable(image[slot])
    /\ mode' = "system"
    /\ gate' = GateStart
    /\ UNCHANGED <<vol, image, verified, slot, boot, upg, lan, bounds>>

(* Any of ubiblock, mount and pivot_root may also fail on a sound image.   *)
TryFails ==
    /\ Bootstrap("try")
    /\ \/ ~Mountable(image[slot]) /\ UNCHANGED faults
       \/ Fault
    /\ boot' = [boot EXCEPT !.pc = "reject"]
    /\ UNCHANGED <<vol, image, verified, mode, slot, gate, upg, lan,
                   uploads, requests, reboots>>

Reject ==
    /\ Bootstrap("reject") /\ IsBooting(vol, slot)
    /\ vol' = Rejected(vol, slot)
    /\ slot' = NoSlot
    /\ boot' = [pc |-> "prepare", tries |-> boot.tries + 1]
    /\ IF boot.tries + 1 < 2
       THEN UNCHANGED <<mode, gate>>
       ELSE mode' = "recovery" /\ gate' = GateStart
    /\ UNCHANGED <<image, verified, upg, lan, bounds>>

(* ubiupdatevol fails: `set -e' ends the command and the loop breaks. *)
BootstrapWriteFails ==
    /\ mode = "boot"
    /\ \/ boot.pc = "prepare" /\ Bootable(vol)
       \/ boot.pc = "reject" /\ IsBooting(vol, slot)
    /\ Fault
    /\ vol' \in {vol, Invalid}
    /\ EnterRecovery
    /\ UNCHANGED <<uploads, requests, reboots>>

-----------------------------------------------------------------------------
(* The health gate of the started system or of recovery.                   *)

Gate(pc) == Up /\ gate.pc = pc
GateOnly == UNCHANGED <<image, verified, mode, slot, boot, upg, lan>>

(* boot_health_mode: `a:a:*' and `b:b:*' are trials, a slot booting with   *)
(* nothing pending or nothing booting is an accepted system.               *)
HealthMode ==
    IF mode = "recovery" THEN "recovery"
    ELSE IF vol = Invalid THEN "unknown"
    ELSE IF TrialUnaccepted(vol) THEN "trial"
    ELSE IF vol.pending = NoSlot /\ vol.booting \in {NoSlot, vol.active}
         THEN "accepted"
    ELSE "unknown"

(* Variant: accepted systems must pass the gate of a trial. *)
BootHealthyStrict(services) ==
    lan /\ HealthMode # "unknown" /\ (mode = "system" => services)

(* services: radios, rpcd, uhttpd, LuCI files and transmit power. *)
BootHealthy(services) ==
    /\ lan
    /\ HealthMode # "unknown"
    /\ HealthMode = "trial" => services

GateCheck ==
    /\ Gate("watch") /\ gate.elapsed < HealthChecks
    /\ \E services \in BOOLEAN :
         /\ services /\ mode = "system" => image[slot] # "sick"
         /\ gate' =
              IF ~BootHealthy(services)
              THEN [gate EXCEPT !.stable = 0, !.elapsed = @ + 1]
              ELSE IF gate.stable + 1 >= StableChecks
                   THEN [gate EXCEPT !.pc = "accept", !.stable = @ + 1]
                   ELSE [gate EXCEPT !.stable = @ + 1, !.elapsed = @ + 1]
    /\ GateOnly /\ UNCHANGED <<vol, bounds>>

GateTimeout ==
    /\ Gate("watch") /\ gate.elapsed >= HealthChecks
    /\ gate' = [gate EXCEPT !.pc = "reboot"]
    /\ GateOnly /\ UNCHANGED <<vol, bounds>>

(* Variant: recovery is not told apart. *)
AcceptNextAnyRoot ==
    IF IsBooting(vol, NoSlot) THEN "mark"
    ELSE IF vol = Invalid THEN "reboot" ELSE "commit"

(* accept_boot: recovery has nothing to accept, a record with nothing      *)
(* booting already is accepted, an unreadable one cannot be.               *)
AcceptNext ==
    IF mode = "recovery" \/ IsBooting(vol, NoSlot) THEN "mark"
    ELSE IF vol = Invalid THEN "reboot" ELSE "commit"

AcceptRead ==
    /\ Gate("accept")
    /\ gate' = [gate EXCEPT !.pc = AcceptNext,
                !.slot = IF AcceptNext = "commit" THEN vol.booting ELSE NoSlot]
    /\ GateOnly /\ UNCHANGED <<vol, bounds>>

AcceptCommit ==
    /\ Gate("commit")
    /\ IF MayAccept(vol, gate.slot)
       THEN vol' = Accepted(gate.slot) /\ gate' = [gate EXCEPT !.pc = "mark"]
       ELSE UNCHANGED vol /\ gate' = [gate EXCEPT !.pc = "reboot"]
    /\ GateOnly /\ UNCHANGED bounds

AcceptWriteFails ==
    /\ Gate("commit") /\ MayAccept(vol, gate.slot)
    /\ Fault
    /\ vol' \in {vol, Invalid}
    /\ gate' = [gate EXCEPT !.pc = "reboot"]
    /\ GateOnly /\ UNCHANGED <<uploads, requests, reboots>>

(* The marker file and the boot counter; if either cannot be written the   *)
(* gate reboots although the record is already accepted.                   *)
MarkAccepted ==
    /\ Gate("mark")
    /\ \/ gate' = [gate EXCEPT !.pc = "done"] /\ UNCHANGED faults
       \/ gate' = [gate EXCEPT !.pc = "reboot"] /\ Fault
    /\ GateOnly /\ UNCHANGED <<vol, uploads, requests, reboots>>

RollbackReboot ==
    /\ Gate("reboot")
    /\ Halt /\ UNCHANGED <<faults, requests, reboots>>

(* A LAN that fails, or comes back. *)
LanFails ==
    /\ lan /\ Up /\ Fault
    /\ lan' = FALSE
    /\ UNCHANGED <<vol, image, verified, mode, slot, boot, gate, upg,
                   uploads, requests, reboots>>

LanRecovers ==
    /\ ~lan
    /\ lan' = TRUE
    /\ UNCHANGED <<vol, image, verified, mode, slot, boot, gate, upg, bounds>>

-----------------------------------------------------------------------------
(* The updater, one at a time.                                             *)

Updater(pc) == Up /\ upg.pc = pc
UpdaterOnly == UNCHANGED <<mode, slot, boot, gate, lan>>

(* Variant: the updater does not compare its slot with the accepted one. *)
MayUpdateAny(s) == mode = "system" => vol # Invalid /\ vol.booting = NoSlot

(* Reads the record once and picks its slot: never the accepted one in a   *)
(* system, which must have nothing booting; any one in recovery.           *)
MayUpdate(s) ==
    mode = "system" => vol # Invalid /\ vol.booting = NoSlot /\ s # vol.active

UpgradeStart ==
    /\ Updater("idle") /\ uploads < MaxUploads
    /\ \E s \in Slots, k \in Kinds :
         /\ MayUpdate(s)
         /\ upg' = [pc |-> "write", slot |-> s, kind |-> k,
                    rec |-> mode = "recovery"]
    /\ uploads' = uploads + 1
    /\ UpdaterOnly /\ UNCHANGED <<vol, image, verified, faults, requests, reboots>>

(* ubiupdatevol refuses a volume that is mounted, and the updater dies. *)
UpgradeWrite ==
    /\ Updater("write")
    /\ IF upg.slot = slot
       THEN upg' = NoUpgrade /\ UNCHANGED <<image, verified>>
       ELSE /\ image' = [image EXCEPT ![upg.slot] = upg.kind]
            /\ verified' = verified \ {upg.slot}
            /\ upg' = [upg EXCEPT !.pc = "verify"]
    /\ UpdaterOnly /\ UNCHANGED <<vol, bounds>>

(* Readback hash, mount, compatibility, and a read of every file. *)
UpgradeVerify ==
    /\ Updater("verify")
    /\ IF FullyReadable(image[upg.slot])
       THEN /\ verified' = verified \cup {upg.slot}
            /\ upg' = [upg EXCEPT !.pc = "mark"]
       ELSE upg' = NoUpgrade /\ UNCHANGED verified
    /\ UpdaterOnly /\ UNCHANGED <<vol, image, bounds>>

UpgradeMark ==
    /\ Updater("mark")
    /\ IF upg.rec \/ MayStage(vol, upg.slot)
       THEN /\ vol' = IF upg.rec THEN Activated(upg.slot)
                      ELSE Staged(vol, upg.slot)
            /\ upg' \in {[upg EXCEPT !.pc = "reboot"], NoUpgrade}
       ELSE UNCHANGED vol /\ upg' = NoUpgrade
    /\ UpdaterOnly /\ UNCHANGED <<image, verified, bounds>>

UpgradeWriteFails ==
    /\ Updater("mark")
    /\ Fault
    /\ vol' \in {vol, Invalid}
    /\ upg' = NoUpgrade
    /\ UpdaterOnly
    /\ UNCHANGED <<image, verified, uploads, requests, reboots>>

UpgradeReboot ==
    /\ Updater("reboot")
    /\ Halt /\ UNCHANGED <<faults, requests, reboots>>

-----------------------------------------------------------------------------
(* The administrator: rg-ma2820-peer recovery and retry, a factory reset   *)
(* (retry, erase, reboot) and a plain reboot.  Each command is a request   *)
(* of its own, so a reset whose erase fails stops after retry.             *)

Request == Up /\ requests < MaxRequests /\ requests' = requests + 1
RecordOnly ==
    UNCHANGED <<image, verified, mode, slot, boot, gate, upg, lan, faults,
                uploads, reboots>>

RequestRecovery ==
    Request /\ vol' = RecoveryRequested(vol) /\ RecordOnly

RequestRetry ==
    Request /\ vol # Invalid /\ vol' = Retried(vol) /\ RecordOnly

RequestCutOff ==
    Request /\ Fault /\ HaltLeaving(Invalid) /\ UNCHANGED reboots

RequestReboot ==
    Request /\ Halt /\ UNCHANGED <<faults, reboots>>

(* A reboot by someone who waited for the gate and the updater. *)
Reboot ==
    /\ Gate("done") /\ upg.pc = "idle" /\ reboots < MaxReboots
    /\ reboots' = reboots + 1
    /\ Halt /\ UNCHANGED <<faults, requests>>

-----------------------------------------------------------------------------
BootstrapNext ==
    \/ PrepareRefused \/ PrepareFailActive \/ PrepareDropPending
    \/ PrepareStart \/ TrySystem \/ TryFails \/ Reject \/ BootstrapWriteFails

GateNext ==
    \/ GateCheck \/ GateTimeout \/ AcceptRead \/ AcceptCommit
    \/ AcceptWriteFails \/ MarkAccepted \/ RollbackReboot

UpgradeNext ==
    \/ UpgradeStart \/ UpgradeWrite \/ UpgradeVerify \/ UpgradeMark
    \/ UpgradeWriteFails \/ UpgradeReboot

Next ==
    \/ PowerOn \/ PowerLoss \/ BootstrapNext \/ GateNext \/ UpgradeNext
    \/ LanFails \/ LanRecovers
    \/ RequestRecovery \/ RequestRetry \/ RequestCutOff \/ RequestReboot
    \/ Reboot

Spec == Init /\ [][Next]_vars

(* Programs that have started keep running and power comes back; nobody    *)
(* has to start an update or a request, and the LAN, not the radios, comes *)
(* back in the end.                                                        *)
Fairness ==
    /\ WF_vars(PowerOn) /\ WF_vars(BootstrapNext) /\ WF_vars(GateNext)
    /\ WF_vars(UpgradeNext /\ upg.pc # "idle") /\ WF_vars(LanRecovers)

FairSpec == Spec /\ Fairness

-----------------------------------------------------------------------------
(* Every variable stays in its range. *)
TypeOK ==
    /\ vol \in Volume
    /\ image \in [Slots -> Kinds]
    /\ verified \subseteq Slots
    /\ mode \in {"off", "boot", "system", "recovery"}
    /\ slot \in SlotOrNone
    /\ boot \in [pc : {"prepare", "try", "reject"}, tries : Nat]
    /\ gate \in [pc : {"watch", "accept", "commit", "mark", "done", "reboot"},
                 stable : Nat, elapsed : Nat, slot : SlotOrNone]
    /\ upg \in [pc : {"idle", "write", "verify", "mark", "reboot"},
                slot : SlotOrNone, kind : Kinds, rec : BOOLEAN]
    /\ lan \in BOOLEAN
    /\ faults \in Nat /\ uploads \in Nat /\ requests \in Nat /\ reboots \in Nat

(* Whatever the order of commands, failures and power losses, a readable   *)
(* record is coherent: what is pending is not already active, the current  *)
(* boot attempt is the slot the record selects, and a requested recovery   *)
(* leaves no attempt open.  accept's and stage's refusals rely on it.      *)
RecordCoherent == vol # Invalid => RecordInv(vol)

(* The attempt that is open in the record is the system that is running,   *)
(* so what the health gate accepts is what it watched.                     *)
BootingIsRunning ==
    mode = "system" =>
        /\ vol # Invalid => vol.booting \in {NoSlot, slot}
        /\ gate.pc = "commit" => gate.slot = slot

Selected == mode = "boot" /\ boot.pc # "prepare"

(* Who holds which slot: PID 1 from prepare to the start or the rejection,  *)
(* then the running system; the gate commits only what runs; an updater    *)
(* knows its slot, which in a system is not the accepted one.              *)
SlotHeld ==
    /\ slot \in Slots <=> mode = "system" \/ Selected
    /\ Selected => Bootable(vol) /\ IsBooting(vol, slot)
    /\ gate.pc = "commit" => mode = "system" /\ gate.slot = slot
    /\ upg.pc # "idle" => Up /\ upg.slot \in Slots
    /\ mode = "system" /\ upg.pc = "write" =>
         IsBooting(vol, NoSlot) /\ upg.slot # vol.active

(* The updater of a running system never alters the slot the device would  *)
(* fall back to, although it reads the record once, long before it writes. *)
AcceptedUntouched ==
    [][\A s \in Slots :
         image'[s] # image[s] /\ mode = "system" /\ vol # Invalid
           => s # vol.active]_vars

(* A bad image alone, of any kind and however often it is tried, never     *)
(* costs the device its system: without faults or administrator requests,  *)
(* no image and no radio trouble leads to recovery.                        *)
BadImageNeverStrands ==
    faults = 0 /\ requests = 0 => mode # "recovery"

(* After the last fault the device comes to rest in a system or a recovery *)
(* that its gate has passed, even if its radios never work: no reboot loop.*)
Settles == <>[](Up /\ gate.pc = "done")

(* A boot needs a credit and spends it (BootCredit). *)
Phase == IF Up THEN "up" ELSE IF mode = "boot" THEN "boot" ELSE "down"

Abstract == INSTANCE BootCredit WITH phase <- Phase, credit <- Credit(vol)

(* No slot is started twice without an approval in between. *)
OneStartPerCredit == Abstract!Spec

(* ARCHITECTURE.md: an update writes, reads back, mounts and fully reads   *)
(* the new image before it marks the one trial boot, so a trial boot runs  *)
(* an image that passed.                                                   *)
TrialIsVerified ==
    mode = "system" /\ vol # Invalid =>
        (TrialUnaccepted(vol) => slot \in verified)

=============================================================================
