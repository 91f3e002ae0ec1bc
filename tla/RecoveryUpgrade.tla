--------------------------- MODULE RecoveryUpgrade ---------------------------
(***************************************************************************)
(* rg-ma2820-recovery-upgrade: the one program that rewrites the immutable *)
(* recovery volume.  It keeps a copy of the volume in RAM, writes the      *)
(* image, checks it, and puts the copy back from its EXIT trap when it     *)
(* ends with the new image unchecked.  The trap itself is not protected:   *)
(* it begins by giving INT and TERM their default action back.             *)
(*                                                                         *)
(* Left out: power loss and SIGKILL during the write, which the program    *)
(* announces as unrecoverable.  A volume can be updated only while it is   *)
(* not mounted, a block device removed only then and created only once.    *)
(***************************************************************************)
EXTENDS Naturals

CONSTANTS
    MaxFaults,   \* bound: flash, mount and memory operations that fail
    MaxSignals   \* bound: INT or TERM sent to the program

ASSUME RecoveryBounds == MaxFaults \in Nat /\ MaxSignals \in Nat

VARIABLES
    volume,    \* what volume 0 holds
    image,     \* the kind of image the program was given
    backup,    \* the copy in RAM
    attached,  \* whether the block device of the volume exists
    mount,     \* whether it is mounted at MOUNTPOINT
    pc,        \* the next command of the program
    flags,     \* its variables mounted, block_created and restore_pending
    status,    \* its exit status: "none" while it runs
    critical,  \* whether it has announced that the restoration failed
    signalled, \* a signal its shell has not acted on
    faults, signals

vars == <<volume, image, backup, attached, mount, pc, flags, status, critical,
          signalled, faults, signals>>

(* "good" passes every check; "foreign" has a wrong identity, release or   *)
(* content; "damaged" mounts but cannot be read in full; "unmountable".    *)
Images == {"good", "foreign", "damaged", "unmountable"}
Contents == {"original", "candidate", "torn"}
Flags == [mounted : BOOLEAN, block_created : BOOLEAN, restore_pending : BOOLEAN]

Main == {"backup", "detach", "pend", "write", "readback", "attach", "own_block",
         "mount", "own_mount", "inspect", "unmount", "unown_mount", "unpend",
         "discard"}
Handler == {"release_mount", "release_block", "restore", "compare", "reattach"}

Init ==
    /\ volume = "original" /\ image \in Images
    /\ backup = "none"
    /\ attached \in BOOLEAN /\ mount = FALSE
    /\ pc = "backup"
    /\ flags = [mounted |-> FALSE, block_created |-> FALSE,
                restore_pending |-> FALSE]
    /\ status = "none" /\ critical = FALSE
    /\ signalled = FALSE
    /\ faults = 0 /\ signals = 0

Fault == faults < MaxFaults /\ faults' = faults + 1

(* The program acts on a signal between two commands. *)
At(step) == pc = step /\ ~(signalled /\ step \in Main)
Device == <<volume, attached, mount>>
Rest == <<image, signalled, signals>>

Then(step) == pc' = step /\ UNCHANGED <<status, critical>>
(* Variant: the handler resets the traps before it keeps $?. *)
AbortAsDone == pc' = "release_mount" /\ status' = "done" /\ UNCHANGED critical
(* `die', a failed command under `set -e', or `exit 130': the EXIT trap. *)
Abort == pc' = "release_mount" /\ status' = "failed" /\ UNCHANGED critical

-----------------------------------------------------------------------------
(* The signals.  The main program is left between two commands, or with    *)
(* the command it runs killed beside it; the EXIT trap follows.            *)

Signal ==
    /\ pc \in Main /\ signals < MaxSignals
    /\ signals' = signals + 1 /\ signalled' = TRUE
    /\ UNCHANGED <<volume, image, backup, attached, mount, pc, flags, status,
                   critical, faults>>

Interrupted ==
    /\ signalled /\ pc \in Main
    /\ signalled' = FALSE
    /\ Abort
    /\ \/ UNCHANGED <<volume, backup>>
       \/ pc = "write" /\ ~mount /\ volume' = "torn" /\ UNCHANGED backup
       \/ pc = "backup" /\ backup' = "partial" /\ UNCHANGED volume
    /\ UNCHANGED <<image, attached, mount, flags, faults, signals>>

(* In the EXIT trap the first signal kills the program, without a word and *)
(* in the middle of a restoration.  A command that it runs may go on alone *)
(* to its end, which is the same as a signal after it.                     *)
Killed ==
    /\ pc \in Handler /\ signals < MaxSignals
    /\ signals' = signals + 1
    /\ pc' = "killed" /\ status' = "failed"
    /\ volume' \in IF pc = "restore" /\ ~mount THEN {volume, "torn"} ELSE {volume}
    /\ UNCHANGED <<image, backup, attached, mount, flags, critical, signalled,
                   faults>>

-----------------------------------------------------------------------------
(* The program, after the checks of its arguments and of the image file.   *)

Backup ==
    /\ At("backup")
    /\ \/ backup' = "whole" /\ Then("detach") /\ UNCHANGED faults
       \/ backup' = "partial" /\ Abort /\ Fault
    /\ UNCHANGED <<Device, flags, Rest>>

(* `ubiblock --remove ... || [ ! -e $BLOCK ] || die' *)
Detach ==
    /\ At("detach")
    /\ \/ attached' = FALSE /\ Then("pend") /\ UNCHANGED faults
       \/ attached /\ UNCHANGED attached /\ Abort /\ Fault
    /\ UNCHANGED <<volume, mount, backup, flags, Rest>>

Pend ==
    /\ At("pend")
    /\ flags' = [flags EXCEPT !.restore_pending = TRUE]
    /\ Then("write")
    /\ UNCHANGED <<Device, backup, faults, Rest>>

Write ==
    /\ At("write")
    /\ \/ volume' = "candidate" /\ Then("readback") /\ UNCHANGED faults
       \/ volume' = "torn" /\ Abort /\ Fault
    /\ UNCHANGED <<attached, mount, backup, flags, Rest>>

(* A write that went wrong unnoticed shows in the hash read back. *)
Readback ==
    /\ At("readback")
    /\ \/ Then("attach") /\ UNCHANGED <<volume, faults>>
       \/ volume' = "torn" /\ Abort /\ Fault
    /\ UNCHANGED <<attached, mount, backup, flags, Rest>>

(* The commands that change the device and the assignments that record it  *)
(* are steps of their own: a signal may come between them.                 *)
Attach ==
    /\ At("attach")
    /\ \/ ~attached /\ attached' = TRUE /\ Then("own_block") /\ UNCHANGED faults
       \/ UNCHANGED attached /\ Abort /\ Fault
    /\ UNCHANGED <<volume, mount, backup, flags, Rest>>

OwnBlock ==
    /\ At("own_block")
    /\ flags' = [flags EXCEPT !.block_created = TRUE]
    /\ Then("mount")
    /\ UNCHANGED <<Device, backup, faults, Rest>>

Mount ==
    /\ At("mount")
    /\ \/ /\ image # "unmountable"
          /\ mount' = TRUE /\ Then("own_mount") /\ UNCHANGED faults
       \/ image = "unmountable" /\ Abort /\ UNCHANGED <<mount, faults>>
       \/ Abort /\ Fault /\ UNCHANGED mount
    /\ UNCHANGED <<volume, attached, backup, flags, Rest>>

OwnMount ==
    /\ At("own_mount")
    /\ flags' = [flags EXCEPT !.mounted = TRUE]
    /\ Then("inspect")
    /\ UNCHANGED <<Device, backup, faults, Rest>>

(* Variant: nothing but the mount is checked. *)
InspectMountOnly ==
    /\ At("inspect")
    /\ Then("unmount")
    /\ UNCHANGED <<Device, backup, flags, faults, Rest>>

(* Identity, format, release, tools, keys, credentials, services, and the  *)
(* full read.                                                              *)
Inspect ==
    /\ At("inspect")
    /\ \/ image = "good" /\ Then("unmount") /\ UNCHANGED faults
       \/ image # "good" /\ Abort /\ UNCHANGED faults
       \/ Abort /\ Fault
    /\ UNCHANGED <<Device, backup, flags, Rest>>

(* Variant: `umount ... || true', as in the trap. *)
UnmountAnyway ==
    /\ At("unmount")
    /\ \/ mount' = FALSE /\ UNCHANGED faults
       \/ UNCHANGED mount /\ Fault
    /\ Then("unown_mount")
    /\ UNCHANGED <<volume, attached, backup, flags, Rest>>

Unmount ==
    /\ At("unmount")
    /\ \/ mount' = FALSE /\ Then("unown_mount") /\ UNCHANGED faults
       \/ UNCHANGED mount /\ Abort /\ Fault
    /\ UNCHANGED <<volume, attached, backup, flags, Rest>>

UnownMount ==
    /\ At("unown_mount")
    /\ flags' = [flags EXCEPT !.mounted = FALSE, !.block_created = FALSE]
    /\ Then("unpend")
    /\ UNCHANGED <<Device, backup, faults, Rest>>

Unpend ==
    /\ At("unpend")
    /\ flags' = [flags EXCEPT !.restore_pending = FALSE]
    /\ Then("discard")
    /\ UNCHANGED <<Device, backup, faults, Rest>>

(* rm -f BACKUP, then the EXIT trap with status 0. *)
Discard ==
    /\ At("discard")
    /\ backup' = "none"
    /\ pc' = "release_mount" /\ status' = "done" /\ UNCHANGED critical
    /\ UNCHANGED <<Device, flags, faults, Rest>>

-----------------------------------------------------------------------------
(* on_exit: remove_owned_block, then restore_backup.  Its failures are not *)
(* fatal to the handler, which announces them.                             *)

End == pc' = "ended" /\ UNCHANGED <<status, critical>>
Announce == pc' = "ended" /\ status' = "failed" /\ critical' = TRUE

ReleaseMount ==
    /\ At("release_mount")
    /\ \/ ~flags.mounted /\ UNCHANGED <<mount, faults>>
       \/ flags.mounted /\ mount' = FALSE /\ UNCHANGED faults
       \/ flags.mounted /\ UNCHANGED mount /\ Fault
    /\ flags' = [flags EXCEPT !.mounted = FALSE]
    /\ Then("release_block")
    /\ UNCHANGED <<volume, attached, backup, Rest>>

ReleaseBlock ==
    /\ At("release_block")
    /\ attached' = (attached /\ (mount \/ ~flags.block_created))
    /\ flags' = [flags EXCEPT !.block_created = FALSE]
    /\ IF flags.restore_pending THEN Then("restore") ELSE End
    /\ UNCHANGED <<volume, mount, backup, faults, Rest>>

Restore ==
    /\ At("restore")
    /\ \/ /\ ~mount
          /\ volume' = "original" /\ Then("compare") /\ UNCHANGED faults
       \/ mount /\ Announce /\ UNCHANGED <<volume, faults>>
       \/ ~mount /\ volume' = "torn" /\ Announce /\ Fault
    /\ UNCHANGED <<attached, mount, backup, flags, Rest>>

Compare ==
    /\ At("compare")
    /\ \/ Then("reattach") /\ UNCHANGED <<volume, faults>>
       \/ volume' = "torn" /\ Announce /\ Fault
    /\ UNCHANGED <<attached, mount, backup, flags, Rest>>

(* A block device left by a signal before block_created was set is in the  *)
(* way, and a volume that was restored is announced as lost.               *)
Reattach ==
    /\ At("reattach")
    /\ \/ ~attached /\ attached' = TRUE /\ End /\ UNCHANGED faults
       \/ attached /\ Announce /\ UNCHANGED <<attached, faults>>
       \/ Announce /\ Fault /\ UNCHANGED attached
    /\ UNCHANGED <<volume, mount, backup, flags, Rest>>

-----------------------------------------------------------------------------
Program ==
    \/ Backup \/ Detach \/ Pend \/ Write \/ Readback \/ Attach \/ OwnBlock
    \/ Mount \/ OwnMount \/ Inspect \/ Unmount \/ UnownMount \/ Unpend
    \/ Discard \/ ReleaseMount \/ ReleaseBlock \/ Restore \/ Compare
    \/ Reattach

Next == Signal \/ Interrupted \/ Killed \/ Program

Spec == Init /\ [][Next]_vars

-----------------------------------------------------------------------------
(* Every variable stays in its range, and the exit trap runs with a status *)
(* to exit with.                                                           *)
TypeOK ==
    /\ volume \in Contents /\ image \in Images
    /\ backup \in {"none", "partial", "whole"}
    /\ attached \in BOOLEAN /\ mount \in BOOLEAN
    /\ pc \in Main \cup Handler \cup {"ended", "killed"}
    /\ flags \in Flags
    /\ status \in {"none", "done", "failed"} /\ (status = "none" <=> pc \in Main)
    /\ critical \in BOOLEAN /\ signalled \in BOOLEAN
    /\ faults \in Nat /\ signals \in Nat

(* Ended without an alarm, whatever failed and wherever on its way a signal *)
(* came, the program leaves the original recovery or an image that passed   *)
(* every check; and it reports success for such an image only.  This is     *)
(* not said of a program that was killed in its EXIT trap.                  *)
VerifiedOrOriginal ==
    pc = "ended" /\ ~critical =>
        \/ volume = "original" /\ status = "failed"
        \/ volume = "candidate" /\ image = "good"

(* Until the new image has passed, the whole original is in the volume or   *)
(* in RAM: the copy is not given up early, nor ever taken of a new image,   *)
(* also when a signal ends the restoration.                                 *)
OriginalKept ==
    volume = "original" \/ backup = "whole"
        \/ (volume = "candidate" /\ image = "good" /\ ~flags.restore_pending)

(* A volume that is still mounted can neither be rewritten nor restored.    *)
(* Through failing unmounts, and signals between a mount and the flag that  *)
(* records it, the program ends without an alarm only when it is not.       *)
MountedIsAlarmed == pc = "ended" /\ mount => critical

(* The volume never holds anything but the original or a checked image when *)
(* the program has gone without its alarm, however it went.                 *)
NeverSilentlyLost ==
    pc \in {"ended", "killed"} /\ ~critical =>
        \/ volume = "original"
        \/ volume = "candidate" /\ image = "good"
=============================================================================
