----------------------- MODULE RecoveryUpgrade_proofs -----------------------
(***************************************************************************)
(* Safety of RecoveryUpgrade for any number of failures and signals, also  *)
(* in its EXIT trap.                                                       *)
(*                                                                         *)
(* The safety invariants are not inductive: that the volume holds the      *)
(* original or a checked image depends on what the program has recorded    *)
(* (restore_pending, mounted) and on how far it has come.  IInv says what  *)
(* is true of the volume, the copy and the image at each step.             *)
(***************************************************************************)
EXTENDS RecoveryUpgrade, TLAPS

(* The steps before the volume is written, those that leave the new image  *)
(* in it unchecked, and those after every check has passed.                *)
Before == {"backup", "detach", "pend"}
Unchecked == {"readback", "attach", "own_block", "mount", "own_mount", "inspect"}
Checked == {"unmount", "unown_mount", "unpend", "discard"}

(* The main program: the copy is whole before the volume is written, and   *)
(* restore_pending is set exactly while a new image may have to go.        *)
MainInv ==
    /\ pc \in Before => volume = "original" /\ ~flags.restore_pending
    /\ pc = "write" => volume = "original" /\ flags.restore_pending
    /\ pc \in Unchecked => volume = "candidate" /\ flags.restore_pending
    /\ pc \in Checked =>
          /\ volume = "candidate" /\ image = "good"
          /\ flags.restore_pending <=> pc # "discard"
    /\ pc \in Main /\ pc # "backup" => backup = "whole"

(* The exit trap: a copy to restore from whenever a restoration is due,    *)
(* and otherwise nothing to restore.                                       *)
Untouched == volume = "original" /\ status = "failed"
Replaced == volume = "candidate" /\ image = "good"
HandlerInv ==
    /\ pc \in {"release_mount", "release_block"} =>
          IF flags.restore_pending THEN backup = "whole" /\ status = "failed"
          ELSE Untouched \/ Replaced
    /\ pc \in {"restore", "compare", "reattach"} =>
          flags.restore_pending /\ backup = "whole" /\ status = "failed"
    /\ pc \in {"compare", "reattach"} => volume = "original"
    /\ pc = "ended" =>
          IF critical THEN backup = "whole"
          ELSE Untouched \/ (Replaced /\ ~flags.restore_pending)
    /\ pc = "killed" =>
          IF flags.restore_pending THEN backup = "whole"
          ELSE Untouched \/ Replaced
    /\ pc # "ended" => ~critical

IInv == TypeOK /\ MainInv /\ HandlerInv

(* TypeOK in two parts, for the provers.                                   *)
Switches == attached \in BOOLEAN /\ mount \in BOOLEAN /\ critical \in BOOLEAN /\ signalled \in BOOLEAN
Ranges ==
    /\ volume \in Contents /\ image \in Images
    /\ backup \in {"none", "partial", "whole"}
    /\ pc \in Main \cup Handler \cup {"ended", "killed"}
    /\ flags \in Flags
    /\ status \in {"none", "done", "failed"} /\ (status = "none" <=> pc \in Main)
    /\ faults \in Nat /\ signals \in Nat

(* The initial states.                                                     *)
LEMMA InitInv == Init => IInv
<1> SUFFICES ASSUME Init PROVE IInv
  OBVIOUS
<1>1. Switches
  BY DEF Init, Switches
<1>2. Ranges
  BY DEF Init, Ranges, Contents, Flags, Main, Handler
<1>3. MainInv
  BY DEF Init, MainInv, Before, Unchecked, Checked, Main
<1>4. HandlerInv
  BY DEF Init, HandlerInv
<1> QED
  BY <1>1, <1>2, <1>3, <1>4 DEF IInv, TypeOK, Switches, Ranges

(* A signal changes the volume and the copy only while they are written.   *)
LEMMA SignalSteps ==
    ASSUME IInv, Signal \/ Interrupted \/ Killed PROVE IInv'
<1>1. CASE Signal
  <2>1. TypeOK'
    <3>1. Switches'
      BY <1>1 DEF IInv, Signal, Switches, TypeOK
    <3>2. Ranges'
      BY <1>1 DEF IInv, Signal, Ranges, TypeOK, Images, Contents, Flags, Main, Handler
    <3> QED
      BY <3>1, <3>2 DEF TypeOK, Switches, Ranges
  <2>2. MainInv'
    BY <1>1 DEF IInv, Signal, MainInv, Before, Unchecked, Checked, TypeOK, Images, Contents,
                Flags, Main, Handler
  <2>3. HandlerInv'
    BY <1>1 DEF IInv, Signal, MainInv, Before, Unchecked, Checked, HandlerInv, Untouched,
                Replaced, TypeOK, Images, Contents, Flags, Main, Handler
  <2> QED
    BY <2>1, <2>2, <2>3 DEF IInv
<1>2. CASE Interrupted
  <2>1. TypeOK'
    <3>1. Switches'
      BY <1>2 DEF IInv, Interrupted, Abort, Switches, TypeOK
    <3>2. Ranges'
      BY <1>2 DEF IInv, Interrupted, Abort, Ranges, TypeOK, Images, Contents, Flags, Main, Handler
    <3> QED
      BY <3>1, <3>2 DEF TypeOK, Switches, Ranges
  <2>2. MainInv'
    BY <1>2 DEF IInv, Interrupted, Abort, MainInv, Before, Unchecked, Checked, TypeOK,
                Images, Contents, Flags, Main, Handler
  <2>3. HandlerInv'
    BY <1>2 DEF IInv, Interrupted, Abort, MainInv, Before, Unchecked, Checked, HandlerInv,
                Untouched, Replaced, TypeOK, Images, Contents, Flags, Main, Handler
  <2> QED
    BY <2>1, <2>2, <2>3 DEF IInv
<1>3. CASE Killed
  <2>1. TypeOK'
    <3>1. Switches'
      BY <1>3 DEF IInv, Killed, Switches, TypeOK
    <3>2. Ranges'
      <4>1. volume' \in Contents
        BY <1>3 DEF IInv, Killed, TypeOK, Contents
      <4>2. QED
        BY <1>3, <4>1 DEF IInv, Killed, Ranges, TypeOK, Main, Handler
    <3> QED
      BY <3>1, <3>2 DEF TypeOK, Switches, Ranges
  <2>2. MainInv'
    BY <1>3 DEF Killed, MainInv, Before, Unchecked, Checked, Main
  <2>3. HandlerInv'
    BY <1>3 DEF IInv, Killed, HandlerInv, Untouched, Replaced, Handler
  <2> QED
    BY <2>1, <2>2, <2>3 DEF IInv
<1> QED
  BY <1>1, <1>2, <1>3

(* The program up to the new image in the volume.                          *)
LEMMA WriteSteps ==
    ASSUME IInv, Backup \/ Detach \/ Pend \/ Write \/ Readback PROVE IInv'
<1>1. CASE Backup
  <2>1. TypeOK'
    <3>1. Switches'
      BY <1>1 DEF IInv, Backup, At, Then, Abort, Fault, Device, Rest, Switches, TypeOK
    <3>2. Ranges'
      BY <1>1 DEF IInv, Backup, At, Then, Abort, Fault, Device, Rest, Ranges, TypeOK,
                  Images, Contents, Flags, Main, Handler
    <3> QED
      BY <3>1, <3>2 DEF TypeOK, Switches, Ranges
  <2>2. MainInv'
    BY <1>1 DEF IInv, Backup, At, Then, Abort, Fault, Device, Rest, MainInv, Before,
                Unchecked, Checked, TypeOK, Images, Contents, Flags, Main, Handler
  <2>3. HandlerInv'
    BY <1>1 DEF IInv, Backup, At, Then, Abort, Fault, Device, Rest, MainInv, Before,
                Unchecked, Checked, HandlerInv, Untouched, Replaced, TypeOK, Images,
                Contents, Flags, Main, Handler
  <2> QED
    BY <2>1, <2>2, <2>3 DEF IInv
<1>2. CASE Detach
  <2>1. TypeOK'
    <3>1. Switches'
      BY <1>2 DEF IInv, Detach, At, Then, Abort, Fault, Device, Rest, Switches, TypeOK
    <3>2. Ranges'
      BY <1>2 DEF IInv, Detach, At, Then, Abort, Fault, Device, Rest, Ranges, TypeOK,
                  Images, Contents, Flags, Main, Handler
    <3> QED
      BY <3>1, <3>2 DEF TypeOK, Switches, Ranges
  <2>2. MainInv'
    BY <1>2 DEF IInv, Detach, At, Then, Abort, Fault, Device, Rest, MainInv, Before,
                Unchecked, Checked, TypeOK, Images, Contents, Flags, Main, Handler
  <2>3. HandlerInv'
    BY <1>2 DEF IInv, Detach, At, Then, Abort, Fault, Device, Rest, MainInv, Before,
                Unchecked, Checked, HandlerInv, Untouched, Replaced, TypeOK, Images,
                Contents, Flags, Main, Handler
  <2> QED
    BY <2>1, <2>2, <2>3 DEF IInv
<1>3. CASE Pend
  <2>1. TypeOK'
    <3>1. Switches'
      BY <1>3 DEF IInv, Pend, At, Then, Device, Rest, Switches, TypeOK
    <3>2. Ranges'
      BY <1>3 DEF IInv, Pend, At, Then, Device, Rest, Ranges, TypeOK, Images, Contents,
                  Flags, Main, Handler
    <3> QED
      BY <3>1, <3>2 DEF TypeOK, Switches, Ranges
  <2>2. MainInv'
    BY <1>3 DEF IInv, Pend, At, Then, Device, Rest, MainInv, Before, Unchecked, Checked,
                TypeOK, Images, Contents, Flags, Main, Handler
  <2>3. HandlerInv'
    BY <1>3 DEF IInv, Pend, At, Then, Device, Rest, MainInv, Before, Unchecked, Checked,
                HandlerInv, Untouched, Replaced, TypeOK, Images, Contents, Flags, Main,
                Handler
  <2> QED
    BY <2>1, <2>2, <2>3 DEF IInv
<1>4. CASE Write
  <2>1. TypeOK'
    <3>1. Switches'
      BY <1>4 DEF IInv, Write, At, Then, Abort, Fault, Device, Rest, Switches, TypeOK
    <3>2. Ranges'
      BY <1>4 DEF IInv, Write, At, Then, Abort, Fault, Device, Rest, Ranges, TypeOK, Images,
                  Contents, Flags, Main, Handler
    <3> QED
      BY <3>1, <3>2 DEF TypeOK, Switches, Ranges
  <2>2. MainInv'
    BY <1>4 DEF IInv, Write, At, Then, Abort, Fault, Device, Rest, MainInv, Before,
                Unchecked, Checked, TypeOK, Images, Contents, Flags, Main, Handler
  <2>3. HandlerInv'
    BY <1>4 DEF IInv, Write, At, Then, Abort, Fault, Device, Rest, MainInv, Before,
                Unchecked, Checked, HandlerInv, Untouched, Replaced, TypeOK, Images,
                Contents, Flags, Main, Handler
  <2> QED
    BY <2>1, <2>2, <2>3 DEF IInv
<1>5. CASE Readback
  <2>1. TypeOK'
    <3>1. Switches'
      BY <1>5 DEF IInv, Readback, At, Then, Abort, Fault, Device, Rest, Switches, TypeOK
    <3>2. Ranges'
      BY <1>5 DEF IInv, Readback, At, Then, Abort, Fault, Device, Rest, Ranges, TypeOK,
                  Images, Contents, Flags, Main, Handler
    <3> QED
      BY <3>1, <3>2 DEF TypeOK, Switches, Ranges
  <2>2. MainInv'
    BY <1>5 DEF IInv, Readback, At, Then, Abort, Fault, Device, Rest, MainInv, Before,
                Unchecked, Checked, TypeOK, Images, Contents, Flags, Main, Handler
  <2>3. HandlerInv'
    BY <1>5 DEF IInv, Readback, At, Then, Abort, Fault, Device, Rest, MainInv, Before,
                Unchecked, Checked, HandlerInv, Untouched, Replaced, TypeOK, Images,
                Contents, Flags, Main, Handler
  <2> QED
    BY <2>1, <2>2, <2>3 DEF IInv
<1> QED
  BY <1>1, <1>2, <1>3, <1>4, <1>5

(* The checks of the new image, in the volume.                             *)
LEMMA CheckSteps ==
    ASSUME IInv, Attach \/ OwnBlock \/ Mount \/ OwnMount \/ Inspect PROVE IInv'
<1>1. CASE Attach
  <2>1. TypeOK'
    <3>1. Switches'
      BY <1>1 DEF IInv, Attach, At, Then, Abort, Fault, Device, Rest, Switches, TypeOK
    <3>2. Ranges'
      BY <1>1 DEF IInv, Attach, At, Then, Abort, Fault, Device, Rest, Ranges, TypeOK,
                  Images, Contents, Flags, Main, Handler
    <3> QED
      BY <3>1, <3>2 DEF TypeOK, Switches, Ranges
  <2>2. MainInv'
    BY <1>1 DEF IInv, Attach, At, Then, Abort, Fault, Device, Rest, MainInv, Before,
                Unchecked, Checked, TypeOK, Images, Contents, Flags, Main, Handler
  <2>3. HandlerInv'
    BY <1>1 DEF IInv, Attach, At, Then, Abort, Fault, Device, Rest, MainInv, Before,
                Unchecked, Checked, HandlerInv, Untouched, Replaced, TypeOK, Images,
                Contents, Flags, Main, Handler
  <2> QED
    BY <2>1, <2>2, <2>3 DEF IInv
<1>2. CASE OwnBlock
  <2>1. TypeOK'
    <3>1. Switches'
      BY <1>2 DEF IInv, OwnBlock, At, Then, Device, Rest, Switches, TypeOK
    <3>2. Ranges'
      BY <1>2 DEF IInv, OwnBlock, At, Then, Device, Rest, Ranges, TypeOK, Images, Contents,
                  Flags, Main, Handler
    <3> QED
      BY <3>1, <3>2 DEF TypeOK, Switches, Ranges
  <2>2. MainInv'
    BY <1>2 DEF IInv, OwnBlock, At, Then, Device, Rest, MainInv, Before, Unchecked, Checked,
                TypeOK, Images, Contents, Flags, Main, Handler
  <2>3. HandlerInv'
    BY <1>2 DEF IInv, OwnBlock, At, Then, Device, Rest, MainInv, Before, Unchecked, Checked,
                HandlerInv, Untouched, Replaced, TypeOK, Images, Contents, Flags, Main,
                Handler
  <2> QED
    BY <2>1, <2>2, <2>3 DEF IInv
<1>3. CASE Mount
  <2>1. TypeOK'
    <3>1. Switches'
      BY <1>3 DEF IInv, Mount, At, Then, Abort, Fault, Device, Rest, Switches, TypeOK
    <3>2. Ranges'
      BY <1>3 DEF IInv, Mount, At, Then, Abort, Fault, Device, Rest, Ranges, TypeOK, Images,
                  Contents, Flags, Main, Handler
    <3> QED
      BY <3>1, <3>2 DEF TypeOK, Switches, Ranges
  <2>2. MainInv'
    BY <1>3 DEF IInv, Mount, At, Then, Abort, Fault, Device, Rest, MainInv, Before,
                Unchecked, Checked, TypeOK, Images, Contents, Flags, Main, Handler
  <2>3. HandlerInv'
    BY <1>3 DEF IInv, Mount, At, Then, Abort, Fault, Device, Rest, MainInv, Before,
                Unchecked, Checked, HandlerInv, Untouched, Replaced, TypeOK, Images,
                Contents, Flags, Main, Handler
  <2> QED
    BY <2>1, <2>2, <2>3 DEF IInv
<1>4. CASE OwnMount
  <2>1. TypeOK'
    <3>1. Switches'
      BY <1>4 DEF IInv, OwnMount, At, Then, Device, Rest, Switches, TypeOK
    <3>2. Ranges'
      BY <1>4 DEF IInv, OwnMount, At, Then, Device, Rest, Ranges, TypeOK, Images, Contents,
                  Flags, Main, Handler
    <3> QED
      BY <3>1, <3>2 DEF TypeOK, Switches, Ranges
  <2>2. MainInv'
    BY <1>4 DEF IInv, OwnMount, At, Then, Device, Rest, MainInv, Before, Unchecked, Checked,
                TypeOK, Images, Contents, Flags, Main, Handler
  <2>3. HandlerInv'
    BY <1>4 DEF IInv, OwnMount, At, Then, Device, Rest, MainInv, Before, Unchecked, Checked,
                HandlerInv, Untouched, Replaced, TypeOK, Images, Contents, Flags, Main,
                Handler
  <2> QED
    BY <2>1, <2>2, <2>3 DEF IInv
<1>5. CASE Inspect
  <2>1. TypeOK'
    <3>1. Switches'
      BY <1>5 DEF IInv, Inspect, At, Then, Abort, Fault, Device, Rest, Switches, TypeOK
    <3>2. Ranges'
      BY <1>5 DEF IInv, Inspect, At, Then, Abort, Fault, Device, Rest, Ranges, TypeOK,
                  Images, Contents, Flags, Main, Handler
    <3> QED
      BY <3>1, <3>2 DEF TypeOK, Switches, Ranges
  <2>2. MainInv'
    BY <1>5 DEF IInv, Inspect, At, Then, Abort, Fault, Device, Rest, MainInv, Before,
                Unchecked, Checked, TypeOK, Images, Contents, Flags, Main, Handler
  <2>3. HandlerInv'
    BY <1>5 DEF IInv, Inspect, At, Then, Abort, Fault, Device, Rest, MainInv, Before,
                Unchecked, Checked, HandlerInv, Untouched, Replaced, TypeOK, Images,
                Contents, Flags, Main, Handler
  <2> QED
    BY <2>1, <2>2, <2>3 DEF IInv
<1> QED
  BY <1>1, <1>2, <1>3, <1>4, <1>5

(* What follows a check that has passed.                                   *)
LEMMA LastSteps ==
    ASSUME IInv, Unmount \/ UnownMount \/ Unpend \/ Discard PROVE IInv'
<1>1. CASE Unmount
  <2>1. TypeOK'
    <3>1. Switches'
      BY <1>1 DEF IInv, Unmount, At, Then, Abort, Fault, Device, Rest, Switches, TypeOK
    <3>2. Ranges'
      BY <1>1 DEF IInv, Unmount, At, Then, Abort, Fault, Device, Rest, Ranges, TypeOK,
                  Images, Contents, Flags, Main, Handler
    <3> QED
      BY <3>1, <3>2 DEF TypeOK, Switches, Ranges
  <2>2. MainInv'
    BY <1>1 DEF IInv, Unmount, At, Then, Abort, Fault, Device, Rest, MainInv, Before,
                Unchecked, Checked, TypeOK, Images, Contents, Flags, Main, Handler
  <2>3. HandlerInv'
    BY <1>1 DEF IInv, Unmount, At, Then, Abort, Fault, Device, Rest, MainInv, Before,
                Unchecked, Checked, HandlerInv, Untouched, Replaced, TypeOK, Images,
                Contents, Flags, Main, Handler
  <2> QED
    BY <2>1, <2>2, <2>3 DEF IInv
<1>2. CASE UnownMount
  <2>1. TypeOK'
    <3>1. Switches'
      BY <1>2 DEF IInv, UnownMount, At, Then, Device, Rest, Switches, TypeOK
    <3>2. Ranges'
      BY <1>2 DEF IInv, UnownMount, At, Then, Device, Rest, Ranges, TypeOK, Images,
                  Contents, Flags, Main, Handler
    <3> QED
      BY <3>1, <3>2 DEF TypeOK, Switches, Ranges
  <2>2. MainInv'
    BY <1>2 DEF IInv, UnownMount, At, Then, Device, Rest, MainInv, Before, Unchecked,
                Checked, TypeOK, Images, Contents, Flags, Main, Handler
  <2>3. HandlerInv'
    BY <1>2 DEF IInv, UnownMount, At, Then, Device, Rest, MainInv, Before, Unchecked,
                Checked, HandlerInv, Untouched, Replaced, TypeOK, Images, Contents, Flags,
                Main, Handler
  <2> QED
    BY <2>1, <2>2, <2>3 DEF IInv
<1>3. CASE Unpend
  <2>1. TypeOK'
    <3>1. Switches'
      BY <1>3 DEF IInv, Unpend, At, Then, Device, Rest, Switches, TypeOK
    <3>2. Ranges'
      BY <1>3 DEF IInv, Unpend, At, Then, Device, Rest, Ranges, TypeOK, Images, Contents,
                  Flags, Main, Handler
    <3> QED
      BY <3>1, <3>2 DEF TypeOK, Switches, Ranges
  <2>2. MainInv'
    BY <1>3 DEF IInv, Unpend, At, Then, Device, Rest, MainInv, Before, Unchecked, Checked,
                TypeOK, Images, Contents, Flags, Main, Handler
  <2>3. HandlerInv'
    BY <1>3 DEF IInv, Unpend, At, Then, Device, Rest, MainInv, Before, Unchecked, Checked,
                HandlerInv, Untouched, Replaced, TypeOK, Images, Contents, Flags, Main,
                Handler
  <2> QED
    BY <2>1, <2>2, <2>3 DEF IInv
<1>4. CASE Discard
  <2>1. TypeOK'
    <3>1. Switches'
      BY <1>4 DEF IInv, Discard, At, Device, Rest, Switches, TypeOK
    <3>2. Ranges'
      BY <1>4 DEF IInv, Discard, At, Device, Rest, Ranges, TypeOK, Images, Contents, Flags,
                  Main, Handler
    <3> QED
      BY <3>1, <3>2 DEF TypeOK, Switches, Ranges
  <2>2. MainInv'
    BY <1>4 DEF IInv, Discard, At, Device, Rest, MainInv, Before, Unchecked, Checked,
                TypeOK, Images, Contents, Flags, Main, Handler
  <2>3. HandlerInv'
    BY <1>4 DEF IInv, Discard, At, Device, Rest, MainInv, Before, Unchecked, Checked,
                HandlerInv, Untouched, Replaced, TypeOK, Images, Contents, Flags, Main,
                Handler
  <2> QED
    BY <2>1, <2>2, <2>3 DEF IInv
<1> QED
  BY <1>1, <1>2, <1>3, <1>4

(* The exit trap.                                                          *)
LEMMA TrapSteps ==
    ASSUME IInv, ReleaseMount \/ ReleaseBlock \/ Restore \/ Compare \/ Reattach PROVE IInv'
<1>1. CASE ReleaseMount
  <2>1. TypeOK'
    <3>1. Switches'
      BY <1>1 DEF IInv, ReleaseMount, At, Then, Fault, Rest, Switches, TypeOK
    <3>2. Ranges'
      <4>1. flags' \in Flags /\ pc' = "release_block" /\ UNCHANGED <<volume, image, backup, status, signals>>
        BY <1>1 DEF IInv, ReleaseMount, Then, Rest, TypeOK, Flags
      <4>2. faults' \in Nat
        BY <1>1 DEF IInv, ReleaseMount, Fault, TypeOK
      <4> QED
        BY <1>1, <4>1, <4>2 DEF IInv, ReleaseMount, At, Ranges, TypeOK, Main, Handler
    <3> QED
      BY <3>1, <3>2 DEF TypeOK, Switches, Ranges
  <2>2. MainInv'
    BY <1>1 DEF IInv, ReleaseMount, At, Then, Fault, Rest, MainInv, Before, Unchecked,
                Checked, TypeOK, Images, Contents, Flags, Main, Handler
  <2>3. HandlerInv'
    BY <1>1 DEF IInv, ReleaseMount, At, Then, Fault, Rest, MainInv, Before, Unchecked,
                Checked, HandlerInv, Untouched, Replaced, TypeOK, Images, Contents, Flags,
                Main, Handler
  <2> QED
    BY <2>1, <2>2, <2>3 DEF IInv
<1>2. CASE ReleaseBlock
  <2>1. TypeOK'
    <3>1. Switches'
      BY <1>2 DEF IInv, ReleaseBlock, At, Then, End, Rest, Switches, TypeOK
    <3>2. Ranges'
      BY <1>2 DEF IInv, ReleaseBlock, At, Then, End, Rest, Ranges, TypeOK, Images, Contents,
                  Flags, Main, Handler
    <3> QED
      BY <3>1, <3>2 DEF TypeOK, Switches, Ranges
  <2>2. MainInv'
    BY <1>2 DEF IInv, ReleaseBlock, At, Then, End, Rest, MainInv, Before, Unchecked,
                Checked, TypeOK, Images, Contents, Flags, Main, Handler
  <2>3. HandlerInv'
    BY <1>2 DEF IInv, ReleaseBlock, At, Then, End, Rest, MainInv, Before, Unchecked,
                Checked, HandlerInv, Untouched, Replaced, TypeOK, Images, Contents, Flags,
                Main, Handler
  <2> QED
    BY <2>1, <2>2, <2>3 DEF IInv
<1>3. CASE Restore
  <2>1. TypeOK'
    <3>1. Switches'
      BY <1>3 DEF IInv, Restore, At, Then, Announce, Fault, Rest, Switches, TypeOK
    <3>2. Ranges'
      BY <1>3 DEF IInv, Restore, At, Then, Announce, Fault, Rest, Ranges, TypeOK, Images,
                  Contents, Flags, Main, Handler
    <3> QED
      BY <3>1, <3>2 DEF TypeOK, Switches, Ranges
  <2>2. MainInv'
    BY <1>3 DEF IInv, Restore, At, Then, Announce, Fault, Rest, MainInv, Before, Unchecked,
                Checked, TypeOK, Images, Contents, Flags, Main, Handler
  <2>3. HandlerInv'
    BY <1>3 DEF IInv, Restore, At, Then, Announce, Fault, Rest, MainInv, Before, Unchecked,
                Checked, HandlerInv, Untouched, Replaced, TypeOK, Images, Contents, Flags,
                Main, Handler
  <2> QED
    BY <2>1, <2>2, <2>3 DEF IInv
<1>4. CASE Compare
  <2>1. TypeOK'
    <3>1. Switches'
      BY <1>4 DEF IInv, Compare, At, Then, Announce, Fault, Rest, Switches, TypeOK
    <3>2. Ranges'
      BY <1>4 DEF IInv, Compare, At, Then, Announce, Fault, Rest, Ranges, TypeOK, Images,
                  Contents, Flags, Main, Handler
    <3> QED
      BY <3>1, <3>2 DEF TypeOK, Switches, Ranges
  <2>2. MainInv'
    BY <1>4 DEF IInv, Compare, At, Then, Announce, Fault, Rest, MainInv, Before, Unchecked,
                Checked, TypeOK, Images, Contents, Flags, Main, Handler
  <2>3. HandlerInv'
    BY <1>4 DEF IInv, Compare, At, Then, Announce, Fault, Rest, MainInv, Before, Unchecked,
                Checked, HandlerInv, Untouched, Replaced, TypeOK, Images, Contents, Flags,
                Main, Handler
  <2> QED
    BY <2>1, <2>2, <2>3 DEF IInv
<1>5. CASE Reattach
  <2>1. TypeOK'
    <3>1. Switches'
      BY <1>5 DEF IInv, Reattach, At, End, Announce, Fault, Rest, Switches, TypeOK
    <3>2. Ranges'
      BY <1>5 DEF IInv, Reattach, At, End, Announce, Fault, Rest, Ranges, TypeOK, Images,
                  Contents, Flags, Main, Handler
    <3> QED
      BY <3>1, <3>2 DEF TypeOK, Switches, Ranges
  <2>2. MainInv'
    BY <1>5 DEF IInv, Reattach, At, End, Announce, Fault, Rest, MainInv, Before, Unchecked,
                Checked, TypeOK, Images, Contents, Flags, Main, Handler
  <2>3. HandlerInv'
    BY <1>5 DEF IInv, Reattach, At, End, Announce, Fault, Rest, MainInv, Before, Unchecked,
                Checked, HandlerInv, Untouched, Replaced, TypeOK, Images, Contents, Flags,
                Main, Handler
  <2> QED
    BY <2>1, <2>2, <2>3 DEF IInv
<1> QED
  BY <1>1, <1>2, <1>3, <1>4, <1>5

(* Every step.                                                             *)
LEMMA NextInv == IInv /\ [Next]_vars => IInv'
<1> SUFFICES ASSUME IInv, [Next]_vars PROVE IInv'
  OBVIOUS
<1>1. CASE UNCHANGED vars
  BY <1>1 DEF vars, IInv, TypeOK, MainInv, HandlerInv, Untouched, Replaced
<1>2. CASE Signal \/ Interrupted \/ Killed
  BY <1>2, SignalSteps
<1>3. CASE Program
  BY <1>3, WriteSteps, CheckSteps, LastSteps, TrapSteps DEF Program
<1> QED
  BY <1>1, <1>2, <1>3 DEF Next

(* The invariant holds in every reachable state.                           *)
LEMMA Always == Spec => []IInv
BY InitInv, NextInv, PTL DEF Spec

(* Every variable keeps its range, and the exit trap always has a status   *)
(* to exit with.                                                           *)
THEOREM TypeCorrect == Spec => []TypeOK
<1>1. IInv => TypeOK
  BY DEF IInv
<1> QED
  BY <1>1, Always, PTL

(* However often it fails, and is signalled on its way, a program that     *)
(* ends without an alarm leaves the original recovery or an image that     *)
(* passed every check, unless a signal kills it in its EXIT trap.          *)
THEOREM EndsVerified == Spec => []VerifiedOrOriginal
<1>1. IInv => VerifiedOrOriginal
  BY DEF IInv, HandlerInv, Untouched, Replaced, VerifiedOrOriginal
<1> QED
  BY <1>1, Always, PTL

(* Until the new image has passed, the whole original is in the volume or  *)
(* in RAM, also when a signal kills the program in its EXIT trap.          *)
THEOREM OriginalIsKept == Spec => []OriginalKept
<1>1. ASSUME IInv PROVE OriginalKept
  <2>1. CASE pc \in Main
    BY <1>1, <2>1 DEF IInv, MainInv, Main, Before, Unchecked, Checked, OriginalKept
  <2>2. CASE pc \notin Main
    BY <1>1, <2>2 DEF IInv, TypeOK, HandlerInv, Untouched, Replaced, Handler, OriginalKept
  <2> QED
    BY <2>1, <2>2
<1> QED
  BY <1>1, Always, PTL

-----------------------------------------------------------------------------
(* The mount. *)

(* Where the volume may be mounted: while the main program looks at it, and *)
(* in the trap when a restoration is due, which then cannot succeed.        *)
MountInv ==
    mount =>
        /\ pc \in Main => pc \in {"own_mount", "inspect", "unmount"}
        /\ pc \in Handler => pc \in {"release_mount", "release_block", "restore"}
                              /\ flags.restore_pending
        /\ pc = "ended" => critical

LEMMA MountStep == IInv /\ MountInv /\ [Next]_vars => MountInv'
<1> SUFFICES ASSUME IInv, MountInv, [Next]_vars PROVE MountInv'
  OBVIOUS
<1> USE DEF MountInv, Main, Handler, At, Then, Abort, Fault, Device, Rest
<1>1. CASE UNCHANGED vars
  BY <1>1 DEF vars
<1>2. CASE Signal \/ Killed
  BY <1>2 DEF Signal, Killed
<1>3. CASE Interrupted
  BY <1>3 DEF Interrupted, IInv, MainInv, Unchecked, Checked
<1>4. CASE Backup \/ Detach \/ Pend \/ Write \/ Readback
  BY <1>4 DEF Backup, Detach, Pend, Write, Readback
<1>5. CASE Attach \/ OwnBlock
  BY <1>5 DEF Attach, OwnBlock
<1>6. CASE Mount
  BY <1>6 DEF Mount
<1>7. CASE OwnMount
  BY <1>7 DEF OwnMount
<1>8. CASE Inspect
  BY <1>8 DEF Inspect, IInv, MainInv, Unchecked
<1>9. CASE Unmount
  BY <1>9 DEF Unmount, IInv, MainInv, Checked
<1>10. CASE UnownMount \/ Unpend \/ Discard
  BY <1>10 DEF UnownMount, Unpend, Discard
<1>11. CASE ReleaseMount
  BY <1>11 DEF ReleaseMount, IInv, TypeOK, Flags
<1>12. CASE ReleaseBlock
  BY <1>12 DEF ReleaseBlock, End, IInv, TypeOK, Flags
<1>13. CASE Restore
  BY <1>13 DEF Restore, Announce
<1>14. CASE Compare \/ Reattach
  BY <1>14 DEF Compare, Reattach, Announce, End
<1>15. QED
  BY <1>1, <1>2, <1>3, <1>4, <1>5, <1>6, <1>7, <1>8, <1>9, <1>10, <1>11, <1>12,
     <1>13, <1>14 DEF Next, Program

(* Whatever unmount fails and wherever a signal comes, a volume that stays *)
(* mounted is announced.                                                   *)
THEOREM MountAlarmed == Spec => []MountedIsAlarmed
<1>1. Init => MountInv
  BY DEF Init, MountInv
<1>2. MountInv => MountedIsAlarmed
  BY DEF MountInv, MountedIsAlarmed
<1> QED
  BY <1>1, <1>2, MountStep, Always, PTL DEF Spec
=============================================================================
