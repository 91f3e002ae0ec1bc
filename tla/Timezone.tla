------------------------------ MODULE Timezone ------------------------------
(***************************************************************************)
(* rg-ma2820-timezone on the two access points of a pair: setting the time *)
(* zone of one, or of both.  On each access point the command runs at most *)
(* once below its rpcd (slot "own"), and any number of times below sshd    *)
(* for the other one (slots Ssh): a caller that gives up waiting leaves    *)
(* its command running on the peer.                                        *)
(*                                                                         *)
(* The option `timezone' is a function of `zonename' (resolve_zone) and is *)
(* written, verified and restored with it: both are the field zone here.   *)
(***************************************************************************)
EXTENDS Naturals

CONSTANTS
    Nodes, Peer,     \* the two access points, and the other one of each
    Zones, Known,    \* IANA names, and those each local database has
    Factory,         \* the time zone of the image
    Ssh,             \* commands that may run below sshd at the same time
    Free,
    MaxFaults        \* bound: failures and time-outs, but for a restore that fails too

ASSUME PeerAssumption ==
    Peer \in [Nodes -> Nodes] /\ \A n \in Nodes : Peer[n] # n /\ \A m \in Nodes : m \in {n, Peer[n]}
ASSUME ZoneAssumption == Known \in [Nodes -> SUBSET Zones] /\ Factory \in Zones
ASSUME SlotAssumption == "own" \notin Ssh /\ Free \notin Ssh \cup {"own"}
ASSUME FaultAssumption == MaxFaults \in Nat

VARIABLES
    conf,      \* what uci has: the options of system.@system[0]
    lock,      \* who holds rg-ma2820-timezone.lock
    proc,      \* the running commands
    link,      \* the peer answers to ping ("mute"), and to ssh ("up")
    kept,      \* history: what the last command that succeeded has left
    faults

tzVars == <<conf, lock, proc, link, kept, faults>>

Slots == {"own"} \cup Ssh
Confs == [zone : Zones, automatic : BOOLEAN, detected : BOOLEAN]
Holding == {"set", "reload", "restore"}
Ended == {"done", "failed"}
Pcs == {"idle", "call", "wait", "lock"} \cup Holding \cup Ended
Procs == [pc : Pcs, zone : Zones, automatic : BOOLEAN, old : Confs, wanted : BOOLEAN]
Links == {"up", "mute", "down"}

(* status_json of an image nobody has set: automatic, not yet detected.    *)
Initial == [zone |-> Factory, automatic |-> TRUE, detected |-> FALSE]
Idle == [pc |-> "idle", zone |-> Factory, automatic |-> TRUE, old |-> Initial, wanted |-> FALSE]

TzInit ==
    /\ conf = [n \in Nodes |-> Initial]
    /\ lock = [n \in Nodes |-> Free]
    /\ proc = [n \in Nodes |-> [s \in Slots |-> Idle]]
    /\ link = "up"
    /\ kept = conf
    /\ faults = 0

Fault == faults < MaxFaults /\ faults' = faults + 1
NoFault == UNCHANGED faults
Goto(n, s, pc) == proc' = [proc EXCEPT ![n][s].pc = pc]

(* --configure up to the lock: an unknown zone is refused, a pair is asked *)
(* before the own access point is touched.                                 *)
Command(n, zone, automatic, first) ==
    [pc |-> IF zone \in Known[n] THEN first ELSE "failed",
     zone |-> zone, automatic |-> automatic, old |-> Initial, wanted |-> TRUE]

(* Variant: the lock is taken before the peer is asked. *)
CallPeerLocked(n) ==
    LET me == proc[n]["own"]  m == Peer[n] IN
    /\ me.pc = "call" /\ link = "up"
    /\ lock[n] = Free /\ lock' = [lock EXCEPT ![n] = "own"]
    /\ \E s \in Ssh :
          /\ proc[m][s].pc = "idle"
          /\ proc' = [proc EXCEPT ![n]["own"].pc = "wait",
                                  ![m][s] = Command(m, me.zone, me.automatic, "lock")]
    /\ NoFault /\ UNCHANGED <<conf, link, kept>>
(* The peer's own --configure, over ssh.                                   *)
CallPeer(n) ==
    LET me == proc[n]["own"]  m == Peer[n] IN
    /\ me.pc = "call" /\ link = "up"
    /\ \E s \in Ssh :
          /\ proc[m][s].pc = "idle"
          /\ proc' = [proc EXCEPT ![n]["own"].pc = "wait",
                                  ![m][s] = Command(m, me.zone, me.automatic, "lock")]
    /\ NoFault /\ UNCHANGED <<conf, lock, link, kept>>
PeerAway(n) ==
    /\ proc[n]["own"].pc = "call" /\ link # "up"
    /\ Goto(n, "own", "failed")
    /\ NoFault /\ UNCHANGED <<conf, lock, link, kept>>

(* Variant: the answer of the peer is passed over. *)
ReturnAnyhow(n, s) ==
    /\ s \in Ssh /\ proc[n][s].pc \in Ended
    /\ proc' = [proc EXCEPT ![n][s] = Idle, ![Peer[n]]["own"].pc = IF proc[n][s].wanted THEN "lock" ELSE @]
    /\ NoFault /\ UNCHANGED <<conf, lock, link, kept>>
(* The command on the peer ends, and the one that waits for it hears.      *)
Return(n, s) ==
    LET pc == proc[n][s].pc  m == Peer[n] IN
    /\ s \in Ssh /\ pc \in Ended
    /\ proc' = [proc EXCEPT ![n][s] = Idle,
          ![m]["own"].pc = IF proc[n][s].wanted THEN IF pc = "done" THEN "lock" ELSE "failed" ELSE @]
    /\ NoFault /\ UNCHANGED <<conf, lock, link, kept>>

(* `timeout 20' ends ssh, not the command on the peer.                     *)
TimeOut(n) ==
    /\ Fault /\ proc[n]["own"].pc = "wait"
    /\ \E s \in Ssh :
          /\ proc[Peer[n]][s].wanted
          /\ proc' = [proc EXCEPT ![n]["own"].pc = "failed", ![Peer[n]][s].wanted = FALSE]
    /\ UNCHANGED <<conf, lock, link, kept>>

(* It waits for the other commands of this access point, never for itself. *)
Lock(n, s) ==
    /\ proc[n][s].pc = "lock" /\ lock[n] \in {Free, s}
    /\ lock' = [lock EXCEPT ![n] = s]
    /\ proc' = [proc EXCEPT ![n][s] = [@ EXCEPT !.pc = "set", !.old = conf[n]]]
    /\ NoFault /\ UNCHANGED <<conf, link, kept>>

(* The options in the order they are set; one that fails ends the rest.    *)
Written(old, new, k) ==
    [zone |-> IF k >= 1 THEN new.zone ELSE old.zone,
     automatic |-> IF k >= 2 THEN new.automatic ELSE old.automatic,
     detected |-> IF k >= 3 THEN new.detected ELSE old.detected]
(* Variant: timezone_detected is not set. *)
NewUndetected(c) == [zone |-> c.zone, automatic |-> c.automatic, detected |-> FALSE]
New(c) == [zone |-> c.zone, automatic |-> c.automatic, detected |-> TRUE]

Set(n, s) ==
    /\ proc[n][s].pc = "set"
    /\ conf' = [conf EXCEPT ![n] = Written(@, New(proc[n][s]), 3)]
    /\ Goto(n, s, "reload")
    /\ NoFault /\ UNCHANGED <<lock, link, kept>>
(* An option cannot be set, or the commit fails.                           *)
SetFails(n, s) ==
    /\ Fault /\ proc[n][s].pc = "set"
    /\ \E k \in 0..3 : conf' = [conf EXCEPT ![n] = Written(@, New(proc[n][s]), k)]
    /\ Goto(n, s, "restore")
    /\ UNCHANGED <<lock, link, kept>>

(* The system service has taken the zone over and /etc/TZ says so.         *)
Verify(n, s) ==
    /\ proc[n][s].pc = "reload"
    /\ Goto(n, s, "done")
    /\ lock' = [lock EXCEPT ![n] = Free]
    /\ kept' = [kept EXCEPT ![n] = conf[n]]
    /\ NoFault /\ UNCHANGED <<conf, link>>
VerifyFails(n, s) ==
    /\ Fault /\ proc[n][s].pc = "reload"
    /\ Goto(n, s, "restore")
    /\ UNCHANGED <<conf, lock, link, kept>>

(* Variant: the restore leaves timezone_auto as it was set. *)
RestoreZone(n, s) ==
    /\ proc[n][s].pc = "restore"
    /\ conf' = [conf EXCEPT ![n] = [proc[n][s].old EXCEPT !.automatic = conf[n].automatic]]
    /\ lock' = [lock EXCEPT ![n] = Free]
    /\ Goto(n, s, "failed")
    /\ NoFault /\ UNCHANGED <<link, kept>>
(* restore_local; the reload it ends with may fail without consequence.    *)
Restore(n, s) ==
    /\ proc[n][s].pc = "restore"
    /\ conf' = [conf EXCEPT ![n] = Written(@, proc[n][s].old, 3)]
    /\ lock' = [lock EXCEPT ![n] = Free]
    /\ Goto(n, s, "failed")
    /\ NoFault /\ UNCHANGED <<link, kept>>
(* Here errexit is in force: what fails ends the command, and the trap     *)
(* gives the lock back.  The cause may be that of the failure before, so   *)
(* it may come on top of the bound.                                        *)
RestoreFails(n, s) ==
    /\ proc[n][s].pc = "restore"
    /\ faults <= MaxFaults /\ faults' = faults + 1
    /\ \E k \in 0..3 : conf' = [conf EXCEPT ![n] = Written(@, proc[n][s].old, k)]
    /\ lock' = [lock EXCEPT ![n] = Free]
    /\ Goto(n, s, "failed")
    /\ UNCHANGED <<link, kept>>

(* The cable between the access points, and the peer's sshd.               *)
LinkChange ==
    /\ Fault
    /\ \E l \in Links : l # link /\ link' = l
    /\ UNCHANGED <<conf, lock, proc, kept>>

Step(n, s) == Lock(n, s) \/ Set(n, s) \/ Verify(n, s) \/ Restore(n, s) \/ Return(n, s)
Ask(n) == CallPeer(n) \/ PeerAway(n)
TzFault ==
    \/ \E n \in Nodes : TimeOut(n) \/ \E s \in Slots : SetFails(n, s) \/ VerifyFails(n, s) \/ RestoreFails(n, s)
    \/ LinkChange
TzNext == (\E n \in Nodes : Ask(n) \/ \E s \in Slots : Step(n, s)) \/ TzFault
-----------------------------------------------------------------------------
TzTypeOK ==
    /\ conf \in [Nodes -> Confs]
    /\ lock \in [Nodes -> Slots \cup {Free}]
    /\ proc \in [Nodes -> [Slots -> Procs]]
    /\ link \in Links
    /\ kept \in [Nodes -> Confs]
    /\ faults \in 0..(MaxFaults + 1)

(* Every option is what the last successful command has left, unless one   *)
(* is at work or the restore has failed too: one failure, wherever it      *)
(* strikes, never leaves half of a refused time zone behind (restore_local *)
(* and its calls, rg-ma2820-timezone:83-122).                              *)
Restored == \A n \in Nodes : lock[n] = Free => conf[n] = kept[n] \/ faults >= 2
=============================================================================
