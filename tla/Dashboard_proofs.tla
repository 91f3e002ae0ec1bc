------------------------- MODULE Dashboard_proofs -------------------------
(***************************************************************************)
(* The commands of rg-ma2820-timezone keep their types, exclude each other *)
(* and put back what they could not finish.  So for any two access points, *)
(* browsers, databases and failures a command that fails puts back what it *)
(* found, the two access points agree once undisturbed commands have come  *)
(* to an end, a time zone is detected once, and "All systems operational"  *)
(* stands over a complete list of radios.                                  *)
(***************************************************************************)
EXTENDS Dashboard, TLAPS, SequenceTheorems

USE DEF Slots, Holding, Ended

(* A command is between its lock and its unlock exactly when it holds the  *)
(* lock, so there is one at most.                                          *)
Locked == \A n \in Nodes, s \in Slots : proc[n][s].pc \in Holding <=> lock[n] = s

(* What such a command would put back is what was kept, but for a restore  *)
(* that failed before; one that restores has failed once.                  *)
OldKept ==
    \A n \in Nodes, s \in Slots :
        /\ proc[n][s].pc \in Holding => proc[n][s].old = kept[n] \/ faults >= 2
        /\ proc[n][s].pc = "set" => proc[n][s].old = conf[n]
        /\ proc[n][s].pc = "restore" => faults >= 1

(* Once a command has succeeded, the zone counts as detected, whatever     *)
(* fails later.                                                            *)
Detected ==
    \A n \in Nodes :
        /\ kept[n] = Initial \/ kept[n].detected
        /\ kept[n].detected => conf[n].detected
        /\ \A s \in Slots :
              /\ proc[n][s].pc \in Holding /\ kept[n].detected => proc[n][s].old.detected
              /\ proc[n][s].pc = "reload" => conf[n].detected

TzSafe == TzTypeOK /\ Locked /\ OldKept /\ Detected /\ Restored

(* A command below sshd that is waited for has a caller that waits, and no *)
(* other command has the same one.                                         *)
Waited ==
    \A n \in Nodes, s \in Ssh :
        proc[n][s].wanted =>
            proc[Peer[n]]["own"].pc = "wait" /\ \A t \in Ssh : proc[n][t].wanted => t = s

TzInv == TzSafe /\ Waited

(* Outside the lock a command may move; inside, only who waits for it may  *)
(* change.                                                                 *)
Apart(c, d) == (c.pc = d.pc /\ c.old = d.old) \/ (c.pc \notin Holding /\ d.pc \notin Holding)

(* The options in the order they are set, of the types they have.          *)
LEMMA WrittenType ==
    ASSUME NEW old \in Confs, NEW new \in Confs, NEW k \in 0..3
    PROVE  /\ Written(old, new, k) \in Confs
           /\ old.detected /\ new.detected => Written(old, new, k).detected
           /\ k = 3 => Written(old, new, k) = new
BY DEF Written, Confs

(* The command as it begins, and the values of the image, have their types. *)
LEMMA RecordTypes ==
    /\ Initial \in Confs /\ Idle \in Procs
    /\ \A n \in Nodes, zone \in Zones, automatic \in BOOLEAN, first \in {"call", "lock"} :
          /\ Command(n, zone, automatic, first) \in Procs
          /\ Command(n, zone, automatic, first).pc \notin Holding
    /\ \A c \in Procs : New(c) \in Confs /\ New(c).detected
BY ZoneAssumption DEF Initial, Idle, Confs, Procs, Command, New, Pcs

(* The initial state.                                                      *)
LEMMA TzInitInv == TzInit => TzInv
<1> SUFFICES ASSUME TzInit PROVE TzInv
  OBVIOUS
<1>1. /\ conf \in [Nodes -> Confs] /\ kept \in [Nodes -> Confs]
      /\ proc \in [Nodes -> [Slots -> Procs]]
  BY RecordTypes DEF TzInit
<1>2. TzTypeOK
  BY <1>1, FaultAssumption DEF TzInit, TzTypeOK, Links
<1>3. \A n \in Nodes, s \in Slots : proc[n][s].pc = "idle" /\ lock[n] = Free /\ Free # s
  BY SlotAssumption DEF TzInit, Idle
<1>4. \A n \in Nodes : conf[n] = kept[n] /\ kept[n] = Initial /\ ~Initial.detected
  BY DEF TzInit, Initial
<1>5. Waited
  BY DEF TzInit, Idle, Waited
<1> QED
  BY <1>2, <1>3, <1>4, <1>5 DEF TzInv, TzSafe, Locked, OldKept, Detected, Restored

(* Commands that only move outside the lock: begin, wait, end, are reaped. *)
LEMMA OutsideKept ==
    ASSUME TzSafe, proc' \in [Nodes -> [Slots -> Procs]],
           \A n \in Nodes, s \in Slots : Apart(proc[n][s], proc'[n][s]),
           UNCHANGED <<conf, lock, kept>>, link' \in Links,
           faults' \in 0..(MaxFaults + 1), faults' >= faults
    PROVE  TzSafe'
<1>1. TzTypeOK'
  BY DEF TzSafe, TzTypeOK
<1>2. \A n \in Nodes, s \in Slots :
         /\ proc'[n][s].pc \in Holding <=> proc[n][s].pc \in Holding
         /\ proc'[n][s].pc \in Holding => proc'[n][s].pc = proc[n][s].pc /\ proc'[n][s].old = proc[n][s].old
  BY DEF Apart
<1>3. Locked'
  BY <1>2 DEF TzSafe, Locked
<1>4. faults \in Nat /\ faults' \in Nat /\ faults' >= faults
  BY FaultAssumption DEF TzSafe, TzTypeOK
<1>5. OldKept'
  BY <1>2, <1>4 DEF TzSafe, OldKept
<1>6. Detected'
  BY <1>2 DEF TzSafe, Detected
<1>7. Restored'
  BY <1>4 DEF TzSafe, Restored
<1> QED
  BY <1>1, <1>3, <1>5, <1>6, <1>7 DEF TzSafe

(* One command moves outside the lock.                                     *)
LEMMA OneMove ==
    ASSUME TzSafe, NEW n \in Nodes, NEW s \in Slots, NEW x \in Procs, Apart(proc[n][s], x),
           proc' = [proc EXCEPT ![n][s] = x],
           UNCHANGED <<conf, lock, kept>>, link' \in Links,
           faults' \in 0..(MaxFaults + 1), faults' >= faults
    PROVE  TzSafe'
<1>1. proc \in [Nodes -> [Slots -> Procs]]
  BY DEF TzSafe, TzTypeOK
<1>2. proc' \in [Nodes -> [Slots -> Procs]]
  BY <1>1
<1>3. \A m \in Nodes, t \in Slots : Apart(proc[m][t], proc'[m][t])
  BY <1>1 DEF Apart
<1> QED
  BY <1>2, <1>3, OutsideKept

(* A command and the one it talks to, on the two access points.            *)
LEMMA TwoMoves ==
    ASSUME TzSafe, NEW n \in Nodes, NEW m \in Nodes, n # m,
           NEW s \in Slots, NEW t \in Slots, NEW x \in Procs, NEW y \in Procs,
           Apart(proc[n][s], x), Apart(proc[m][t], y),
           proc' = [proc EXCEPT ![n][s] = x, ![m][t] = y],
           UNCHANGED <<conf, lock, kept>>, link' \in Links,
           faults' \in 0..(MaxFaults + 1), faults' >= faults
    PROVE  TzSafe'
<1>1. proc \in [Nodes -> [Slots -> Procs]]
  BY DEF TzSafe, TzTypeOK
<1>2. proc' \in [Nodes -> [Slots -> Procs]]
  BY <1>1
<1>3. \A k \in Nodes, r \in Slots : Apart(proc[k][r], proc'[k][r])
  BY <1>1 DEF Apart
<1> QED
  BY <1>2, <1>3, OutsideKept

(* Waiting is a matter of CallPeer, Return and TimeOut only.               *)
LEMMA WaitedKept ==
    ASSUME Waited,
           \A n \in Nodes :
              /\ proc'[n]["own"].pc = proc[n]["own"].pc \/ proc[n]["own"].pc # "wait"
              /\ \A s \in Ssh : proc'[n][s].wanted => proc[n][s].wanted
    PROVE  Waited'
BY PeerAssumption DEF Waited

(* A step that leaves the commands and their data as they are.             *)
LEMMA StillInv ==
    ASSUME TzInv, UNCHANGED <<conf, lock, proc, kept>>, link' \in Links,
           faults' \in 0..(MaxFaults + 1), faults' >= faults
    PROVE  TzInv'
<1>1. proc' \in [Nodes -> [Slots -> Procs]] /\ TzSafe /\ Waited
  BY DEF TzInv, TzSafe, TzTypeOK
<1>2. \A n \in Nodes, s \in Slots : Apart(proc[n][s], proc'[n][s])
  BY DEF Apart
<1>3. TzSafe'
  BY <1>1, <1>2, OutsideKept
<1>4. Waited'
  BY <1>1 DEF Waited
<1> QED
  BY <1>3, <1>4 DEF TzInv

(* The steps before the lock and after the unlock.                         *)
LEMMA OutsideSteps ==
    ASSUME TzInv, NEW n \in Nodes,
           CallPeer(n) \/ PeerAway(n) \/ TimeOut(n) \/ \E s \in Slots : Return(n, s)
    PROVE  TzInv'
<1> DEFINE me == proc[n]["own"]
           m == Peer[n]
<1>a. /\ proc \in [Nodes -> [Slots -> Procs]] /\ m \in Nodes /\ m # n /\ Peer[m] = n
      /\ Ssh \subseteq Slots /\ "own" \in Slots /\ "own" \notin Ssh
      /\ \A k \in Nodes : k \in {n, m} /\ (Peer[k] = n <=> k = m) /\ (Peer[k] = m <=> k = n)
  BY PeerAssumption, SlotAssumption DEF TzInv, TzSafe, TzTypeOK
<1>c. faults \in 0..(MaxFaults + 1) /\ MaxFaults \in Nat /\ link \in Links /\ TzSafe /\ Waited
  BY FaultAssumption DEF TzInv, TzSafe, TzTypeOK
<1>d. me \in Procs /\ \A s \in Slots : proc[m][s] \in Procs /\ proc[n][s] \in Procs
  BY <1>a
<1>e. {"wait", "failed", "lock", "idle"} \subseteq Pcs
  BY DEF Pcs
<1>1. CASE CallPeer(n)
  <2> DEFINE c == Command(m, me.zone, me.automatic, "lock")
             x == [me EXCEPT !.pc = "wait"]
  <2>1. PICK s \in Ssh : /\ proc[m][s].pc = "idle"
                         /\ proc' = [proc EXCEPT ![n]["own"].pc = "wait", ![m][s] = c]
    BY <1>1 DEF CallPeer
  <2>2. me.pc = "call" /\ UNCHANGED <<conf, lock, kept, link, faults>>
    BY <1>1 DEF CallPeer, NoFault
  <2>3. me.zone \in Zones /\ me.automatic \in BOOLEAN
    BY <1>d DEF Procs
  <2>4. c \in Procs /\ c.pc \notin Holding
    BY <2>3, <1>a, RecordTypes
  <2>5. x \in Procs /\ x.pc = "wait" /\ Apart(me, x)
    BY <1>d, <2>2 DEF Procs, Pcs, Apart
  <2>f. faults' \in 0..(MaxFaults + 1) /\ faults' >= faults /\ link' \in Links
    BY <1>c, <2>2
  <2>6. proc' = [proc EXCEPT ![n]["own"] = x, ![m][s] = c]
    BY <2>1
  <2> HIDE DEF c, x
  <2>7. Apart(proc[m][s], c)
    BY <2>1, <2>4 DEF Apart
  <2>8. TzSafe'
    BY <1>a, <1>c, <2>2, <2>f, <2>4, <2>5, <2>6, <2>7, TwoMoves
  <2>9. /\ proc'[n]["own"].pc = "wait"
        /\ \A t \in Ssh : proc'[n][t] = proc[n][t] /\ (t # s => proc'[m][t] = proc[m][t])
        /\ proc'[m]["own"] = proc[m]["own"]
    BY <1>a, <2>5, <2>6
  <2>10. \A t \in Ssh : ~proc[m][t].wanted
    BY <1>a, <1>c, <2>2 DEF Waited
  <2>11. Waited'
    BY <1>a, <1>c, <2>9, <2>10 DEF Waited
  <2> QED
    BY <2>8, <2>11 DEF TzInv
<1>2. CASE PeerAway(n)
  <2> DEFINE x == [me EXCEPT !.pc = "failed"]
  <2>1. /\ me.pc = "call" /\ UNCHANGED <<conf, lock, kept, link, faults>>
        /\ proc' = [proc EXCEPT ![n]["own"] = x]
    BY <1>2 DEF PeerAway, NoFault, Goto
  <2>2. x \in Procs /\ Apart(me, x)
    BY <1>d, <2>1 DEF Procs, Pcs, Apart
  <2>f. faults' \in 0..(MaxFaults + 1) /\ faults' >= faults /\ link' \in Links
    BY <1>c, <2>1
  <2> HIDE DEF x
  <2>3. TzSafe'
    BY <1>a, <1>c, <2>1, <2>2, <2>f, OneMove
  <2>4. \A k \in Nodes :
           /\ proc'[k]["own"].pc = proc[k]["own"].pc \/ proc[k]["own"].pc # "wait"
           /\ \A s \in Ssh : proc'[k][s] = proc[k][s]
    BY <1>a, <2>1
  <2> QED
    BY <1>c, <2>3, <2>4, WaitedKept DEF TzInv
<1>3. CASE TimeOut(n)
  <2> DEFINE x == [me EXCEPT !.pc = "failed"]
  <2>1. PICK s \in Ssh : /\ proc[m][s].wanted
                         /\ proc' = [proc EXCEPT ![n]["own"].pc = "failed", ![m][s].wanted = FALSE]
    BY <1>3 DEF TimeOut
  <2> DEFINE y == [proc[m][s] EXCEPT !.wanted = FALSE]
  <2>2. me.pc = "wait" /\ UNCHANGED <<conf, lock, kept, link>> /\ faults' = faults + 1 /\ faults < MaxFaults
    BY <1>3 DEF TimeOut, Fault
  <2>3. /\ x \in Procs /\ Apart(me, x)
        /\ y \in Procs /\ Apart(proc[m][s], y) /\ ~y.wanted
    <3>1. x \in Procs /\ Apart(me, x)
      BY <1>d, <2>2 DEF Procs, Pcs, Apart
    <3>2. proc[m][s] \in Procs
      BY <1>a, <1>d
    <3>3. y \in Procs /\ y.pc = proc[m][s].pc /\ y.old = proc[m][s].old /\ ~y.wanted
      BY <3>2 DEF Procs
    <3> HIDE DEF x, y
    <3> QED
      BY <3>1, <3>3 DEF Apart
  <2>4. proc' = [proc EXCEPT ![n]["own"] = x, ![m][s] = y]
    BY <1>a, <2>1
  <2>f. faults' \in 0..(MaxFaults + 1) /\ faults' >= faults /\ link' \in Links
    BY <1>c, <2>2
  <2> HIDE DEF x, y
  <2>5. TzSafe'
    BY <1>a, <1>c, <2>2, <2>3, <2>4, <2>f, TwoMoves
  <2>6. /\ \A t \in Ssh : proc'[n][t] = proc[n][t] /\ (t # s => proc'[m][t] = proc[m][t])
        /\ proc'[m]["own"] = proc[m]["own"] /\ ~proc'[m][s].wanted
    BY <1>a, <2>3, <2>4
  <2>7. \A t \in Ssh : proc[m][t].wanted => t = s
    BY <1>a, <1>c, <2>1 DEF Waited
  <2>8. Waited'
    BY <1>a, <1>c, <2>6, <2>7 DEF Waited
  <2> QED
    BY <2>5, <2>8 DEF TzInv
<1>5. ASSUME NEW s \in Slots, Return(n, s) PROVE TzInv'
  <2> DEFINE pc == IF proc[n][s].wanted THEN IF proc[n][s].pc = "done" THEN "lock" ELSE "failed"
                   ELSE proc[m]["own"].pc
             y == [proc[m]["own"] EXCEPT !.pc = pc]
  <2>1. /\ s \in Ssh /\ proc[n][s].pc \in Ended /\ UNCHANGED <<conf, lock, kept, link, faults>>
        /\ proc' = [proc EXCEPT ![n][s] = Idle, ![m]["own"].pc = pc]
    BY <1>5 DEF Return, NoFault
  <2>2. proc[n][s].wanted => proc[m]["own"].pc = "wait" /\ \A t \in Ssh : proc[n][t].wanted => t = s
    BY <1>c, <2>1 DEF Waited
  <2>3. /\ pc \in Pcs /\ (proc[n][s].wanted => pc \notin Holding)
        /\ ~proc[n][s].wanted => pc = proc[m]["own"].pc
    BY <1>a, <1>d, <1>e DEF Procs
  <2>4. y \in Procs /\ y.pc = pc /\ Apart(proc[m]["own"], y)
    <3> HIDE DEF pc
    <3>1. y \in Procs /\ y.pc = pc /\ y.old = proc[m]["own"].old
      BY <1>a, <1>d, <2>3 DEF Procs
    <3> QED
      BY <2>2, <2>3, <3>1 DEF Apart
  <2>5. Idle \in Procs /\ Idle.pc = "idle" /\ ~Idle.wanted
    BY RecordTypes DEF Idle
  <2>6. Apart(proc[n][s], Idle)
    BY <2>1, <2>5 DEF Apart
  <2>7. proc' = [proc EXCEPT ![n][s] = Idle, ![m]["own"] = y]
    BY <1>a, <2>1
  <2>f. faults' \in 0..(MaxFaults + 1) /\ faults' >= faults /\ link' \in Links
    BY <1>c, <2>1
  <2> HIDE DEF pc, y
  <2>8. TzSafe'
    BY <1>a, <1>c, <2>1, <2>4, <2>5, <2>6, <2>7, <2>f, TwoMoves
  <2>9. /\ \A t \in Ssh : proc'[m][t] = proc[m][t] /\ (t # s => proc'[n][t] = proc[n][t])
        /\ proc'[n]["own"] = proc[n]["own"] /\ ~proc'[n][s].wanted
        /\ proc'[m]["own"].pc = pc
    BY <1>a, <2>1, <2>4, <2>5, <2>7
  <2>10. Waited'
    BY <1>a, <1>c, <2>2, <2>3, <2>9 DEF Waited
  <2> QED
    BY <2>8, <2>10 DEF TzInv
<1> QED
  BY <1>1, <1>2, <1>3, <1>5

(* A step of one command on its access point, and what it has to leave     *)
(* there.                                                                  *)
Frame(n, s) ==
    /\ proc' = [proc EXCEPT ![n][s] = proc'[n][s]] /\ proc'[n][s] \in Procs
    /\ conf' = [conf EXCEPT ![n] = conf'[n]] /\ conf'[n] \in Confs
    /\ kept' = [kept EXCEPT ![n] = kept'[n]] /\ kept'[n] \in Confs
    /\ lock' = [lock EXCEPT ![n] = lock'[n]] /\ lock'[n] \in {Free, s} /\ lock[n] \in {Free, s}
    /\ link' = link /\ faults' \in 0..(MaxFaults + 1) /\ faults' >= faults
LeftWell(n, s) ==
    LET x == proc'[n][s]  c == conf'[n]  k == kept'[n] IN
    /\ x.pc \in Holding <=> lock'[n] = s
    /\ x.pc \in Holding => x.old = k \/ faults' >= 2
    /\ x.pc = "set" => x.old = c
    /\ x.pc = "restore" => faults' >= 1
    /\ k = Initial \/ k.detected
    /\ k.detected => c.detected
    /\ x.pc \in Holding /\ k.detected => x.old.detected
    /\ x.pc = "reload" => c.detected
    /\ lock'[n] = Free => c = k \/ faults' >= 2

(* Such a step keeps the invariant.                                        *)
LEMMA InsideMove ==
    ASSUME TzSafe, NEW n \in Nodes, NEW s \in Slots, Frame(n, s), LeftWell(n, s)
    PROVE  TzSafe'
<1> DEFINE x == proc'[n][s]
           c == conf'[n]
           k == kept'[n]
           l == lock'[n]
<1>1. /\ proc \in [Nodes -> [Slots -> Procs]] /\ conf \in [Nodes -> Confs] /\ kept \in [Nodes -> Confs]
      /\ lock \in [Nodes -> Slots \cup {Free}] /\ link \in Links
      /\ Locked /\ OldKept /\ Detected /\ Restored
  BY DEF TzSafe, TzTypeOK
<1>2. faults \in Nat /\ faults' \in Nat /\ faults' >= faults
  BY FaultAssumption DEF TzSafe, TzTypeOK, Frame
<1>3. /\ \A t \in Slots : t # s => proc'[n][t] = proc[n][t] /\ lock[n] # t /\ l # t
      /\ \A m \in Nodes : m # n =>
            proc'[m] = proc[m] /\ conf'[m] = conf[m] /\ kept'[m] = kept[m] /\ lock'[m] = lock[m]
  BY <1>1, SlotAssumption DEF Frame
<1>4. TzTypeOK'
  <2>1. proc' \in [Nodes -> [Slots -> Procs]]
    <3>1. PICK y \in Procs : proc' = [proc EXCEPT ![n][s] = y]
      BY DEF Frame
    <3> QED
      BY <1>1, <3>1
  <2>2. conf' \in [Nodes -> Confs] /\ kept' \in [Nodes -> Confs]
    BY <1>1 DEF Frame
  <2>3. lock' \in [Nodes -> Slots \cup {Free}]
    BY <1>1 DEF Frame
  <2> QED
    BY <1>1, <2>1, <2>2, <2>3 DEF TzTypeOK, Frame
<1>5. Locked'
  BY <1>1, <1>3 DEF Locked, LeftWell
<1>6. \A t \in Slots : t # s => proc[n][t].pc \notin Holding
  BY <1>1, <1>3 DEF Locked
<1>7. OldKept'
  <2>1. \A t \in Slots :
           /\ proc'[n][t].pc \in Holding => proc'[n][t].old = kept'[n] \/ faults' >= 2
           /\ proc'[n][t].pc = "set" => proc'[n][t].old = conf'[n]
           /\ proc'[n][t].pc = "restore" => faults' >= 1
    BY <1>3, <1>6 DEF LeftWell
  <2>2. \A m \in Nodes : m # n =>
           kept'[m] = kept[m] /\ conf'[m] = conf[m] /\ \A t \in Slots : proc'[m][t] = proc[m][t]
    BY <1>3
  <2>3. faults >= 2 => faults' >= 2
    BY <1>2
  <2>4. faults >= 1 => faults' >= 1
    BY <1>2
  <2> QED
    BY <1>1, <2>1, <2>2, <2>3, <2>4 DEF OldKept
<1>8. Detected'
  BY <1>1, <1>3, <1>6 DEF Detected, LeftWell
<1>9. Restored'
  BY <1>1, <1>2, <1>3 DEF Restored, LeftWell
<1> QED
  BY <1>4, <1>5, <1>7, <1>8, <1>9 DEF TzSafe

(* What the command at n that holds the lock may rely on.                  *)
LEMMA AtWork ==
    ASSUME TzInv, NEW n \in Nodes, NEW s \in Slots
    PROVE  /\ proc \in [Nodes -> [Slots -> Procs]] /\ proc[n][s] \in Procs /\ proc[n][s].old \in Confs
           /\ conf \in [Nodes -> Confs] /\ conf[n] \in Confs /\ kept \in [Nodes -> Confs] /\ kept[n] \in Confs
           /\ lock \in [Nodes -> Slots \cup {Free}] /\ Free # s
           /\ faults \in 0..(MaxFaults + 1) /\ MaxFaults \in Nat
           /\ proc[n][s].pc \in Holding => /\ lock[n] = s
                                           /\ proc[n][s].old = kept[n] \/ faults >= 2
                                           /\ kept[n].detected => proc[n][s].old.detected
           /\ proc[n][s].pc = "set" => proc[n][s].old = conf[n]
           /\ proc[n][s].pc = "restore" => faults >= 1
           /\ proc[n][s].pc = "reload" => conf[n].detected
           /\ lock[n] = Free => conf[n] = kept[n] \/ faults >= 2
           /\ proc[n][s].pc \notin Holding => lock[n] # s
           /\ kept[n] = Initial \/ kept[n].detected
           /\ kept[n].detected => conf[n].detected
           /\ New(proc[n][s]) \in Confs /\ New(proc[n][s]).detected
<1>1. TzTypeOK /\ Locked /\ OldKept /\ Detected /\ Restored
  BY DEF TzInv, TzSafe
<1>2. proc[n][s] \in Procs /\ conf[n] \in Confs /\ kept[n] \in Confs
  BY <1>1 DEF TzTypeOK
<1>3. proc[n][s].old \in Confs /\ New(proc[n][s]) \in Confs /\ New(proc[n][s]).detected
  BY <1>2, RecordTypes DEF Procs
<1>4. /\ proc[n][s].pc \in Holding => /\ lock[n] = s
                                      /\ proc[n][s].old = kept[n] \/ faults >= 2
                                      /\ kept[n].detected => proc[n][s].old.detected
      /\ proc[n][s].pc \notin Holding => lock[n] # s
  BY <1>1 DEF Locked, OldKept, Detected
<1>5. /\ proc[n][s].pc = "set" => proc[n][s].old = conf[n]
      /\ proc[n][s].pc = "restore" => faults >= 1
      /\ proc[n][s].pc = "reload" => conf[n].detected
      /\ lock[n] = Free => conf[n] = kept[n] \/ faults >= 2
      /\ kept[n] = Initial \/ kept[n].detected
      /\ kept[n].detected => conf[n].detected
  BY <1>1 DEF OldKept, Detected, Restored
<1> QED
  BY <1>1, <1>2, <1>3, <1>4, <1>5, SlotAssumption, FaultAssumption DEF TzTypeOK

(* No step under the lock changes who waits for whom.                      *)
LEMMA InsideWaited ==
    ASSUME TzInv, NEW n \in Nodes, NEW s \in Slots, proc[n][s].pc # "wait",
           NEW x, proc' = [proc EXCEPT ![n][s] = x], x.wanted => proc[n][s].wanted
    PROVE  Waited'
<1>1. Waited /\ proc \in [Nodes -> [Slots -> Procs]] /\ "own" \in Slots /\ Ssh \subseteq Slots
  BY DEF TzInv, TzSafe, TzTypeOK
<1>2. \A m \in Nodes :
         /\ proc'[m]["own"].pc = proc[m]["own"].pc \/ proc[m]["own"].pc # "wait"
         /\ \A t \in Ssh : proc'[m][t].wanted => proc[m][t].wanted
  BY <1>1
<1> QED
  BY <1>1, <1>2, WaitedKept

(* From the lock to the unlock.                                            *)
LEMMA InsideSteps ==
    ASSUME TzInv, NEW n \in Nodes, NEW s \in Slots,
           \/ Lock(n, s) \/ Set(n, s) \/ SetFails(n, s) \/ Verify(n, s) \/ VerifyFails(n, s)
           \/ Restore(n, s) \/ RestoreFails(n, s)
    PROVE  TzInv'
<1> DEFINE me == proc[n][s]
<1>a. TzSafe /\ me \in Procs
  BY AtWork DEF TzInv
<1>b. /\ conf = [conf EXCEPT ![n] = conf[n]] /\ kept = [kept EXCEPT ![n] = kept[n]]
      /\ lock = [lock EXCEPT ![n] = lock[n]]
  BY AtWork
<1>1. CASE Lock(n, s)
  <2> DEFINE x == [me EXCEPT !.pc = "set", !.old = conf[n]]
  <2>1. me.pc = "lock" /\ lock[n] = Free /\ link' = link /\ faults' = faults
    BY <1>1, AtWork DEF Lock, NoFault
  <2>2. proc' = [proc EXCEPT ![n][s] = x]
    BY <1>1, AtWork DEF Lock
  <2>3. x \in Procs /\ x.pc = "set" /\ x.old = conf[n] /\ x.wanted = me.wanted
    BY <1>a, AtWork DEF Procs, Pcs
  <2>5. /\ conf' = [conf EXCEPT ![n] = conf[n]] /\ conf'[n] = conf[n]
        /\ kept' = [kept EXCEPT ![n] = kept[n]] /\ kept'[n] = kept[n]
        /\ lock' = [lock EXCEPT ![n] = s] /\ lock'[n] = s
    BY <1>1, <1>b, AtWork DEF Lock
  <2> HIDE DEF x, me
  <2>6. proc'[n][s] = x
    BY <2>2, AtWork
  <2>7. faults' \in 0..(MaxFaults + 1) /\ faults' >= faults
    BY <2>1, AtWork DEF me
  <2>8. Frame(n, s)
    BY <2>1, <2>2, <2>3, <2>5, <2>6, <2>7, AtWork DEF Frame, me
  <2>9. LeftWell(n, s)
    BY <2>1, <2>3, <2>5, <2>6, <2>7, AtWork DEF LeftWell, me
  <2> QED
    BY <1>a, <2>1, <2>2, <2>3, <2>8, <2>9, InsideMove, InsideWaited DEF TzInv, me
<1>2. CASE Set(n, s)
  <2> DEFINE x == [me EXCEPT !.pc = "reload"]
  <2>1. me.pc = "set" /\ link' = link /\ faults' = faults
    BY <1>2 DEF Set, NoFault, Goto
  <2>2. proc' = [proc EXCEPT ![n][s] = x]
    BY <1>2, AtWork DEF Set, Goto
  <2>3. x \in Procs /\ x.pc = "reload" /\ x.old = me.old /\ x.wanted = me.wanted
    BY <1>a, AtWork DEF Procs, Pcs
  <2>4. Written(conf[n], New(me), 3) = New(me)
    BY DEF Written, New
  <2>5. /\ conf' = [conf EXCEPT ![n] = New(me)] /\ conf'[n] = New(me)
        /\ kept' = [kept EXCEPT ![n] = kept[n]] /\ kept'[n] = kept[n]
        /\ lock' = [lock EXCEPT ![n] = lock[n]] /\ lock'[n] = lock[n]
    <3>1. conf' = [conf EXCEPT ![n] = Written(conf[n], New(me), 3)]
      BY <1>2 DEF Set
    <3>2. conf' = [conf EXCEPT ![n] = New(me)]
      BY <2>4, <3>1
    <3>3. conf'[n] = New(me)
      BY <3>2, AtWork
    <3>4. /\ kept' = [kept EXCEPT ![n] = kept[n]] /\ kept'[n] = kept[n]
          /\ lock' = [lock EXCEPT ![n] = lock[n]] /\ lock'[n] = lock[n]
      BY <1>2, <1>b, AtWork DEF Set
    <3> QED
      BY <3>2, <3>3, <3>4
  <2> HIDE DEF x, me
  <2>6. proc'[n][s] = x
    BY <2>2, AtWork
  <2>7. faults' \in 0..(MaxFaults + 1) /\ faults' >= faults
    BY <2>1, AtWork DEF me
  <2>8. Frame(n, s)
    <3>1. conf' = [conf EXCEPT ![n] = conf'[n]] /\ conf'[n] \in Confs
      BY ZenonT(60), <2>4, <2>5, AtWork DEF me
    <3>2. proc' = [proc EXCEPT ![n][s] = proc'[n][s]] /\ proc'[n][s] \in Procs
      BY <2>2, <2>3, <2>6
    <3>3. kept'[n] \in Confs /\ lock[n] \in {Free, s} /\ lock'[n] \in {Free, s}
      BY <2>1, <2>5, AtWork DEF me
    <3>4. kept' = [kept EXCEPT ![n] = kept'[n]] /\ lock' = [lock EXCEPT ![n] = lock'[n]] /\ link' = link
      BY <2>1, <2>5
    <3> QED
      BY <2>7, <3>1, <3>2, <3>3, <3>4 DEF Frame
  <2>9. LeftWell(n, s)
    BY <2>1, <2>3, <2>4, <2>5, <2>6, <2>7, AtWork DEF LeftWell, me
  <2> QED
    BY <1>a, <2>1, <2>2, <2>3, <2>8, <2>9, InsideMove, InsideWaited DEF TzInv, me
<1>3. CASE SetFails(n, s)
  <2> DEFINE x == [me EXCEPT !.pc = "restore"]
  <2>1. me.pc = "set" /\ link' = link /\ faults < MaxFaults /\ faults' = faults + 1
    BY <1>3 DEF SetFails, Fault, Goto
  <2>2. proc' = [proc EXCEPT ![n][s] = x]
    BY <1>3, AtWork DEF SetFails, Goto
  <2>3. x \in Procs /\ x.pc = "restore" /\ x.old = me.old /\ x.wanted = me.wanted
    BY <1>a, AtWork DEF Procs, Pcs
  <2>p. PICK k \in 0..3 : conf' = [conf EXCEPT ![n] = Written(conf[n], New(me), k)]
    BY <1>3, AtWork DEF SetFails
  <2>4. Written(conf[n], New(me), k) \in Confs /\ (conf[n].detected => Written(conf[n], New(me), k).detected)
    BY AtWork, WrittenType
  <2>5. /\ conf' = [conf EXCEPT ![n] = Written(conf[n], New(me), k)] /\ conf'[n] = Written(conf[n], New(me), k)
        /\ kept' = [kept EXCEPT ![n] = kept[n]] /\ kept'[n] = kept[n]
        /\ lock' = [lock EXCEPT ![n] = lock[n]] /\ lock'[n] = lock[n]
    <3>2. conf' = [conf EXCEPT ![n] = Written(conf[n], New(me), k)]
      BY <2>p
    <3>3. conf'[n] = Written(conf[n], New(me), k)
      BY <3>2, AtWork
    <3>4. /\ kept' = [kept EXCEPT ![n] = kept[n]] /\ kept'[n] = kept[n]
          /\ lock' = [lock EXCEPT ![n] = lock[n]] /\ lock'[n] = lock[n]
      BY <1>3, <1>b, AtWork DEF SetFails
    <3> QED
      BY <3>2, <3>3, <3>4
  <2> HIDE DEF x, me
  <2>6. proc'[n][s] = x
    BY <2>2, AtWork
  <2>7. faults' \in 0..(MaxFaults + 1) /\ faults' >= faults /\ faults' >= 1 /\ (me.old = kept[n] \/ faults' >= 2)
    BY <2>1, AtWork DEF me
  <2>8. Frame(n, s)
    BY ZenonT(60), <2>1, <2>2, <2>3, <2>4, <2>5, <2>6, <2>7, AtWork DEF Frame, me
  <2>9. LeftWell(n, s)
    BY <2>1, <2>3, <2>4, <2>5, <2>6, <2>7, AtWork DEF LeftWell, me
  <2> QED
    BY <1>a, <2>1, <2>2, <2>3, <2>8, <2>9, InsideMove, InsideWaited DEF TzInv, me
<1>4. CASE Verify(n, s)
  <2> DEFINE x == [me EXCEPT !.pc = "done"]
  <2>1. me.pc = "reload" /\ link' = link /\ faults' = faults
    BY <1>4 DEF Verify, NoFault, Goto
  <2>2. proc' = [proc EXCEPT ![n][s] = x]
    BY <1>4, AtWork DEF Verify, Goto
  <2>3. x \in Procs /\ x.pc = "done" /\ x.wanted = me.wanted
    BY <1>a, AtWork DEF Procs, Pcs
  <2>5. /\ conf' = [conf EXCEPT ![n] = conf[n]] /\ conf'[n] = conf[n]
        /\ kept' = [kept EXCEPT ![n] = conf[n]] /\ kept'[n] = conf[n]
        /\ lock' = [lock EXCEPT ![n] = Free] /\ lock'[n] = Free
    BY <1>4, <1>b, AtWork DEF Verify
  <2> HIDE DEF x, me
  <2>6. proc'[n][s] = x
    BY <2>2, AtWork
  <2>7. faults' \in 0..(MaxFaults + 1) /\ faults' >= faults
    BY <2>1, AtWork DEF me
  <2>8. Frame(n, s)
    BY <2>1, <2>2, <2>3, <2>5, <2>6, <2>7, AtWork DEF Frame, me
  <2>9. LeftWell(n, s)
    BY <2>1, <2>3, <2>5, <2>6, <2>7, AtWork DEF LeftWell, me
  <2> QED
    BY <1>a, <2>1, <2>2, <2>3, <2>8, <2>9, InsideMove, InsideWaited DEF TzInv, me
<1>5. CASE VerifyFails(n, s)
  <2> DEFINE x == [me EXCEPT !.pc = "restore"]
  <2>1. me.pc = "reload" /\ link' = link /\ faults < MaxFaults /\ faults' = faults + 1
    BY <1>5 DEF VerifyFails, Fault, Goto
  <2>2. proc' = [proc EXCEPT ![n][s] = x]
    BY <1>5, AtWork DEF VerifyFails, Goto
  <2>3. x \in Procs /\ x.pc = "restore" /\ x.old = me.old /\ x.wanted = me.wanted
    BY <1>a, AtWork DEF Procs, Pcs
  <2>5. /\ conf' = [conf EXCEPT ![n] = conf[n]] /\ conf'[n] = conf[n]
        /\ kept' = [kept EXCEPT ![n] = kept[n]] /\ kept'[n] = kept[n]
        /\ lock' = [lock EXCEPT ![n] = lock[n]] /\ lock'[n] = lock[n]
    BY <1>5, <1>b, AtWork DEF VerifyFails
  <2> HIDE DEF x, me
  <2>6. proc'[n][s] = x
    BY <2>2, AtWork
  <2>7. faults' \in 0..(MaxFaults + 1) /\ faults' >= faults /\ faults' >= 1 /\ (me.old = kept[n] \/ faults' >= 2)
    BY <2>1, AtWork DEF me
  <2>8. Frame(n, s)
    BY <2>1, <2>2, <2>3, <2>5, <2>6, <2>7, AtWork DEF Frame, me
  <2>9. LeftWell(n, s)
    BY <2>1, <2>3, <2>5, <2>6, <2>7, AtWork DEF LeftWell, me
  <2> QED
    BY <1>a, <2>1, <2>2, <2>3, <2>8, <2>9, InsideMove, InsideWaited DEF TzInv, me
<1>6. CASE Restore(n, s)
  <2> DEFINE x == [me EXCEPT !.pc = "failed"]
  <2>1. me.pc = "restore" /\ link' = link /\ faults' = faults
    BY <1>6 DEF Restore, NoFault, Goto
  <2>2. proc' = [proc EXCEPT ![n][s] = x]
    BY <1>6, AtWork DEF Restore, Goto
  <2>3. x \in Procs /\ x.pc = "failed" /\ x.wanted = me.wanted
    BY <1>a, AtWork DEF Procs, Pcs
  <2>4. Written(conf[n], me.old, 3) = me.old
    BY AtWork DEF Written, Confs
  <2>5. /\ conf' = [conf EXCEPT ![n] = me.old] /\ conf'[n] = me.old
        /\ kept' = [kept EXCEPT ![n] = kept[n]] /\ kept'[n] = kept[n]
        /\ lock' = [lock EXCEPT ![n] = Free] /\ lock'[n] = Free
    <3>1. conf' = [conf EXCEPT ![n] = Written(conf[n], me.old, 3)]
      BY <1>6 DEF Restore
    <3>2. conf' = [conf EXCEPT ![n] = me.old]
      BY <2>4, <3>1
    <3>3. conf'[n] = me.old
      BY <3>2, AtWork
    <3>4. /\ kept' = [kept EXCEPT ![n] = kept[n]] /\ kept'[n] = kept[n]
          /\ lock' = [lock EXCEPT ![n] = Free] /\ lock'[n] = Free
      BY <1>6, <1>b, AtWork DEF Restore
    <3> QED
      BY <3>2, <3>3, <3>4
  <2> HIDE DEF x, me
  <2>6. proc'[n][s] = x
    BY <2>2, AtWork
  <2>7. faults' \in 0..(MaxFaults + 1) /\ faults' >= faults
    BY <2>1, AtWork DEF me
  <2>8. Frame(n, s)
    <3>1. conf' = [conf EXCEPT ![n] = conf'[n]] /\ conf'[n] \in Confs
      BY <2>4, <2>5, AtWork DEF me
    <3>2. proc' = [proc EXCEPT ![n][s] = proc'[n][s]] /\ proc'[n][s] \in Procs
      BY <2>2, <2>3, <2>6
    <3>3. kept'[n] \in Confs /\ lock[n] \in {Free, s} /\ lock'[n] \in {Free, s}
      BY <2>1, <2>5, AtWork DEF me
    <3>4. kept' = [kept EXCEPT ![n] = kept'[n]] /\ lock' = [lock EXCEPT ![n] = lock'[n]] /\ link' = link
      BY <2>1, <2>5
    <3> QED
      BY <2>7, <3>1, <3>2, <3>3, <3>4 DEF Frame
  <2>9. LeftWell(n, s)
    BY <2>1, <2>3, <2>4, <2>5, <2>6, <2>7, AtWork DEF LeftWell, me
  <2> QED
    BY <1>a, <2>1, <2>2, <2>3, <2>8, <2>9, InsideMove, InsideWaited DEF TzInv, me
<1>7. CASE RestoreFails(n, s)
  <2> DEFINE x == [me EXCEPT !.pc = "failed"]
  <2>1. me.pc = "restore" /\ link' = link /\ faults <= MaxFaults /\ faults' = faults + 1
    BY <1>7 DEF RestoreFails, Goto
  <2>2. proc' = [proc EXCEPT ![n][s] = x]
    BY <1>7, AtWork DEF RestoreFails, Goto
  <2>3. x \in Procs /\ x.pc = "failed" /\ x.wanted = me.wanted
    BY <1>a, AtWork DEF Procs, Pcs
  <2>p. PICK k \in 0..3 : conf' = [conf EXCEPT ![n] = Written(conf[n], me.old, k)]
    BY <1>7, AtWork DEF RestoreFails
  <2>4. Written(conf[n], me.old, k) \in Confs /\ (conf[n].detected /\ me.old.detected => Written(conf[n], me.old, k).detected)
    BY AtWork, WrittenType
  <2>5. /\ conf' = [conf EXCEPT ![n] = Written(conf[n], me.old, k)] /\ conf'[n] = Written(conf[n], me.old, k)
        /\ kept' = [kept EXCEPT ![n] = kept[n]] /\ kept'[n] = kept[n]
        /\ lock' = [lock EXCEPT ![n] = Free] /\ lock'[n] = Free
    <3>2. conf' = [conf EXCEPT ![n] = Written(conf[n], me.old, k)]
      BY <2>p
    <3>3. conf'[n] = Written(conf[n], me.old, k)
      BY <3>2, AtWork
    <3>4. /\ kept' = [kept EXCEPT ![n] = kept[n]] /\ kept'[n] = kept[n]
          /\ lock' = [lock EXCEPT ![n] = Free] /\ lock'[n] = Free
      BY <1>7, <1>b, AtWork DEF RestoreFails
    <3> QED
      BY <3>2, <3>3, <3>4
  <2> HIDE DEF x, me
  <2>6. proc'[n][s] = x
    BY <2>2, AtWork
  <2>7. faults' \in 0..(MaxFaults + 1) /\ faults' >= faults /\ faults' >= 2
    BY <2>1, AtWork DEF me
  <2>8. Frame(n, s)
    <3>1. conf' = [conf EXCEPT ![n] = conf'[n]] /\ conf'[n] \in Confs
      BY <2>4, <2>5, AtWork DEF me
    <3>2. proc' = [proc EXCEPT ![n][s] = proc'[n][s]] /\ proc'[n][s] \in Procs
      BY <2>2, <2>3, <2>6
    <3>3. kept'[n] \in Confs /\ lock[n] \in {Free, s} /\ lock'[n] \in {Free, s}
      BY <2>1, <2>5, AtWork DEF me
    <3>4. kept' = [kept EXCEPT ![n] = kept'[n]] /\ lock' = [lock EXCEPT ![n] = lock'[n]] /\ link' = link
      BY <2>1, <2>5
    <3> QED
      BY <2>7, <3>1, <3>2, <3>3, <3>4 DEF Frame
  <2>9. LeftWell(n, s)
    BY <2>1, <2>3, <2>4, <2>5, <2>6, <2>7, AtWork DEF LeftWell, me
  <2> QED
    BY <1>a, <2>1, <2>2, <2>3, <2>8, <2>9, InsideMove, InsideWaited DEF TzInv, me
<1> QED
  BY <1>1, <1>2, <1>3, <1>4, <1>5, <1>6, <1>7

(* Every step of the commands.                                             *)
LEMMA TzNextInv == TzInv /\ [TzNext]_tzVars => TzInv'
<1> SUFFICES ASSUME TzInv, [TzNext]_tzVars PROVE TzInv'
  OBVIOUS
<1>0. faults \in 0..(MaxFaults + 1) /\ MaxFaults \in Nat /\ link \in Links
  BY FaultAssumption DEF TzInv, TzSafe, TzTypeOK
<1>1. CASE UNCHANGED tzVars
  BY <1>0, <1>1, StillInv DEF tzVars
<1>2. ASSUME NEW n \in Nodes, Ask(n) PROVE TzInv'
  BY <1>2, OutsideSteps DEF Ask
<1>3. ASSUME NEW n \in Nodes, NEW s \in Slots, Step(n, s) PROVE TzInv'
  BY <1>3, OutsideSteps, InsideSteps DEF Step
<1>4. ASSUME NEW n \in Nodes, TimeOut(n) PROVE TzInv'
  BY <1>4, OutsideSteps
<1>5. ASSUME NEW n \in Nodes, NEW s \in Slots, SetFails(n, s) \/ VerifyFails(n, s) \/ RestoreFails(n, s)
      PROVE TzInv'
  BY <1>5, InsideSteps
<1>6. CASE LinkChange
  BY <1>0, <1>6, StillInv DEF LinkChange, Fault
<1> QED
  BY <1>1, <1>2, <1>3, <1>4, <1>5, <1>6 DEF TzNext, TzFault

(* rpcd starts a command, or takes one back that has ended.                *)
LEMMA OwnInv ==
    ASSUME TzInv, NEW n \in Nodes, NEW x \in Procs,
           proc[n]["own"].pc \in {"idle"} \cup Ended, x.pc \notin Holding,
           proc' = [proc EXCEPT ![n]["own"] = x], UNCHANGED <<conf, lock, link, kept, faults>>
    PROVE  TzInv'
<1>1. /\ TzSafe /\ Waited /\ "own" \in Slots /\ Ssh \subseteq Slots /\ "own" \notin Ssh
      /\ proc \in [Nodes -> [Slots -> Procs]]
  BY SlotAssumption DEF TzInv, TzSafe, TzTypeOK
<1>2. faults \in 0..(MaxFaults + 1) /\ faults' = faults /\ faults' >= faults /\ link' \in Links
  BY FaultAssumption DEF TzInv, TzSafe, TzTypeOK
<1>3. Apart(proc[n]["own"], x)
  BY DEF Apart
<1>4. TzSafe'
  BY <1>1, <1>2, <1>3, OneMove
<1>5. \A m \in Nodes :
         /\ proc'[m]["own"].pc = proc[m]["own"].pc \/ proc[m]["own"].pc # "wait"
         /\ \A t \in Ssh : proc'[m][t] = proc[m][t]
  BY <1>1
<1>6. Waited'
  BY <1>1, <1>5, WaitedKept
<1> QED
  BY <1>4, <1>6 DEF TzInv

-----------------------------------------------------------------------------
(* The pages and the calls of the dashboard.                               *)

(* What a page may have been drawn from.                                   *)
Wireless(n, l, a) == AttachPeer(WifiStatus(n, Peer[n], l, a), l, WifiStatus(Peer[n], n, l, a))
Views(n) == [zone : Confs, system : Systems,
             wireless : {Wireless(n, l, a) : l \in Links, a \in [Nodes -> BOOLEAN]}]

PageSet(b) == [phase : Phases, shown : Views(Host[b]) \cup {Nothing}, polls : BOOLEAN, settled : BOOLEAN]

(* A page that waits for more than its first answer has something to show. *)
CallSet(n) ==
    {c \in [browser : Browsers \cup {NoBrowser}, kind : Kinds, zone : Zones, automatic : BOOLEAN] :
        c.browser # NoBrowser => /\ Host[c.browser] = n
                                 /\ c.kind # "load" => page[c.browser].shown \in Views(n)}

HealthType == air \in [Nodes -> BOOLEAN] /\ system \in [Nodes -> Systems]
PagesType == DOMAIN page = Browsers /\ page = [b \in Browsers |-> page[b]] /\ \A b \in Browsers : page[b] \in PageSet(b)
QueuesType == queue = [n \in Nodes |-> queue[n]] /\ \A n \in Nodes : queue[n] \in Seq(CallSet(n))
PagesDrawn ==
    \A b \in Browsers :
        /\ page[b].phase = "open" => page[b].shown \in Views(Host[b])
        /\ page[b].settled => kept[Host[b]].detected
        /\ page[b].phase = "detect" => ~page[b].settled

DashInv == TzInv /\ HealthType /\ PagesType /\ QueuesType /\ PagesDrawn

(* The headline is "good" only without any warning, so the peer answers    *)
(* and has sent its radios.                                                *)
LEMMA GoodIsFull ==
    ASSUME NEW n \in Nodes, NEW v \in Views(n), Hero(v) = "good"
    PROVE  /\ \A m \in Nodes : \E row \in Listed(v.wireless) : row.node = m
           /\ \A row \in Listed(v.wireless) : row.node = n => row.online
<1>1. PICK l \in Links, a \in [Nodes -> BOOLEAN] : v.wireless = Wireless(n, l, a)
  BY DEF Views
<1> DEFINE w == v.wireless
           status == WifiStatus(n, Peer[n], l, a)
           peer == WifiStatus(Peer[n], n, l, a)
<1>2. CollectWarnings(v.system, w) = {}
  BY DEF Hero, HeroState
<1>3. v.system.error \in BOOLEAN /\ ~v.system.error
  <2>1. v.system.error \in BOOLEAN
    BY BrowserAssumption DEF Views
  <2>2. When(v.system.error, "error", "overview") = {}
    BY <1>2 DEF CollectWarnings
  <2> QED
    BY <2>1, <2>2 DEF When
<1>4. PeerWarnings(w) = {} /\ w.status.warnings = {}
  <2>1. \A code \in w.status.warnings : FALSE
    BY <1>2, <1>3 DEF CollectWarnings
  <2>2. PeerWarnings(w) = {}
    BY <1>2, <1>3 DEF CollectWarnings
  <2> QED
    BY <2>1, <2>2
<1>5. w.status = status /\ status.peer_online = (l # "down") /\ status.radios = {[node |-> n, online |-> a[n]]}
      /\ status.warnings = (IF l # "down" THEN {} ELSE {"peer_offline"}) \cup (IF a[n] THEN {} ELSE {"radio_offline"})
  BY <1>1 DEF Wireless, AttachPeer, WifiStatus
<1>6. l # "down" /\ a[n]
  BY <1>4, <1>5
<1>7. w.available \in BOOLEAN /\ w.available
  <2>1. w.available \in BOOLEAN
    BY <1>1 DEF Wireless, AttachPeer
  <2> QED
    BY <2>1, <1>4, <1>5, <1>6 DEF PeerWarnings, When
<1>8. w.rows = {[node |-> Peer[n], online |-> a[Peer[n]]]}
  <2>1. peer.radios = {[node |-> Peer[n], online |-> a[Peer[n]]]}
    BY DEF WifiStatus
  <2>2. w.rows = IF w.available THEN peer.radios ELSE {}
    BY <1>1 DEF Wireless, AttachPeer
  <2> QED
    BY <1>7, <2>1, <2>2
<1>9. Listed(w) = {[node |-> n, online |-> a[n]], [node |-> Peer[n], online |-> a[Peer[n]]]}
  BY <1>5, <1>8 DEF Listed
<1> QED
  BY <1>6, <1>9, PeerAssumption

(* What the status methods say now is such a view.                         *)
LEMMA ViewType == DashInv => \A n \in Nodes : View(n) \in Views(n)
BY DEF DashInv, TzInv, TzSafe, TzTypeOK, HealthType, View, Views, Wireless

(* The initial state.                                                      *)
LEMMA DashInit == Init => DashInv
<1> SUFFICES ASSUME Init PROVE DashInv
  OBVIOUS
<1>1. TzInv
  BY TzInitInv DEF Init
<1>2. HealthType
  BY DEF Init, HealthType
<1>3. PagesType
  BY DEF Init, PagesType, PageSet, Phases
<1>4. QueuesType
  BY DEF Init, QueuesType
<1>5. PagesDrawn
  BY DEF Init, PagesDrawn
<1> QED
  BY <1>1, <1>2, <1>3, <1>4, <1>5 DEF DashInv

(* The steps of the commands: what is kept only comes to count as detected. *)
LEMMA KeptDetected ==
    ASSUME TzInv, [TzNext]_tzVars, NEW n \in Nodes, kept[n].detected
    PROVE  kept'[n].detected
<1>1. CASE UNCHANGED kept
  BY <1>1
<1>2. ASSUME NEW m \in Nodes, NEW s \in Slots, Verify(m, s) PROVE kept'[n].detected
  <2>1. kept' = [kept EXCEPT ![m] = conf[m]] /\ proc[m][s].pc = "reload"
    BY <1>2 DEF Verify
  <2>2. conf[m].detected /\ kept \in [Nodes -> Confs]
    BY <2>1, AtWork
  <2> QED
    BY <2>1, <2>2
<1>3. UNCHANGED kept \/ \E m \in Nodes, s \in Slots : Verify(m, s)
  BY DEF TzNext, tzVars, Ask, Step, TzFault, CallPeer, PeerAway, Lock, Set, Restore, Return, TimeOut,
         SetFails, VerifyFails, RestoreFails, LinkChange
<1> QED
  BY <1>1, <1>2, <1>3

(* Steps of the commands alone.                                            *)
LEMMA CommandStep == DashInv /\ [TzNext]_tzVars /\ UNCHANGED dashVars => DashInv'
<1> SUFFICES ASSUME DashInv, [TzNext]_tzVars, UNCHANGED dashVars PROVE DashInv'
  OBVIOUS
<1>1. TzInv' /\ UNCHANGED <<air, system, page, queue>>
  BY TzNextInv DEF DashInv, dashVars
<1>2. \A n \in Nodes : kept[n].detected => kept'[n].detected
  BY KeptDetected DEF DashInv
<1>3. \A n \in Nodes : CallSet(n)' = CallSet(n)
  BY <1>1 DEF CallSet
<1>4. HealthType' /\ PagesType'
  BY <1>1 DEF DashInv, HealthType, PagesType
<1>5. QueuesType'
  BY <1>1, <1>3 DEF DashInv, QueuesType
<1>6. PagesDrawn'
  BY <1>1, <1>2, BrowserAssumption DEF DashInv, PagesDrawn
<1> QED
  BY <1>1, <1>4, <1>5, <1>6 DEF DashInv

(* A page that shows what its access point says, or what it has shown.     *)
Redraw(b) ==
    \E x \in PageSet(b) :
        /\ page' = [page EXCEPT ![b] = x]
        /\ x.shown \in Views(Host[b]) \/ x.shown = page[b].shown
        /\ x.phase = "open" => x.shown \in Views(Host[b])
        /\ x.settled = page[b].settled
        /\ x.phase = "detect" => ~x.settled

(* Pages that are redrawn keep what the queues need of them.               *)
LEMMA PagesRedrawn ==
    ASSUME DashInv, UNCHANGED kept, page' = page \/ \E b \in Browsers : Redraw(b)
    PROVE  /\ PagesType' /\ PagesDrawn'
           /\ \A n \in Nodes : CallSet(n) \subseteq CallSet(n)' /\ queue[n] \in Seq(CallSet(n)')
<1>1. PagesType /\ QueuesType /\ PagesDrawn
  BY DEF DashInv
<1>2. /\ PagesType' /\ PagesDrawn'
      /\ \A b \in Browsers : page'[b].shown \in Views(Host[b]) \/ page'[b].shown = page[b].shown
  <2>1. CASE page' = page
    BY <1>1, <2>1 DEF PagesType, PagesDrawn
  <2>2. CASE page' # page
    <3>1. PICK b \in Browsers : Redraw(b)
      BY <2>2
    <3>2. PICK x \in PageSet(b) :
              /\ page' = [page EXCEPT ![b] = x]
              /\ x.shown \in Views(Host[b]) \/ x.shown = page[b].shown
              /\ x.phase = "open" => x.shown \in Views(Host[b])
              /\ x.settled = page[b].settled
              /\ x.phase = "detect" => ~x.settled
      BY <3>1 DEF Redraw
    <3>3. DOMAIN page = Browsers
      BY <1>1 DEF PagesType
    <3>4. /\ page'[b] = x /\ \A o \in Browsers : o # b => page'[o] = page[o]
          /\ DOMAIN page' = Browsers /\ page' = [o \in Browsers |-> page'[o]]
      BY <3>2, <3>3
    <3>5. PagesType'
      BY <1>1, <3>4 DEF PagesType
    <3>6. PagesDrawn'
      BY <1>1, <3>2, <3>4 DEF PagesDrawn
    <3> QED
      BY <3>2, <3>4, <3>5, <3>6
  <2> QED
    BY <2>1, <2>2
<1>3. ASSUME NEW n \in Nodes PROVE CallSet(n) \subseteq CallSet(n)' /\ queue[n] \in Seq(CallSet(n)')
  <2>1. CallSet(n) \subseteq CallSet(n)'
    BY <1>2, BrowserAssumption DEF CallSet
  <2>2. queue[n] \in Seq(CallSet(n))
    BY <1>1 DEF QueuesType
  <2> HIDE DEF CallSet
  <2> QED
    BY <2>1, <2>2
<1> QED
  BY <1>2, <1>3

(* One queue changes, to calls of the next state.                          *)
LEMMA OneQueue ==
    ASSUME QueuesType, NEW n \in Nodes, NEW q \in Seq(CallSet(n)'), queue' = [queue EXCEPT ![n] = q],
           \A m \in Nodes : m # n => queue[m] \in Seq(CallSet(m)')
    PROVE  QueuesType'
<1>1. DOMAIN queue = Nodes
  BY DEF QueuesType
<1>2. queue'[n] = q /\ \A m \in Nodes : m # n => queue'[m] = queue[m]
  BY <1>1
<1>3. queue' = [m \in Nodes |-> queue'[m]]
  BY <1>1
<1>4. \A m \in Nodes : queue'[m] \in Seq(CallSet(m)')
  BY <1>2
<1> QED
  BY <1>3, <1>4 DEF QueuesType

(* The rest of the step, once a page is redrawn and a queue moves.         *)
LEMMA PageStep ==
    ASSUME DashInv, HealthType', TzInv', UNCHANGED kept, page' = page \/ \E b \in Browsers : Redraw(b),
           NEW n \in Nodes, NEW q \in Seq(CallSet(n)'), queue' = [queue EXCEPT ![n] = q]
    PROVE  DashInv'
<1>1. PagesType' /\ PagesDrawn' /\ \A m \in Nodes : queue[m] \in Seq(CallSet(m)')
  BY PagesRedrawn
<1>2. QueuesType'
  BY <1>1, OneQueue DEF DashInv
<1> QED
  BY <1>1, <1>2 DEF DashInv

(* A step that leaves the commands alone.                                  *)
LEMMA TimeStep ==
    ASSUME TzInv, UNCHANGED <<conf, lock, proc, link, kept>>, faults' \in {faults, faults + 1}, faults' <= MaxFaults + 1
    PROVE  TzInv'
<1>1. faults \in 0..(MaxFaults + 1) /\ link \in Links
  BY DEF TzInv, TzSafe, TzTypeOK
<1> QED
  BY <1>1, StillInv, FaultAssumption

(* The call at the head of a queue.                                        *)
LEMMA HeadCall ==
    ASSUME DashInv, NEW n \in Nodes, queue[n] # <<>>
    PROVE  Head(queue[n]) \in CallSet(n)
<1>1. queue[n] \in Seq(CallSet(n))
  BY DEF DashInv, QueuesType
<1> HIDE DEF CallSet
<1> QED
  BY <1>1, HeadTailProperties

(* A control, or the timer, of a page that is open.                        *)
LEMMA AskSteps ==
    ASSUME DashInv, NEW b \in Browsers, Poll(b) \/ \E automatic \in BOOLEAN : Sync(b, automatic)
    PROVE  DashInv'
<1> DEFINE n == Host[b]
<1>0. n \in Nodes /\ BrowserZone[b] \in Zones
  BY BrowserAssumption
<1>1. PagesType /\ PagesDrawn /\ page[b] \in PageSet(b) /\ DOMAIN page = Browsers /\ DOMAIN queue = Nodes
  BY <1>0 DEF DashInv, PagesType, QueuesType
<1>2. page[b].phase = "open" /\ page[b].shown \in Views(n)
  BY <1>1 DEF Poll, Sync, MaySync, PagesDrawn
<1>3. UNCHANGED <<conf, lock, proc, link, kept, faults, air, system>>
  BY DEF Poll, Sync, Use, SameTime, SameHealth, NoFault
<1>4. TzInv' /\ HealthType'
  <2>1. TzInv /\ HealthType /\ faults \in 0..(MaxFaults + 1) /\ MaxFaults \in Nat
    BY FaultAssumption DEF DashInv, TzInv, TzSafe, TzTypeOK
  <2> QED
    BY <1>3, <2>1, TimeStep DEF HealthType
<1>5. page' = page \/ Redraw(b)
  <2>1. CASE Poll(b)
    BY <2>1 DEF Poll
  <2>2. CASE \E automatic \in BOOLEAN : Sync(b, automatic)
    <3> DEFINE x == [page[b] EXCEPT !.polls = FALSE]
    <3>1. page' = [page EXCEPT ![b] = x]
      BY <2>2, <1>1 DEF Sync
    <3>2. x \in PageSet(b) /\ x.shown = page[b].shown /\ x.settled = page[b].settled /\ x.phase = "open"
      BY <1>1, <1>2 DEF PageSet
    <3> QED
      BY <1>2, <3>1, <3>2 DEF Redraw
  <2> QED
    BY <2>1, <2>2
<1>6. PICK kind \in Kinds, zone \in Zones, automatic \in BOOLEAN :
         queue' = [queue EXCEPT ![n] = Append(@, Call(b, kind, zone, automatic))]
  <2>1. CASE Poll(b)
    BY <2>1, ZoneAssumption DEF Poll, Append1, Kinds
  <2>2. CASE \E automatic \in BOOLEAN : Sync(b, automatic)
    <3>1. PICK automatic \in BOOLEAN : Sync(b, automatic)
      BY <2>2
    <3>2. page[b].shown.zone.zone \in Zones
      BY <1>2 DEF Views, Confs
    <3>3. (IF automatic THEN BrowserZone[b] ELSE page[b].shown.zone.zone) \in Zones
      BY <1>0, <3>2
    <3>4. "sync" \in Kinds
      BY DEF Kinds
    <3> QED
      BY <3>1, <3>3, <3>4 DEF Sync, Append1
  <2> QED
    BY <2>1, <2>2
<1> DEFINE c == Call(b, kind, zone, automatic)
<1>7. page'[b].shown \in Views(n)
  <2>1. CASE page' = page
    BY <1>2, <2>1
  <2>2. CASE Redraw(b)
    BY <1>1, <1>2, <2>2 DEF Redraw
  <2> QED
    BY <1>5, <2>1, <2>2
<1>8. c \in CallSet(n)'
  BY <1>6, <1>7 DEF CallSet, Call
<1>9. Append(queue[n], c) \in Seq(CallSet(n)')
  <2>1. queue[n] \in Seq(CallSet(n)')
    BY <1>0, <1>3, <1>5, PagesRedrawn
  <2> HIDE DEF CallSet
  <2> QED
    BY <1>8, <2>1, AppendProperties
<1>10. queue' = [queue EXCEPT ![n] = Append(queue[n], c)]
  BY <1>6
<1> QED
  BY <1>0, <1>3, <1>4, <1>5, <1>9, <1>10, PageStep

(* A page that is opened anew: its calls are nobody's.                     *)
LEMMA OpenStep ==
    ASSUME DashInv, NEW b \in Browsers, Open(b)
    PROVE  DashInv'
<1> DEFINE n == Host[b]
           waiting == queue[n]
           Left(c) == IF c.browser = b THEN [c EXCEPT !.browser = NoBrowser] ELSE c
           left == [i \in DOMAIN waiting |-> Left(waiting[i])]
           x == [phase |-> "load", shown |-> Nothing, polls |-> FALSE, settled |-> kept[n] # Initial]
           c0 == Call(b, "load", Factory, TRUE)
<1>0. n \in Nodes /\ NoBrowser \notin Browsers
  BY BrowserAssumption
<1>1. /\ PagesType /\ PagesDrawn /\ QueuesType /\ DOMAIN page = Browsers /\ DOMAIN queue = Nodes
      /\ waiting \in Seq(CallSet(n))
  BY <1>0 DEF DashInv, PagesType, QueuesType
<1>2. UNCHANGED <<conf, lock, proc, link, kept, faults, air, system>>
  BY DEF Open, Use, SameTime, SameHealth, NoFault
<1>3. TzInv' /\ HealthType'
  <2>1. TzInv /\ HealthType /\ faults \in 0..(MaxFaults + 1) /\ MaxFaults \in Nat
    BY FaultAssumption DEF DashInv, TzInv, TzSafe, TzTypeOK
  <2> QED
    BY <1>2, <2>1, TimeStep DEF HealthType
<1>4. page' = [page EXCEPT ![b] = x] /\ queue' = [queue EXCEPT ![n] = Append(left, c0)]
  BY DEF Open
<1>5. page'[b] = x /\ \A o \in Browsers : o # b => page'[o] = page[o]
  BY <1>1, <1>4
<1>6. x \in PageSet(b) /\ (x.settled => kept[n].detected)
  <2>1. kept[n] = Initial \/ kept[n].detected
    BY <1>0 DEF DashInv, TzInv, TzSafe, Detected
  <2> QED
    BY <2>1 DEF PageSet, Phases
<1>7. PagesType'
  <2>1. DOMAIN page' = Browsers /\ page' = [o \in Browsers |-> page'[o]]
    BY <1>1, <1>4
  <2> QED
    BY <1>1, <1>5, <1>6, <2>1 DEF PagesType
<1>8. PagesDrawn'
  BY <1>1, <1>2, <1>5, <1>6 DEF PagesDrawn
<1>9. \A c \in CallSet(n) : Left(c) \in CallSet(n)'
  BY <1>0, <1>5 DEF CallSet
<1>10. c0 \in CallSet(n)'
  BY ZoneAssumption DEF CallSet, Call, Kinds
<1>11. Append(left, c0) \in Seq(CallSet(n)')
  <2> HIDE DEF CallSet, Left, c0
  <2>1. \A i \in 1..Len(waiting) : Left(waiting[i]) \in CallSet(n)'
    BY <1>1, <1>9, ElementOfSeq
  <2>2. DOMAIN waiting = 1..Len(waiting) /\ Len(waiting) \in Nat
    BY <1>1, LenProperties
  <2>3. left \in Seq(CallSet(n)')
    BY <2>1, <2>2, IsASeq
  <2> QED
    BY <1>10, <2>3, AppendProperties
<1>12. \A m \in Nodes : m # n => queue[m] \in Seq(CallSet(m)')
  <2>1. ASSUME NEW m \in Nodes, m # n PROVE queue[m] \in Seq(CallSet(m)')
    <3>1. CallSet(m) \subseteq CallSet(m)'
      BY <1>5, <2>1 DEF CallSet
    <3>2. queue[m] \in Seq(CallSet(m))
      BY <1>1 DEF QueuesType
    <3> HIDE DEF CallSet
    <3> QED
      BY <3>1, <3>2
  <2> QED
    BY <2>1
<1>13. QueuesType'
  BY <1>0, <1>1, <1>4, <1>11, <1>12, OneQueue
<1> QED
  BY <1>3, <1>7, <1>8, <1>13 DEF DashInv

(* The load and the poll.  A page detects only while nothing is kept that  *)
(* a command has left.                                                     *)
LEMMA ReadSteps ==
    ASSUME DashInv, NEW n \in Nodes, ServeLoad(n) \/ ServePoll(n)
    PROVE  DashInv'
<1> DEFINE h == Head(queue[n])  b == h.browser
           detect == b # NoBrowser /\ conf[n].automatic /\ ~conf[n].detected /\ Supported(b)
           c == Call(b, "detect", BrowserZone[b], TRUE)
<1>1. queue[n] # <<>> /\ queue[n] \in Seq(CallSet(n)) /\ h \in CallSet(n)
  BY HeadCall DEF ServeLoad, ServePoll, Turn, DashInv, QueuesType
<1>2. UNCHANGED <<conf, lock, proc, link, kept, faults, air, system>>
  BY DEF ServeLoad, ServePoll, SameTime, SameHealth, NoFault
<1>3. TzInv' /\ HealthType'
  <2>1. TzInv /\ HealthType /\ faults \in 0..(MaxFaults + 1) /\ MaxFaults \in Nat
    BY FaultAssumption DEF DashInv, TzInv, TzSafe, TzTypeOK
  <2> QED
    BY <1>2, <2>1, TimeStep DEF HealthType
<1>4. b # NoBrowser => /\ b \in Browsers /\ Host[b] = n /\ page[b] \in PageSet(b) /\ DOMAIN page = Browsers
                       /\ h.kind # "load" => page[b].shown \in Views(n)
  BY <1>1 DEF CallSet, DashInv, PagesType
<1>5. View(n) \in Views(n)
  BY ViewType
<1>6. page' = page \/ \E o \in Browsers : Redraw(o)
  <2>1. CASE b = NoBrowser
    BY <2>1 DEF ServeLoad, ServePoll
  <2>2. CASE b # NoBrowser /\ ServeLoad(n) /\ detect
    <3> DEFINE x == [page[b] EXCEPT !.phase = "detect", !.shown = View(n)]
    <3>1. page' = [page EXCEPT ![b] = x]
      BY <1>4, <2>2 DEF ServeLoad
    <3>2. ~page[b].settled
      <4>1. ~kept[n].detected
        BY <2>2 DEF DashInv, TzInv, TzSafe, Detected
      <4> QED
        BY <1>4, <2>2, <4>1 DEF DashInv, PagesDrawn
    <3>3. x \in PageSet(b) /\ x.shown = View(n) /\ x.settled = page[b].settled /\ x.phase = "detect"
      BY <1>4, <1>5, <2>2 DEF PageSet, Phases
    <3> QED
      BY ZenonT(60), <1>4, <1>5, <2>2, <3>1, <3>2, <3>3 DEF Redraw
  <2>3. CASE b # NoBrowser /\ ServeLoad(n) /\ ~detect
    <3> DEFINE x == Shown(page[b], View(n))
    <3>1. page' = [page EXCEPT ![b] = x]
      BY <1>4, <2>3 DEF ServeLoad
    <3>2. x \in PageSet(b) /\ x.shown = View(n) /\ x.settled = page[b].settled /\ x.phase = "open"
      BY <1>4, <1>5, <2>3 DEF PageSet, Phases, Shown
    <3> QED
      BY <1>4, <1>5, <2>3, <3>1, <3>2 DEF Redraw
  <2>4. CASE b # NoBrowser /\ ServePoll(n)
    <3> DEFINE x == [page[b] EXCEPT !.shown = View(n)]
    <3>1. page' = [page EXCEPT ![b] = x]
      BY <1>4, <2>4 DEF ServePoll
    <3>2. x \in PageSet(b) /\ x.shown = View(n) /\ x.settled = page[b].settled /\ x.phase = page[b].phase
      BY <1>4, <1>5, <2>4 DEF PageSet
    <3>3. x.phase = "detect" => ~x.settled
      BY <1>4, <2>4, <3>2 DEF DashInv, PagesDrawn
    <3> QED
      BY <1>4, <1>5, <2>4, <3>1, <3>2, <3>3 DEF Redraw
  <2> QED
    BY <2>1, <2>2, <2>3, <2>4
<1>7. Tail(queue[n]) \in Seq(CallSet(n)')
  <2>1. queue[n] \in Seq(CallSet(n)')
    BY <1>2, <1>6, PagesRedrawn
  <2> HIDE DEF CallSet
  <2> QED
    BY <1>1, <2>1, HeadTailProperties
<1>8. CASE ServeLoad(n) /\ detect
  <2>1. queue' = [queue EXCEPT ![n] = Append(Tail(queue[n]), c)]
    BY <1>8 DEF ServeLoad
  <2>2. page'[b].shown = View(n)
    <3> DEFINE x == [page[b] EXCEPT !.phase = "detect", !.shown = View(n)]
    <3>1. page' = [page EXCEPT ![b] = x]
      BY <1>4, <1>8 DEF ServeLoad
    <3>2. x.shown = View(n)
      BY <1>4, <1>8 DEF PageSet
    <3>3. b \in DOMAIN page
      BY <1>4, <1>8
    <3> HIDE DEF x
    <3> QED
      BY <3>1, <3>2, <3>3
  <2>3. c \in CallSet(n)'
    BY <1>4, <1>5, <1>8, <2>2, BrowserAssumption DEF CallSet, Call, Kinds
  <2>4. Append(Tail(queue[n]), c) \in Seq(CallSet(n)')
    <3> HIDE DEF CallSet, c
    <3> QED
      BY <1>7, <2>3, AppendProperties
  <2> QED
    BY <1>2, <1>3, <1>6, <2>1, <2>4, PageStep
<1>9. CASE ~(ServeLoad(n) /\ detect)
  <2>1. queue' = [queue EXCEPT ![n] = Tail(queue[n])]
    BY <1>9 DEF ServeLoad, ServePoll
  <2> QED
    BY <1>2, <1>3, <1>6, <1>7, <2>1, PageStep
<1> QED
  BY <1>8, <1>9

(* An answer to a page that shows a view, or without one.                  *)
LEMMA AnsweredType ==
    ASSUME NEW b \in Browsers, NEW p \in PageSet(b), p.shown \in Views(Host[b]),
           p.phase = "detect" => ~p.settled,
           NEW kind \in {"detect", "sync"}, NEW success \in BOOLEAN, NEW view, success => view \in Views(Host[b])
    PROVE  LET x == Answered(p, kind, success, view) IN
           /\ x \in PageSet(b) /\ x.shown \in Views(Host[b])
           /\ x.settled = p.settled /\ (x.phase = "detect" => ~x.settled)
<1>1. CASE kind = "sync"
  BY <1>1 DEF Answered, PageSet
<1>2. CASE kind = "detect" /\ ~success
  BY <1>2 DEF Answered, Shown, PageSet, Phases
<1>3. CASE kind = "detect" /\ success
  <2> DEFINE shown == [p.shown EXCEPT !.zone = view.zone, !.system = view.system]
  <2>1. shown \in Views(Host[b])
    <3> DEFINE W == {Wireless(Host[b], l, a) : l \in Links, a \in [Nodes -> BOOLEAN]}
    <3>1. Views(Host[b]) = [zone : Confs, system : Systems, wireless : W]
      BY DEF Views
    <3> HIDE DEF W
    <3> QED
      BY <1>3, <3>1
  <2>2. Answered(p, kind, success, view) = Shown(p, shown)
    BY <1>3 DEF Answered
  <2> HIDE DEF shown
  <2> QED
    BY <2>1, <2>2 DEF Shown, PageSet, Phases
<1> QED
  BY <1>1, <1>2, <1>3

(* configure_timezone begins.                                              *)
LEMMA ConfigureStep ==
    ASSUME DashInv, NEW n \in Nodes, Configure(n)
    PROVE  DashInv'
<1> DEFINE c == Head(queue[n])  x == Command(n, c.zone, c.automatic, "call")
<1>1. c \in CallSet(n) /\ queue \in [Nodes -> {queue[m] : m \in Nodes}]
  BY HeadCall DEF Configure, Turn, DashInv, QueuesType
<1>2. c.zone \in Zones /\ c.automatic \in BOOLEAN
  BY <1>1 DEF CallSet
<1>3. x \in Procs /\ x.pc \notin Holding
  <2> HIDE DEF c
  <2>1. "call" \in {"call", "lock"}
    OBVIOUS
  <2> QED
    BY <1>2, <2>1, RecordTypes
<1>4. TzInv'
  <2> HIDE DEF x
  <2>1. proc' = [proc EXCEPT ![n]["own"] = x] /\ UNCHANGED <<conf, lock, link, kept, faults>>
    BY DEF Configure, NoFault, x
  <2>2. TzInv /\ proc[n]["own"].pc \in {"idle"} \cup Ended
    BY DEF Configure, DashInv
  <2> QED
    BY <1>3, <2>1, <2>2, OwnInv
<1>5. UNCHANGED <<kept, page, queue, air, system>>
  BY DEF Configure, SameHealth
<1>6. HealthType' /\ PagesType' /\ PagesDrawn' /\ \A m \in Nodes : queue[m] \in Seq(CallSet(m)')
  BY <1>5, PagesRedrawn DEF DashInv, HealthType
<1>7. QueuesType'
  BY <1>1, <1>5, <1>6 DEF DashInv, QueuesType
<1> QED
  BY <1>4, <1>6, <1>7 DEF DashInv

(* configure_timezone ends, and its page hears of it.                      *)
LEMMA FinishStep ==
    ASSUME DashInv, NEW n \in Nodes, Finish(n)
    PROVE  DashInv'
<1> DEFINE c == Head(queue[n])  b == c.browser
           x == Answered(page[b], c.kind, proc[n]["own"].pc = "done", View(n))
<1>1. queue[n] # <<>> /\ queue[n] \in Seq(CallSet(n)) /\ c \in CallSet(n) /\ c.kind \in {"detect", "sync"}
  BY HeadCall DEF Finish, Turn, DashInv, QueuesType
<1>2. UNCHANGED <<conf, lock, link, kept, faults, air, system>>
  BY DEF Finish, SameHealth, NoFault
<1>3. TzInv' /\ HealthType'
  <2>1. Idle \in Procs /\ Idle.pc \notin Holding
    <3>1. Idle.pc = "idle"
      BY DEF Idle
    <3>2. Idle \in Procs
      BY RecordTypes, Zenon
    <3> QED
      BY <3>1, <3>2 DEF Holding
  <2>2. proc' = [proc EXCEPT ![n]["own"] = Idle] /\ proc[n]["own"].pc \in {"idle"} \cup Ended /\ TzInv
    BY DEF Finish, DashInv
  <2>3. TzInv'
    BY <1>2, <2>1, <2>2, OwnInv
  <2>4. HealthType'
    BY <1>2 DEF DashInv, HealthType
  <2> QED
    BY <2>3, <2>4
<1>4. page' = page \/ \E o \in Browsers : Redraw(o)
  <2>1. CASE b = NoBrowser
    BY <2>1 DEF Finish
  <2>2. CASE b # NoBrowser
    <3>1. /\ b \in Browsers /\ Host[b] = n /\ page[b] \in PageSet(b) /\ DOMAIN page = Browsers
          /\ page[b].shown \in Views(Host[b]) /\ (page[b].phase = "detect" => ~page[b].settled)
      BY <1>1, <2>2 DEF CallSet, DashInv, PagesType, PagesDrawn
    <3>2. View(n) \in Views(Host[b])
      BY <3>1, ViewType
    <3>3. page' = [page EXCEPT ![b] = x]
      BY <2>2, <3>1 DEF Finish
    <3>4. /\ x \in PageSet(b) /\ x.shown \in Views(Host[b])
          /\ x.settled = page[b].settled /\ (x.phase = "detect" => ~x.settled)
      <4> DEFINE success == proc[n]["own"].pc = "done"
      <4>1. success \in BOOLEAN /\ (success => View(n) \in Views(Host[b]))
        BY <3>2
      <4> HIDE DEF success
      <4>2. /\ Answered(page[b], c.kind, success, View(n)) \in PageSet(b)
            /\ Answered(page[b], c.kind, success, View(n)).shown \in Views(Host[b])
            /\ Answered(page[b], c.kind, success, View(n)).settled = page[b].settled
            /\ Answered(page[b], c.kind, success, View(n)).phase = "detect" => ~page[b].settled
        <5> HIDE DEF c
        <5> QED
          BY <1>1, <3>1, <4>1, AnsweredType
      <4> QED
        BY <4>2 DEF success
    <3> HIDE DEF x
    <3> QED
      BY <3>1, <3>3, <3>4 DEF Redraw
  <2> QED
    BY <2>1, <2>2
<1>5. Tail(queue[n]) \in Seq(CallSet(n)')
  <2>1. queue[n] \in Seq(CallSet(n)')
    BY <1>2, <1>4, PagesRedrawn
  <2> HIDE DEF CallSet
  <2> QED
    BY <1>1, <2>1, HeadTailProperties
<1>6. queue' = [queue EXCEPT ![n] = Tail(queue[n])]
  BY DEF Finish
<1> QED
  BY <1>2, <1>3, <1>4, <1>5, <1>6, PageStep

(* A request that is given up.                                             *)
LEMMA GiveUpStep ==
    ASSUME DashInv, NEW n \in Nodes, NEW i \in DOMAIN queue[n], GiveUp(n, i)
    PROVE  DashInv'
<1> DEFINE c == queue[n][i]  b == c.browser
           left == [c EXCEPT !.browser = NoBrowser]
<1>1. /\ queue[n] \in Seq(CallSet(n)) /\ c \in CallSet(n) /\ i \in 1..Len(queue[n])
      /\ DOMAIN queue = Nodes
  <2>1. queue[n] \in Seq(CallSet(n)) /\ DOMAIN queue = Nodes
    BY DEF DashInv, QueuesType
  <2> HIDE DEF CallSet
  <2> QED
    BY <2>1, ElementOfSeq, LenProperties
<1>2. UNCHANGED <<conf, lock, proc, link, kept, air, system>> /\ faults < MaxFaults /\ faults' = faults + 1
  BY DEF GiveUp, SameTime, SameHealth, Fault
<1>3. TzInv' /\ HealthType'
  <2>1. TzInv /\ HealthType /\ faults \in 0..(MaxFaults + 1) /\ MaxFaults \in Nat
    BY FaultAssumption DEF DashInv, TzInv, TzSafe, TzTypeOK
  <2> QED
    BY <1>2, <2>1, TimeStep DEF HealthType
<1>4. /\ b \in Browsers /\ Host[b] = n /\ page[b] \in PageSet(b) /\ DOMAIN page = Browsers
      /\ c.kind \in Kinds /\ (c.kind # "load" => page[b].shown \in Views(Host[b]))
      /\ (page[b].phase = "open" => page[b].shown \in Views(Host[b]))
      /\ (page[b].phase = "detect" => ~page[b].settled)
  BY <1>1 DEF GiveUp, CallSet, DashInv, PagesType, PagesDrawn
<1>5. page' = page \/ \E o \in Browsers : Redraw(o)
  <2>1. CASE c.kind = "load"
    <3> DEFINE x == [page[b] EXCEPT !.phase = "closed"]
    <3>1. page' = [page EXCEPT ![b] = x]
      BY <1>4, <2>1 DEF GiveUp
    <3>2. x \in PageSet(b) /\ x.shown = page[b].shown /\ x.settled = page[b].settled /\ x.phase = "closed"
      BY <1>4 DEF PageSet, Phases
    <3> QED
      BY <1>4, <3>1, <3>2 DEF Redraw
  <2>2. CASE c.kind = "poll"
    BY <2>2 DEF GiveUp
  <2>3. CASE c.kind \in {"detect", "sync"}
    <3> DEFINE x == Answered(page[b], c.kind, FALSE, Nothing)
    <3>1. page' = [page EXCEPT ![b] = x]
      BY <1>4, <2>3 DEF GiveUp
    <3>2. /\ x \in PageSet(b) /\ x.shown \in Views(Host[b])
          /\ x.settled = page[b].settled /\ (x.phase = "detect" => ~x.settled)
      <4> HIDE DEF c
      <4> QED
        BY <1>4, <2>3, AnsweredType
    <3> HIDE DEF x
    <3> QED
      BY <1>4, <3>1, <3>2 DEF Redraw
  <2> QED
    BY <1>4, <2>1, <2>2, <2>3 DEF Kinds
<1>6. left \in CallSet(n)'
  BY <1>1 DEF CallSet
<1>7. [queue[n] EXCEPT ![i] = left] \in Seq(CallSet(n)')
  <2>1. queue[n] \in Seq(CallSet(n)')
    BY <1>2, <1>5, PagesRedrawn
  <2> HIDE DEF CallSet, left
  <2> QED
    BY <1>1, <1>6, <2>1, ExceptSeq
<1>8. queue' = [queue EXCEPT ![n] = [queue[n] EXCEPT ![i] = left]]
  BY DEF GiveUp
<1> QED
  BY <1>2, <1>3, <1>5, <1>7, <1>8, PageStep

(* The hardware.                                                           *)
LEMMA HealthStep ==
    ASSUME DashInv, NEW n \in Nodes, HealthChange(n)
    PROVE  DashInv'
<1>1. UNCHANGED <<conf, lock, proc, link, kept, page, queue>> /\ faults < MaxFaults /\ faults' = faults + 1
  BY DEF HealthChange, SameTime, Fault
<1>2. TzInv'
  <2>1. TzInv /\ faults \in 0..(MaxFaults + 1) /\ MaxFaults \in Nat
    BY FaultAssumption DEF DashInv, TzInv, TzSafe, TzTypeOK
  <2> QED
    BY <1>1, <2>1, TimeStep
<1>3. HealthType'
  BY DEF HealthChange, DashInv, HealthType
<1>4. PagesType' /\ PagesDrawn' /\ \A m \in Nodes : queue[m] \in Seq(CallSet(m)')
  BY <1>1, PagesRedrawn
<1>5. QueuesType'
  BY <1>1, <1>4 DEF DashInv, QueuesType
<1> QED
  BY <1>2, <1>3, <1>4, <1>5 DEF DashInv

(* Every step.                                                             *)
LEMMA DashNext == DashInv /\ [Next]_vars => DashInv'
<1> SUFFICES ASSUME DashInv, [Next]_vars PROVE DashInv'
  OBVIOUS
<1>1. CASE UNCHANGED vars
  BY <1>1, CommandStep DEF vars
<1>2. CASE TzNext /\ UNCHANGED dashVars
  BY <1>2, CommandStep
<1>3. ASSUME NEW b \in Browsers, User(b) \/ Poll(b) PROVE DashInv'
  BY <1>3, AskSteps, OpenStep DEF User
<1>4. ASSUME NEW n \in Nodes, Serve(n) PROVE DashInv'
  BY <1>4, ReadSteps, ConfigureStep, FinishStep DEF Serve
<1>5. ASSUME NEW n \in Nodes, HealthChange(n) PROVE DashInv'
  BY <1>5, HealthStep
<1>6. ASSUME NEW n \in Nodes, NEW i \in DOMAIN queue[n], GiveUp(n, i) PROVE DashInv'
  BY <1>6, GiveUpStep
<1> QED
  BY <1>1, <1>2, <1>3, <1>4, <1>5, <1>6 DEF Next

(* The invariant holds in every reachable state.                           *)
LEMMA DashAlways == Spec => []DashInv
BY DashInit, DashNext, PTL DEF Spec

-----------------------------------------------------------------------------
(* Without failures, and while one access point at a time sets the zone:   *)
(* one command calls, the one below sshd does what it was asked, and the   *)
(* two access points differ only from the moment the called one has set    *)
(* the zone until the caller has set it too.                               *)
OneCaller(n) == proc[n]["own"].pc = "idle" \/ proc[Peer[n]]["own"].pc = "idle"
Leads(n) ==
    LET me == proc[n]["own"] IN
    /\ me.pc = "idle" /\ proc[Peer[n]]["own"].pc = "idle" => conf[n] = conf[Peer[n]]
    /\ me.pc \in {"call", "failed", "reload", "done"} => conf[n] = conf[Peer[n]]
    /\ me.pc \in {"lock", "set"} => conf[Peer[n]] = New(me)
Helps(n, s) ==
    LET me == proc[n][s]  caller == proc[Peer[n]]["own"] IN
    me.pc # "idle" =>
        /\ me.wanted /\ me.zone = caller.zone /\ me.automatic = caller.automatic
        /\ me.pc \in {"lock", "set", "reload", "done", "failed"}
        /\ conf[n] = IF me.pc \in {"reload", "done"} THEN New(caller) ELSE conf[Peer[n]]

Together == link = "up" /\ \A n \in Nodes : OneCaller(n) /\ Leads(n) /\ \A s \in Ssh : Helps(n, s)
InTurn == faults = 0 /\ ~met => Together

(* The two access points.                                                  *)
LEMMA TwoNodes ==
    ASSUME NEW n \in Nodes
    PROVE  /\ Peer[n] \in Nodes /\ Peer[n] # n /\ Peer[Peer[n]] = n
           /\ \A k \in Nodes : k = n \/ k = Peer[n]
BY PeerAssumption

(* It is enough to look at one access point and at the other one.          *)
LEMMA BothTogether ==
    ASSUME NEW n \in Nodes, link' = "up",
           OneCaller(n)', Leads(n)', Leads(Peer[n])',
           \A s \in Ssh : Helps(n, s)' /\ Helps(Peer[n], s)'
    PROVE  Together'
<1>1. OneCaller(Peer[n])'
  BY TwoNodes DEF OneCaller
<1> QED
  BY <1>1, TwoNodes DEF Together

(* Below the sshd of an access point nothing runs that nobody waits for.   *)
LEMMA Unhelped ==
    ASSUME TzInv, Together, NEW n \in Nodes, proc[Peer[n]]["own"].pc # "wait", NEW s \in Ssh
    PROVE  proc[n][s].pc = "idle"
BY DEF TzInv, Waited, Together, Helps

(* A command that goes on: what it does not touch, and where it gets to.   *)
LEMMA GoesOn ==
    ASSUME TzInv, NEW n \in Nodes, NEW s \in Slots, Lock(n, s) \/ Set(n, s) \/ Verify(n, s)
    PROVE  /\ \A k \in Nodes, t \in Slots : k # n \/ t # s => proc'[k][t] = proc[k][t]
           /\ \A k \in Nodes : k # n => conf'[k] = conf[k]
           /\ LET me == proc[n][s]  x == proc'[n][s] IN
              /\ x.zone = me.zone /\ x.automatic = me.automatic /\ x.wanted = me.wanted
              /\ x.pc \in {"set", "reload", "done"}
           /\ UNCHANGED link
<1> DEFINE me == proc[n][s]
<1>1. proc \in [Nodes -> [Slots -> Procs]] /\ conf \in [Nodes -> Confs] /\ me \in Procs
  BY DEF TzInv, TzSafe, TzTypeOK
<1>2. UNCHANGED link /\ \A k \in Nodes : k # n => conf'[k] = conf[k]
  BY <1>1 DEF Lock, Set, Verify
<1>3. \E pc \in {"set", "reload", "done"} : \E old :
         proc' = [proc EXCEPT ![n][s] = [me EXCEPT !.pc = pc, !.old = old]]
  <2>1. CASE Lock(n, s)
    BY <1>1, <2>1 DEF Lock
  <2>2. ASSUME NEW pc, Goto(n, s, pc)
        PROVE  proc' = [proc EXCEPT ![n][s] = [me EXCEPT !.pc = pc, !.old = me.old]]
    <3>1. [me EXCEPT !.pc = pc] = [me EXCEPT !.pc = pc, !.old = me.old]
      BY <1>1 DEF Procs
    <3>2. proc' = [proc EXCEPT ![n][s] = [me EXCEPT !.pc = pc]]
      BY <2>2 DEF Goto
    <3> QED
      BY <3>1, <3>2
  <2>3. CASE Set(n, s) \/ Verify(n, s)
    BY <2>2, <2>3 DEF Set, Verify
  <2> QED
    BY <2>1, <2>3
<1>3a. PICK pc \in {"set", "reload", "done"} : \E old :
         proc' = [proc EXCEPT ![n][s] = [me EXCEPT !.pc = pc, !.old = old]]
  BY <1>3
<1>4. PICK old : proc' = [proc EXCEPT ![n][s] = [me EXCEPT !.pc = pc, !.old = old]]
  BY <1>3a
<1> DEFINE x == [me EXCEPT !.pc = pc, !.old = old]
<1>5. x.zone = me.zone /\ x.automatic = me.automatic /\ x.wanted = me.wanted /\ x.pc = pc
  BY <1>1 DEF Procs
<1> HIDE DEF x
<1>6. proc' = [proc EXCEPT ![n][s] = x]
  BY <1>4 DEF x
<1>7. proc'[n][s] = x /\ \A k \in Nodes, t \in Slots : k # n \/ t # s => proc'[k][t] = proc[k][t]
  BY <1>1, <1>6
<1> QED
  BY <1>2, <1>5, <1>7

(* What the caller does itself: nothing runs below either sshd.            *)
LEMMA CallerSteps ==
    ASSUME TzInv, Together, faults = 0, NEW n \in Nodes,
           Lock(n, "own") \/ Set(n, "own") \/ Verify(n, "own")
    PROVE  Together'
<1> DEFINE m == Peer[n]  me == proc[n]["own"]  x == proc'[n]["own"]
<1>1. /\ proc \in [Nodes -> [Slots -> Procs]] /\ conf \in [Nodes -> Confs]
      /\ m \in Nodes /\ m # n /\ Peer[m] = n /\ "own" \in Slots /\ "own" \notin Ssh /\ Ssh \subseteq Slots
  BY TwoNodes, SlotAssumption DEF TzInv, TzSafe, TzTypeOK
<1>2. me.pc \in {"lock", "set", "reload"} /\ me \in Procs
  BY <1>1 DEF Lock, Set, Verify
<1>3. proc[m]["own"].pc = "idle" /\ Leads(n) /\ link = "up"
  BY <1>2 DEF Together, OneCaller
<1>4. \A s \in Ssh : proc[n][s].pc = "idle" /\ proc[m][s].pc = "idle"
  BY <1>1, <1>2, <1>3, Unhelped
<1>5. /\ \A s \in Slots : proc'[m][s] = proc[m][s]
      /\ \A s \in Ssh : proc'[n][s] = proc[n][s]
      /\ x.zone = me.zone /\ x.automatic = me.automatic
      /\ link' = link /\ conf'[m] = conf[m]
  <2>1. /\ \A k \in Nodes, t \in Slots : k # n \/ t # "own" => proc'[k][t] = proc[k][t]
        /\ \A k \in Nodes : k # n => conf'[k] = conf[k]
    BY <1>1, GoesOn
  <2>2. x.zone = me.zone /\ x.automatic = me.automatic /\ link' = link
    BY <1>1, GoesOn
  <2> QED
    BY <1>1, <2>1, <2>2
<1>6. New(x) = New(me)
  BY <1>5 DEF New
<1>7. Leads(n)'
  <2>1. CASE Lock(n, "own")
    <3>1. me.pc = "lock" /\ x.pc = "set" /\ UNCHANGED conf
      BY <1>1, <1>2, <2>1 DEF Lock, Procs
    <3>2. conf[m] = New(me)
      BY <1>3, <3>1 DEF Leads
    <3> QED
      BY <1>5, <1>6, <3>1, <3>2 DEF Leads
  <2>2. CASE Set(n, "own")
    <3>1. me.pc = "set" /\ x.pc = "reload" /\ conf'[n] = Written(conf[n], New(me), 3)
      BY <1>1, <1>2, <2>2 DEF Set, Goto, Procs
    <3>2. conf[m] = New(me)
      BY <1>3, <3>1 DEF Leads
    <3>3. conf'[n] = New(me)
      BY <1>1, <1>2, <3>1, RecordTypes, WrittenType
    <3> QED
      BY <1>5, <1>6, <3>1, <3>2, <3>3 DEF Leads
  <2>3. CASE Verify(n, "own")
    <3>1. me.pc = "reload" /\ x.pc = "done" /\ UNCHANGED conf
      BY <1>1, <1>2, <2>3 DEF Verify, Goto, Procs
    <3>2. conf[n] = conf[m]
      BY <1>3, <3>1 DEF Leads
    <3> QED
      BY <1>5, <3>1, <3>2 DEF Leads
  <2> QED
    BY <2>1, <2>2, <2>3
<1>8. x.pc # "idle"
  BY <1>1, GoesOn
<1>9. OneCaller(n)'
  BY <1>1, <1>3, <1>5 DEF OneCaller
<1>10. Leads(m)'
  BY <1>1, <1>3, <1>5, <1>8 DEF Leads
<1>11. \A s \in Ssh : Helps(n, s)' /\ Helps(m, s)'
  BY <1>1, <1>4, <1>5 DEF Helps
<1> QED
  BY <1>3, <1>5, <1>7, <1>9, <1>10, <1>11, BothTogether

(* What the command does that it waits for.                                *)
LEMMA HelperSteps ==
    ASSUME TzInv, Together, faults = 0, NEW n \in Nodes, NEW s \in Ssh,
           Lock(n, s) \/ Set(n, s) \/ Verify(n, s)
    PROVE  Together'
<1> DEFINE m == Peer[n]  me == proc[n][s]  x == proc'[n][s]  caller == proc[m]["own"]
<1>1. /\ proc \in [Nodes -> [Slots -> Procs]] /\ conf \in [Nodes -> Confs]
      /\ m \in Nodes /\ m # n /\ Peer[m] = n /\ "own" \in Slots /\ "own" \notin Ssh /\ Ssh \subseteq Slots
  BY TwoNodes, SlotAssumption DEF TzInv, TzSafe, TzTypeOK
<1>2. me.pc \in {"lock", "set", "reload"} /\ me \in Procs
  BY <1>1 DEF Lock, Set, Verify
<1>3. /\ Helps(n, s) /\ link = "up" /\ OneCaller(n) /\ me.wanted
  BY <1>2 DEF Together, Helps
<1>4. caller.pc = "wait" /\ \A t \in Ssh : proc[n][t].wanted => t = s
  BY <1>3 DEF TzInv, Waited
<1>5. proc[n]["own"].pc = "idle"
  BY <1>3, <1>4 DEF OneCaller
<1>6. \A t \in Ssh : proc[m][t].pc = "idle" /\ (t # s => proc[n][t].pc = "idle")
  BY <1>1, <1>4, <1>5, Unhelped DEF Together, Helps
<1>7. /\ \A t \in Slots : proc'[m][t] = proc[m][t] /\ (t # s => proc'[n][t] = proc[n][t])
      /\ x.zone = me.zone /\ x.automatic = me.automatic /\ x.wanted
      /\ link' = link /\ conf'[m] = conf[m]
  <2>1. /\ \A k \in Nodes, t \in Slots : k # n \/ t # s => proc'[k][t] = proc[k][t]
        /\ \A k \in Nodes : k # n => conf'[k] = conf[k]
    BY <1>1, GoesOn
  <2>2. x.zone = me.zone /\ x.automatic = me.automatic /\ x.wanted = me.wanted /\ link' = link
    BY <1>1, GoesOn
  <2> QED
    BY <1>1, <1>3, <2>1, <2>2
<1>8. New(me) = New(caller) /\ proc'[m]["own"] = caller
  BY <1>1, <1>2, <1>3, <1>7 DEF Helps, New
<1>9. Helps(n, s)'
  <2>1. CASE Lock(n, s)
    <3>1. me.pc = "lock" /\ x.pc = "set" /\ UNCHANGED conf
      BY <1>1, <1>2, <2>1 DEF Lock, Procs
    <3> QED
      BY <1>1, <1>3, <1>7, <1>8, <3>1 DEF Helps
  <2>2. CASE Set(n, s)
    <3>1. me.pc = "set" /\ x.pc = "reload" /\ conf'[n] = Written(conf[n], New(me), 3)
      BY <1>1, <1>2, <2>2 DEF Set, Goto, Procs
    <3>2. conf'[n] = New(caller)
      BY <1>1, <1>2, <1>8, <3>1, RecordTypes, WrittenType
    <3> QED
      BY <1>1, <1>3, <1>7, <1>8, <3>1, <3>2 DEF Helps
  <2>3. CASE Verify(n, s)
    <3>1. me.pc = "reload" /\ x.pc = "done" /\ UNCHANGED conf
      BY <1>1, <1>2, <2>3 DEF Verify, Goto, Procs
    <3> QED
      BY <1>1, <1>3, <1>7, <1>8, <3>1 DEF Helps
  <2> QED
    BY <2>1, <2>2, <2>3
<1>10. ASSUME NEW t \in Ssh PROVE Helps(n, t)' /\ Helps(m, t)'
  <2>1. proc'[m][t].pc = "idle" /\ (t # s => proc'[n][t].pc = "idle")
    BY <1>1, <1>6, <1>7
  <2>2. Helps(m, t)' /\ (t # s => Helps(n, t)')
    BY <1>1, <2>1 DEF Helps
  <2> QED
    BY <1>9, <2>2
<1>11. OneCaller(n)' /\ Leads(n)' /\ Leads(m)'
  BY <1>1, <1>4, <1>5, <1>7, <1>8 DEF OneCaller, Leads
<1> QED
  BY <1>3, <1>7, <1>10, <1>11, BothTogether

(* The caller asks the other access point, which has nothing else to do.   *)
LEMMA CallSteps ==
    ASSUME TzInv, Together, NEW n \in Nodes, CallPeer(n)
    PROVE  Together'
<1> DEFINE m == Peer[n]  me == proc[n]["own"]  c == Command(m, me.zone, me.automatic, "lock")
<1>1. /\ proc \in [Nodes -> [Slots -> Procs]]
      /\ m \in Nodes /\ m # n /\ Peer[m] = n /\ "own" \in Slots /\ "own" \notin Ssh /\ Ssh \subseteq Slots
  BY TwoNodes, SlotAssumption DEF TzInv, TzSafe, TzTypeOK
<1>2. PICK s \in Ssh : proc' = [proc EXCEPT ![n]["own"].pc = "wait", ![m][s] = c]
  BY DEF CallPeer
<1>3. me.pc = "call" /\ UNCHANGED <<conf, link>> /\ me \in Procs
  BY <1>1 DEF CallPeer
<1>4. proc[m]["own"].pc = "idle" /\ conf[n] = conf[m] /\ link = "up"
  BY <1>3 DEF Together, OneCaller, Leads
<1>5. \A t \in Ssh : proc[n][t].pc = "idle" /\ proc[m][t].pc = "idle"
  BY <1>1, <1>3, <1>4, Unhelped
<1> DEFINE x == [me EXCEPT !.pc = "wait"]
<1>6. x.pc = "wait" /\ x.zone = me.zone /\ x.automatic = me.automatic
  BY <1>3 DEF Procs
<1>7. c.pc \in {"lock", "failed"} /\ c.wanted /\ c.zone = me.zone /\ c.automatic = me.automatic
  BY DEF Command
<1>8. proc' = [proc EXCEPT ![n]["own"] = x, ![m][s] = c]
  BY <1>2
<1> HIDE DEF x, c
<1>9. /\ proc'[n]["own"] = x /\ proc'[m]["own"] = proc[m]["own"] /\ proc'[m][s] = c
      /\ \A t \in Ssh : proc'[n][t] = proc[n][t] /\ (t # s => proc'[m][t] = proc[m][t])
  BY <1>1, <1>8
<1>10. OneCaller(n)' /\ Leads(n)' /\ Leads(m)'
  BY <1>1, <1>4, <1>6, <1>9 DEF OneCaller, Leads
<1>11. ASSUME NEW t \in Ssh PROVE Helps(n, t)' /\ Helps(m, t)'
  <2>1. Helps(n, t)' /\ (t # s => Helps(m, t)')
    BY <1>1, <1>5, <1>9 DEF Helps
  <2>2. Helps(m, s)'
    BY <1>1, <1>3, <1>4, <1>6, <1>7, <1>9 DEF Helps
  <2> QED
    BY <2>1, <2>2
<1> QED
  BY <1>3, <1>4, <1>10, <1>11, BothTogether

(* The caller hears how it went.                                           *)
LEMMA ReturnSteps ==
    ASSUME TzInv, Together, NEW n \in Nodes, NEW s \in Ssh, Return(n, s)
    PROVE  Together'
<1> DEFINE m == Peer[n]  me == proc[n][s]  caller == proc[m]["own"]
           pc == IF me.pc = "done" THEN "lock" ELSE "failed"
           x == [caller EXCEPT !.pc = pc]
<1>1. /\ proc \in [Nodes -> [Slots -> Procs]]
      /\ m \in Nodes /\ m # n /\ Peer[m] = n /\ "own" \in Slots /\ "own" \notin Ssh /\ Ssh \subseteq Slots
  BY TwoNodes, SlotAssumption DEF TzInv, TzSafe, TzTypeOK
<1>2. me.pc \in Ended /\ UNCHANGED <<conf, link>> /\ caller \in Procs
  BY <1>1 DEF Return
<1>3. Helps(n, s) /\ link = "up" /\ OneCaller(n) /\ me.wanted
  BY <1>2 DEF Together, Helps
<1>4. caller.pc = "wait" /\ \A t \in Ssh : proc[n][t].wanted => t = s
  BY <1>3 DEF TzInv, Waited
<1>5. proc[n]["own"].pc = "idle"
  BY <1>3, <1>4 DEF OneCaller
<1>6. \A t \in Ssh : proc[m][t].pc = "idle" /\ (t # s => proc[n][t].pc = "idle")
  BY <1>1, <1>4, <1>5, Unhelped DEF Together, Helps
<1>7. conf[n] = IF me.pc = "done" THEN New(caller) ELSE conf[m]
  BY <1>2, <1>3 DEF Helps
<1>8. proc' = [proc EXCEPT ![n][s] = Idle, ![m]["own"] = x]
  <2> DEFINE new == IF me.wanted THEN IF me.pc = "done" THEN "lock" ELSE "failed" ELSE caller.pc
  <2>1. proc' = [proc EXCEPT ![n][s] = Idle, ![m]["own"].pc = new]
    BY DEF Return
  <2>2. new = pc
    BY <1>3
  <2> HIDE DEF new, pc
  <2> QED
    BY <1>1, <2>1, <2>2
<1>9. x.pc = pc /\ New(x) = New(caller)
  <2> HIDE DEF pc
  <2> QED
    BY <1>2 DEF Procs, New
<1>10. Idle.pc = "idle"
  BY DEF Idle
<1> HIDE DEF x
<1>11. /\ proc'[n][s] = Idle /\ proc'[m]["own"] = x /\ proc'[n]["own"] = proc[n]["own"]
       /\ \A t \in Ssh : proc'[m][t] = proc[m][t] /\ (t # s => proc'[n][t] = proc[n][t])
  BY <1>1, <1>8
<1>12. \A t \in Ssh : Helps(n, t)' /\ Helps(m, t)'
  BY <1>1, <1>6, <1>10, <1>11 DEF Helps
<1>13. OneCaller(n)' /\ Leads(n)' /\ Leads(m)'
  BY <1>1, <1>2, <1>5, <1>7, <1>9, <1>11 DEF OneCaller, Leads
<1> QED
  BY <1>2, <1>3, <1>12, <1>13, BothTogether

(* What rpcd has an access point begin, and take note of.                  *)
LEMMA OwnSteps ==
    ASSUME TzInv, Together, NEW n \in Nodes, NEW x,
           proc' = [proc EXCEPT ![n]["own"] = x], UNCHANGED <<conf, link>>,
           \/ x.pc \in {"call", "failed"} /\ proc[n]["own"].pc = "idle" /\ proc[Peer[n]]["own"].pc = "idle"
           \/ x.pc = "idle" /\ proc[n]["own"].pc \in Ended
    PROVE  Together'
<1> DEFINE m == Peer[n]  me == proc[n]["own"]
<1>1. /\ proc \in [Nodes -> [Slots -> Procs]]
      /\ m \in Nodes /\ m # n /\ Peer[m] = n /\ "own" \in Slots /\ "own" \notin Ssh /\ Ssh \subseteq Slots
  BY TwoNodes, SlotAssumption DEF TzInv, TzSafe, TzTypeOK
<1>2. proc[m]["own"].pc = "idle" /\ me.pc # "wait" /\ conf[n] = conf[m] /\ link = "up"
  BY DEF Together, OneCaller, Leads
<1>3. \A t \in Ssh : proc[n][t].pc = "idle" /\ proc[m][t].pc = "idle"
  BY <1>1, <1>2, Unhelped
<1>4. /\ proc'[n]["own"] = x /\ proc'[m]["own"] = proc[m]["own"]
      /\ \A t \in Ssh : proc'[n][t] = proc[n][t] /\ proc'[m][t] = proc[m][t]
  BY <1>1
<1>5. OneCaller(n)' /\ Leads(n)' /\ Leads(m)' /\ \A t \in Ssh : Helps(n, t)' /\ Helps(m, t)'
  BY <1>1, <1>2, <1>3, <1>4 DEF OneCaller, Leads, Helps
<1> QED
  BY <1>2, <1>5, BothTogether

(* What does not touch the commands and their data.                        *)
LEMMA StillTogether == Together /\ UNCHANGED <<conf, proc, link>> => Together'
BY DEF Together, OneCaller, Leads, Helps

(* Every step of the commands, without a failure.                          *)
LEMMA CommandsTogether ==
    ASSUME TzInv, Together, faults = 0, TzNext, faults' = 0
    PROVE  Together'
<1>1. ~TzFault
  BY DEF TzFault, TimeOut, SetFails, VerifyFails, RestoreFails, LinkChange, Fault
<1>2. ASSUME NEW n \in Nodes, Ask(n) PROVE Together'
  BY <1>2, CallSteps DEF Ask, PeerAway, Together
<1>3. ASSUME NEW n \in Nodes, NEW s \in Slots, Step(n, s) PROVE Together'
  <2>1. ~Restore(n, s)
    BY DEF Restore, TzInv, TzSafe, OldKept
  <2>2. Return(n, s) => s \in Ssh
    BY DEF Return
  <2> QED
    BY <1>3, <2>1, <2>2, CallerSteps, HelperSteps, ReturnSteps DEF Step
<1> QED
  BY <1>1, <1>2, <1>3 DEF TzNext

(* Every step of the dashboards too.                                       *)
LEMMA InTurnNext == DashInv /\ InTurn /\ [Next]_vars => InTurn'
<1> SUFFICES ASSUME DashInv, InTurn, [Next]_vars, faults' = 0, ~met' PROVE Together'
  BY DEF InTurn
<1>0. TzInv /\ faults \in Nat
  <2>1. faults \in 0..(MaxFaults + 1)
    BY DEF DashInv, TzInv, TzSafe, TzTypeOK
  <2> QED
    BY <2>1, FaultAssumption DEF DashInv
<1> USE <1>0
<1>a. ~Fault
  BY DEF Fault
<1>1. CASE UNCHANGED vars
  BY <1>1, StillTogether DEF vars, tzVars, dashVars, InTurn
<1>2. CASE TzNext /\ UNCHANGED dashVars
  <2>1. faults = 0
    <3>1. ASSUME NEW n \in Nodes, Ask(n) PROVE faults = 0
      BY <3>1 DEF Ask, CallPeer, PeerAway, NoFault
    <3>2. ASSUME NEW n \in Nodes, NEW s \in Slots, Step(n, s) PROVE faults = 0
      BY <3>2 DEF Step, Lock, Set, Verify, Restore, Return, NoFault
    <3>3. ASSUME NEW n \in Nodes, NEW s \in Slots, RestoreFails(n, s) PROVE FALSE
      BY <3>3 DEF RestoreFails
    <3>4. ~TzFault
      BY <1>a, <3>3 DEF TzFault, TimeOut, SetFails, VerifyFails, LinkChange
    <3> QED
      BY <1>2, <3>1, <3>2, <3>4 DEF TzNext
  <2> QED
    BY <1>0, <1>2, <2>1, CommandsTogether DEF dashVars, InTurn
<1>3. ASSUME NEW b \in Browsers, User(b) \/ Poll(b) PROVE Together'
  BY <1>3, StillTogether DEF User, Open, Sync, Poll, Use, NoFault, SameTime, InTurn
<1>4. ASSUME NEW n \in Nodes, ServeLoad(n) \/ ServePoll(n) PROVE Together'
  BY <1>4, StillTogether DEF ServeLoad, ServePoll, NoFault, SameTime, InTurn
<1>5. ASSUME NEW n \in Nodes, Configure(n) PROVE Together'
  <2> DEFINE c == Head(queue[n])  x == Command(n, c.zone, c.automatic, "call")
  <2>1. /\ faults = 0 /\ ~met /\ UNCHANGED <<conf, link>>
        /\ proc[n]["own"].pc = "idle" /\ proc[Peer[n]]["own"].pc = "idle"
        /\ proc' = [proc EXCEPT ![n]["own"] = x]
    BY <1>5 DEF Configure, NoFault
  <2>2. x.pc \in {"call", "failed"}
    BY DEF Command
  <2> HIDE DEF x
  <2> QED
    BY <1>0, <2>1, <2>2, OwnSteps DEF InTurn
<1>6. ASSUME NEW n \in Nodes, Finish(n) PROVE Together'
  <2>1. /\ faults = 0 /\ ~met /\ UNCHANGED <<conf, link>> /\ proc[n]["own"].pc \in Ended
        /\ proc' = [proc EXCEPT ![n]["own"] = Idle]
    BY <1>6 DEF Finish, NoFault
  <2>2. Idle.pc = "idle"
    BY DEF Idle
  <2> QED
    BY <1>0, <2>1, <2>2, OwnSteps DEF InTurn
<1>7. ASSUME NEW n \in Nodes, HealthChange(n) \/ \E i \in DOMAIN queue[n] : GiveUp(n, i) PROVE Together'
  BY <1>a, <1>7 DEF HealthChange, GiveUp
<1> QED
  BY <1>1, <1>2, <1>3, <1>4, <1>5, <1>6, <1>7 DEF Next, Serve

(* At the beginning nothing runs, and the options are those of the image.  *)
LEMMA InTurnInit == Init => InTurn
<1> SUFFICES ASSUME Init PROVE Together
  BY DEF InTurn
<1>1. \A n \in Nodes : conf[n] = Initial /\ \A s \in Slots : proc[n][s].pc = "idle"
  BY DEF Init, TzInit, Idle
<1>2. link = "up"
  BY DEF Init, TzInit
<1>3. ASSUME NEW n \in Nodes
      PROVE  OneCaller(n) /\ Leads(n) /\ \A s \in Ssh : Helps(n, s)
  <2>1. conf[n] = conf[Peer[n]] /\ \A s \in Slots : proc[n][s].pc = "idle"
    BY <1>1, TwoNodes
  <2>2. \A s \in Ssh : proc[n][s].pc = "idle"
    BY <2>1
  <2> QED
    BY <2>1, <2>2 DEF OneCaller, Leads, Helps
<1> QED
  BY <1>2, <1>3 DEF Together

(* Without failures, and while only one of the two access points sets the  *)
(* zone at a time, both have the same options once nothing is left to do,  *)
(* whatever the pages ask for and either database knows: a zone only one   *)
(* of them knows changes neither.                                          *)
THEOREM PairAgreed == Spec => []PairAgrees
<1>1. InTurn => PairAgrees
  <2> SUFFICES ASSUME InTurn, Quiet, faults = 0, ~met, NEW n \in Nodes PROVE conf[n] = conf[Peer[n]]
    BY DEF PairAgrees
  <2>1. proc[n]["own"].pc = "idle" /\ proc[Peer[n]]["own"].pc = "idle"
    BY TwoNodes DEF Quiet
  <2> QED
    BY <2>1 DEF InTurn, Together, Leads
<1> QED
  BY <1>1, DashAlways, InTurnInit, InTurnNext, PTL DEF Spec

(* Every variable of the two dashboards and the commands below them keeps  *)
(* its range.                                                              *)
THEOREM TypeCorrect == Spec => []TypeOK
<1>1. ASSUME DashInv PROVE TypeOK
  <2>1. TzTypeOK /\ HealthType
    BY <1>1 DEF DashInv, TzInv, TzSafe
  <2>2. \A b \in Browsers : page[b].phase \in Phases /\ page[b].polls \in BOOLEAN
    BY <1>1 DEF DashInv, PagesType, PageSet
  <2>3. \A n \in Nodes : \A i \in DOMAIN queue[n] :
           queue[n][i].browser \in Browsers \cup {NoBrowser} /\ queue[n][i].kind \in Kinds
    <3> SUFFICES ASSUME NEW n \in Nodes, NEW i \in DOMAIN queue[n]
                 PROVE  queue[n][i].browser \in Browsers \cup {NoBrowser} /\ queue[n][i].kind \in Kinds
      OBVIOUS
    <3>1. queue[n] \in Seq(CallSet(n))
      BY <1>1 DEF DashInv, QueuesType
    <3>2. queue[n][i] \in CallSet(n)
      BY <3>1, ElementOfSeq
    <3> QED
      BY <3>2 DEF CallSet
  <2> QED
    BY <2>1, <2>2, <2>3 DEF TypeOK, HealthType
<1> QED
  BY <1>1, DashAlways, PTL

(* With the controls of any number of dashboards and any failures, every   *)
(* option is what the last successful command has left, unless a command   *)
(* is at work or its restore has failed too.                               *)
THEOREM RestoredAlways == Spec => []Restored
<1>1. DashInv => Restored
  BY DEF DashInv, TzInv, TzSafe
<1> QED
  BY <1>1, DashAlways, PTL

(* A page that is opened after a command has succeeded on its access point *)
(* never detects a time zone.                                              *)
THEOREM DetectsOnce == Spec => []DetectedOnce
<1>1. DashInv => DetectedOnce
  BY DEF DashInv, PagesDrawn, DetectedOnce
<1> QED
  BY <1>1, DashAlways, PTL

(* "All systems operational" stands only over a list with the radios of    *)
(* both access points, those of the own one on.                            *)
THEOREM GoodShowsAll == Spec => []GoodIsComplete
<1>1. ASSUME DashInv, NEW b \in Browsers, page[b].phase = "open", Hero(page[b].shown) = "good"
      PROVE  /\ \A n \in Nodes : \E row \in Listed(page[b].shown.wireless) : row.node = n
             /\ \A row \in Listed(page[b].shown.wireless) : row.node = Host[b] => row.online
  <2>1. Host[b] \in Nodes /\ page[b].shown \in Views(Host[b])
    BY <1>1, BrowserAssumption DEF DashInv, PagesDrawn
  <2> QED
    BY <1>1, <2>1, GoodIsFull
<1>2. DashInv => GoodIsComplete
  BY <1>1 DEF GoodIsComplete
<1> QED
  BY <1>2, DashAlways, PTL
=============================================================================
