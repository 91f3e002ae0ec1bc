--------------------------- MODULE Daemons_proofs ---------------------------
(***************************************************************************)
(* The daemons that live by timers: roaming-steer with cluster-sync-loop,  *)
(* and management-loop.                                                    *)
(*                                                                         *)
(* For any clusters, delays and failures: a station is asked to move only  *)
(* when a member of the very cluster that the asking program belongs to    *)
(* answered not long ago, and pressed only after one soft request of the   *)
(* age that the settings say.                                              *)
(*                                                                         *)
(* The first needs to know how old an answer is when it is recorded: a     *)
(* round that found a member has lasted at least as long as its answer is  *)
(* old, and the file is no younger than the round.                         *)
(*                                                                         *)
(* For any nodes, waits and restarts: a loop that serves addresses has its *)
(* own on the bridge, and no other loop has, unless it was restarted.      *)
(***************************************************************************)
EXTENDS Roaming, Management, TLAPS

Types ==
    /\ TypeOK
    /\ sync \in [pc : {"sleep", "ask"}, for : Nat, found : BOOLEAN, id : Clusters \cup {"none"}]
    /\ sync.pc = "sleep" => sync.for <= SyncInterval
    /\ sync.pc = "ask" => sync.for <= SyncTime /\ sync.id \in Clusters
    /\ {config, daemon} \subseteq Clusters \cup {"standalone"}
    /\ named \in Clusters \cup {"none"}

(* How long ago a member of the cluster answered that is being asked or is *)
(* in the file.                                                            *)
Recent ==
    /\ sync.pc = "ask" /\ sync.found = TRUE => seen[sync.id] <= sync.for
    /\ named \in Clusters /\ nbrAge <= MaxAge => seen[named] <= nbrAge + SyncTime

(* The file of a soft request is the file of the last one.                 *)
Pending == soft # None => softly = soft /\ answered = FALSE

IInv == Types /\ Recent /\ Pending /\ FreshNeighbour

-----------------------------------------------------------------------------
(* The settings are numbers.                                               *)
LEMMA SettingsAre ==
    /\ Samples \in Nat /\ Cooldown \in Nat /\ MinAge \in Nat /\ Delay \in Nat /\ Window \in Nat
    /\ MaxAge \in Nat /\ SyncInterval \in Nat /\ SyncTime \in Nat /\ MaxFaults \in Nat
    /\ MaxChanges \in Nat /\ Samples > 0
    /\ "none" \notin Clusters /\ "standalone" \notin Clusters
BY SteeringAssumption, ClusterAssumption

(* The variables, in what a proof with numbers needs of them.              *)
LEMMA NumbersAre ==
    ASSUME Types
    PROVE  /\ soft \in Nat /\ softly \in Nat /\ soft <= None /\ softly <= None /\ None = Window + 2
           /\ nbrAge \in 0..(MaxAge + 1) /\ age \in 0..MinAge /\ last \in 0..Cooldown /\ weak \in 0..Samples
           /\ sync.for \in Nat /\ \A id \in Clusters : seen[id] \in 0..(AnswerAge + 1)
           /\ faults \in 0..MaxFaults /\ changes \in 0..MaxChanges
           /\ AnswerAge = MaxAge + SyncTime
BY SettingsAre DEF Types, TypeOK, None, SoftAges, AnswerAge

(* A request that may be undone or fail is counted.                        *)
LEMMA FaultsBounded ==
    ASSUME Types, NoFault \/ Fault
    PROVE  faults' \in 0..MaxFaults
BY SettingsAre, NumbersAre DEF NoFault, Fault

LEMMA TickStep == IInv /\ Tick => IInv'
<1> SUFFICES ASSUME IInv, Tick PROVE IInv'
    OBVIOUS
<1>1. Types
    BY DEF IInv
<1>2. /\ age' \in 0..MinAge /\ last' \in 0..Cooldown /\ nbrAge' \in 0..(MaxAge + 1)
      /\ nbrAge' >= nbrAge
      /\ nbrAge <= MaxAge => nbrAge' = nbrAge + 1
    BY <1>1, SettingsAre, NumbersAre DEF Tick, Older
<1>3. /\ soft' \in SoftAges \cup {None} /\ softly' \in SoftAges \cup {None}
      /\ soft' # None => soft # None
      /\ softly = soft => softly' = soft'
    BY <1>1, SettingsAre, NumbersAre DEF Tick, Older, Types, TypeOK, SoftAges, None
<1>4. /\ seen' \in [Clusters -> 0..(AnswerAge + 1)]
      /\ \A id \in Clusters : seen'[id] <= seen[id] + 1
    <2>1. AnswerAge + 1 \in Nat
        BY SettingsAre DEF AnswerAge
    <2>2. ASSUME NEW id \in Clusters
          PROVE  Older(seen[id], AnswerAge + 1) \in 0..(AnswerAge + 1) /\ Older(seen[id], AnswerAge + 1) <= seen[id] + 1
        BY <1>1, <2>1, NumbersAre DEF Older
    <2> QED BY <2>2 DEF Tick
<1>5. /\ sync' \in [pc : {"sleep", "ask"}, for : Nat, found : BOOLEAN, id : Clusters \cup {"none"}]
      /\ sync'.pc = sync.pc /\ sync'.found = sync.found /\ sync'.id = sync.id /\ sync'.for = sync.for + 1
    <2>1. sync' = [sync EXCEPT !.for = sync.for + 1]
        BY DEF Tick
    <2> QED BY <1>1, <2>1 DEF Types
<1>6. /\ sync'.pc = "sleep" => sync'.for <= SyncInterval
      /\ sync'.pc = "ask" => sync'.for <= SyncTime /\ sync'.id \in Clusters
    BY <1>1, <1>5, SettingsAre, NumbersAre DEF Tick, Types
<1>7. UNCHANGED <<signal, weak, named, online, config, daemon, changes, answered, faults>> /\ sent' = "none" /\ polled' = FALSE
    BY DEF Tick, Settings
<1>8. sync'.for \in 0..(SyncInterval + SyncTime)
    BY <1>1, <1>5, <1>6, SettingsAre, NumbersAre DEF Types
<1>9. Types'
    <2>1. TypeOK'
        BY <1>1, <1>2, <1>3, <1>4, <1>7, <1>8 DEF Types, TypeOK
    <2> QED BY <1>1, <1>5, <1>6, <1>7, <2>1 DEF Types
<1>10. Recent'
    <2>1. sync'.pc = "ask" /\ sync'.found = TRUE => seen'[sync'.id] <= sync'.for
        BY <1>1, <1>4, <1>5, <1>6, NumbersAre DEF IInv, Recent
    <2>2. named' \in Clusters /\ nbrAge' <= MaxAge => seen'[named'] <= nbrAge' + SyncTime
        BY <1>1, <1>2, <1>4, <1>7, NumbersAre, SettingsAre DEF IInv, Recent
    <2> QED BY <2>1, <2>2 DEF Recent
<1>11. Pending'
    BY <1>3, <1>7 DEF IInv, Pending
<1>12. FreshNeighbour'
    BY <1>7 DEF FreshNeighbour
<1> QED BY <1>9, <1>10, <1>11, <1>12 DEF IInv

(* What happens to the station, the network and the settings.              *)
LEMMA OutsideStep == IInv /\ (StationChanges \/ NetworkChanges \/ Reconfigure \/ RestartDaemon) => IInv'
<1> SUFFICES ASSUME IInv, StationChanges \/ NetworkChanges \/ Reconfigure \/ RestartDaemon PROVE IInv'
    OBVIOUS
<1>1. /\ UNCHANGED <<weak, soft, last, polled, named, nbrAge, sync, seen, softly, answered, faults>>
      /\ sent' = "none"
    BY DEF StationChanges, NetworkChanges, Reconfigure, RestartDaemon, Records, Neighbours, Past
<1>2. /\ signal' \in Signals /\ age' \in 0..MinAge /\ online' \in BOOLEAN
      /\ {config', daemon'} \subseteq Clusters \cup {"standalone"} /\ changes' \in 0..MaxChanges
    <2>1. /\ signal \in Signals /\ "gone" \in Signals /\ age \in 0..MinAge /\ 0 \in 0..MinAge
          /\ {config, daemon} \subseteq Clusters \cup {"standalone"}
          /\ changes \in 0..MaxChanges /\ (changes < MaxChanges => changes + 1 \in 0..MaxChanges)
        BY SettingsAre, NumbersAre DEF IInv, Types, TypeOK, Signals
    <2>2. online' \in BOOLEAN
        BY DEF StationChanges, NetworkChanges, Reconfigure, RestartDaemon, IInv, Types, TypeOK
    <2> QED BY <2>1, <2>2 DEF StationChanges, NetworkChanges, Reconfigure, RestartDaemon, Settings, Station
<1>3. Types'
    <2>1. TypeOK'
        BY <1>1, <1>2 DEF IInv, Types, TypeOK
    <2> QED BY <1>1, <1>2, <2>1 DEF IInv, Types
<1>4. Recent' /\ Pending' /\ FreshNeighbour'
    BY <1>1 DEF IInv, Recent, Pending, FreshNeighbour
<1> QED BY <1>3, <1>4 DEF IInv

(* A round of questions: a member that answers does so within it.          *)
LEMMA SyncStep == IInv /\ (SyncBegins \/ SyncEnds) => IInv'
<1> SUFFICES ASSUME IInv, SyncBegins \/ SyncEnds PROVE IInv'
    OBVIOUS
<1>1. Types
    BY DEF IInv
<1>2. UNCHANGED <<signal, age, weak, soft, last, polled, online, config, daemon, changes, softly, answered>> /\ sent' = "none"
    BY DEF SyncBegins, SyncEnds, Station, Records, Settings, Past
<1>3. Pending' /\ FreshNeighbour'
    BY <1>2 DEF IInv, Pending, FreshNeighbour
<1>4. Sleeping \in [pc : {"sleep", "ask"}, for : Nat, found : BOOLEAN, id : Clusters \cup {"none"}]
      /\ Sleeping.pc = "sleep" /\ Sleeping.for = 0
    BY DEF Sleeping
<1>5. CASE SyncBegins
    <2>1. UNCHANGED <<named, nbrAge, faults>>
        BY <1>5 DEF SyncBegins
    <2>2. CASE config = "standalone"
        <3>1. sync' = Sleeping /\ seen' = seen
            BY <1>5, <2>2 DEF SyncBegins
        <3>2. TypeOK'
            BY <1>1, <1>2, <1>4, <2>1, <3>1, SettingsAre DEF Types, TypeOK
        <3>3. Types'
            BY <1>1, <1>2, <1>4, <2>1, <3>1, <3>2, SettingsAre DEF Types
        <3>4. Recent'
            BY <1>4, <2>1, <3>1 DEF IInv, Recent
        <3> QED BY <1>3, <3>3, <3>4 DEF IInv
    <2>3. CASE config # "standalone"
        <3>1. PICK found \in {FALSE, online} :
                 /\ sync' = [pc |-> "ask", for |-> 0, found |-> found, id |-> config]
                 /\ seen' = IF found THEN [seen EXCEPT ![config] = 0] ELSE seen
            BY <1>5, <2>3 DEF SyncBegins
        <3>2. config \in Clusters /\ found \in BOOLEAN
            BY <1>1, <2>3 DEF Types, TypeOK
        <3>3. /\ sync' \in [pc : {"sleep", "ask"}, for : Nat, found : BOOLEAN, id : Clusters \cup {"none"}]
              /\ sync'.pc = "ask" /\ sync'.for = 0 /\ sync'.id = config /\ sync'.found = found
            BY <3>1, <3>2
        <3>4. /\ seen' \in [Clusters -> 0..(AnswerAge + 1)]
              /\ found = TRUE => seen'[config] = 0
              /\ \A id \in Clusters : seen'[id] <= seen[id]
            <4>1. 0 \in 0..(AnswerAge + 1) /\ seen \in [Clusters -> 0..(AnswerAge + 1)]
                BY <1>1, SettingsAre DEF Types, TypeOK, AnswerAge
            <4>2. CASE found = FALSE
                BY <3>1, <4>1, <4>2, SettingsAre DEF AnswerAge
            <4>3. CASE found = TRUE
                <5>1. seen' = [seen EXCEPT ![config] = 0]
                    BY <3>1, <4>3
                <5> QED BY <3>2, <4>1, <5>1, SettingsAre DEF AnswerAge
            <4> QED BY <3>2, <4>2, <4>3
        <3>5. TypeOK'
            BY <1>1, <1>2, <2>1, <3>3, <3>4, SettingsAre DEF Types, TypeOK
        <3>6. Types'
            BY <1>1, <1>2, <2>1, <3>2, <3>3, <3>5, SettingsAre DEF Types
        <3>7. Recent'
            BY <1>1, <2>1, <3>3, <3>4, NumbersAre, SettingsAre DEF IInv, Recent
        <3> QED BY <1>3, <3>6, <3>7 DEF IInv
    <2> QED BY <2>2, <2>3
<1>6. CASE SyncEnds
    <2>1. sync' = Sleeping /\ seen' = seen /\ sync.pc = "ask"
        BY <1>6 DEF SyncEnds
    <2>2. /\ faults' \in 0..MaxFaults
          /\ \/ sync.found = TRUE /\ named' = sync.id /\ nbrAge' = 0
             \/ named' = "none" /\ nbrAge' = 0
             \/ UNCHANGED <<named, nbrAge>>
        BY <1>1, <1>6, FaultsBounded DEF SyncEnds, Types
    <2>3. TypeOK'
        BY <1>1, <1>2, <1>4, <2>1, <2>2, SettingsAre DEF Types, TypeOK
    <2>4. Types'
        BY <1>1, <1>2, <1>4, <2>1, <2>2, <2>3, SettingsAre DEF Types
    <2>5. Recent'
        BY <1>1, <1>4, <2>1, <2>2, NumbersAre, SettingsAre DEF IInv, Recent, Types
    <2> QED BY <1>3, <2>4, <2>5 DEF IInv
<1> QED BY <1>5, <1>6

-----------------------------------------------------------------------------
(* A cluster whose file is recent enough has answered recently enough.     *)
LEMMA ReadyAnswered ==
    ASSUME IInv, NEW id \in Clusters \cup {"standalone"}, id # "standalone", named = id, nbrAge <= MaxAge
    PROVE  seen[id] <= AnswerAge
BY SettingsAre, NumbersAre DEF IInv, Recent

(* What one look at the station may change of the records.                 *)
LEMMA PollIs ==
    ASSUME IInv, Steering
    PROVE  /\ weak' \in 0..Samples /\ last' \in 0..Cooldown /\ faults' \in 0..MaxFaults
           /\ sent' \in {"none", "soft", "hard"}
           /\ sent' \in {"soft", "hard"} => PeerReady
           /\ \/ soft' = soft /\ UNCHANGED <<softly, answered>>
              \/ soft' = None /\ softly' = softly /\ answered' \in BOOLEAN
              \/ soft' = SoftExpired /\ UNCHANGED <<softly, answered>>
              \/ soft' = 0 /\ softly' = 0 /\ answered' = FALSE
           /\ sent' = "hard" => HardDue
<1>1. Types /\ weak \in 0..Samples /\ last \in 0..Cooldown /\ faults \in 0..MaxFaults
    BY NumbersAre DEF IInv
<1>2. Counted \in 0..Samples /\ 0 \in 0..Samples /\ 0 \in 0..Cooldown
    BY <1>1, SettingsAre DEF Counted
<1>3. (NoFault \/ Fault) => faults' \in 0..MaxFaults
    BY <1>1, FaultsBounded
<1>4. answered \in BOOLEAN
    BY <1>1 DEF Types, TypeOK
<1>5. CASE PollAbsent
    BY <1>1, <1>5 DEF PollAbsent, Records, Past
<1>6. CASE PollGood
    BY <1>1, <1>2, <1>6 DEF PollGood
<1>7. CASE PollNotEligible
    BY <1>1, <1>2, <1>7 DEF PollNotEligible, Past
<1>8. CASE PollHard
    BY <1>1, <1>2, <1>3, <1>8 DEF PollHard, Eligible
<1>9. CASE PollSoft
    BY <1>1, <1>2, <1>3, <1>9 DEF PollSoft, Eligible, Past
<1>10. CASE PollWaiting
    BY <1>1, <1>2, <1>10 DEF PollWaiting, Past
<1> QED BY <1>5, <1>6, <1>7, <1>8, <1>9, <1>10 DEF Steering

LEMMA PollStep == IInv /\ Steering => IInv'
<1> SUFFICES ASSUME IInv, Steering PROVE IInv'
    OBVIOUS
<1>1. Types
    BY DEF IInv
<1>2. UNCHANGED <<signal, age, named, nbrAge, sync, seen, online, config, daemon, changes>> /\ polled' = TRUE
    BY DEF Steering, PollAbsent, PollGood, PollNotEligible, PollHard, PollSoft, PollWaiting,
           Poll, Station, Neighbours, Settings
<1>3. /\ soft' \in SoftAges \cup {None} /\ softly' \in SoftAges \cup {None} /\ answered' \in BOOLEAN
      /\ Pending'
    <2>1. /\ soft \in SoftAges \cup {None} /\ softly \in SoftAges \cup {None} /\ answered \in BOOLEAN
          /\ SoftExpired \in {soft, None} /\ 0 \in SoftAges
        BY <1>1, SettingsAre DEF Types, TypeOK, SoftExpired, SoftAges
    <2> QED BY <2>1, PollIs DEF IInv, Pending
<1>4. TypeOK'
    BY <1>1, <1>2, <1>3, PollIs DEF Types, TypeOK
<1>5. Types'
    BY <1>1, <1>2, <1>4 DEF Types
<1>6. Recent'
    BY <1>2 DEF IInv, Recent
<1>7. FreshNeighbour'
    <2>1. sent' \in {"soft", "hard"} => seen[daemon] <= AnswerAge
        BY <1>1, PollIs, ReadyAnswered DEF PeerReady, Types
    <2> QED BY <1>2, <2>1, PollIs DEF FreshNeighbour
<1> QED BY <1>3, <1>5, <1>6, <1>7 DEF IInv

LEMMA ManualStep == IInv /\ ManualSteer => IInv'
<1> SUFFICES ASSUME IInv, ManualSteer PROVE IInv'
    OBVIOUS
<1>1. Types
    BY DEF IInv
<1>2. UNCHANGED <<signal, age, weak, soft, last, polled, named, nbrAge, sync, seen, online, config, daemon, changes, softly, answered>>
      /\ sent' \in {"none", "manual"} /\ faults' \in 0..MaxFaults
    BY <1>1, FaultsBounded DEF ManualSteer, Station, Records, Neighbours, Settings, Past
<1>3. Types'
    <2>1. TypeOK'
        BY <1>1, <1>2 DEF Types, TypeOK
    <2> QED BY <1>1, <1>2, <2>1 DEF Types
<1>4. seen[config] <= AnswerAge
    BY <1>1, ReadyAnswered DEF ManualSteer, Types
<1> QED BY <1>2, <1>3, <1>4 DEF IInv, Recent, Pending, FreshNeighbour

-----------------------------------------------------------------------------
LEMMA InitInv == Init => IInv
<1> SUFFICES ASSUME Init PROVE IInv
    OBVIOUS
<1>1. Sleeping \in [pc : {"sleep", "ask"}, for : Nat, found : BOOLEAN, id : Clusters \cup {"none"}]
      /\ Sleeping.pc = "sleep" /\ Sleeping.for = 0
    BY DEF Sleeping
<1>2. AnswerAge + 1 \in 0..(AnswerAge + 1)
    BY SettingsAre DEF AnswerAge
<1>3. TypeOK
    <2>1. seen \in [Clusters -> 0..(AnswerAge + 1)]
        BY <1>2 DEF Init
    <2>2. /\ age \in 0..MinAge /\ weak \in 0..Samples /\ last \in 0..Cooldown /\ nbrAge \in 0..(MaxAge + 1)
          /\ sync.for \in 0..(SyncInterval + SyncTime) /\ faults \in 0..MaxFaults /\ changes \in 0..MaxChanges
        BY <1>1, SettingsAre DEF Init
    <2> QED BY <2>1, <2>2 DEF Init, TypeOK, Signals
<1>4. Types
    BY <1>1, <1>3, SettingsAre DEF Init, Types
<1> QED BY <1>1, <1>4, SettingsAre DEF Init, IInv, Recent, Pending, FreshNeighbour

LEMMA NextInv == IInv /\ [Next]_vars => IInv'
<1>1. IInv /\ UNCHANGED vars => IInv'
    BY DEF vars, IInv, Types, TypeOK, Recent, Pending, FreshNeighbour
<1> QED BY <1>1, TickStep, OutsideStep, SyncStep, PollStep, ManualStep DEF Next

(* Types, for any delays.                                                  *)
THEOREM TypeCorrect == Spec => []TypeOK
<1>1. IInv => TypeOK
    BY DEF IInv, Types
<1> QED BY <1>1, InitInv, NextInv, PTL DEF Spec

(* A station is asked to move only towards a cluster of which a member has *)
(* answered not longer ago than the file may be old and a round may last.  *)
THEOREM NeighbourFresh == Spec => []FreshNeighbour
<1>1. IInv => FreshNeighbour
    BY DEF IInv
<1> QED BY <1>1, InitInv, NextInv, PTL DEF Spec

(* A hard request follows a soft one that is neither too young nor too old *)
(* and to which the station has not reacted.                               *)
THEOREM HardLast == Spec => HardAfterSoft
<1>1. IInv /\ [Next]_vars => [sent' = "hard" => softly >= Delay /\ softly <= Window /\ ~answered]_vars
    <2> SUFFICES ASSUME IInv, Next, sent' = "hard"
                 PROVE  softly >= Delay /\ softly <= Window /\ ~answered
        OBVIOUS
    <2>1. Steering
        BY DEF Next, Tick, StationChanges, NetworkChanges, SyncBegins, SyncEnds, Reconfigure,
               RestartDaemon, ManualSteer
    <2>2. HardDue
        BY <2>1, PollIs
    <2> QED BY <2>2 DEF HardDue, IInv, Pending
<1> QED BY <1>1, InitInv, NextInv, PTL DEF Spec, HardAfterSoft

-----------------------------------------------------------------------------
(* management-loop.  What is to be known of one access point: where its    *)
(* loop is, what it sleeps, its lease, its client, FALLBACK_IP and dnsmasq,*)
(* after so many restarts of any loop.                                     *)

Leases == [from : Nodes \cup {"none", "upstream"}, left : 0..Lease]
LoopOK(n, at, sleep, given, asks, own, serves, again) ==
    /\ at \in {"off", "wait", "active", "serve"}
    /\ sleep \in 0..(InitialWait[n] + ProbeWait[n] + Again + 1)
    /\ given \in Leases /\ (given.from # "none" <=> given.left > 0)
    /\ asks \in BOOLEAN /\ (asks <=> at \in {"wait", "active"})
    /\ own \in BOOLEAN /\ serves \in BOOLEAN
    /\ serves => own
    /\ again = 0 => (own <=> at = "serve")

NetworkOK == upstream \in BOOLEAN /\ switches \in 0..MaxSwitches /\ restarts \in 0..MaxRestarts
Loops ==
    /\ pc = [n \in Nodes |-> pc[n]] /\ timer = [n \in Nodes |-> timer[n]]
    /\ lease = [n \in Nodes |-> lease[n]] /\ client = [n \in Nodes |-> client[n]]
    /\ fallback = [n \in Nodes |-> fallback[n]] /\ dnsmasq = [n \in Nodes |-> dnsmasq[n]]
LoopsInv ==
    /\ NetworkOK /\ Loops
    /\ \A n \in Nodes : LoopOK(n, pc[n], timer[n], lease[n], client[n], fallback[n], dnsmasq[n], restarts)

(* Times are numbers, and a lease has a life.                              *)
LEMMA TimesAre ==
    /\ \A n \in Nodes : InitialWait[n] \in Nat /\ ProbeWait[n] \in Nat
    /\ Again \in Nat /\ Lease \in Nat /\ Lease > 0 /\ MaxSwitches \in Nat /\ MaxRestarts \in Nat
    /\ "none" \notin Nodes
BY NodesAssumption, TimesAssumption

LEMMA NoLeaseIs == NoLease \in Leases /\ NoLease.from = "none" /\ NoLease.left = 0
BY TimesAre DEF NoLease, Leases

LEMMA LoopsInitInv == LoopsInit => LoopsInv
BY TimesAre, NoLeaseIs DEF LoopsInit, LoopsInv, NetworkOK, Loops, LoopOK

(* A step of one loop, or of its client, changes what is its own.          *)
LEMMA OneLoop ==
    ASSUME LoopsInv, NEW n \in Nodes, NEW at, NEW sleep, NEW given, NEW asks, NEW own, NEW serves,
           pc' = [pc EXCEPT ![n] = at], timer' = [timer EXCEPT ![n] = sleep],
           lease' = [lease EXCEPT ![n] = given], client' = [client EXCEPT ![n] = asks],
           fallback' = [fallback EXCEPT ![n] = own], dnsmasq' = [dnsmasq EXCEPT ![n] = serves],
           NetworkOK', restarts' >= restarts,
           LoopOK(n, at, sleep, given, asks, own, serves, restarts')
    PROVE  LoopsInv'
<1>1. Loops'
  BY DEF LoopsInv, Loops
<1>2. ASSUME NEW m \in Nodes
      PROVE  LoopOK(m, pc'[m], timer'[m], lease'[m], client'[m], fallback'[m], dnsmasq'[m], restarts')
  <2>1. CASE m = n
    BY <2>1 DEF LoopsInv, Loops
  <2>2. CASE m # n
    <3>1. /\ pc'[m] = pc[m] /\ timer'[m] = timer[m] /\ lease'[m] = lease[m] /\ client'[m] = client[m]
          /\ fallback'[m] = fallback[m] /\ dnsmasq'[m] = dnsmasq[m]
      BY <2>2 DEF LoopsInv, Loops
    <3>2. LoopOK(m, pc[m], timer[m], lease[m], client[m], fallback[m], dnsmasq[m], restarts)
      BY DEF LoopsInv
    <3>3. restarts' = 0 => restarts = 0
      BY TimesAre DEF LoopsInv, NetworkOK
    <3>4. LoopOK(m, pc[m], timer[m], lease[m], client[m], fallback[m], dnsmasq[m], restarts')
      BY <3>2, <3>3 DEF LoopOK
    <3> QED
      BY <3>1, <3>4
  <2> QED
    BY <2>1, <2>2
<1> QED
  BY <1>1, <1>2 DEF LoopsInv

(* The parts of one access point, as they are.                             *)
LEMMA OwnLoop ==
    ASSUME LoopsInv, NEW n \in Nodes
    PROVE  /\ LoopOK(n, pc[n], timer[n], lease[n], client[n], fallback[n], dnsmasq[n], restarts)
           /\ pc = [pc EXCEPT ![n] = pc[n]] /\ timer = [timer EXCEPT ![n] = timer[n]]
           /\ lease = [lease EXCEPT ![n] = lease[n]] /\ client = [client EXCEPT ![n] = client[n]]
           /\ fallback = [fallback EXCEPT ![n] = fallback[n]]
           /\ dnsmasq = [dnsmasq EXCEPT ![n] = dnsmasq[n]]
BY DEF LoopsInv, Loops

(* A loop asks for an address: at first, after it has served, when its     *)
(* address has gone, and when it is restarted.                             *)
LEMMA AskSteps ==
    ASSUME LoopsInv, NEW n \in Nodes, NEW time \in {InitialWait[n], Again}, NEW own, NEW serves,
           Ask(n, time), fallback' = [fallback EXCEPT ![n] = own], dnsmasq' = [dnsmasq EXCEPT ![n] = serves],
           own \in BOOLEAN, serves \in BOOLEAN, serves => own, restarts' = 0 => own = FALSE,
           NetworkOK', restarts' >= restarts
    PROVE  LoopsInv'
<1>1. time \in 0..(InitialWait[n] + ProbeWait[n] + Again + 1)
  BY TimesAre
<1>2. LoopOK(n, "wait", time, NoLease, TRUE, own, serves, restarts')
  BY <1>1, NoLeaseIs DEF LoopOK
<1> QED
  BY <1>2, OneLoop DEF Ask

LEMMA LoopSteps ==
    ASSUME LoopsInv, NEW n \in Nodes, PowerOn(n) \/ Restart(n) \/ Found(n) \/ StartFallback(n)
                                        \/ StopFallback(n) \/ PollAddress(n)
    PROVE  LoopsInv'
<1>0. /\ pc[n] \in {"off", "wait", "active", "serve"}
      /\ timer[n] \in 0..(InitialWait[n] + ProbeWait[n] + Again + 1)
      /\ lease[n] \in Leases /\ (lease[n].from # "none" <=> lease[n].left > 0)
      /\ client[n] \in BOOLEAN /\ (client[n] <=> pc[n] \in {"wait", "active"})
      /\ fallback[n] \in BOOLEAN /\ dnsmasq[n] \in BOOLEAN
      /\ dnsmasq[n] => fallback[n]
      /\ restarts = 0 => (fallback[n] <=> pc[n] = "serve")
      /\ NetworkOK /\ restarts \in Nat
  BY OwnLoop, TimesAre DEF LoopOK, LoopsInv, NetworkOK
<1>a. /\ 1 \in 0..(InitialWait[n] + ProbeWait[n] + Again + 1)
      /\ ProbeWait[n] \in 0..(InitialWait[n] + ProbeWait[n] + Again + 1)
  BY TimesAre
<1>1. CASE PowerOn(n)
  <2>1. NetworkOK' /\ restarts' >= restarts /\ (restarts' = 0 => fallback[n] = FALSE)
    BY <1>0, <1>1 DEF PowerOn, Network, NetworkOK
  <2>2. fallback' = [fallback EXCEPT ![n] = fallback[n]] /\ dnsmasq' = [dnsmasq EXCEPT ![n] = dnsmasq[n]]
    BY <1>1, OwnLoop DEF PowerOn
  <2> QED
    BY <1>0, <1>1, <2>1, <2>2, AskSteps DEF PowerOn
<1>2. CASE Restart(n)
  <2>1. NetworkOK' /\ restarts' >= restarts /\ restarts' # 0
    BY <1>0, <1>2, TimesAre DEF Restart, Network, NetworkOK
  <2>2. fallback' = [fallback EXCEPT ![n] = fallback[n]]
    BY <1>2, OwnLoop DEF Restart
  <2>3. PICK serves \in {dnsmasq[n], FALSE} : dnsmasq' = [dnsmasq EXCEPT ![n] = serves]
    BY <1>2, OwnLoop DEF Restart
  <2> QED
    BY <1>0, <1>2, <2>1, <2>2, <2>3, AskSteps DEF Restart
<1>3. CASE Found(n)
  <2>1. NetworkOK' /\ restarts' = restarts /\ restarts' >= restarts
    BY <1>0, <1>3 DEF Found, Network, NetworkOK
  <2>2. LoopOK(n, "active", 1, lease[n], client[n], fallback[n], dnsmasq[n], restarts')
    BY <1>0, <1>3, <1>a, <2>1 DEF Found, LoopOK
  <2>3. /\ pc' = [pc EXCEPT ![n] = "active"] /\ timer' = [timer EXCEPT ![n] = 1]
        /\ lease' = [lease EXCEPT ![n] = lease[n]] /\ client' = [client EXCEPT ![n] = client[n]]
        /\ fallback' = [fallback EXCEPT ![n] = fallback[n]] /\ dnsmasq' = [dnsmasq EXCEPT ![n] = dnsmasq[n]]
    BY <1>3, OwnLoop DEF Found
  <2> QED
    BY <2>1, <2>2, <2>3, OneLoop
<1>4. CASE StartFallback(n)
  <2>1. NetworkOK' /\ restarts' = restarts /\ restarts' >= restarts
    BY <1>0, <1>4 DEF StartFallback, Network, NetworkOK
  <2>2. LoopOK(n, "serve", ProbeWait[n], NoLease, FALSE, TRUE, TRUE, restarts')
    BY <1>a, NoLeaseIs DEF LoopOK
  <2> QED
    BY <1>4, <2>1, <2>2, OneLoop DEF StartFallback
<1>5. CASE StopFallback(n)
  <2>1. NetworkOK' /\ restarts' >= restarts
    BY <1>0, <1>5 DEF StopFallback, Network, NetworkOK
  <2> QED
    BY <1>5, <2>1, AskSteps DEF StopFallback
<1>6. CASE PollAddress(n)
  <2>0. pc[n] = "active" /\ UNCHANGED <<fallback, dnsmasq, restarts, upstream, switches>>
    BY <1>6 DEF PollAddress, Network
  <2>1. NetworkOK' /\ restarts' >= restarts /\ restarts' = restarts
    BY <1>0, <2>0 DEF NetworkOK
  <2>2. fallback' = [fallback EXCEPT ![n] = fallback[n]] /\ dnsmasq' = [dnsmasq EXCEPT ![n] = dnsmasq[n]]
    BY <2>0, OwnLoop
  <2>3. CASE Ask(n, Again)
    <3>1. restarts' = 0 => fallback[n] = FALSE
      BY <1>0, <2>0
    <3> QED
      BY <1>0, <2>1, <2>2, <2>3, <3>1, AskSteps
  <2>4. CASE timer' = [timer EXCEPT ![n] = 1] /\ UNCHANGED <<pc, lease, client>>
    <3>1. LoopOK(n, pc[n], 1, lease[n], client[n], fallback[n], dnsmasq[n], restarts')
      BY <1>0, <1>a, <2>1 DEF LoopOK
    <3>2. /\ pc' = [pc EXCEPT ![n] = pc[n]] /\ lease' = [lease EXCEPT ![n] = lease[n]]
          /\ client' = [client EXCEPT ![n] = client[n]] /\ timer' = [timer EXCEPT ![n] = 1]
      BY <2>4, OwnLoop
    <3>3. NetworkOK' /\ restarts' >= restarts
      BY <2>1
    <3> QED
      BY <2>2, <3>1, <3>2, <3>3, OneLoop
  <2> QED
    BY <1>6, <2>3, <2>4 DEF PollAddress
<1> QED
  BY <1>1, <1>2, <1>3, <1>4, <1>5, <1>6

(* A client gets a lease, or has it renewed.                               *)
LEMMA LeaseSteps ==
    ASSUME LoopsInv, NEW n \in Nodes, GetLease(n) \/ RenewLease(n)
    PROVE  LoopsInv'
<1>1. UNCHANGED <<pc, timer, client, fallback, dnsmasq, restarts, upstream, switches>>
  BY DEF GetLease, RenewLease, Network
<1>2. PICK server \in Nodes \cup {"upstream"} : Given(n, server)
  BY DEF GetLease, RenewLease, Servers
<1> DEFINE given == [from |-> server, left |-> Lease]
<1>3. given \in Leases /\ given.from # "none" /\ given.left > 0
  BY TimesAre DEF Leases
<1>4. lease' = [lease EXCEPT ![n] = given]
  BY <1>2 DEF Given
<1> HIDE DEF given
<1>5. LoopOK(n, pc[n], timer[n], given, client[n], fallback[n], dnsmasq[n], restarts)
  BY <1>3, OwnLoop DEF LoopOK
<1>6. NetworkOK' /\ restarts' = restarts /\ restarts' >= restarts
  BY <1>1, TimesAre DEF LoopsInv, NetworkOK
<1>7. /\ pc' = [pc EXCEPT ![n] = pc[n]] /\ timer' = [timer EXCEPT ![n] = timer[n]]
      /\ client' = [client EXCEPT ![n] = client[n]]
      /\ fallback' = [fallback EXCEPT ![n] = fallback[n]] /\ dnsmasq' = [dnsmasq EXCEPT ![n] = dnsmasq[n]]
  BY <1>1, OwnLoop
<1> QED
  BY <1>4, <1>5, <1>6, <1>7, OneLoop

(* Time passes: sleeps and leases get shorter.                             *)
LEMMA ElapseStep == ASSUME LoopsInv, Elapse PROVE LoopsInv'
<1>1. UNCHANGED <<pc, client, fallback, dnsmasq, restarts, upstream, switches>>
  BY DEF Elapse, Network
<1>2. Loops' /\ NetworkOK'
  BY <1>1 DEF LoopsInv, Loops, NetworkOK, Elapse
<1>3. ASSUME NEW n \in Nodes
      PROVE  LoopOK(n, pc[n], timer'[n], lease'[n], client[n], fallback[n], dnsmasq[n], restarts)
  <2>1. LoopOK(n, pc[n], timer[n], lease[n], client[n], fallback[n], dnsmasq[n], restarts)
    BY OwnLoop
  <2>2. timer'[n] = IF timer[n] = 0 THEN 0 ELSE timer[n] - 1
    BY DEF Elapse
  <2>3. timer'[n] \in 0..(InitialWait[n] + ProbeWait[n] + Again + 1)
    BY <2>1, <2>2, TimesAre DEF LoopOK
  <2>4. lease'[n] = IF lease[n].left <= 1 THEN NoLease ELSE [lease[n] EXCEPT !.left = @ - 1]
    BY DEF Elapse
  <2>5. lease'[n] \in Leases /\ (lease'[n].from # "none" <=> lease'[n].left > 0)
    <3>1. CASE lease[n].left <= 1
      BY <2>4, <3>1, NoLeaseIs
    <3>2. CASE ~(lease[n].left <= 1)
      <4>1. lease[n] \in Leases /\ (lease[n].from # "none" <=> lease[n].left > 0)
        BY <2>1 DEF LoopOK
      <4>2. lease'[n] = [lease[n] EXCEPT !.left = lease[n].left - 1]
        BY <2>4, <3>2
      <4>3. lease[n].left - 1 \in 0..Lease /\ lease[n].left - 1 > 0 /\ lease[n].left > 0
        BY <3>2, <4>1, TimesAre DEF Leases
      <4>4. lease'[n] \in Leases /\ lease'[n].from = lease[n].from /\ lease'[n].left = lease[n].left - 1
        BY <4>1, <4>2, <4>3 DEF Leases
      <4> QED
        BY <4>1, <4>3, <4>4
    <3> QED
      BY <3>1, <3>2
  <2> QED
    BY <2>1, <2>3, <2>5 DEF LoopOK
<1> QED
  BY <1>1, <1>2, <1>3 DEF LoopsInv

LEMMA LoopsNextInv == LoopsInv /\ [LoopsNext]_loopVars => LoopsInv'
<1> SUFFICES ASSUME LoopsInv, [LoopsNext]_loopVars PROVE LoopsInv'
  OBVIOUS
<1>1. CASE UNCHANGED <<pc, timer, lease, client, fallback, dnsmasq, restarts>> /\ NetworkOK'
  BY <1>1 DEF LoopsInv, Loops
<1>2. CASE UNCHANGED loopVars
  <2>1. NetworkOK'
    BY <1>2 DEF loopVars, LoopsInv, NetworkOK
  <2> QED
    BY <1>1, <1>2, <2>1 DEF loopVars
<1>3. CASE UpstreamChanges
  <2>1. NetworkOK'
    BY <1>3, TimesAre DEF UpstreamChanges, LoopsInv, NetworkOK
  <2> QED
    BY <1>1, <1>3, <2>1 DEF UpstreamChanges
<1> QED
  BY <1>2, <1>3, LoopSteps, LeaseSteps, ElapseStep DEF LoopsNext, Act

LEMMA LoopsInvHolds == LoopsSpec => []LoopsInv
BY LoopsInitInv, LoopsNextInv, PTL DEF LoopsSpec

(* Every variable of the loops keeps its range, for any nodes and waits;   *)
(* a client runs in the loops that ask or have an address, and in no other.*)
THEOREM LoopsTypeCorrect == LoopsSpec => []LoopsTypeOK
<1>1. LoopsInv => LoopsTypeOK
  <2> SUFFICES ASSUME LoopsInv PROVE LoopsTypeOK
    OBVIOUS
  <2>1. \A n \in Nodes : LoopOK(n, pc[n], timer[n], lease[n], client[n], fallback[n], dnsmasq[n], restarts)
    BY DEF LoopsInv
  <2>2. NetworkOK /\ Loops
    BY DEF LoopsInv
  <2>3. pc \in [Nodes -> {"off", "wait", "active", "serve"}]
    BY <2>1, <2>2 DEF LoopOK, Loops
  <2>4. fallback \in [Nodes -> BOOLEAN] /\ dnsmasq \in [Nodes -> BOOLEAN]
    BY <2>1, <2>2 DEF LoopOK, Loops
  <2> QED
    BY <2>1, <2>2, <2>3, <2>4 DEF LoopsTypeOK, LoopOK, NetworkOK, HasLease, Leases
<1> QED
  BY <1>1, LoopsInvHolds, PTL

(* A fallback server has its address on the bridge, and no loop mistakes   *)
(* its own FALLBACK_IP for a lease while none was restarted.               *)
THEOREM FallbackOwned == LoopsSpec => []FallbackIsOwned
<1>1. LoopsInv => FallbackIsOwned
  BY DEF LoopsInv, LoopOK, FallbackIsOwned
<1> QED
  BY <1>1, LoopsInvHolds, PTL
=============================================================================
