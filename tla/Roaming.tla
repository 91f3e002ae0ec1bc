------------------------------- MODULE Roaming -------------------------------
(***************************************************************************)
(* roaming-steer on a member of a cluster, for one station, with the loop  *)
(* that keeps its neighbours: cluster-sync-loop asks the other members for *)
(* their radios once a minute and records the cluster's id in a file; the  *)
(* steering loop asks a weak station to move as long as that file names    *)
(* the cluster it was started for and is recent.                           *)
(*                                                                         *)
(* Time passes in ticks of ROAM_INTERVAL.  The code compares the present   *)
(* with the times in its files, here the ages of what the files record,    *)
(* which stop where no comparison tells them apart any more.  The wall     *)
(* clock is not set back or forward.  A signal is good, weak (at           *)
(* ROAM_RSSI_TRIGGER or below) or lost (at ROAM_RSSI_HARD or below).       *)
(***************************************************************************)
EXTENDS Naturals

CONSTANTS
    Clusters,     \* the ids of the clusters this member may be put into
    Samples,      \* ROAM_RSSI_SAMPLES
    Cooldown,     \* ROAM_COOLDOWN, as all that follow in ticks
    MinAge,       \* ROAM_MIN_ASSOC_AGE
    Delay,        \* ROAM_HARD_DELAY
    Window,       \* ROAM_HARD_WINDOW
    MaxAge,       \* how old the neighbour file may be
    SyncInterval, \* INTERVAL of cluster-sync-loop
    SyncTime,     \* how long one round of questions takes at most
    MaxFaults,    \* bound: requests that hostapd, sync rounds that a helper fails
    MaxChanges    \* bound: cluster configurations and restarts of the daemon

ASSUME SteeringAssumption ==
    /\ {Samples, Cooldown, MinAge, Delay, Window, MaxAge, SyncInterval, SyncTime,
        MaxFaults, MaxChanges} \subseteq Nat
    /\ Samples > 0
ASSUME ClusterAssumption == {"none", "standalone"} \cap Clusters = {}

VARIABLES
    signal,   \* of the station, "gone" when it is not associated
    age,      \* since it associated
    weak,     \* the count in its .weak file
    soft,     \* the age of the time in its .soft file, or None
    last,     \* the age of the time in its .last file; Cooldown without one
    polled,   \* whether the steering loop has run in this tick
    config,   \* CLUSTER_ID in cluster.env
    daemon,   \* CLUSTER_ID as the steering loop read it when it started
    named,    \* the id in the neighbour file, "none" without a file
    nbrAge,   \* the age of that file
    sync,     \* the sync-neighbors command, or the loop's sleep
    online,   \* whether another member of the cluster answers
    faults, changes,
    seen,     \* history: since a member of each cluster last answered
    softly,   \* history: since the last soft request of the loop, or None
    answered, \* history: it has been seen well, or been pressed, since then
    sent      \* the request that the last step sent, if any

vars == <<signal, age, weak, soft, last, polled, config, daemon, named, nbrAge,
          sync, online, faults, changes, seen, softly, answered, sent>>
Station == <<signal, age>>
Records == <<weak, soft, last>>
Neighbours == <<named, nbrAge, sync, seen>>
Settings == <<config, daemon, changes>>
Past == <<softly, answered>>

Fault == faults < MaxFaults /\ faults' = faults + 1
NoFault == UNCHANGED faults

None == Window + 2
SoftAges == 0..(Window + 1)
AnswerAge == MaxAge + SyncTime
Older(a, limit) == IF a < limit THEN a + 1 ELSE a
Signals == {"gone", "good", "weak", "lost"}
Sleeping == [pc |-> "sleep", for |-> 0, found |-> FALSE, id |-> "none"]

Init ==
    /\ signal = "gone" /\ age = 0
    /\ weak = 0 /\ soft = None /\ last = Cooldown
    /\ polled = FALSE
    /\ config \in Clusters \cup {"standalone"} /\ daemon = config
    /\ named = "none" /\ nbrAge = 0
    /\ sync = Sleeping
    /\ online \in BOOLEAN
    /\ faults = 0 /\ changes = 0
    /\ seen = [id \in Clusters |-> AnswerAge + 1]
    /\ softly = None
    /\ answered = FALSE
    /\ sent = "none"

-----------------------------------------------------------------------------
(* Time, the station and the network. *)

Tick ==
    /\ polled
    /\ sync.for < (IF sync.pc = "sleep" THEN SyncInterval ELSE SyncTime)
    /\ polled' = FALSE
    /\ age' = Older(age, MinAge) /\ last' = Older(last, Cooldown)
    /\ soft' = Older(soft, Window + 1) /\ softly' = Older(softly, Window + 1)
    /\ nbrAge' = Older(nbrAge, MaxAge + 1)
    /\ seen' = [id \in Clusters |-> Older(seen[id], AnswerAge + 1)]
    /\ sync' = [sync EXCEPT !.for = @ + 1]
    /\ sent' = "none"
    /\ UNCHANGED <<signal, weak, named, online, Settings, answered, faults>>

StationChanges ==
    /\ signal' \in Signals \ {signal}
    /\ age' = IF signal = "gone" THEN 0 ELSE age
    /\ sent' = "none"
    /\ UNCHANGED <<Records, polled, Neighbours, online, Settings, Past, faults>>

NetworkChanges ==
    /\ online' = ~online
    /\ sent' = "none"
    /\ UNCHANGED <<Station, Records, polled, Neighbours, Settings, Past, faults>>

-----------------------------------------------------------------------------
(* cluster-sync-loop and sync-neighbors. *)

(* collect(): the members that answer within 4 s each, with a radio that   *)
(* suits one of ours; a cluster that is not enabled is not asked.          *)
SyncBegins ==
    /\ sync.pc = "sleep" /\ sync.for = SyncInterval
    /\ IF config = "standalone"
       THEN sync' = Sleeping /\ UNCHANGED seen
       ELSE \E found \in {FALSE, online} :
              /\ sync' = [pc |-> "ask", for |-> 0, found |-> found, id |-> config]
              /\ seen' = IF found THEN [seen EXCEPT ![config] = 0] ELSE seen
    /\ sent' = "none"
    /\ UNCHANGED <<Station, Records, polled, named, nbrAge, online, Settings, Past, faults>>

(* Variant: the state file is written whether or not a neighbour went in.   *)
SyncEndsRecording ==
    /\ sync.pc = "ask"
    /\ sync' = Sleeping
    /\ named' = sync.id /\ nbrAge' = 0
    /\ sent' = "none"
    /\ UNCHANGED <<Station, Records, polled, online, Settings, seen, Past, faults>>

(* The file is written, or removed, or left when the command gave up.      *)
SyncEnds ==
    /\ sync.pc = "ask"
    /\ sync' = Sleeping
    /\ \/ sync.found /\ named' = sync.id /\ nbrAge' = 0 /\ NoFault
       \/ ~sync.found /\ named' = "none" /\ nbrAge' = 0 /\ NoFault
       \/ Fault /\ UNCHANGED <<named, nbrAge>>
    /\ sent' = "none"
    /\ UNCHANGED <<Station, Records, polled, online, Settings, seen, Past>>

-----------------------------------------------------------------------------
(* rg-ma2820-cluster configure and disable restart the radios but not the  *)
(* steering loop, which goes on with the id it has read.                   *)

Reconfigure ==
    /\ changes < MaxChanges /\ changes' = changes + 1
    /\ config' \in (Clusters \cup {"standalone"}) \ {config}
    /\ signal' = "gone"
    /\ sent' = "none"
    /\ UNCHANGED <<age, Records, polled, Neighbours, online, daemon, Past, faults>>

RestartDaemon ==
    /\ changes < MaxChanges /\ changes' = changes + 1
    /\ daemon' = config
    /\ sent' = "none"
    /\ UNCHANGED <<Station, Records, polled, Neighbours, online, config, Past, faults>>

-----------------------------------------------------------------------------
(* Variant: the age of the file is not looked at.                           *)
PeerReadyAnyAge == daemon # "standalone" /\ named = daemon

PeerReady ==
    /\ daemon # "standalone"
    /\ named = daemon
    /\ nbrAge <= MaxAge

Weak == signal \in {"weak", "lost"}
Counted == IF weak < Samples THEN weak + 1 ELSE weak

HardDue == signal = "lost" /\ soft # None /\ soft >= Delay /\ soft <= Window
SoftDue == Counted >= Samples /\ last >= Cooldown
Eligible == Weak /\ age >= MinAge /\ PeerReady

Poll ==
    /\ ~polled /\ polled' = TRUE
    /\ UNCHANGED <<Station, Neighbours, online, Settings>>

PollAbsent ==
    /\ Poll /\ signal = "gone"
    /\ sent' = "none" /\ UNCHANGED <<Records, Past, faults>>

(* Variant: the soft request is not forgotten.                              *)
PollGoodKeeping ==
    /\ Poll /\ signal = "good"
    /\ weak' = 0
    /\ answered' = TRUE
    /\ sent' = "none" /\ UNCHANGED <<soft, last, softly, faults>>

PollGood ==
    /\ Poll /\ signal = "good"
    /\ weak' = 0 /\ soft' = None
    /\ answered' = TRUE
    /\ sent' = "none" /\ UNCHANGED <<last, softly, faults>>

PollNotEligible ==
    /\ Poll /\ Weak /\ ~Eligible
    /\ weak' = Counted
    /\ sent' = "none" /\ UNCHANGED <<soft, last, Past, faults>>

PollHard ==
    /\ Poll /\ Eligible /\ HardDue
    /\ \/ /\ sent' = "hard"
          /\ last' = 0 /\ soft' = None /\ weak' = 0
          /\ answered' = TRUE
          /\ NoFault
       \/ /\ Fault /\ sent' = "none"
          /\ weak' = Counted /\ UNCHANGED <<soft, last, answered>>
    /\ UNCHANGED softly

SoftExpired == IF soft # None /\ soft > Window THEN None ELSE soft

(* Variant: only the cooldown is recorded.                                  *)
PollSoftUnrecorded ==
    /\ Poll /\ Eligible /\ ~HardDue /\ SoftDue
    /\ sent' = "soft" /\ last' = 0 /\ weak' = 0
    /\ softly' = 0 /\ answered' = FALSE
    /\ UNCHANGED <<soft, faults>>

PollSoft ==
    /\ Poll /\ Eligible /\ ~HardDue /\ SoftDue
    /\ \/ /\ sent' = "soft"
          /\ soft' = 0 /\ last' = 0 /\ weak' = 0
          /\ softly' = 0 /\ answered' = FALSE
          /\ NoFault
       \/ /\ Fault /\ sent' = "none"
          /\ weak' = Counted /\ soft' = SoftExpired /\ UNCHANGED <<last, Past>>

PollWaiting ==
    /\ Poll /\ Eligible /\ ~HardDue /\ ~SoftDue
    /\ weak' = Counted /\ soft' = SoftExpired
    /\ sent' = "none" /\ UNCHANGED <<last, Past, faults>>

(* roaming-steer --steer, for the web interface: a command of its own, so  *)
(* it reads cluster.env anew.                                              *)
ManualSteer ==
    /\ signal # "gone"
    /\ config # "standalone" /\ named = config /\ nbrAge <= MaxAge
    /\ \/ sent' = "manual" /\ NoFault
       \/ sent' = "none" /\ Fault
    /\ UNCHANGED <<Station, Records, polled, Neighbours, online, Settings, Past>>

-----------------------------------------------------------------------------
Steering ==
    \/ PollAbsent \/ PollGood \/ PollNotEligible \/ PollHard \/ PollSoft
    \/ PollWaiting

Next ==
    \/ Tick \/ StationChanges \/ NetworkChanges
    \/ SyncBegins \/ SyncEnds \/ Reconfigure \/ RestartDaemon
    \/ Steering \/ ManualSteer

Spec ==
    /\ Init /\ [][Next]_vars
    /\ WF_vars(Tick) /\ WF_vars(Steering) /\ WF_vars(SyncBegins) /\ WF_vars(SyncEnds)

-----------------------------------------------------------------------------
(* Every variable stays in its range. *)
TypeOK ==
    /\ signal \in Signals /\ age \in 0..MinAge
    /\ weak \in 0..Samples
    /\ soft \in SoftAges \cup {None} /\ last \in 0..Cooldown
    /\ polled \in BOOLEAN /\ online \in BOOLEAN
    /\ {config, daemon, named} \subseteq Clusters \cup {"none", "standalone"}
    /\ nbrAge \in 0..(MaxAge + 1) /\ seen \in [Clusters -> 0..(AnswerAge + 1)]
    /\ sync.for \in 0..(SyncInterval + SyncTime)
    /\ faults \in 0..MaxFaults /\ changes \in 0..MaxChanges
    /\ softly \in SoftAges \cup {None} /\ answered \in BOOLEAN
    /\ sent \in {"none", "soft", "hard", "manual"}

(* "Active steering is enabled only while a recently authenticated         *)
(* neighbor has been installed locally": whatever the sync loop misses, a  *)
(* station is asked to move only if some member of the very cluster that   *)
(* the asking program belongs to answered not long ago.                    *)
FreshNeighbour ==
    /\ sent \in {"soft", "hard"} => seen[daemon] <= AnswerAge
    /\ sent = "manual" => seen[config] <= AnswerAge

(* A hard request follows one soft request that is as old as the settings  *)
(* say; the station was never seen well since, nor pressed before.         *)
HardAfterSoft == [][
    sent' = "hard" =>
        softly >= Delay /\ softly <= Window /\ ~answered]_vars

(* A station that stays far away while another member is there to take it  *)
(* is pressed again and again, once the daemon runs with the configured     *)
(* cluster.                                                                 *)
HardFallbackComes ==
    <>[](signal = "lost" /\ online /\ named = daemon
            /\ config = daemon /\ daemon # "standalone")
        => []<>(sent = "hard")

(* It is, when the cooldown is not over before the delay and a sample falls *)
(* into the window: set-wifi asks for neither, and a soft request that is   *)
(* renewed before the delay is over puts the hard one off for ever.         *)
PressedInTheEnd ==
    Delay <= Cooldown /\ Delay <= Window => HardFallbackComes

(* When no member answers any more, steering stops. *)
SteeringStops == <>[](~online) => <>[](sent = "none")
=============================================================================
