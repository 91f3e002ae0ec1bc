----------------------------- MODULE PairRadios -----------------------------
(***************************************************************************)
(* The radios of a pair of access points, ap2 and ap3.  Each chooses its   *)
(* channels when its radios start, away from those the other has           *)
(* published; neighbor-sync then compares the two, moves ap2 when they     *)
(* collide, installs the other as a neighbour in hostapd and publishes its *)
(* state in a file, which roaming-steer takes for a target to send         *)
(* stations to.                                                            *)
(*                                                                         *)
(* Channels are automatic, as set-wifi demands of a pair.  The radios of   *)
(* an access point are not started by two programs at a time.  SSIDs,      *)
(* addresses and what makes a state valid are left out; the BSS for older  *)
(* clients goes with the 5 GHz one.                                        *)
(***************************************************************************)
EXTENDS Naturals

CONSTANTS
    Channels,   \* of each band, the channels channel-select knows
    Fallback,   \* FALLBACK_CHANNEL_2G and _5G of each access point
    Noise,      \* bound: the score that a scan gives a channel, of each band
    Attempts,   \* PEER_ATTEMPTS_AP2 and _AP3
    Configs,    \* the settings the two may have (what CONFIG_HASH tells apart)
    Shipped,    \* the settings of the image
    MaxFaults,  \* bound: power and link losses, calls and starts that fail
    MaxCommands \* bound: Wi-Fi settings that are applied

Nodes == {"ap2", "ap3"}
Peer(n) == IF n = "ap2" THEN "ap3" ELSE "ap2"
Bands == 1..2   \* wl0 (2.4 GHz) and wl1 (5 GHz), in the order of installation

ASSUME ChannelsAssumption ==
    /\ Channels \in [Bands -> SUBSET (Nat \ {0})]
    /\ \A n \in Nodes, b \in Bands : Fallback[n][b] \in Channels[b]
ASSUME PairAssumption ==
    /\ Attempts \in [Nodes -> Nat \ {0}]
    /\ Noise \in [Bands -> Nat] /\ {MaxFaults, MaxCommands} \subseteq Nat
    /\ Shipped \in Configs /\ "none" \notin Configs

VARIABLES
    config,  \* wifi.env
    before,  \* the copy that set-wifi goes back to, while it runs
    svc,     \* the last start of the radios
    radio,   \* what STATE_FILE publishes
    cmd,     \* the set-wifi command; roaming-steer runs while it is "none"
    entry,   \* the peer's channel in hostapd's neighbour list, 0 without
    round,   \* neighbor-sync
    file,    \* PEER_STATE_FILE
    marker,  \* COLLISION_MARKER
    link,    \* whether the two reach each other
    faults, commands,
    refused  \* history: the bands whose last set_neighbor did not succeed

vars == <<config, before, svc, radio, cmd, entry, round, file, marker, link,
          faults, commands, refused>>
Settings == <<config, before, commands>>
Radios == <<svc, radio, entry>>
Knowledge == <<file, marker, refused>>

Fault == faults < MaxFaults /\ faults' = faults + 1
NoFault == UNCHANGED faults

Unknown == [b \in Bands |-> 0]
Nothing == [channel |-> Unknown, config |-> "none"]
ChannelMaps == {c \in [Bands -> UNION {Channels[b] : b \in Bands}] : \A b \in Bands : c[b] \in Channels[b]}
States == [channel : ChannelMaps, config : Configs]
Asking == [pc |-> "asking", tries |-> 0, known |-> Unknown, chosen |-> Unknown]
Asleep == [pc |-> "sleep", own |-> Nothing, peer |-> Nothing, next |-> 1]
Starting == [Asleep EXCEPT !.pc = "starting"]

Init ==
    /\ config = [n \in Nodes |-> Shipped] /\ before = config
    /\ svc = [n \in Nodes |-> Asking]
    /\ radio = [n \in Nodes |-> Nothing]
    /\ cmd = [n \in Nodes |-> "none"]
    /\ entry = [n \in Nodes |-> Unknown]
    /\ round = [n \in Nodes |-> Starting]
    /\ file = [n \in Nodes |-> Nothing]
    /\ marker = [n \in Nodes |-> FALSE]
    /\ link = TRUE
    /\ faults = 0 /\ commands = 0
    /\ refused = [n \in Nodes |-> {}]

-----------------------------------------------------------------------------
(* The Wi-Fi service. *)

(* stop, and the start up to read_peer_channels: hostapd is gone, and with it *)
(* the neighbours; STATE_FILE is removed.                                     *)
Restart(n) ==
    /\ svc' = [svc EXCEPT ![n] = Asking]
    /\ radio' = [radio EXCEPT ![n] = Nothing]
    /\ entry' = [entry EXCEPT ![n] = Unknown]

Answers(n) == link /\ radio[Peer(n)] # Nothing
ServiceOnly == UNCHANGED <<entry, cmd, round, link, Settings, Knowledge>>

(* One attempt of read_peer_channels, which may be cut off after 6 s; without *)
(* br-lan's address there is none.                                            *)
AskPeer(n) ==
    /\ svc[n].pc = "asking"
    /\ \/ /\ Answers(n) /\ NoFault
          /\ svc' = [svc EXCEPT ![n].known = radio[Peer(n)].channel, ![n].pc = "choosing"]
       \/ /\ IF Answers(n) THEN Fault ELSE NoFault
          /\ svc' = [svc EXCEPT ![n].tries = @ + 1,
                        ![n].pc = IF svc[n].tries + 1 = Attempts[n] THEN "choosing" ELSE @]
       \/ /\ svc[n].tries = 0 /\ Fault
          /\ svc' = [svc EXCEPT ![n].pc = "choosing"]
    /\ UNCHANGED radio /\ ServiceOnly

(* channel-select: the first channel of the lowest score, but the fallback  *)
(* when none is lower; the peer's channel scores more than any scan gives.  *)
Scored(b, noise, avoid) ==
    [c \in Channels[b] |-> noise[c] + (IF c = avoid THEN Noise[b] + 1 ELSE 0)]
Best(score, fallback) ==
    LET lowest == {c \in DOMAIN score : \A d \in DOMAIN score : score[c] <= score[d]}
    IN IF fallback \in lowest THEN fallback
       ELSE CHOOSE c \in lowest : \A d \in lowest : c <= d

Scanned(n, b) ==
    {Best(Scored(b, noise, svc[n].known[b]), Fallback[n][b]) : noise \in [Channels[b] -> 0..Noise[b]]}

(* Without a scan channel-select prints the fallback, whatever is to be avoided. *)
Selectable(n, b) == Scanned(n, b) \cup {Fallback[n][b]}

SelectChannels(n) ==
    /\ svc[n].pc = "choosing"
    /\ \E chosen \in ChannelMaps :
        /\ \A b \in Bands : chosen[b] \in Selectable(n, b)
        /\ svc' = [svc EXCEPT ![n] = [Asking EXCEPT !.pc = "starting", !.chosen = chosen]]
    /\ NoFault /\ UNCHANGED radio /\ ServiceOnly

(* start_radio for both, then write_state if both have come up.  Radios that *)
(* have just failed may fail again for the same reason.                      *)
StartRadios(n) ==
    /\ svc[n].pc = "starting"
    /\ \/ /\ NoFault
          /\ svc' = [svc EXCEPT ![n] = [Asking EXCEPT !.pc = "up"]]
          /\ radio' = [radio EXCEPT ![n] = [channel |-> svc[n].chosen, config |-> config[n]]]
       \/ /\ IF cmd[n] = "again" THEN NoFault ELSE Fault
          /\ svc' = [svc EXCEPT ![n] = [Asking EXCEPT !.pc = "failed"]]
          /\ UNCHANGED radio
    /\ ServiceOnly

Started(n) == svc[n].pc \in {"up", "failed"}

-----------------------------------------------------------------------------
(* neighbor-sync: sync_once, then a sleep. *)

RoundOnly == UNCHANGED <<cmd, link, Settings>>
ReturnFrom(n) == round' = [round EXCEPT ![n] = Asleep]

(* What a new neighbor-sync does first.  procd starts it in its own time. *)
SyncStarts(n) ==
    /\ round[n].pc = "starting"
    /\ file' = [file EXCEPT ![n] = Nothing]
    /\ refused' = [refused EXCEPT ![n] = {}]
    /\ ReturnFrom(n) /\ NoFault /\ UNCHANGED <<Radios, marker>> /\ RoundOnly

ReadOwn(n) ==
    /\ round[n].pc = "sleep" /\ radio[n] # Nothing
    /\ round' = [round EXCEPT ![n].pc = "look", ![n].own = radio[n]]
    /\ NoFault /\ UNCHANGED <<Radios, Knowledge>> /\ RoundOnly

(* On 5 GHz the centres are compared, which are one for the channels of a block. *)
SameChannel(one, other) == \E b \in Bands : one.channel[b] = other.channel[b]
Comparable(n) == Answers(n) /\ radio[Peer(n)].config = round[n].own.config
MustMove(n) == n = "ap2" /\ SameChannel(round[n].own, radio[Peer(n)])

LookFails(n) ==
    /\ round[n].pc = "look"
    /\ IF Comparable(n) THEN Fault ELSE NoFault
    /\ ReturnFrom(n) /\ UNCHANGED <<Radios, Knowledge>> /\ RoundOnly

(* Variant: ap2 moves as often as it collides. *)
SpentNever(n) == FALSE

(* The marker of an earlier attempt to move is still there. *)
Spent(n) == marker[n]

LookStuck(n) ==
    /\ round[n].pc = "look" /\ Comparable(n) /\ MustMove(n) /\ Spent(n)
    /\ ReturnFrom(n) /\ NoFault /\ UNCHANGED <<Radios, Knowledge>> /\ RoundOnly

(* Variant: roaming keeps the file while the radios restart. *)
RepairKeepingFile(n) ==
    /\ round[n].pc = "look" /\ Comparable(n) /\ MustMove(n) /\ ~Spent(n)
    /\ Started(n) /\ cmd[n] \in {"none", "roaming", "stopped"}
    /\ round' = [round EXCEPT ![n] = [Asleep EXCEPT !.pc = "repair"]]
    /\ marker' = [marker EXCEPT ![n] = TRUE]
    /\ Restart(n)
    /\ NoFault /\ UNCHANGED <<file, refused>> /\ RoundOnly

Repair(n) ==
    /\ round[n].pc = "look" /\ Comparable(n) /\ MustMove(n) /\ ~Spent(n)
    /\ Started(n) /\ cmd[n] \in {"none", "roaming", "stopped"}
    /\ round' = [round EXCEPT ![n] = [Asleep EXCEPT !.pc = "repair"]]
    /\ marker' = [marker EXCEPT ![n] = TRUE]
    /\ file' = [file EXCEPT ![n] = Nothing]
    /\ refused' = [refused EXCEPT ![n] = {}]
    /\ Restart(n)
    /\ NoFault /\ RoundOnly

RepairEnds(n) ==
    /\ round[n].pc = "repair" /\ Started(n)
    /\ ReturnFrom(n) /\ NoFault /\ UNCHANGED <<Radios, Knowledge>> /\ RoundOnly

LookAgrees(n) ==
    /\ round[n].pc = "look" /\ Comparable(n) /\ ~MustMove(n)
    /\ marker' = [marker EXCEPT ![n] = FALSE]
    /\ round' = [round EXCEPT ![n] = [Asleep EXCEPT !.pc = "install", !.peer = radio[Peer(n)]]]
    /\ NoFault /\ UNCHANGED <<Radios, file, refused>> /\ RoundOnly

(* install_neighbor runs hostapd_cli twice.  The first removes the old entry, *)
(* and may fail; nothing is installed over an interface that is not there.    *)
RemoveNeighbor(n) ==
    /\ round[n].pc = "install" /\ round[n].next \in Bands
    /\ \/ /\ svc[n].pc = "up"
          /\ \/ entry' = [entry EXCEPT ![n][round[n].next] = 0] /\ NoFault
             \/ UNCHANGED entry /\ Fault
          /\ round' = [round EXCEPT ![n].pc = "set"]
       \/ /\ svc[n].pc # "up" /\ NoFault
          /\ ReturnFrom(n) /\ UNCHANGED entry
    /\ UNCHANGED <<svc, radio, Knowledge>> /\ RoundOnly

(* The second sets the new one.  When that fails the round ends, and the file *)
(* of an earlier round stays.                                                 *)
SetNeighbor(n) ==
    LET b == round[n].next IN
    /\ round[n].pc = "set"
    /\ \/ /\ svc[n].pc = "up" /\ NoFault
          /\ entry' = [entry EXCEPT ![n][b] = round[n].peer.channel[b]]
          /\ round' = [round EXCEPT ![n].pc = "install", ![n].next = b + 1]
          /\ refused' = [refused EXCEPT ![n] = @ \ {b}]
       \/ /\ IF svc[n].pc = "up" THEN Fault ELSE NoFault
          /\ ReturnFrom(n) /\ UNCHANGED entry
          /\ refused' = [refused EXCEPT ![n] = @ \cup {b}]
    /\ UNCHANGED <<svc, radio, file, marker>> /\ RoundOnly

Publish(n) ==
    /\ round[n].pc = "install" /\ round[n].next \notin Bands
    /\ file' = [file EXCEPT ![n] = round[n].peer]
    /\ ReturnFrom(n) /\ NoFault /\ UNCHANGED <<Radios, marker, refused>> /\ RoundOnly

-----------------------------------------------------------------------------
(* set-wifi, as far as the radios are concerned. *)

(* roaming is stopped, the radios are restarted. *)
SetWifi(n) ==
    /\ cmd[n] \in {"none", "stopped"} /\ Started(n) /\ round[n].pc # "repair"
    /\ commands < MaxCommands /\ commands' = commands + 1
    /\ \E c \in Configs : config' = [config EXCEPT ![n] = c]
    /\ before' = [before EXCEPT ![n] = config[n]]
    /\ cmd' = [cmd EXCEPT ![n] = "first"]
    /\ Restart(n)
    /\ NoFault /\ UNCHANGED <<round, link, Knowledge>>

(* The rest of restart_radios: neighbor-sync is told to start afresh, and    *)
(* roaming is started without waiting for it to have removed its file.       *)
RestartSync(n) ==
    /\ cmd[n] \in {"first", "again"} /\ svc[n].pc = "up"
    /\ cmd' = [cmd EXCEPT ![n] = "roaming"]
    /\ round' = [round EXCEPT ![n] = Starting]
    /\ before' = [before EXCEPT ![n] = config[n]]
    /\ NoFault /\ UNCHANGED <<Radios, Knowledge, link, config, commands>>

RestartRoaming(n) ==
    /\ cmd[n] = "roaming"
    /\ cmd' = [cmd EXCEPT ![n] = "none"]
    /\ NoFault /\ UNCHANGED <<Radios, Knowledge, round, link, Settings>>

(* Radios that do not start are started once more with the settings before; *)
(* when that fails too, nothing is restarted after them.                    *)
RadiosFailed(n) ==
    /\ svc[n].pc = "failed"
    /\ \/ /\ cmd[n] = "first"
          /\ cmd' = [cmd EXCEPT ![n] = "again"]
          /\ config' = [config EXCEPT ![n] = before[n]]
          /\ Restart(n)
       \/ /\ cmd[n] = "again"
          /\ cmd' = [cmd EXCEPT ![n] = "stopped"]
          /\ UNCHANGED <<Radios, config>>
    /\ NoFault /\ UNCHANGED <<before, commands, round, link, Knowledge>>

(* roaming-steer, when it runs, may send stations to the peer. *)
PeerReady(n) == cmd[n] = "none" /\ file[n] # Nothing /\ link

-----------------------------------------------------------------------------
(* What happens to the pair. *)

(* /var/run and /tmp are empty after a boot. *)
PowerLoss(n) ==
    /\ Fault
    /\ Restart(n)
    /\ cmd' = [cmd EXCEPT ![n] = "none"]
    /\ round' = [round EXCEPT ![n] = Starting]
    /\ file' = [file EXCEPT ![n] = Nothing]
    /\ marker' = [marker EXCEPT ![n] = FALSE]
    /\ refused' = [refused EXCEPT ![n] = {}]
    /\ before' = [before EXCEPT ![n] = config[n]]
    /\ UNCHANGED <<link, config, commands>>

LinkChanges ==
    /\ link' = ~link
    /\ IF link THEN Fault ELSE NoFault
    /\ UNCHANGED <<Radios, Knowledge, cmd, round, Settings>>

Service(n) == AskPeer(n) \/ SelectChannels(n) \/ StartRadios(n)
Look(n) == LookFails(n) \/ LookStuck(n) \/ Repair(n) \/ LookAgrees(n)
Install(n) == RemoveNeighbor(n) \/ SetNeighbor(n) \/ Publish(n)
Round(n) == SyncStarts(n) \/ ReadOwn(n) \/ Look(n) \/ RepairEnds(n) \/ Install(n)
Command(n) == RestartSync(n) \/ RestartRoaming(n) \/ RadiosFailed(n)

Next ==
    \/ \E n \in Nodes : Service(n) \/ Round(n) \/ Command(n) \/ SetWifi(n) \/ PowerLoss(n)
    \/ LinkChanges

(* Each script goes on with its next command.  set-wifi waits for the start *)
(* of the radios, so that one condition is enough for the two.              *)
Fairness == \A n \in Nodes : WF_vars(Service(n) \/ Command(n)) /\ WF_vars(Round(n))
Spec == Init /\ [][Next]_vars /\ Fairness
-----------------------------------------------------------------------------
(* Properties. *)

(* Every variable has its range. *)
TypeOK ==
    /\ config \in [Nodes -> Configs] /\ before \in [Nodes -> Configs]
    /\ svc \in [Nodes -> [pc : {"asking", "choosing", "starting", "up", "failed"},
                          tries : Nat, known : ChannelMaps \cup {Unknown},
                          chosen : ChannelMaps \cup {Unknown}]]
    /\ \A n \in Nodes : svc[n].tries \in 0..Attempts[n]
    /\ radio \in [Nodes -> States \cup {Nothing}]
    /\ \A n \in Nodes : radio[n] # Nothing <=> svc[n].pc = "up"
    /\ cmd \in [Nodes -> {"none", "first", "again", "roaming", "stopped"}]
    /\ \A n \in Nodes, b \in Bands : entry[n][b] \in Channels[b] \cup {0}
    /\ round \in [Nodes -> [pc : {"starting", "sleep", "look", "install", "set", "repair"},
                            own : States \cup {Nothing}, peer : States \cup {Nothing}, next : 1..3]]
    /\ file \in [Nodes -> States \cup {Nothing}]
    /\ marker \in [Nodes -> BOOLEAN] /\ link \in BOOLEAN
    /\ faults \in 0..MaxFaults /\ commands \in 0..MaxCommands
    /\ refused \in [Nodes -> SUBSET Bands]

(* The round has removed the entry of the band, and is about to set it. *)
Replacing(n, b) == round[n].pc = "set" /\ b = round[n].next

(* What roaming-steer takes for a ready peer is in hostapd's neighbour list. *)
(* Restarts of the radios by set-wifi and by the repair empty that list, and  *)
(* rounds of neighbor-sync stop half-way; yet, once neighbor-sync has started *)
(* again, a band is without an entry only while the round replaces that very  *)
(* entry, or because set_neighbor did not succeed for that very band; and     *)
(* when it has succeeded everywhere, what the list has between two rounds is  *)
(* what the file says.                                                        *)
EntriesBehindFile ==
    \A n \in Nodes : PeerReady(n) /\ round[n].pc # "starting" =>
        /\ \A b \in Bands : entry[n][b] = 0 => b \in refused[n] \/ Replacing(n, b)
        /\ round[n].pc \notin {"install", "set"} /\ refused[n] = {} => entry[n] = file[n].channel

(* "It is written only after all three neighbor entries were accepted by     *)
(* hostapd, so a stale or half-configured peer is never used as a roam       *)
(* target": between two rounds, a peer that is ready has the entries of its  *)
(* file.                                                                     *)
NeverHalfConfigured ==
    \A n \in Nodes : PeerReady(n) /\ round[n].pc = "sleep" => entry[n] = file[n].channel

(* The two run with the same settings, and reach each other. *)
Comparing == link /\ \A n \in Nodes : radio[n] # Nothing /\ radio[n].config = radio["ap2"].config
Colliding == SameChannel(radio["ap2"], radio["ap3"])

(* A pair left alone settles.  In the end the two are either apart, with a  *)
(* repair in reserve for the next collision, or collide with the one repair *)
(* used up; and they have each other as neighbours on the channels that     *)
(* each really uses, ap2 only when they are apart, but for the moment that  *)
(* each later round takes to replace an entry by itself.                    *)
PairSettles ==
    <>[](Comparing =>
            /\ Colliding <=> marker["ap2"]
            /\ \A n \in Nodes : (Colliding => n = "ap3") =>
                    /\ file[n] = radio[Peer(n)]
                    /\ \A b \in Bands : ~Replacing(n, b) => entry[n][b] = radio[Peer(n)].channel[b])
=============================================================================
