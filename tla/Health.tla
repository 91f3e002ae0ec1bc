------------------------------- MODULE Health -------------------------------
(***************************************************************************)
(* From the state of the hardware to the headline of the dashboard: the    *)
(* warnings of rg-ma2820-wifi-status, the snapshot of the peer that rpcd   *)
(* attaches, and what status/index.js makes of both.  Where the source     *)
(* pushes to a list that is only shown, the definitions have sets.         *)
(***************************************************************************)
EXTENDS Integers

Larger(x, y) == IF x >= y THEN x ELSE y
Warning(level, code) == [level |-> level, code |-> code]
When(condition, level, code) == IF condition THEN {Warning(level, code)} ELSE {}

(* What wifi-status of access point n says of a pair.                      *)
WifiStatus(n, m, link, air) ==
    [error |-> FALSE, device |-> n, peer |-> m, peer_online |-> link # "down",
     radios |-> {[node |-> n, online |-> air[n]]},
     warnings |-> (IF link # "down" THEN {} ELSE {"peer_offline"})
                    \cup (IF air[n] THEN {} ELSE {"radio_offline"})]

(* Variant: a ping is answer enough. *)
AttachPinged(status, link, peer) ==
    [status |-> status, available |-> status.peer_online, rows |-> IF link = "up" THEN peer.radios ELSE {}]
(* attach_peer_status: the peer's own status, over ssh.                    *)
AttachPeer(status, link, peer) ==
    LET available == /\ status.peer_online
                     /\ link = "up" /\ ~peer.error
                     /\ peer.device = status.peer /\ peer.peer = status.device IN
    [status |-> status, available |-> available, rows |-> IF available THEN peer.radios ELSE {}]

(* wirelessNodes, renderWireless: the radios that are listed.              *)
Listed(wireless) == wireless.status.radios \cup wireless.rows

ThermalWarning(trip) == Larger(82000, (IF trip = 0 THEN 110000 ELSE trip) - 15000)
ThermalCritical(trip) == Larger(90000, (IF trip = 0 THEN 110000 ELSE trip) - 5000)

Notices == {"legacy_schema", "dfs_channel", "recovery_mode"}

(* Variant: the peer's missing snapshot is no warning of its own. *)
PeerWarningsNone(wireless) == {}
PeerWarnings(wireless) ==
    When(wireless.status.peer_online /\ ~wireless.available, "warning", "peer_snapshot")

SystemWarnings(system) ==
    When(system.recovery, "notice", "recovery")
        \cup When(system.bad_peb > 0, "error", "bad_peb")
        \cup When(~system.address, "error", "no_address")
        \cup When(~system.gateway, "warning", "no_gateway")
        \cup When(system.power = "fault", "error", "power")
        \cup When(system.uplink \in {"degraded", "offline"} /\ system.gateway, "warning", "uplink")
        \cup When(system.temperature >= ThermalCritical(system.trip), "error", "temperature")
        \cup When(system.temperature \in ThermalWarning(system.trip)..(ThermalCritical(system.trip) - 1),
                  "warning", "temperature")
        \cup {Warning("error", service) : service \in system.stopped}

(* collectWarnings: without the overview nothing else is looked at.        *)
CollectWarnings(system, wireless) ==
    When(system.error, "error", "overview") \cup When(wireless.status.error, "error", "wireless")
        \cup IF system.error THEN {}
             ELSE SystemWarnings(system) \cup PeerWarnings(wireless)
                    \cup {Warning(IF code \in Notices THEN "notice" ELSE "warning", code)
                            : code \in wireless.status.warnings}

(* renderHero: "All systems operational", or the worst there is.           *)
HeroState(warnings) ==
    IF \E w \in warnings : w.level = "error" THEN "error"
    ELSE IF warnings # {} THEN "warning" ELSE "good"
Hero(view) == HeroState(CollectWarnings(view.system, view.wireless))
=============================================================================
