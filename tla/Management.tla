----------------------------- MODULE Management -----------------------------
(***************************************************************************)
(* management-loop on the access points of one wired network.  Each asks   *)
(* for an address by DHCP; one that gets none becomes a DHCP server itself *)
(* for a while, then stops and asks again.  That is meant to leave one     *)
(* server, which the others are clients of, until the network has its own  *)
(* DHCP server back, which everyone then uses.                             *)
(*                                                                         *)
(* Time passes in ticks of 15 s, the shortest wait of the loop.  What a    *)
(* node and its DHCP client have to do in a tick they do before the next,  *)
(* in any order.  dnsmasq, udhcpc and ifup are modelled as the loop uses   *)
(* them: a client renews its lease of 2 min from its server in the second  *)
(* half, and from any server in the last eighth; ifup drops the lease.     *)
(***************************************************************************)
EXTENDS Naturals, FiniteSets

CONSTANTS
    Nodes,
    InitialWait,   \* initial_wait of each node, as all times in ticks
    ProbeWait,     \* probe_wait of each node
    Again,         \* initial_wait once the loop has been around
    Lease, Renew, Rebind, \* the life of a lease, and what is left of it when
                          \* the client asks its server, or any server
    MaxSwitches,   \* bound: the network's own server comes and goes
    MaxRestarts    \* bound: restarts of the service, and ends of the loop

ASSUME NodesAssumption == IsFiniteSet(Nodes) /\ {"none", "upstream"} \cap Nodes = {}
ASSUME TimesAssumption ==
    /\ InitialWait \in [Nodes -> Nat] /\ ProbeWait \in [Nodes -> Nat]
    /\ {Again, Lease, Renew, Rebind, MaxSwitches, MaxRestarts} \subseteq Nat
    /\ Rebind < Renew /\ Renew < Lease

VARIABLES
    pc,        \* where the loop of each node is
    timer,     \* what is left of its sleep or wait
    lease,     \* the server of its address, and what is left of the lease
    client,    \* whether the mgmt interface is up
    fallback,  \* whether br-lan has FALLBACK_IP
    dnsmasq,   \* whether the fallback DHCP server runs
    upstream,  \* whether the network has a DHCP server of its own
    switches, restarts

loopVars == <<pc, timer, lease, client, fallback, dnsmasq, upstream, switches, restarts>>
Network == <<upstream, switches>>

NoLease == [from |-> "none", left |-> 0]
HasLease(n) == lease[n].from # "none"
Servers == (IF upstream THEN {"upstream"} ELSE {}) \cup {n \in Nodes : dnsmasq[n]}

(* has_dhcp_address: any address that is not link-local. *)
HasAddress(n) == HasLease(n) \/ fallback[n]

LoopsInit ==
    /\ pc = [n \in Nodes |-> "off"] /\ timer = [n \in Nodes |-> 0]
    /\ lease = [n \in Nodes |-> NoLease]
    /\ client = [n \in Nodes |-> FALSE]
    /\ fallback = [n \in Nodes |-> FALSE] /\ dnsmasq = [n \in Nodes |-> FALSE]
    /\ upstream \in BOOLEAN
    /\ switches = 0 /\ restarts = 0

-----------------------------------------------------------------------------
(* wait_for_dhcp begins: ifup, and the time it waits. *)
Ask(n, time) ==
    /\ pc' = [pc EXCEPT ![n] = "wait"] /\ timer' = [timer EXCEPT ![n] = time]
    /\ client' = [client EXCEPT ![n] = TRUE]
    /\ lease' = [lease EXCEPT ![n] = NoLease]

PowerOn(n) ==
    /\ pc[n] = "off"
    /\ Ask(n, InitialWait[n])
    /\ UNCHANGED <<fallback, dnsmasq, restarts, Network>>

Found(n) ==
    /\ pc[n] = "wait" /\ HasAddress(n)
    /\ pc' = [pc EXCEPT ![n] = "active"] /\ timer' = [timer EXCEPT ![n] = 1]
    /\ UNCHANGED <<lease, client, fallback, dnsmasq, restarts, Network>>

StartFallback(n) ==
    /\ pc[n] = "wait" /\ timer[n] = 0 /\ ~HasAddress(n)
    /\ pc' = [pc EXCEPT ![n] = "serve"] /\ timer' = [timer EXCEPT ![n] = ProbeWait[n]]
    /\ client' = [client EXCEPT ![n] = FALSE]
    /\ lease' = [lease EXCEPT ![n] = NoLease]
    /\ fallback' = [fallback EXCEPT ![n] = TRUE]
    /\ dnsmasq' = [dnsmasq EXCEPT ![n] = TRUE]
    /\ UNCHANGED <<restarts, Network>>

(* Variants: FALLBACK_IP stays on the bridge; the server is never stopped.  *)
StopFallbackOnly(n) ==
    /\ pc[n] = "serve" /\ timer[n] = 0
    /\ dnsmasq' = [dnsmasq EXCEPT ![n] = FALSE]
    /\ Ask(n, Again)
    /\ UNCHANGED <<fallback, restarts, Network>>
StopFallbackNever(n) ==
    /\ pc[n] = "serve" /\ timer[n] = 0
    /\ timer' = [timer EXCEPT ![n] = ProbeWait[n]]
    /\ UNCHANGED <<pc, lease, client, fallback, dnsmasq, restarts, Network>>

StopFallback(n) ==
    /\ pc[n] = "serve" /\ timer[n] = 0
    /\ fallback' = [fallback EXCEPT ![n] = FALSE]
    /\ dnsmasq' = [dnsmasq EXCEPT ![n] = FALSE]
    /\ Ask(n, Again)
    /\ UNCHANGED <<restarts, Network>>

PollAddress(n) ==
    /\ pc[n] = "active" /\ timer[n] = 0
    /\ IF HasAddress(n)
       THEN timer' = [timer EXCEPT ![n] = 1] /\ UNCHANGED <<pc, lease, client>>
       ELSE Ask(n, Again)
    /\ UNCHANGED <<fallback, dnsmasq, restarts, Network>>

(* `restart' stops dnsmasq, but only the loop knows of the address; when    *)
(* the loop is killed and respawned both stay.                              *)
Restart(n) ==
    /\ pc[n] # "off" /\ restarts < MaxRestarts /\ restarts' = restarts + 1
    /\ dnsmasq' \in {dnsmasq, [dnsmasq EXCEPT ![n] = FALSE]}
    /\ Ask(n, InitialWait[n])
    /\ UNCHANGED <<fallback, Network>>

-----------------------------------------------------------------------------
(* The DHCP client and the network. *)

Given(n, server) == lease' = [lease EXCEPT ![n] = [from |-> server, left |-> Lease]]

GetLease(n) ==
    /\ client[n] /\ ~HasLease(n)
    /\ \E server \in Servers \ {n} : Given(n, server)
    /\ UNCHANGED <<pc, timer, client, fallback, dnsmasq, restarts, Network>>

RenewLease(n) ==
    /\ HasLease(n)
    /\ \/ lease[n].left <= Renew /\ lease[n].from \in Servers /\ Given(n, lease[n].from)
       \/ lease[n].left <= Rebind /\ \E server \in Servers \ {n} : Given(n, server)
    /\ UNCHANGED <<pc, timer, client, fallback, dnsmasq, restarts, Network>>

UpstreamChanges ==
    /\ switches < MaxSwitches /\ switches' = switches + 1
    /\ upstream' = ~upstream
    /\ UNCHANGED <<pc, timer, lease, client, fallback, dnsmasq, restarts>>

Act(n) ==
    \/ Found(n) \/ StartFallback(n) \/ StopFallback(n) \/ PollAddress(n)
    \/ GetLease(n) \/ RenewLease(n)

(* What is due in this tick: stated, as the guards of Act are. *)
Due(n) ==
    \/ pc[n] = "wait" /\ (HasAddress(n) \/ timer[n] = 0)
    \/ pc[n] \in {"serve", "active"} /\ timer[n] = 0
    \/ client[n] /\ ~HasLease(n) /\ Servers \ {n} # {}
    \/ HasLease(n) /\ lease[n].left <= Renew /\ lease[n].from \in Servers
    \/ HasLease(n) /\ lease[n].left <= Rebind /\ Servers \ {n} # {}

Elapse ==
    /\ \A n \in Nodes : ~Due(n)
    /\ timer' = [n \in Nodes |-> IF timer[n] = 0 THEN 0 ELSE timer[n] - 1]
    /\ lease' = [n \in Nodes |-> IF lease[n].left <= 1 THEN NoLease
                                 ELSE [lease[n] EXCEPT !.left = @ - 1]]
    /\ UNCHANGED <<pc, client, fallback, dnsmasq, restarts, Network>>

LoopsNext ==
    \/ \E n \in Nodes : PowerOn(n) \/ Restart(n) \/ Act(n)
    \/ UpstreamChanges \/ Elapse

LoopsSpec ==
    LoopsInit /\ [][LoopsNext]_loopVars /\ WF_loopVars(Elapse) /\ \A n \in Nodes : WF_loopVars(Act(n))

-----------------------------------------------------------------------------
(* Every variable stays in its range; only a loop that serves has stopped  *)
(* its client.                                                             *)
LoopsTypeOK ==
    /\ pc \in [Nodes -> {"off", "wait", "active", "serve"}]
    /\ \A n \in Nodes :
        /\ timer[n] \in 0..(InitialWait[n] + ProbeWait[n] + Again + 1)
        /\ lease[n] \in [from : Nodes \cup {"none", "upstream"}, left : 0..Lease]
        /\ HasLease(n) <=> lease[n].left > 0
        /\ client[n] <=> pc[n] \in {"wait", "active"}
    /\ fallback \in [Nodes -> BOOLEAN] /\ dnsmasq \in [Nodes -> BOOLEAN]
    /\ upstream \in BOOLEAN
    /\ switches \in 0..MaxSwitches /\ restarts \in 0..MaxRestarts

(* A DHCP server of the loop runs only while FALLBACK_IP, which it hands   *)
(* out as the router, is on the bridge; and what a loop takes for the      *)
(* address it was given is not its own FALLBACK_IP, unless a loop was      *)
(* restarted.                                                              *)
FallbackIsOwned ==
    \A n \in Nodes :
        /\ dnsmasq[n] => fallback[n]
        /\ restarts = 0 /\ pc[n] = "active" => ~fallback[n]

(* Without a server in the network one node remains that serves, between   *)
(* ap2 and ap3, whose waits are 30 s and 60 s, 60 s and 75 s.  The comment  *)
(* of the loop says so of all nodes: "the first fallback DHCP server causes *)
(* every other node's DHCP client to succeed, so adding APs does not create *)
(* N DHCP servers".  Two community nodes whose identities give the same     *)
(* waits, switched on at one moment, refute it (Management_lockstep.cfg).   *)
OneServer == <>[](~upstream) => <>[](Cardinality({n \in Nodes : dnsmasq[n]}) <= 1)

(* ... and without one there is always again a node that serves, unless a  *)
(* loop was restarted (see ActiveIsLeased).                                *)
SomeoneServes ==
    <>[](~upstream /\ restarts = 0 /\ \E n \in Nodes : pc[n] # "off")
        => []<>(\E n \in Nodes : dnsmasq[n])

(* When the network has its own server again all nodes use that one, and   *)
(* none of them serves, again unless a loop was restarted.                 *)
UpstreamWins ==
    <>[](upstream /\ restarts = 0) =>
        <>[](\A n \in Nodes : ~dnsmasq[n] /\ (pc[n] = "off" \/ lease[n].from = "upstream"))

(* "management DHCP active": a loop that has said so has an address from a *)
(* DHCP server, or finds out.                                              *)
ActiveIsLeased ==
    \A n \in Nodes : pc[n] = "active" ~> (HasLease(n) \/ pc[n] # "active")
=============================================================================
