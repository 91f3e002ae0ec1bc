---------------------------- MODULE ClusterApply ----------------------------
(***************************************************************************)
(* `rg-ma2820-cluster apply-wifi': the access point whose dashboard is     *)
(* used has every member it has discovered prove that it holds the cluster *)
(* key, has each of them check the profile, has each of them apply it, and *)
(* applies it itself last.  The first that refuses or does not answer ends *)
(* the command.  apply-timezone goes through the same calls.               *)
(*                                                                         *)
(* A member applies a profile in two steps, as SetWifi details: it puts it *)
(* in wifi.env, and puts the previous one back if the radios do not start. *)
(* It goes on with that when the caller has given up waiting.  The calls   *)
(* are made in the order of discovery, here in any order.                  *)
(***************************************************************************)
EXTENDS Naturals, FiniteSets

CONSTANTS
    Nodes,         \* the members of the cluster
    Coordinators,  \* those whose dashboards are used
    Profiles,      \* the profiles they apply
    Original,      \* the profile all have to begin with
    MaxCommands,   \* bound: commands of each dashboard
    MaxTotal,      \* bound: commands of all dashboards
    MaxFaults,     \* bound: calls that are lost, radios that do not start
    MaxLate        \* bound: calls that take longer than the caller waits

ASSUME NodeAssumption == Coordinators \subseteq Nodes /\ IsFiniteSet(Nodes)
ASSUME OriginalAssumption == Original \notin Profiles
ASSUME CommandBounds == {MaxCommands, MaxTotal} \subseteq Nat /\ MaxFaults \in Nat /\ MaxLate \in Nat

VARIABLES
    profile,   \* wifi.env of each node
    handlers,  \* the set-wifi commands that each node is running
    cmd,       \* the command of each dashboard
    faults, late

vars == <<profile, handlers, cmd, faults, late>>

(* peers: what discovery found; todo: those the present loop has yet to    *)
(* call; accepted: those that have accepted the profile; run: which of the *)
(* dashboard's commands this is; before: the caller's profile when it      *)
(* began (a history).                                                      *)
Phases == {"idle", "authenticate", "validate", "apply", "local", "ok", "failed"}
Settings == Profiles \cup {Original}
Commands == [pc : Phases, want : Settings, peers : SUBSET Nodes,
             todo : SUBSET Nodes, accepted : SUBSET Nodes, at : SUBSET Nodes,
             run : 0..MaxCommands, before : Settings]
Handlers == [call : [from : Coordinators, run : 0..MaxCommands],
             want : Settings, before : Settings]

NoCommand == [pc |-> "idle", want |-> Original, peers |-> {}, todo |-> {},
              accepted |-> {}, at |-> {}, run |-> 0, before |-> Original]

Init ==
    /\ profile = [n \in Nodes |-> Original]
    /\ handlers = [n \in Nodes |-> {}]
    /\ cmd = [c \in Coordinators |-> NoCommand]
    /\ faults = 0 /\ late = 0

Fault == faults < MaxFaults /\ faults' = faults + 1 /\ UNCHANGED late
NoFault == UNCHANGED <<faults, late>>

Busy(c) == cmd[c].pc \notin {"idle", "ok", "failed"}
At(c, phase) == cmd[c].pc = phase
End(c, outcome) == cmd' = [cmd EXCEPT ![c].pc = outcome, ![c].at = {}]

(* Variant: a loop ends with its first member. *)
CalledOnce(c, m, next) ==
    [cmd[c] EXCEPT !.todo = cmd[c].peers, !.at = {}, !.pc = next]
(* The next call of the loop, or the next loop. *)
Called(c, m, next) ==
    LET left == cmd[c].todo \ {m} IN
    IF left # {} THEN [cmd[c] EXCEPT !.todo = left, !.at = {}]
    ELSE [cmd[c] EXCEPT !.todo = cmd[c].peers, !.at = {}, !.pc = next]

-----------------------------------------------------------------------------
(* The local check of the profile, and discovery, which may miss members.  *)
Begin(c) ==
    /\ ~Busy(c) /\ cmd[c].run < MaxCommands
    /\ Cardinality(UNION {{d} \X (1..cmd[d].run) : d \in Coordinators}) < MaxTotal
    /\ \E want \in Profiles, peers \in SUBSET (Nodes \ {c}) :
         \E start \in {"failed", IF peers = {} THEN "local" ELSE "authenticate"} :
            cmd' = [cmd EXCEPT ![c] =
                [pc |-> start, want |-> want, peers |-> peers, todo |-> peers,
                 accepted |-> {}, at |-> {}, run |-> cmd[c].run + 1,
                 before |-> profile[c]]]
    /\ UNCHANGED <<profile, handlers, faults, late>>

Authenticate(c, m) ==
    /\ At(c, "authenticate") /\ m \in cmd[c].todo
    /\ \/ cmd' = [cmd EXCEPT ![c] = Called(c, m, "validate")] /\ NoFault
       \/ End(c, "failed") /\ Fault
    /\ UNCHANGED <<profile, handlers>>

(* A member refuses a profile it cannot use: it has other firmware, or does *)
(* not hold the password that the profile leaves out.                      *)
Validate(c, m) ==
    /\ At(c, "validate") /\ m \in cmd[c].todo
    /\ \/ cmd' = [cmd EXCEPT ![c] = [Called(c, m, "apply") EXCEPT
                                         !.accepted = cmd[c].accepted \cup {m}]]
       \/ End(c, "failed")
    /\ UNCHANGED <<profile, handlers, faults, late>>

Handler(c) == [from |-> c, run |-> cmd[c].run]

Install(c, n) ==
    /\ handlers' = [handlers EXCEPT ![n] = @ \cup
           {[call |-> Handler(c), want |-> cmd[c].want, before |-> profile[n]]}]
    /\ profile' = [profile EXCEPT ![n] = cmd[c].want]

(* Variant: the caller changes together with the first member. *)
CallApplyWithLocal(c, m) ==
    /\ At(c, "apply") /\ m \in cmd[c].todo /\ cmd[c].at = {}
    /\ \/ /\ handlers' = [handlers EXCEPT ![m] = @ \cup
                 {[call |-> Handler(c), want |-> cmd[c].want, before |-> profile[m]]}]
          /\ profile' = [profile EXCEPT ![m] = cmd[c].want, ![c] = cmd[c].want]
          /\ cmd' = [cmd EXCEPT ![c].at = {m}] /\ NoFault
       \/ End(c, "failed") /\ Fault /\ UNCHANGED <<profile, handlers>>

(* The request reaches the member, or is refused there, or is lost. *)
CallApply(c, m) ==
    /\ At(c, "apply") /\ m \in cmd[c].todo /\ cmd[c].at = {}
    /\ \/ Install(c, m) /\ NoFault
          /\ cmd' = [cmd EXCEPT ![c].at = {m}]
       \/ End(c, "failed") /\ Fault /\ UNCHANGED <<profile, handlers>>

CallLocal(c) ==
    /\ At(c, "local") /\ cmd[c].at = {}
    /\ \/ Install(c, c) /\ NoFault
          /\ cmd' = [cmd EXCEPT ![c].at = {c}]
       \/ End(c, "failed") /\ Fault /\ UNCHANGED <<profile, handlers>>

(* Variants: `result?.success' is not looked at; a call that fails is not  *)
(* ended.                                                                  *)
AnsweredAnything(c, n, success) ==
    cmd' = [cmd EXCEPT ![c] =
        IF cmd[c].pc = "local" THEN [cmd[c] EXCEPT !.pc = "ok", !.at = {}]
        ELSE Called(c, n, "local")]
AnsweredNever(c, n, success) ==
    cmd' = [cmd EXCEPT ![c] =
        IF ~success THEN cmd[c]
        ELSE IF cmd[c].pc = "local" THEN [cmd[c] EXCEPT !.pc = "ok", !.at = {}]
        ELSE Called(c, n, "local")]
(* What the caller is told when a set-wifi command it waits for ends.      *)
Answered(c, n, success) ==
    cmd' = [cmd EXCEPT ![c] =
        IF ~success THEN [cmd[c] EXCEPT !.pc = "failed", !.at = {}]
        ELSE IF cmd[c].pc = "local" THEN [cmd[c] EXCEPT !.pc = "ok", !.at = {}]
        ELSE Called(c, n, "local")]

Awaited(n, h) ==
    LET c == h.call.from IN
    c \in Coordinators /\ n \in cmd[c].at /\ h.call.run = cmd[c].run

(* The radios start, or wifi.env is put back as this command found it; the *)
(* answer may be lost.                                                     *)
Finish(n, h) ==
    /\ h \in handlers[n]
    /\ handlers' = [handlers EXCEPT ![n] = @ \ {h}]
    /\ \/ /\ UNCHANGED profile /\ NoFault
          /\ IF Awaited(n, h) THEN Answered(h.call.from, n, TRUE) ELSE UNCHANGED cmd
       \/ /\ UNCHANGED profile /\ Fault
          /\ Awaited(n, h) /\ n # h.call.from /\ Answered(h.call.from, n, FALSE)
       \/ /\ profile' = [profile EXCEPT ![n] = h.before] /\ Fault
          /\ IF Awaited(n, h) THEN Answered(h.call.from, n, FALSE) ELSE UNCHANGED cmd

(* uclient-fetch -T 45 gives up; the handler does not. *)
TimeOut(c) ==
    /\ At(c, "apply") /\ cmd[c].at # {}
    /\ late < MaxLate /\ late' = late + 1
    /\ End(c, "failed")
    /\ UNCHANGED <<profile, handlers, faults>>

-----------------------------------------------------------------------------
Step(c) ==
    \/ \E m \in Nodes : Authenticate(c, m) \/ Validate(c, m) \/ CallApply(c, m)
    \/ CallLocal(c)

Ending == \E n \in Nodes : \E h \in handlers[n] : Finish(n, h)

Next == Ending \/ \E c \in Coordinators : Begin(c) \/ Step(c) \/ TimeOut(c)

Spec ==
    /\ Init /\ [][Next]_vars
    /\ WF_vars(Ending) /\ \A c \in Coordinators : WF_vars(Step(c))

-----------------------------------------------------------------------------
(* Every variable stays in its range. *)
TypeOK ==
    /\ profile \in [Nodes -> Settings]
    /\ handlers \in [Nodes -> SUBSET Handlers]
    /\ cmd \in [Coordinators -> Commands]
    /\ \A c \in Coordinators :
        /\ c \notin cmd[c].peers
        /\ cmd[c].todo \cup cmd[c].accepted \subseteq cmd[c].peers
        /\ cmd[c].at \subseteq cmd[c].peers \cup {c}
        /\ cmd[c].at # {} => cmd[c].pc \in {"apply", "local"}
        /\ c \in cmd[c].at => cmd[c].pc = "local"
    /\ faults \in 0..MaxFaults /\ late \in 0..MaxLate

(* No node changes to a new profile before every member the command found  *)
(* has accepted it.                                                        *)
ValidatedFirst == [][
    \A n \in Nodes : profile'[n] # profile[n] =>
        \/ \E h \in handlers[n] : h \notin handlers'[n] /\ profile'[n] = h.before
        \/ \E c \in Coordinators :
             /\ cmd[c].want = profile'[n] /\ Busy(c)
             /\ cmd[c].accepted = cmd[c].peers]_vars

(* No other dashboard has been used, and no call been given up. *)
Alone(c) == late = 0 /\ \A other \in Coordinators \ {c} : cmd[other].run = 0

(* A command that succeeds leaves its profile on every member it found and *)
(* on the caller.                                                          *)
SuccessSynced == [][
    \A c \in Coordinators :
        Alone(c) /\ Busy(c) /\ cmd'[c].pc = "ok" =>
            \A n \in cmd[c].peers \cup {c} : profile'[n] = cmd[c].want]_vars

(* A command that fails leaves the caller as it was: the node the user is  *)
(* working on changes only when all others have changed.                   *)
FailureLeavesCaller == [][
    \A c \in Coordinators :
        Alone(c) /\ Busy(c) /\ cmd'[c].pc = "failed" =>
            profile'[c] = cmd[c].before]_vars

(* Every command ends, whatever is lost. *)
CommandsEnd == \A c \in Coordinators : Busy(c) ~> ~Busy(c)
=============================================================================
