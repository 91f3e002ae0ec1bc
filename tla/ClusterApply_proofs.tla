------------------------- MODULE ClusterApply_proofs -------------------------
(***************************************************************************)
(* For any number of nodes, dashboards, profiles, commands and faults: the *)
(* variables keep their ranges, no node changes to a new profile before    *)
(* every member that the command found has accepted it, and a command of   *)
(* the only dashboard in use leaves what it says it leaves.                *)
(*                                                                         *)
(* The second is not inductive.  It needs to be known where a command is   *)
(* in its loops (Progress): before it validates none has accepted; while   *)
(* it validates, the members it has yet to call are those that have not    *)
(* accepted, and it leaves that loop with all of them accepted, or failed. *)
(* The third needs to be known what a dashboard that is alone has running  *)
(* on the members, and what it has already changed (Solo).                 *)
(***************************************************************************)
EXTENDS ClusterApply, TLAPS

Progress ==
    \A c \in Coordinators :
        /\ At(c, "authenticate") => cmd[c].accepted = {}
        /\ At(c, "validate") => cmd[c].todo = cmd[c].peers \ cmd[c].accepted
        /\ At(c, "apply") \/ At(c, "local") => cmd[c].accepted = cmd[c].peers

IInv == TypeOK /\ Progress

-----------------------------------------------------------------------------
(* The conditions on one command. *)
Coherent(c, command) ==
    /\ command \in Commands
    /\ c \notin command.peers
    /\ command.todo \cup command.accepted \subseteq command.peers
    /\ command.at \subseteq command.peers \cup {c}
    /\ command.at # {} => command.pc \in {"apply", "local"}
    /\ c \in command.at => command.pc = "local"
    /\ command.pc = "authenticate" => command.accepted = {}
    /\ command.pc = "validate" => command.todo = command.peers \ command.accepted
    /\ command.pc \in {"apply", "local"} => command.accepted = command.peers

(* The invariant is the ranges of the other variables and these conditions *)
(* on every command.                                                       *)
LEMMA InvariantByCommand ==
    IInv <=> /\ profile \in [Nodes -> Settings]
             /\ handlers \in [Nodes -> SUBSET Handlers]
             /\ faults \in 0..MaxFaults /\ late \in 0..MaxLate
             /\ cmd \in [Coordinators -> Commands]
             /\ \A c \in Coordinators : Coherent(c, cmd[c])
  BY DEF IInv, TypeOK, Progress, Coherent, At

(* One command changes, to one that meets the conditions. *)
LEMMA OneCommandChanges ==
    ASSUME IInv, NEW c \in Coordinators, NEW command, Coherent(c, command),
           cmd' = [cmd EXCEPT ![c] = command],
           profile' \in [Nodes -> Settings],
           handlers' \in [Nodes -> SUBSET Handlers],
           faults' \in 0..MaxFaults, late' \in 0..MaxLate
    PROVE  IInv'
<1>1. cmd \in [Coordinators -> Commands] /\ \A d \in Coordinators : Coherent(d, cmd[d])
  BY InvariantByCommand
<1>2. command \in Commands
  BY DEF Coherent
<1>3. cmd' \in [Coordinators -> Commands]
  BY <1>1, <1>2
<1>4. \A d \in Coordinators : Coherent(d, cmd'[d])
  <2>1. TAKE d \in Coordinators
  <2>2. CASE d = c
    BY <2>2, <1>1
  <2>3. CASE d # c
    BY <2>3, <1>1
  <2>4. QED
    BY <2>2, <2>3
<1>5. IInv' <=> /\ profile' \in [Nodes -> Settings]
                /\ handlers' \in [Nodes -> SUBSET Handlers]
                /\ faults' \in 0..MaxFaults /\ late' \in 0..MaxLate
                /\ cmd' \in [Coordinators -> Commands]
                /\ \A d \in Coordinators : Coherent(d, cmd'[d])
  BY DEF IInv, TypeOK, Progress, Coherent, At
<1>6. QED
  BY <1>3, <1>4, <1>5

(* The faults are counted within their bound. *)
LEMMA CountsInRange ==
    ASSUME IInv, Fault \/ NoFault
    PROVE  faults' \in 0..MaxFaults /\ late' \in 0..MaxLate
  BY CommandBounds, InvariantByCommand DEF Fault, NoFault

(* A command that ends where it is, with nothing under way. *)
LEMMA EndCoherent ==
    ASSUME IInv, NEW c \in Coordinators, NEW outcome \in {"ok", "failed"}
    PROVE  Coherent(c, [cmd[c] EXCEPT !.pc = outcome, !.at = {}])
<1>1. cmd[c] \in Commands /\ Coherent(c, cmd[c])
  BY InvariantByCommand
<1>2. QED
  BY <1>1 DEF Coherent, Commands, Phases

(* The next call of a loop, or the next loop, with all else unchanged. *)
LEMMA CalledFields ==
    ASSUME IInv, NEW c \in Coordinators, NEW m \in Nodes,
           NEW next \in {"validate", "apply", "local"}
    PROVE  /\ Called(c, m, next) \in Commands
           /\ Called(c, m, next).peers = cmd[c].peers
           /\ Called(c, m, next).accepted = cmd[c].accepted
           /\ Called(c, m, next).at = {}
           /\ Called(c, m, next).todo \subseteq cmd[c].peers
           /\ \/ /\ cmd[c].todo \ {m} = {}
                 /\ Called(c, m, next).pc = next
                 /\ Called(c, m, next).todo = cmd[c].peers
              \/ /\ cmd[c].todo \ {m} # {}
                 /\ Called(c, m, next).pc = cmd[c].pc
                 /\ Called(c, m, next).todo = cmd[c].todo \ {m}
<1>1. cmd[c] \in Commands /\ Coherent(c, cmd[c])
  BY InvariantByCommand
<1>2. CASE cmd[c].todo \ {m} # {}
  <2>1. Called(c, m, next) = [cmd[c] EXCEPT !.todo = cmd[c].todo \ {m}, !.at = {}]
    BY <1>2 DEF Called
  <2>2. QED
    BY ZenonT(60), <1>1, <1>2, <2>1 DEF Coherent, Commands
<1>3. CASE cmd[c].todo \ {m} = {}
  <2>1. Called(c, m, next) = [cmd[c] EXCEPT !.todo = cmd[c].peers, !.at = {}, !.pc = next]
    BY <1>3 DEF Called
  <2>2. QED
    BY <1>1, <1>3, <2>1 DEF Coherent, Commands, Phases
<1>4. QED
  BY <1>2, <1>3

-----------------------------------------------------------------------------
(* The first state. *)
LEMMA InitInvariant == Init => IInv
<1>1. NoCommand \in Commands /\ \A c \in Coordinators : Coherent(c, NoCommand)
  BY CommandBounds DEF NoCommand, Commands, Phases, Settings, Coherent
<1>2. SUFFICES ASSUME Init PROVE IInv
  OBVIOUS
<1>3. profile \in [Nodes -> Settings] /\ handlers \in [Nodes -> SUBSET Handlers]
  BY <1>2 DEF Init, Settings
<1>4. faults \in 0..MaxFaults /\ late \in 0..MaxLate
  BY <1>2, CommandBounds DEF Init
<1>5. cmd \in [Coordinators -> Commands] /\ \A c \in Coordinators : Coherent(c, cmd[c])
  BY <1>1, <1>2 DEF Init
<1>6. QED
  BY <1>3, <1>4, <1>5, InvariantByCommand

(* A command that ends in its own step changes nothing else. *)
LEMMA EndKeeps ==
    ASSUME IInv, NEW c \in Coordinators, NEW outcome \in {"ok", "failed"},
           End(c, outcome), UNCHANGED <<profile, handlers>>,
           faults' \in 0..MaxFaults, late' \in 0..MaxLate
    PROVE  IInv'
<1>1. profile' \in [Nodes -> Settings] /\ handlers' \in [Nodes -> SUBSET Handlers]
  BY InvariantByCommand
<1>2. cmd \in [Coordinators -> Commands]
  BY InvariantByCommand
<1>3. cmd' = [cmd EXCEPT ![c] = [cmd[c] EXCEPT !.pc = outcome, !.at = {}]]
  BY <1>2 DEF End
<1>4. QED
  BY <1>1, <1>3, EndCoherent, OneCommandChanges

LEMMA BeginKeeps ==
    ASSUME IInv, NEW c \in Coordinators, Begin(c)
    PROVE  IInv'
<1>1. PICK want \in Profiles, peers \in SUBSET (Nodes \ {c}) :
        \E start \in {"failed", IF peers = {} THEN "local" ELSE "authenticate"} :
            cmd' = [cmd EXCEPT ![c] =
                [pc |-> start, want |-> want, peers |-> peers, todo |-> peers,
                 accepted |-> {}, at |-> {}, run |-> cmd[c].run + 1,
                 before |-> profile[c]]]
  BY DEF Begin
<1>2. PICK start \in {"failed", IF peers = {} THEN "local" ELSE "authenticate"} :
            cmd' = [cmd EXCEPT ![c] =
                [pc |-> start, want |-> want, peers |-> peers, todo |-> peers,
                 accepted |-> {}, at |-> {}, run |-> cmd[c].run + 1,
                 before |-> profile[c]]]
  BY <1>1
<1> DEFINE begun == [pc |-> start, want |-> want, peers |-> peers, todo |-> peers,
                     accepted |-> {}, at |-> {}, run |-> cmd[c].run + 1,
                     before |-> profile[c]]
<1>3. cmd[c] \in Commands /\ profile[c] \in Settings /\ c \in Nodes
  BY InvariantByCommand, NodeAssumption
<1>4. cmd[c].run + 1 \in 0..MaxCommands
  BY <1>3, CommandBounds DEF Begin, Commands
<1>5. start \in Phases /\ start # "validate" /\ start # "apply"
      /\ (start = "local" => peers = {})
  BY <1>2 DEF Phases
<1>6. begun \in Commands
  BY <1>3, <1>4, <1>5 DEF Commands, Settings
<1>7. Coherent(c, begun)
  BY <1>5, <1>6 DEF Coherent
<1>8. UNCHANGED <<profile, handlers, faults, late>>
  BY DEF Begin
<1>9. /\ profile' \in [Nodes -> Settings] /\ handlers' \in [Nodes -> SUBSET Handlers]
      /\ faults' \in 0..MaxFaults /\ late' \in 0..MaxLate
  BY <1>8, InvariantByCommand
<1>10. QED
  BY <1>2, <1>7, <1>9, OneCommandChanges

LEMMA AuthenticateKeeps ==
    ASSUME IInv, NEW c \in Coordinators, NEW m \in Nodes, Authenticate(c, m)
    PROVE  IInv'
<1>1. faults' \in 0..MaxFaults /\ late' \in 0..MaxLate
  BY CountsInRange DEF Authenticate
<1>2. profile' \in [Nodes -> Settings] /\ handlers' \in [Nodes -> SUBSET Handlers]
  BY InvariantByCommand DEF Authenticate
<1>3. CASE End(c, "failed")
  BY <1>1, <1>3, EndKeeps DEF Authenticate
<1>4. CASE cmd' = [cmd EXCEPT ![c] = Called(c, m, "validate")]
  <2>1. cmd[c].pc = "authenticate" /\ Coherent(c, cmd[c])
    BY InvariantByCommand DEF Authenticate, At
  <2>2. Coherent(c, Called(c, m, "validate"))
    BY <2>1, CalledFields DEF Coherent
  <2>3. QED
    BY <1>1, <1>2, <1>4, <2>2, OneCommandChanges
<1>5. QED
  BY <1>3, <1>4 DEF Authenticate

LEMMA ValidateKeeps ==
    ASSUME IInv, NEW c \in Coordinators, NEW m \in Nodes, Validate(c, m)
    PROVE  IInv'
<1>1. /\ profile' \in [Nodes -> Settings] /\ handlers' \in [Nodes -> SUBSET Handlers]
      /\ faults' \in 0..MaxFaults /\ late' \in 0..MaxLate
  BY InvariantByCommand DEF Validate
<1>2. CASE End(c, "failed")
  BY <1>1, <1>2, EndKeeps DEF Validate
<1> DEFINE called == Called(c, m, "apply")
           agreed == [called EXCEPT !.accepted = cmd[c].accepted \cup {m}]
<1>3. CASE cmd' = [cmd EXCEPT ![c] = agreed]
  <2>1. cmd[c].pc = "validate" /\ m \in cmd[c].todo /\ Coherent(c, cmd[c])
    BY InvariantByCommand DEF Validate, At
  <2>2. called \in Commands
    BY CalledFields
  <2> HIDE DEF called
  <2>3. /\ agreed \in Commands
        /\ agreed.accepted = cmd[c].accepted \cup {m}
        /\ agreed.pc = called.pc /\ agreed.peers = called.peers
        /\ agreed.todo = called.todo /\ agreed.at = called.at
    BY <2>1, <2>2 DEF Coherent, Commands
  <2>4. /\ called.peers = cmd[c].peers /\ called.at = {}
        /\ \/ /\ cmd[c].todo \ {m} = {}
              /\ called.pc = "apply" /\ called.todo = cmd[c].peers
           \/ /\ called.pc = "validate" /\ called.todo = cmd[c].todo \ {m}
    BY <2>1, CalledFields DEF called
  <2>5. Coherent(c, agreed)
    BY <2>1, <2>3, <2>4 DEF Coherent
  <2>6. QED
    BY <1>1, <1>3, <2>5, OneCommandChanges
<1>4. QED
  BY <1>2, <1>3 DEF Validate

(* set-wifi is started on a node that the command may call. *)
LEMMA InstallTyped ==
    ASSUME IInv, NEW c \in Coordinators, NEW n \in Nodes, Install(c, n)
    PROVE  profile' \in [Nodes -> Settings] /\ handlers' \in [Nodes -> SUBSET Handlers]
<1>1. /\ profile \in [Nodes -> Settings] /\ handlers \in [Nodes -> SUBSET Handlers]
      /\ cmd[c] \in Commands
  BY InvariantByCommand
<1>2. cmd[c].want \in Settings /\ cmd[c].run \in 0..MaxCommands
  BY <1>1 DEF Commands
<1>3. [call |-> Handler(c), want |-> cmd[c].want, before |-> profile[n]] \in Handlers
  BY <1>1, <1>2 DEF Handlers, Handler
<1>4. QED
  BY <1>1, <1>2, <1>3 DEF Install

(* A command that waits for the answer of a node it may call. *)
LEMMA WaitingCoherent ==
    ASSUME IInv, NEW c \in Coordinators, NEW n \in Nodes,
           \/ cmd[c].pc = "apply" /\ n \in cmd[c].todo
           \/ cmd[c].pc = "local" /\ n = c
    PROVE  Coherent(c, [cmd[c] EXCEPT !.at = {n}])
<1>1. cmd[c] \in Commands /\ Coherent(c, cmd[c])
  BY InvariantByCommand
<1>2. QED
  BY <1>1 DEF Coherent, Commands

LEMMA CallKeeps ==
    ASSUME IInv, NEW c \in Coordinators, NEW n \in Nodes,
           CallApply(c, n) \/ (CallLocal(c) /\ n = c)
    PROVE  IInv'
<1>1. faults' \in 0..MaxFaults /\ late' \in 0..MaxLate
  BY CountsInRange DEF CallApply, CallLocal
<1>2. \/ cmd[c].pc = "apply" /\ n \in cmd[c].todo
      \/ cmd[c].pc = "local" /\ n = c
  BY DEF CallApply, CallLocal, At
<1>3. CASE End(c, "failed") /\ UNCHANGED <<profile, handlers>>
  BY <1>1, <1>3, EndKeeps
<1>4. CASE Install(c, n) /\ cmd' = [cmd EXCEPT ![c].at = {n}]
  <2>1. cmd \in [Coordinators -> Commands]
    BY InvariantByCommand
  <2>2. cmd' = [cmd EXCEPT ![c] = [cmd[c] EXCEPT !.at = {n}]]
    BY <1>4, <2>1
  <2>3. QED
    BY <1>1, <1>2, <1>4, <2>2, InstallTyped, WaitingCoherent, OneCommandChanges
<1>5. QED
  BY <1>3, <1>4 DEF CallApply, CallLocal

(* The answer of a set-wifi command that is waited for. *)
LEMMA AnsweredKeeps ==
    ASSUME IInv, NEW c \in Coordinators, NEW n \in cmd[c].at, NEW success \in BOOLEAN,
           Answered(c, n, success),
           profile' \in [Nodes -> Settings],
           handlers' \in [Nodes -> SUBSET Handlers],
           faults' \in 0..MaxFaults, late' \in 0..MaxLate
    PROVE  IInv'
<1>1. cmd[c].pc \in {"apply", "local"} /\ Coherent(c, cmd[c]) /\ n \in Nodes
  BY InvariantByCommand, NodeAssumption DEF Coherent, Commands
<1>2. CASE cmd' = [cmd EXCEPT ![c] = [cmd[c] EXCEPT !.pc = "failed", !.at = {}]]
  BY <1>2, EndCoherent, OneCommandChanges
<1>3. CASE cmd' = [cmd EXCEPT ![c] = [cmd[c] EXCEPT !.pc = "ok", !.at = {}]]
  BY <1>3, EndCoherent, OneCommandChanges
<1>4. CASE cmd[c].pc = "apply" /\ cmd' = [cmd EXCEPT ![c] = Called(c, n, "local")]
  <2>1. Coherent(c, Called(c, n, "local"))
    BY <1>1, <1>4, CalledFields DEF Coherent
  <2>2. QED
    BY <1>4, <2>1, OneCommandChanges
<1>5. QED
  BY <1>1, <1>2, <1>3, <1>4 DEF Answered

LEMMA FinishKeeps ==
    ASSUME IInv, NEW n \in Nodes, NEW h \in handlers[n], Finish(n, h)
    PROVE  IInv'
<1>1. /\ profile \in [Nodes -> Settings] /\ handlers \in [Nodes -> SUBSET Handlers]
      /\ cmd \in [Coordinators -> Commands]
      /\ \A c \in Coordinators : Coherent(c, cmd[c])
  BY InvariantByCommand
<1>2. h \in Handlers
  BY <1>1
<1>3. faults' \in 0..MaxFaults /\ late' \in 0..MaxLate
  BY CountsInRange DEF Finish
<1>4. handlers' \in [Nodes -> SUBSET Handlers]
  BY <1>1 DEF Finish
<1>5. profile' \in [Nodes -> Settings]
  BY <1>1, <1>2 DEF Finish, Handlers
<1>6. CASE UNCHANGED cmd
  <2>1. IInv' <=> /\ profile' \in [Nodes -> Settings]
                  /\ handlers' \in [Nodes -> SUBSET Handlers]
                  /\ faults' \in 0..MaxFaults /\ late' \in 0..MaxLate
                  /\ cmd' \in [Coordinators -> Commands]
                  /\ \A d \in Coordinators : Coherent(d, cmd'[d])
    BY DEF IInv, TypeOK, Progress, Coherent, At
  <2>2. QED
    BY <1>1, <1>3, <1>4, <1>5, <1>6, <2>1
<1>7. CASE Awaited(n, h) /\ \E success \in BOOLEAN : Answered(h.call.from, n, success)
  <2>1. h.call.from \in Coordinators /\ n \in cmd[h.call.from].at
    BY <1>7 DEF Awaited
  <2>2. QED
    BY <1>3, <1>4, <1>5, <1>7, <2>1, AnsweredKeeps
<1>8. QED
  BY <1>6, <1>7 DEF Finish

LEMMA TimeOutKeeps ==
    ASSUME IInv, NEW c \in Coordinators, TimeOut(c)
    PROVE  IInv'
<1>1. faults' \in 0..MaxFaults /\ late' \in 0..MaxLate
  BY CommandBounds, InvariantByCommand DEF TimeOut
<1>2. QED
  BY <1>1, EndKeeps DEF TimeOut

(* Every step keeps the invariant. *)
LEMMA NextKeeps == IInv /\ [Next]_vars => IInv'
<1> SUFFICES ASSUME IInv, [Next]_vars PROVE IInv'
  OBVIOUS
<1>2. CASE Ending
  BY <1>2, FinishKeeps DEF Ending
<1>3. ASSUME NEW c \in Coordinators, Begin(c) \/ Step(c) \/ TimeOut(c)
      PROVE  IInv'
  <2>1. c \in Nodes
    BY NodeAssumption
  <2>2. QED
    BY <1>3, <2>1, BeginKeeps, AuthenticateKeeps, ValidateKeeps, CallKeeps, TimeOutKeeps
       DEF Step
<1>4. CASE UNCHANGED vars
  BY <1>4 DEF vars, IInv, TypeOK, Progress, At
<1>5. QED
  BY <1>2, <1>3, <1>4 DEF Next

-----------------------------------------------------------------------------
(* The invariant holds in every state. *)
THEOREM IInvHolds == Spec => []IInv
  BY InitInvariant, NextKeeps, PTL DEF Spec

(* Every variable keeps its range. *)
THEOREM TypeCorrect == Spec => []TypeOK
<1>1. IInv => TypeOK
  BY DEF IInv
<1>2. QED
  BY <1>1, IInvHolds, PTL

(* A step that changes the profile of a node either ends a set-wifi        *)
(* command, which puts the old one back, or comes from a command that has  *)
(* had its profile accepted by all it found.                               *)
LEMMA ChangeWasAccepted ==
    ASSUME IInv, [Next]_vars, NEW n \in Nodes, profile'[n] # profile[n]
    PROVE  \/ \E h \in handlers[n] : h \notin handlers'[n] /\ profile'[n] = h.before
           \/ \E c \in Coordinators :
                /\ cmd[c].want = profile'[n] /\ Busy(c)
                /\ cmd[c].accepted = cmd[c].peers
<1>1. /\ profile \in [Nodes -> Settings] /\ handlers \in [Nodes -> SUBSET Handlers]
      /\ \A c \in Coordinators : Coherent(c, cmd[c])
  BY InvariantByCommand
<1>2. CASE Ending
  <2>1. PICK m \in Nodes : \E h \in handlers[m] : Finish(m, h)
    BY <1>2 DEF Ending
  <2> PICK h \in handlers[m] : Finish(m, h)
    BY <2>1
  <2>2. profile' = [profile EXCEPT ![m] = h.before]
        /\ handlers' = [handlers EXCEPT ![m] = @ \ {h}]
    BY DEF Finish
  <2>3. m = n
    BY <1>1, <2>2
  <2>4. QED
    BY <1>1, <2>2, <2>3
<1>3. ASSUME NEW c \in Coordinators, Begin(c) \/ Step(c) \/ TimeOut(c)
      PROVE  /\ cmd[c].want = profile'[n] /\ Busy(c)
             /\ cmd[c].accepted = cmd[c].peers
  <2>1. PICK m \in Nodes : CallApply(c, m) \/ (CallLocal(c) /\ m = c)
    BY <1>3, NodeAssumption
       DEF Step, Begin, Authenticate, Validate, TimeOut, CallLocal
  <2>2. Install(c, m) /\ cmd[c].pc \in {"apply", "local"}
    BY <2>1 DEF CallApply, CallLocal, At
  <2>3. profile'[n] = cmd[c].want
    BY <1>1, <2>2 DEF Install
  <2>4. QED
    BY <1>1, <2>2, <2>3 DEF Coherent, Busy
<1>4. QED
  BY <1>2, <1>3 DEF Next, vars

(* No node changes to a new profile before every member that the command   *)
(* found has accepted it.                                                  *)
THEOREM ProfilesAreAccepted == Spec => ValidatedFirst
<1>1. IInv /\ [Next]_vars =>
        [\A n \in Nodes : profile'[n] # profile[n] =>
            \/ \E h \in handlers[n] : h \notin handlers'[n] /\ profile'[n] = h.before
            \/ \E c \in Coordinators :
                 /\ cmd[c].want = profile'[n] /\ Busy(c)
                 /\ cmd[c].accepted = cmd[c].peers]_vars
  BY ChangeWasAccepted
<1>2. QED
  BY <1>1, IInvHolds, PTL DEF Spec, ValidatedFirst

-----------------------------------------------------------------------------
(* A dashboard used alone, none of whose calls has been given up, knows    *)
(* what runs: one set-wifi command at most, the one it waits for.  The     *)
(* members it has called have its profile, and it has its own until it     *)
(* calls itself; the command that runs there would put that one back.      *)
Solo(c) ==
    /\ \A n \in Nodes \ cmd[c].at : handlers[n] = {}
    /\ \A n \in cmd[c].at :
        /\ cmd[c].at = {n}
        /\ profile[n] = cmd[c].want
        /\ At(c, "apply") => n \in cmd[c].todo
        /\ At(c, "local") => n = c
        /\ \E before \in Settings :
             /\ handlers[n] = {[call |-> Handler(c), want |-> cmd[c].want,
                                before |-> before]}
             /\ n = c => before = cmd[c].before
    /\ At(c, "apply") =>
         \A n \in cmd[c].peers \ cmd[c].todo : profile[n] = cmd[c].want
    /\ At(c, "local") => \A n \in cmd[c].peers : profile[n] = cmd[c].want
    /\ Busy(c) /\ c \notin cmd[c].at => profile[c] = cmd[c].before

(* A dashboard that has not been used does nothing. *)
Unused == \A c \in Coordinators : cmd[c].run = 0 => At(c, "idle")

AloneInv == IInv /\ Unused /\ \A c \in Coordinators : Alone(c) => Solo(c)

LEMMA InitAlone == Init => AloneInv
<1> SUFFICES ASSUME Init PROVE AloneInv
  OBVIOUS
<1>1. \A c \in Coordinators : cmd[c] = NoCommand /\ c \in Nodes
  BY NodeAssumption DEF Init
<1>2. Unused
  BY <1>1 DEF Unused, At, NoCommand
<1>3. \A c \in Coordinators : Solo(c)
  BY <1>1 DEF Init, Solo, At, Busy, NoCommand
<1>4. QED
  BY <1>2, <1>3, InitInvariant DEF AloneInv

(* What stays of a command while it goes on. *)
Goes(c, command) ==
    /\ command.run = cmd[c].run /\ command.want = cmd[c].want
    /\ command.before = cmd[c].before /\ command.peers = cmd[c].peers

LEMMA CalledGoes ==
    ASSUME IInv, NEW c \in Coordinators, NEW m \in Nodes,
           NEW next \in {"validate", "apply", "local"}
    PROVE  Goes(c, Called(c, m, next))
<1>1. cmd[c] \in Commands
  BY InvariantByCommand
<1>2. QED
  BY <1>1 DEF Called, Goes, Commands

(* The record that each way of ending or going on leaves. *)
LEMMA EndRecord ==
    ASSUME IInv, NEW c \in Coordinators, NEW outcome, End(c, outcome)
    PROVE  /\ Goes(c, cmd'[c])
           /\ cmd'[c].pc = outcome /\ cmd'[c].at = {}
           /\ \A d \in Coordinators \ {c} : cmd'[d] = cmd[d]
<1>1. cmd \in [Coordinators -> Commands] /\ cmd[c] \in Commands
  BY InvariantByCommand
<1>2. /\ cmd'[c] = [cmd[c] EXCEPT !.pc = outcome, !.at = {}]
      /\ \A d \in Coordinators \ {c} : cmd'[d] = cmd[d]
  BY <1>1 DEF End
<1>3. QED
  BY <1>1, <1>2 DEF Goes, Commands

LEMMA UpdateRecord ==
    ASSUME IInv, NEW c \in Coordinators, NEW command,
           cmd' = [cmd EXCEPT ![c] = command]
    PROVE  /\ cmd'[c] = command
           /\ \A d \in Coordinators \ {c} : cmd'[d] = cmd[d]
<1>1. cmd \in [Coordinators -> Commands]
  BY InvariantByCommand
<1>2. QED
  BY <1>1

(* A command that ends in its own step leaves its dashboard as it was. *)
LEMMA EndSolo ==
    ASSUME IInv, NEW c \in Coordinators, Solo(c), Busy(c), cmd[c].at = {},
           NEW outcome \in {"ok", "failed"}, End(c, outcome),
           UNCHANGED <<profile, handlers>>
    PROVE  Solo(c)' /\ profile'[c] = cmd[c].before /\ cmd'[c].pc = outcome
<1>1. Goes(c, cmd'[c]) /\ cmd'[c].pc = outcome /\ cmd'[c].at = {}
  BY EndRecord
<1>2. profile[c] = cmd[c].before
  BY DEF Solo
<1>3. \A n \in Nodes : handlers[n] = {}
  BY DEF Solo
<1>4. Solo(c)'
  BY <1>1, <1>3 DEF Solo, At, Busy
<1>5. QED
  BY <1>1, <1>2, <1>4

LEMMA BeginSolo ==
    ASSUME IInv, NEW c \in Coordinators, Solo(c), Begin(c)
    PROVE  Solo(c)' /\ cmd'[c].run # 0
<1>1. PICK want \in Profiles, peers \in SUBSET (Nodes \ {c}) :
        \E start \in {"failed", IF peers = {} THEN "local" ELSE "authenticate"} :
            cmd' = [cmd EXCEPT ![c] =
                [pc |-> start, want |-> want, peers |-> peers, todo |-> peers,
                 accepted |-> {}, at |-> {}, run |-> cmd[c].run + 1,
                 before |-> profile[c]]]
  BY DEF Begin
<1>2. PICK start \in {"failed", IF peers = {} THEN "local" ELSE "authenticate"} :
            cmd' = [cmd EXCEPT ![c] =
                [pc |-> start, want |-> want, peers |-> peers, todo |-> peers,
                 accepted |-> {}, at |-> {}, run |-> cmd[c].run + 1,
                 before |-> profile[c]]]
  BY <1>1
<1>3. cmd'[c] = [pc |-> start, want |-> want, peers |-> peers, todo |-> peers,
                 accepted |-> {}, at |-> {}, run |-> cmd[c].run + 1,
                 before |-> profile[c]]
  BY <1>2, UpdateRecord
<1>4. /\ cmd'[c].at = {} /\ cmd'[c].before = profile[c]
      /\ cmd'[c].pc = start /\ cmd'[c].peers = peers
      /\ cmd'[c].run = cmd[c].run + 1
  BY <1>3
<1>5. start = "local" => peers = {}
  BY <1>2
<1>6. cmd[c] \in Commands /\ Coherent(c, cmd[c])
  BY InvariantByCommand
<1>7. cmd[c].at = {}
  BY <1>6 DEF Begin, Busy, Coherent
<1>8. \A n \in Nodes : handlers[n] = {}
  BY <1>7 DEF Solo
<1>9. start # "apply"
  BY <1>2
<1>10. cmd'[c].run # 0
  BY <1>4, <1>6, CommandBounds DEF Commands
<1>11. UNCHANGED <<profile, handlers>>
  BY DEF Begin
<1>12. Solo(c)'
  BY <1>4, <1>5, <1>8, <1>9, <1>11 DEF Solo, At
<1>13. QED
  BY <1>10, <1>12

(* The two loops that change nothing on the members. *)
LEMMA AskSolo ==
    ASSUME IInv, NEW c \in Coordinators, Solo(c), NEW m \in Nodes,
           Authenticate(c, m) \/ Validate(c, m)
    PROVE  /\ Solo(c)' /\ cmd'[c].run = cmd[c].run
           /\ cmd'[c].pc # "ok"
           /\ cmd'[c].pc = "failed" => profile'[c] = cmd[c].before
<1>1. /\ cmd[c] \in Commands /\ Coherent(c, cmd[c])
      /\ cmd[c].pc \in {"authenticate", "validate"}
  BY InvariantByCommand DEF Authenticate, Validate, At
<1>2. /\ cmd[c].at = {} /\ Busy(c) /\ UNCHANGED <<profile, handlers>>
  BY <1>1 DEF Coherent, Busy, Authenticate, Validate
<1>3. CASE End(c, "failed")
  <2>1. cmd'[c].run = cmd[c].run
    BY <1>3, EndRecord DEF Goes
  <2>2. QED
    BY <1>2, <1>3, <2>1, EndSolo
<1>4. ASSUME NEW command, cmd' = [cmd EXCEPT ![c] = command],
             Goes(c, command), command.at = {},
             command.pc \in {"authenticate", "validate", "apply"},
             command.pc = "apply" => command.todo = cmd[c].peers
      PROVE  Solo(c)' /\ cmd'[c].run = cmd[c].run
             /\ cmd'[c].pc \notin {"ok", "failed"}
  <2>1. cmd'[c] = command
    BY <1>4, UpdateRecord
  <2>2. \A n \in Nodes : handlers[n] = {}
    BY <1>2 DEF Solo
  <2>3. profile[c] = cmd[c].before
    BY <1>2 DEF Solo
  <2>4. Solo(c)'
    BY <1>2, <1>4, <2>1, <2>2, <2>3 DEF Solo, At, Goes
  <2>5. QED
    BY <1>4, <2>1, <2>4 DEF Goes
<1>5. CASE Authenticate(c, m) /\ cmd' = [cmd EXCEPT ![c] = Called(c, m, "validate")]
  <2>1. cmd[c].pc = "authenticate"
    BY <1>5 DEF Authenticate, At
  <2>2. /\ Goes(c, Called(c, m, "validate")) /\ Called(c, m, "validate").at = {}
        /\ Called(c, m, "validate").pc \in {"authenticate", "validate"}
    BY <2>1, CalledFields, CalledGoes
  <2> DEFINE asked == Called(c, m, "validate")
  <2> HIDE DEF asked
  <2>3. QED
    BY <1>4, <1>5, <2>2 DEF asked
<1> DEFINE called == Called(c, m, "apply")
           agreed == [called EXCEPT !.accepted = cmd[c].accepted \cup {m}]
<1>6. CASE Validate(c, m) /\ cmd' = [cmd EXCEPT ![c] = agreed]
  <2>1. cmd[c].pc = "validate" /\ called \in Commands
    BY <1>6, CalledFields DEF Validate, At
  <2>2. /\ Goes(c, called) /\ called.at = {}
        /\ called.pc \in {"validate", "apply"}
        /\ called.pc = "apply" => called.todo = cmd[c].peers
    BY <2>1, CalledFields, CalledGoes
  <2> HIDE DEF called
  <2>3. /\ agreed.pc = called.pc /\ agreed.peers = called.peers
        /\ agreed.todo = called.todo /\ agreed.at = called.at
        /\ agreed.run = called.run /\ agreed.want = called.want
        /\ agreed.before = called.before
    BY <2>1 DEF Commands
  <2>4. QED
    BY <1>4, <1>6, <2>2, <2>3 DEF Goes
<1>7. QED
  BY <1>3, <1>4, <1>5, <1>6 DEF Authenticate, Validate

(* The call of a member, or of the caller itself at the end. *)
LEMMA CallSolo ==
    ASSUME IInv, NEW c \in Coordinators, NEW n \in Nodes, Solo(c),
           CallApply(c, n) \/ (CallLocal(c) /\ n = c)
    PROVE  /\ Solo(c)' /\ cmd'[c].run = cmd[c].run
           /\ cmd'[c].pc # "ok"
           /\ cmd'[c].pc = "failed" => profile'[c] = cmd[c].before
<1>1. /\ cmd[c] \in Commands /\ Coherent(c, cmd[c])
      /\ profile \in [Nodes -> Settings] /\ handlers \in [Nodes -> SUBSET Handlers]
      /\ cmd \in [Coordinators -> Commands] /\ c \in Nodes
  BY InvariantByCommand, NodeAssumption
<1>2. /\ cmd[c].at = {} /\ Busy(c)
      /\ \/ cmd[c].pc = "apply" /\ n \in cmd[c].todo
         \/ cmd[c].pc = "local" /\ n = c
  BY DEF CallApply, CallLocal, At, Busy
<1>3. CASE End(c, "failed") /\ UNCHANGED <<profile, handlers>>
  BY <1>2, <1>3, EndRecord, EndSolo DEF Goes
<1>4. CASE Install(c, n) /\ cmd' = [cmd EXCEPT ![c].at = {n}]
  <2>1. cmd'[c] = [cmd[c] EXCEPT !.at = {n}]
    BY <1>1, <1>4
  <2>2. /\ Goes(c, cmd'[c]) /\ cmd'[c].at = {n} /\ cmd'[c].pc = cmd[c].pc
        /\ cmd'[c].todo = cmd[c].todo
    BY <1>1, <2>1 DEF Goes, Commands
  <2>3. /\ profile'[n] = cmd[c].want
        /\ \A k \in Nodes \ {n} : profile'[k] = profile[k]
    BY <1>1, <1>4 DEF Install
  <2>4. /\ handlers'[n] = {[call |-> Handler(c), want |-> cmd[c].want,
                            before |-> profile[n]]}
        /\ \A k \in Nodes \ {n} : handlers'[k] = {}
    BY <1>1, <1>2, <1>4 DEF Install, Solo
  <2>5. Handler(c)' = Handler(c)
    BY <2>2 DEF Handler, Goes
  <2>6. /\ profile[n] \in Settings /\ (n = c => profile[n] = cmd[c].before)
        /\ cmd[c].peers \subseteq Nodes
    BY <1>1, <1>2 DEF Solo, Commands
  <2>7. /\ At(c, "apply")' =>
             \A k \in cmd'[c].peers \ cmd'[c].todo : profile'[k] = cmd'[c].want
        /\ At(c, "local")' => \A k \in cmd'[c].peers : profile'[k] = cmd'[c].want
    BY <2>2, <2>3, <2>6 DEF Solo, At, Goes
  <2>8. Busy(c)' /\ c \notin cmd'[c].at => profile'[c] = cmd'[c].before
    BY <1>1, <1>2, <2>2, <2>3 DEF Solo, Goes
  <2>9. /\ profile'[n] = cmd'[c].want
        /\ At(c, "apply")' => n \in cmd'[c].todo
        /\ At(c, "local")' => n = c
        /\ \E before \in Settings :
             /\ handlers'[n] = {[call |-> Handler(c)', want |-> cmd'[c].want,
                                 before |-> before]}
             /\ n = c => before = cmd'[c].before
    <3>1. /\ profile'[n] = cmd'[c].want
          /\ At(c, "apply")' => n \in cmd'[c].todo
          /\ At(c, "local")' => n = c
      BY <1>1, <1>2, <2>2, <2>3 DEF At, Goes
    <3>2. /\ handlers'[n] = {[call |-> Handler(c)', want |-> cmd'[c].want,
                              before |-> profile[n]]}
          /\ n = c => profile[n] = cmd'[c].before
      BY <2>2, <2>4, <2>5, <2>6 DEF Goes
    <3>3. QED
      BY <2>6, <3>1, <3>2
  <2>10. Solo(c)'
    BY <2>2, <2>4, <2>7, <2>8, <2>9 DEF Solo
  <2>11. QED
    BY <1>2, <2>2, <2>10 DEF Goes
<1>5. QED
  BY <1>3, <1>4 DEF CallApply, CallLocal

(* A set-wifi command that ends is the one the dashboard waits for, and    *)
(* the only one.                                                           *)
LEMMA FinishIsAwaited ==
    ASSUME IInv, NEW c \in Coordinators, Solo(c),
           NEW n \in Nodes, NEW h \in handlers[n], Finish(n, h)
    PROVE  /\ cmd[c].at = {n} /\ h.call.from = c /\ Awaited(n, h)
           /\ n # c \/ h.before = cmd[c].before
           /\ \A k \in Nodes : handlers'[k] = {}
           /\ \/ profile' = profile /\ Answered(c, n, TRUE)
              \/ profile' = profile /\ n # c /\ Answered(c, n, FALSE)
              \/ profile' = [profile EXCEPT ![n] = h.before] /\ Answered(c, n, FALSE)
<1>1. n \in cmd[c].at /\ handlers \in [Nodes -> SUBSET Handlers]
  BY InvariantByCommand DEF Solo
<1>2. cmd[c].at = {n}
  BY <1>1 DEF Solo
<1>3. PICK before \in Settings :
        /\ handlers[n] = {[call |-> Handler(c), want |-> cmd[c].want,
                           before |-> before]}
        /\ n = c => before = cmd[c].before
  BY <1>1 DEF Solo
<1>4. /\ h = [call |-> Handler(c), want |-> cmd[c].want, before |-> before]
      /\ handlers[n] = {h}
  BY <1>3
<1>5. /\ h.call.from = c /\ h.call.run = cmd[c].run
      /\ n = c => h.before = cmd[c].before
  BY <1>3, <1>4 DEF Handler
<1>6. Awaited(n, h)
  BY <1>1, <1>5 DEF Awaited
<1>7. \A k \in Nodes : handlers'[k] = {}
  BY <1>1, <1>2, <1>4 DEF Finish, Solo
<1>8. QED
  BY <1>2, <1>5, <1>6, <1>7 DEF Finish

LEMMA FinishSolo ==
    ASSUME IInv, NEW c \in Coordinators, Solo(c),
           NEW n \in Nodes, NEW h \in handlers[n], Finish(n, h)
    PROVE  /\ Solo(c)' /\ cmd'[c].run = cmd[c].run
           /\ \A d \in Coordinators \ {c} : cmd'[d] = cmd[d]
           /\ cmd'[c].pc = "failed" => profile'[c] = cmd[c].before
           /\ cmd'[c].pc = "ok" =>
                \A k \in cmd[c].peers \cup {c} : profile'[k] = cmd[c].want
<1>1. /\ cmd[c] \in Commands /\ Coherent(c, cmd[c]) /\ c \in Nodes
      /\ profile \in [Nodes -> Settings] /\ cmd[c].peers \subseteq Nodes
      /\ cmd \in [Coordinators -> Commands]
  BY InvariantByCommand, NodeAssumption DEF Commands
<1>0. /\ cmd[c].at = {n} /\ h.call.from = c /\ Awaited(n, h)
      /\ n # c \/ h.before = cmd[c].before
      /\ \A k \in Nodes : handlers'[k] = {}
      /\ \/ profile' = profile /\ Answered(c, n, TRUE)
         \/ profile' = profile /\ n # c /\ Answered(c, n, FALSE)
         \/ profile' = [profile EXCEPT ![n] = h.before] /\ Answered(c, n, FALSE)
  BY FinishIsAwaited, Zenon
<1>2. /\ cmd[c].at = {n}
      /\ n = c => h.before = cmd[c].before
      /\ \A k \in Nodes : handlers'[k] = {}
  BY <1>0
<1>3. /\ cmd[c].pc \in {"apply", "local"} /\ Busy(c)
      /\ n = c <=> cmd[c].pc = "local"
      /\ n # c => profile[c] = cmd[c].before
      /\ profile[n] = cmd[c].want
      /\ At(c, "apply") => n \in cmd[c].todo
      /\ At(c, "local") => \A k \in cmd[c].peers : profile[k] = cmd[c].want
      /\ At(c, "apply") =>
            \A k \in cmd[c].peers \ cmd[c].todo : profile[k] = cmd[c].want
  BY <1>1, <1>2 DEF Coherent, Busy, Solo, At
<1>4. CASE /\ Answered(c, n, FALSE)
           /\ \/ profile' = profile /\ n # c
              \/ profile' = [profile EXCEPT ![n] = h.before]
  <2>1. cmd' = [cmd EXCEPT ![c] = [cmd[c] EXCEPT !.pc = "failed", !.at = {}]]
    BY <1>4 DEF Answered
  <2>2. End(c, "failed")
    BY <1>1, <2>1 DEF End
  <2>3. /\ Goes(c, cmd'[c]) /\ cmd'[c].pc = "failed" /\ cmd'[c].at = {}
        /\ \A d \in Coordinators \ {c} : cmd'[d] = cmd[d]
    BY <2>2, EndRecord
  <2>4. Solo(c)'
    BY <1>2, <2>3 DEF Solo, At, Busy
  <2>5. profile'[c] = cmd[c].before
    <3>1. CASE n = c
      BY <1>1, <1>2, <1>4, <3>1
    <3>2. CASE n # c
      BY <1>1, <1>2, <1>3, <1>4, <3>2
    <3>3. QED
      BY <3>1, <3>2
  <2>6. QED
    BY <2>3, <2>4, <2>5 DEF Goes
<1>5. CASE profile' = profile /\ Answered(c, n, TRUE) /\ cmd[c].pc = "local"
  <2>1. cmd' = [cmd EXCEPT ![c] = [cmd[c] EXCEPT !.pc = "ok", !.at = {}]]
    BY <1>5 DEF Answered
  <2>2. End(c, "ok")
    BY <1>1, <2>1 DEF End
  <2>3. /\ Goes(c, cmd'[c]) /\ cmd'[c].pc = "ok" /\ cmd'[c].at = {}
        /\ \A d \in Coordinators \ {c} : cmd'[d] = cmd[d]
    BY <2>2, EndRecord
  <2>4. Solo(c)'
    BY <1>2, <2>3 DEF Solo, At, Busy
  <2>5. QED
    BY <1>2, <1>3, <1>5, <2>3, <2>4 DEF Goes, At
<1>6. CASE profile' = profile /\ Answered(c, n, TRUE) /\ cmd[c].pc = "apply"
  <2>1. cmd' = [cmd EXCEPT ![c] = Called(c, n, "local")]
    BY <1>6 DEF Answered
  <2> DEFINE called == Called(c, n, "local")
  <2>7. /\ Goes(c, called) /\ called.at = {}
        /\ \/ called.pc = "local"
           \/ called.pc = cmd[c].pc /\ called.todo = cmd[c].todo \ {n}
        /\ called.pc = "local" => cmd[c].todo \ {n} = {}
    BY <1>6, CalledFields, CalledGoes
  <2>8. cmd'[c] = called /\ \A d \in Coordinators \ {c} : cmd'[d] = cmd[d]
    BY <2>1, UpdateRecord
  <2>2. /\ Goes(c, cmd'[c]) /\ cmd'[c].at = {}
        /\ \A d \in Coordinators \ {c} : cmd'[d] = cmd[d]
        /\ \/ cmd[c].todo \ {n} = {} /\ cmd'[c].pc = "local"
           \/ cmd'[c].pc = "apply" /\ cmd'[c].todo = cmd[c].todo \ {n}
    BY <1>6, <2>7, <2>8
  <2>3. /\ At(c, "apply")' =>
             \A k \in cmd'[c].peers \ cmd'[c].todo : profile'[k] = cmd'[c].want
        /\ At(c, "local")' => \A k \in cmd'[c].peers : profile'[k] = cmd'[c].want
    BY <1>3, <1>6, <2>2 DEF At, Goes
  <2>4. profile'[c] = cmd'[c].before
    BY <1>3, <1>6, <2>2 DEF Goes
  <2>5. Solo(c)'
    BY <1>2, <2>2, <2>3, <2>4 DEF Solo
  <2>6. QED
    BY <2>2, <2>5 DEF Goes
<1>7. QED
  BY <1>0, <1>3, <1>4, <1>5, <1>6

(* A call that is given up: the caller itself has not changed. *)
LEMMA TimeOutSolo ==
    ASSUME IInv, NEW c \in Coordinators, TimeOut(c)
    PROVE  /\ cmd'[c].pc = "failed" /\ late' # 0 /\ cmd'[c].run = cmd[c].run
           /\ \A d \in Coordinators \ {c} : cmd'[d] = cmd[d]
           /\ Solo(c) => profile'[c] = cmd[c].before
<1>1. /\ Coherent(c, cmd[c]) /\ late \in 0..MaxLate /\ cmd[c].pc = "apply"
  BY InvariantByCommand DEF TimeOut, At
<1>2. cmd'[c].pc = "failed" /\ Goes(c, cmd'[c])
      /\ \A d \in Coordinators \ {c} : cmd'[d] = cmd[d]
  BY EndRecord DEF TimeOut
<1>3. late' # 0
  BY <1>1, CommandBounds DEF TimeOut
<1>4. Solo(c) => profile'[c] = cmd[c].before
  BY <1>1 DEF TimeOut, Solo, Coherent, Busy
<1>5. QED
  BY <1>2, <1>3, <1>4 DEF Goes

-----------------------------------------------------------------------------
(* No step but the beginning of a command alters which one it is. *)
LEMMA StepGoes ==
    ASSUME IInv, NEW c \in Coordinators, Step(c) \/ TimeOut(c)
    PROVE  /\ Goes(c, cmd'[c]) /\ ~At(c, "idle")
           /\ \A d \in Coordinators \ {c} : cmd'[d] = cmd[d]
<1>1. cmd \in [Coordinators -> Commands] /\ cmd[c] \in Commands /\ c \in Nodes
  BY InvariantByCommand, NodeAssumption
<1>2. ~At(c, "idle")
  BY DEF Step, TimeOut, Authenticate, Validate, CallApply, CallLocal, At
<1>3. CASE End(c, "failed")
  BY <1>2, <1>3, EndRecord
<1>4. ASSUME NEW command, cmd' = [cmd EXCEPT ![c] = command], Goes(c, command)
      PROVE  /\ Goes(c, cmd'[c])
             /\ \A d \in Coordinators \ {c} : cmd'[d] = cmd[d]
  BY <1>4, UpdateRecord
<1>5. CASE \E m \in Nodes : cmd' = [cmd EXCEPT ![c] = Called(c, m, "validate")]
  BY <1>2, <1>4, <1>5, CalledGoes
<1>6. ASSUME NEW m \in Nodes,
             cmd' = [cmd EXCEPT ![c] = [Called(c, m, "apply") EXCEPT
                                         !.accepted = cmd[c].accepted \cup {m}]]
      PROVE  /\ Goes(c, cmd'[c])
             /\ \A d \in Coordinators \ {c} : cmd'[d] = cmd[d]
  <2> DEFINE called == Called(c, m, "apply")
             agreed == [called EXCEPT !.accepted = cmd[c].accepted \cup {m}]
  <2>1. called \in Commands /\ Goes(c, called)
    BY CalledFields, CalledGoes
  <2>2. cmd' = [cmd EXCEPT ![c] = agreed]
    BY <1>6
  <2> HIDE DEF called
  <2>3. Goes(c, agreed)
    BY <2>1 DEF Goes, Commands
  <2>4. QED
    BY <1>4, <2>2, <2>3
<1>7. CASE \E m \in Nodes : cmd' = [cmd EXCEPT ![c].at = {m}]
  <2>1. PICK m \in Nodes : cmd' = [cmd EXCEPT ![c] = [cmd[c] EXCEPT !.at = {m}]]
    BY <1>1, <1>7
  <2>2. Goes(c, [cmd[c] EXCEPT !.at = {m}])
    BY <1>1 DEF Goes, Commands
  <2>3. QED
    BY <1>2, <1>4, <2>1, <2>2
<1>8. CASE TimeOut(c)
  BY <1>3, <1>8 DEF TimeOut
<1>9. CASE Step(c)
  <2>1. CASE \E m \in Nodes : Authenticate(c, m)
    BY <1>3, <1>5, <2>1 DEF Authenticate
  <2>2. CASE \E m \in Nodes : Validate(c, m)
    BY <1>2, <1>3, <1>6, <2>2 DEF Validate
  <2>3. CASE \E m \in Nodes : CallApply(c, m)
    BY <1>3, <1>7, <2>3 DEF CallApply
  <2>4. CASE CallLocal(c)
    BY <1>1, <1>3, <1>7, <2>4 DEF CallLocal
  <2>5. QED
    BY <1>9, <2>1, <2>2, <2>3, <2>4 DEF Step
<1>10. QED
  BY <1>8, <1>9

LEMMA BeginOthers ==
    ASSUME IInv, NEW c \in Coordinators, Begin(c)
    PROVE  /\ cmd'[c].run # 0 /\ ~Busy(c)
           /\ \A d \in Coordinators \ {c} : cmd'[d] = cmd[d]
<1>1. PICK want \in Profiles, peers \in SUBSET (Nodes \ {c}) :
        \E start \in {"failed", IF peers = {} THEN "local" ELSE "authenticate"} :
            cmd' = [cmd EXCEPT ![c] =
                [pc |-> start, want |-> want, peers |-> peers, todo |-> peers,
                 accepted |-> {}, at |-> {}, run |-> cmd[c].run + 1,
                 before |-> profile[c]]]
  BY DEF Begin
<1>2. PICK start :
            cmd' = [cmd EXCEPT ![c] =
                [pc |-> start, want |-> want, peers |-> peers, todo |-> peers,
                 accepted |-> {}, at |-> {}, run |-> cmd[c].run + 1,
                 before |-> profile[c]]]
  BY <1>1
<1>3. cmd \in [Coordinators -> Commands] /\ cmd[c].run \in Nat
  BY InvariantByCommand, CommandBounds DEF Commands
<1>4. /\ cmd'[c].run = cmd[c].run + 1
      /\ \A d \in Coordinators \ {c} : cmd'[d] = cmd[d]
  BY <1>2, <1>3
<1>5. QED
  BY <1>3, <1>4 DEF Begin

LEMMA FinishGoes ==
    ASSUME IInv, NEW n \in Nodes, NEW h \in handlers[n], Finish(n, h)
    PROVE  \A d \in Coordinators : Goes(d, cmd'[d]) /\ (At(d, "idle") => cmd'[d] = cmd[d])
<1>1. CASE UNCHANGED cmd
  BY <1>1 DEF Goes
<1>2. ASSUME Awaited(n, h), NEW success \in BOOLEAN, Answered(h.call.from, n, success)
      PROVE  \A d \in Coordinators : Goes(d, cmd'[d]) /\ (At(d, "idle") => cmd'[d] = cmd[d])
  <2> DEFINE c == h.call.from
  <2>1. c \in Coordinators /\ n \in cmd[c].at
    BY <1>2 DEF Awaited
  <2> HIDE DEF c
  <2>2. ~At(c, "idle") /\ cmd[c] \in Commands /\ cmd \in [Coordinators -> Commands]
    BY <2>1, InvariantByCommand DEF Coherent, At
  <2>3. Answered(c, n, success)
    BY <1>2 DEF c
  <2>4. CASE \E outcome : cmd' = [cmd EXCEPT ![c] = [cmd[c] EXCEPT !.pc = outcome, !.at = {}]]
    <3>1. PICK outcome : End(c, outcome)
      BY <2>2, <2>4 DEF End
    <3>2. QED
      BY <2>1, <2>2, <3>1, EndRecord DEF Goes
  <2>5. CASE cmd' = [cmd EXCEPT ![c] = Called(c, n, "local")]
    <3>1. Goes(c, Called(c, n, "local"))
      BY <2>1, CalledGoes
    <3>2. cmd'[c] = Called(c, n, "local") /\ \A d \in Coordinators \ {c} : cmd'[d] = cmd[d]
      BY <2>1, <2>5, UpdateRecord
    <3>3. QED
      BY <2>2, <3>1, <3>2 DEF Goes
  <2>6. QED
    BY <2>3, <2>4, <2>5 DEF Answered
<1>3. QED
  BY <1>1, <1>2 DEF Finish

(* A dashboard that is alone after a step was alone before it, and the     *)
(* step was its own or the end of the set-wifi command it waits for.       *)
LEMMA StepAlone ==
    ASSUME AloneInv, [Next]_vars
    PROVE  /\ Unused'
           /\ \A c \in Coordinators : Alone(c)' => Solo(c)'
<1>0. IInv /\ Unused /\ \A c \in Coordinators : c \in Nodes
  BY NodeAssumption DEF AloneInv
<1>1. CASE UNCHANGED vars
  <2>1. UNCHANGED <<profile, handlers, cmd, faults, late>>
    BY <1>1 DEF vars
  <2>2. \A c \in Coordinators : (Alone(c)' <=> Alone(c)) /\ (Solo(c)' <=> Solo(c))
    BY <2>1 DEF Alone, Solo, At, Busy, Handler
  <2>3. QED
    BY <1>0, <2>1, <2>2 DEF AloneInv, Unused, At
<1>2. CASE Ending
  <2>1. PICK n \in Nodes : \E h \in handlers[n] : Finish(n, h)
    BY <1>2 DEF Ending
  <2>2. PICK h \in handlers[n] : Finish(n, h)
    BY <2>1
  <2>3. \A d \in Coordinators : Goes(d, cmd'[d]) /\ (At(d, "idle") => cmd'[d] = cmd[d])
    BY <1>0, <2>2, FinishGoes
  <2>4. Unused'
    BY <1>0, <2>3 DEF Unused, Goes, At
  <2>5. late' = late
    BY <2>2 DEF Finish, Fault, NoFault
  <2>6. \A c \in Coordinators : Alone(c)' => Alone(c)
    BY <2>3, <2>5 DEF Alone, Goes
  <2>7. \A c \in Coordinators : Solo(c) => Solo(c)'
    BY <1>0, <2>2, FinishSolo
  <2>8. QED
    BY <2>4, <2>6, <2>7 DEF AloneInv
<1>3. ASSUME NEW d \in Coordinators, Begin(d) \/ Step(d) \/ TimeOut(d)
      PROVE  /\ Unused'
             /\ \A c \in Coordinators : Alone(c)' => Solo(c)'
  <2>1. \A c \in Coordinators \ {d} : cmd'[c] = cmd[c]
    BY <1>0, <1>3, BeginOthers, StepGoes
  <2>2. cmd'[d].run # 0
    <3>1. CASE Begin(d)
      BY <1>0, <3>1, BeginOthers
    <3>2. CASE Step(d) \/ TimeOut(d)
      BY <1>0, <3>2, StepGoes DEF Unused, Goes
    <3>3. QED
      BY <1>3, <3>1, <3>2
  <2>3. Unused'
    BY <1>0, <2>1, <2>2 DEF Unused, At
  <2>4. ASSUME NEW c \in Coordinators, Alone(c)'
        PROVE  Solo(c)'
    <3>1. c = d
      BY <2>2, <2>4 DEF Alone
    <3>2. ~TimeOut(c)
      BY <1>0, <2>4, TimeOutSolo DEF Alone
    <3>3. UNCHANGED late
      BY <1>3, <3>1, <3>2
         DEF Begin, Step, Authenticate, Validate, CallApply, CallLocal, Fault,
             NoFault
    <3>4. Alone(c)
      BY <2>1, <2>4, <3>1, <3>3 DEF Alone
    <3>5. Solo(c)
      BY <3>4 DEF AloneInv
    <3>6. CASE Begin(c)
      BY <1>0, <3>5, <3>6, BeginSolo
    <3>7. CASE Step(c)
      <4>1. ASSUME NEW m \in Nodes, Authenticate(c, m) \/ Validate(c, m)
            PROVE  Solo(c)'
        BY <1>0, <3>5, <4>1, AskSolo
      <4>2. ASSUME NEW m \in Nodes, CallApply(c, m) \/ (CallLocal(c) /\ m = c)
            PROVE  Solo(c)'
        BY <1>0, <3>5, <4>2, CallSolo
      <4>3. QED
        BY <1>0, <3>7, <4>1, <4>2 DEF Step
    <3>8. QED
      BY <1>3, <3>1, <3>2, <3>6, <3>7
  <2>5. QED
    BY <2>3, <2>4
<1>4. QED
  BY <1>1, <1>2, <1>3 DEF Next

THEOREM AloneInvHolds == Spec => []AloneInv
<1>1. AloneInv /\ [Next]_vars => AloneInv'
  BY NextKeeps, StepAlone DEF AloneInv
<1>2. QED
  BY InitAlone, <1>1, PTL DEF Spec

(* How a command of a dashboard that is alone ends. *)
LEMMA EndsAsTold ==
    ASSUME AloneInv, Next, NEW c \in Coordinators, Alone(c), Busy(c)
    PROVE  /\ cmd'[c].pc = "failed" => profile'[c] = cmd[c].before
           /\ cmd'[c].pc = "ok" =>
                \A n \in cmd[c].peers \cup {c} : profile'[n] = cmd[c].want
<1>0. IInv /\ Solo(c) /\ c \in Nodes
  BY NodeAssumption DEF AloneInv
<1>1. CASE Ending
  BY <1>0, <1>1, FinishSolo DEF Ending
<1>2. ASSUME NEW d \in Coordinators \ {c}, Begin(d) \/ Step(d) \/ TimeOut(d)
      PROVE  cmd'[c].pc \notin {"ok", "failed"}
  <2>1. cmd'[c] = cmd[c]
    BY <1>0, <1>2, BeginOthers, StepGoes
  <2>2. QED
    BY <2>1 DEF Busy
<1>3. CASE Begin(c)
  BY <1>0, <1>3, BeginOthers
<1>4. CASE Step(c)
  <2>1. ASSUME NEW m \in Nodes,
               \/ Authenticate(c, m) \/ Validate(c, m) \/ CallApply(c, m)
               \/ CallLocal(c) /\ m = c
        PROVE  /\ cmd'[c].pc # "ok"
               /\ cmd'[c].pc = "failed" => profile'[c] = cmd[c].before
    BY <1>0, <2>1, AskSolo, CallSolo
  <2>2. QED
    BY <1>0, <1>4, <2>1 DEF Step
<1>5. CASE TimeOut(c)
  BY <1>0, <1>5, TimeOutSolo
<1>6. QED
  BY <1>1, <1>2, <1>3, <1>4, <1>5 DEF Next

(* A command of the only dashboard used that succeeds, none of its calls   *)
(* given up, leaves its profile on every member it found and on itself.    *)
THEOREM SuccessReaches == Spec => SuccessSynced
<1>1. AloneInv /\ [Next]_vars =>
        [\A c \in Coordinators :
            Alone(c) /\ Busy(c) /\ cmd'[c].pc = "ok" =>
                \A n \in cmd[c].peers \cup {c} : profile'[n] = cmd[c].want]_vars
  BY EndsAsTold
<1>2. QED
  BY <1>1, AloneInvHolds, PTL DEF Spec, SuccessSynced

(* Such a command that fails leaves its own node as it was. *)
THEOREM FailureKeeps == Spec => FailureLeavesCaller
<1>1. AloneInv /\ [Next]_vars =>
        [\A c \in Coordinators :
            Alone(c) /\ Busy(c) /\ cmd'[c].pc = "failed" =>
                profile'[c] = cmd[c].before]_vars
  BY EndsAsTold
<1>2. QED
  BY <1>1, AloneInvHolds, PTL DEF Spec, FailureLeavesCaller

=============================================================================
