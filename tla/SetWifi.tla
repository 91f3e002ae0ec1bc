------------------------------- MODULE SetWifi -------------------------------
(***************************************************************************)
(* rg-ma2820-set-wifi on one access point.  A command checks a profile,    *)
(* copies wifi.env aside, writes a new file beside it, renames that over   *)
(* wifi.env, restarts the radios, and puts the copy back if they do not    *)
(* start.  The web interface, the cluster CGI of another access point and  *)
(* the SSH maintenance of the wired peer each start commands of their own, *)
(* and no lock keeps two of them apart.                                    *)
(*                                                                         *)
(* A profile is a value; how its many options are checked is ValidProfiles.*)
(* Files are inodes with names, as a command that has a file open goes on  *)
(* writing it after another has renamed it.  wifi.env is part of the       *)
(* image, so a command always finds a previous one.  The restarts of the   *)
(* neighbour and roaming services, whose failures are ignored, are left    *)
(* out.                                                                    *)
(***************************************************************************)
EXTENDS Naturals

CONSTANTS
    Callers,         \* the commands that are run, each once
    Profiles,        \* the profiles they are given
    ValidProfiles,   \* those validate_configuration accepts
    StagedProfiles,  \* the files that other access points and users stage
    Original,        \* the profile of the image
    Torn,            \* a file that is not whole
    Nothing,         \* no file, no profile, radios that are down
    Shipped,         \* the inode of the image's wifi.env
    Kinds,           \* the forms of the command that are used
    MaxFaults,       \* bound: radios that do not start, a copy that fails,
                     \* a peer that refuses or whose answer is lost
    MaxFull          \* bound: files that do not fit on the flash

ASSUME ProfileAssumption ==
    /\ ValidProfiles \subseteq Profiles /\ StagedProfiles \subseteq Profiles
    /\ {Original, Torn, Nothing} \cap Profiles = {}
    /\ Original # Torn /\ Original # Nothing /\ Torn # Nothing
ASSUME InodeAssumption ==
    Shipped \notin Callers \X {"new", "rollback"}
        /\ Nothing \notin Callers \X {"new", "rollback"} /\ Shipped # Nothing
ASSUME KindAssumption == Kinds \subseteq {"json", "pair", "staged", "owner"}
ASSUME FaultAssumption == MaxFaults \in Nat /\ MaxFull \in Nat

VARIABLES
    content,  \* what each inode holds
    env, new, \* the inodes named wifi.env and wifi.env.new
    radio,    \* the profile the radios run
    stated,   \* CONFIG_HASH in the state file: the profile it is the hash of
    peer,     \* the profile of the wired peer
    jobs,     \* the commands
    alone,    \* history: no command has been run while another was running
    faults, full

vars == <<content, env, new, radio, stated, peer, jobs, alone, faults, full>>
Files == <<content, env, new>>
Radios == <<radio, stated>>

Inodes == {Shipped} \cup (Callers \X {"new", "rollback"})
NewOf(c) == <<c, "new">>
RollbackOf(c) == <<c, "rollback">>

(* fd: the file the command writes or has written, until another empties   *)
(* it; before: what wifi.env held when it was started (a history).         *)
NoJob == [pc |-> "idle", kind |-> "json", profile |-> Nothing, fd |-> Nothing,
          loaded |-> Nothing, before |-> Nothing, result |-> "none"]

Init ==
    /\ content = [i \in Inodes |-> IF i = Shipped THEN Original ELSE Nothing]
    /\ env = Shipped /\ new = Nothing
    /\ radio = Original /\ stated = Original
    /\ peer = Original
    /\ jobs = [c \in Callers |-> NoJob]
    /\ alone = TRUE
    /\ faults = 0 /\ full = 0

Fault == faults < MaxFaults /\ faults' = faults + 1 /\ UNCHANGED full
NoFault == UNCHANGED <<faults, full>>

Running(c) == jobs[c].pc \notin {"idle", "ended"}
At(c, step) == jobs[c].pc = step
GoTo(c, step) == jobs' = [jobs EXCEPT ![c].pc = step]
End(c, outcome) == jobs' = [jobs EXCEPT ![c].pc = "ended", ![c].result = outcome]

(* apply_staged, against the forms that write the profile at once. *)
Restores(c) == jobs[c].kind # "owner"

-----------------------------------------------------------------------------
Call(c) ==
    /\ At(c, "idle")
    /\ alone' = (alone /\ \A other \in Callers : ~Running(other))
    /\ \E kind \in Kinds, profile \in Profiles :
        /\ kind = "staged" => profile \in StagedProfiles
        /\ jobs' = [jobs EXCEPT ![c] =
               [NoJob EXCEPT !.kind = kind, !.profile = profile,
                             !.before = content[env],
                             !.pc = IF kind = "staged" THEN "backup" ELSE "check"]]
    /\ UNCHANGED <<Files, Radios, peer, faults, full>>

Checked(c) == GoTo(c, CASE jobs[c].kind = "json"  -> "backup"
                        [] jobs[c].kind = "pair"  -> "peer"
                        [] jobs[c].kind = "owner" -> "open")

(* Variant: what the checks find stops nothing. *)
CheckNothing(c) ==
    /\ At(c, "check")
    /\ Checked(c)
    /\ UNCHANGED <<Files, Radios, peer, faults, full>>

(* configuration_from_json or legacy_owner_configuration, and the copy of  *)
(* the result in /tmp.                                                     *)
Check(c) ==
    /\ At(c, "check")
    /\ IF jobs[c].profile \in ValidProfiles THEN Checked(c) ELSE End(c, "failed")
    /\ UNCHANGED <<Files, Radios, peer, faults, full>>

(* Scope "pair": the peer goes first.  It may have applied the profile and *)
(* the connection that should say so may be gone.                          *)
PeerFirst(c) ==
    /\ At(c, "peer")
    /\ \/ peer' = jobs[c].profile /\ GoTo(c, "backup") /\ NoFault
       \/ peer' \in {peer, jobs[c].profile} /\ End(c, "failed") /\ Fault
    /\ UNCHANGED <<Files, Radios>>

(* cp -p wifi.env wifi.env.rollback.$$ *)
Backup(c) ==
    /\ At(c, "backup")
    /\ \/ /\ content' = [content EXCEPT ![RollbackOf(c)] = content[env]]
          /\ GoTo(c, "open") /\ NoFault
       \/ UNCHANGED content /\ End(c, "failed") /\ Fault
    /\ UNCHANGED <<env, new, Radios, peer>>

(* install_staged, up to the redirection of write_configuration.  It runs  *)
(* in the condition of an `if', where the shell ignores `set -e': its      *)
(* checks of a staged file print what they find and stop nothing.          *)
Open(c) ==
    /\ At(c, "open")
    /\ LET inode == IF new = Nothing THEN NewOf(c) ELSE new IN
        /\ new' = inode
        /\ content' = [content EXCEPT ![inode] = Torn]
        /\ jobs' = [d \in Callers |->
               IF d = c THEN [jobs[c] EXCEPT !.pc = "fill", !.fd = inode]
               ELSE IF jobs[d].fd = inode /\ ~At(d, "fill")
                    THEN [jobs[d] EXCEPT !.fd = Nothing] ELSE jobs[d]]
    /\ UNCHANGED <<env, Radios, peer, faults, full>>

SharedFile(c) == \E other \in Callers \ {c} : jobs[other].fd = jobs[c].fd

(* The lines of two commands that have, or had, the file open at the same  *)
(* time are mixed.  A write that fails ends the command only where         *)
(* `set -e' is in force.                                                   *)
Fill(c) ==
    /\ At(c, "fill")
    /\ \/ /\ content' = [content EXCEPT ![jobs[c].fd] = jobs[c].profile]
          /\ GoTo(c, "move") /\ UNCHANGED full
       \/ /\ SharedFile(c)
          /\ content' = [content EXCEPT ![jobs[c].fd] = Torn]
          /\ GoTo(c, "move") /\ UNCHANGED full
       \/ /\ full < MaxFull /\ full' = full + 1
          /\ content' = [content EXCEPT ![jobs[c].fd] = Torn]
          /\ IF Restores(c) THEN GoTo(c, "move") ELSE End(c, "failed")
    /\ UNCHANGED <<env, new, Radios, peer, faults>>

(* Variant: a rename that fails is not noticed. *)
MoveRegardless(c) ==
    /\ At(c, "move")
    /\ IF new = Nothing THEN UNCHANGED env ELSE env' = new
    /\ new' = Nothing /\ GoTo(c, "restart")
    /\ UNCHANGED <<content, Radios, peer, faults, full>>

(* mv -f wifi.env.new wifi.env *)
Move(c) ==
    /\ At(c, "move")
    /\ IF new = Nothing
       THEN End(c, "failed") /\ UNCHANGED <<env, new>>
       ELSE env' = new /\ new' = Nothing /\ GoTo(c, "restart")
    /\ UNCHANGED <<content, Radios, peer, faults, full>>

-----------------------------------------------------------------------------
(* restart_radios: the init script reads wifi.env, stops the radios and    *)
(* starts them with what it has read.                                      *)

(* Variant: the state file stays where it is. *)
StopKeepingState(c) ==
    /\ \/ At(c, "restart") /\ jobs' = [jobs EXCEPT ![c].pc = "start",
                                                   ![c].loaded = content[env]]
       \/ At(c, "restart_again") /\ jobs' = [jobs EXCEPT ![c].pc = "start_again",
                                                         ![c].loaded = content[env]]
    /\ radio' = Nothing /\ UNCHANGED stated
    /\ UNCHANGED <<Files, peer, faults, full>>

StopRadios(c) ==
    /\ \/ At(c, "restart") /\ jobs' = [jobs EXCEPT ![c].pc = "start",
                                                   ![c].loaded = content[env]]
       \/ At(c, "restart_again") /\ jobs' = [jobs EXCEPT ![c].pc = "start_again",
                                                         ![c].loaded = content[env]]
    /\ radio' = Nothing /\ stated' = Nothing
    /\ UNCHANGED <<Files, peer, faults, full>>

(* The hash in the state file is that of wifi.env as it is by then. *)
Started(c) == radio' = jobs[c].loaded /\ stated' = content[env]
NotStarted(c) ==
    /\ radio' = Nothing /\ stated' = Nothing
    /\ IF jobs[c].loaded \in ValidProfiles \cup {Original} THEN Fault ELSE NoFault

(* Variant: radios that do not start are reported as started. *)
StartUnchecked(c) ==
    /\ At(c, "start")
    /\ (Started(c) /\ NoFault) \/ NotStarted(c)
    /\ End(c, "ok")
    /\ UNCHANGED <<Files, peer>>

StartRadios(c) ==
    /\ At(c, "start")
    /\ \/ Started(c) /\ NoFault /\ End(c, "ok")
       \/ /\ NotStarted(c)
          /\ IF Restores(c) THEN GoTo(c, "rollback") ELSE End(c, "failed")
    /\ UNCHANGED <<Files, peer>>

RollBack(c) ==
    /\ At(c, "rollback")
    /\ env' = RollbackOf(c)
    /\ GoTo(c, "restart_again")
    /\ UNCHANGED <<content, new, Radios, peer, faults, full>>

StartAgain(c) ==
    /\ At(c, "start_again")
    /\ (Started(c) /\ NoFault) \/ NotStarted(c)
    /\ End(c, "failed")
    /\ UNCHANGED <<Files, peer>>

Step(c) ==
    /\ \/ Check(c) \/ PeerFirst(c) \/ Backup(c) \/ Open(c) \/ Fill(c) \/ Move(c)
       \/ StopRadios(c) \/ StartRadios(c) \/ RollBack(c) \/ StartAgain(c)
    /\ UNCHANGED alone

Next == \E c \in Callers : Call(c) \/ Step(c)

Spec == Init /\ [][Next]_vars

-----------------------------------------------------------------------------
(* Every variable stays in its range. *)
TypeOK ==
    /\ content \in [Inodes -> Profiles \cup {Original, Torn, Nothing}]
    /\ env \in Inodes /\ new \in Inodes \cup {Nothing}
    /\ {radio, stated, peer} \subseteq Profiles \cup {Original, Torn, Nothing}
    /\ \A c \in Callers : jobs[c].pc = "ended" <=> jobs[c].result \in {"ok", "failed"}
    /\ alone \in BOOLEAN
    /\ faults \in 0..MaxFaults /\ full \in 0..MaxFull

(* Commands that take turns, on a flash that has room for what they write. *)
Undisturbed == alone /\ full = 0

(* wifi.env is a whole file, and a profile that has passed the checks.     *)
InstalledValid == Undisturbed => content[env] \in ValidProfiles \cup {Original}

(* What staged files have brought, which no check stops (set-wifi:631).    *)
Unchecked == {jobs[c].profile : c \in {d \in Callers : jobs[d].kind = "staged"}}

(* wifi.env is a whole file, and what it holds has passed the checks of    *)
(* validate_configuration unless a staged file has brought it: also after  *)
(* radios that did not start, a peer that refused and what was put back.   *)
InstalledChecked ==
    Undisturbed => content[env] \in ValidProfiles \cup {Original} \cup Unchecked

(* What a command reports is what it leaves behind: on success its profile *)
(* in wifi.env, in the radios and, for a pair, in the peer; on failure of  *)
(* a form that restores, the wifi.env it found.                            *)
ReportTells == [][
    \A c \in Callers : Undisturbed /\ ~At(c, "ended") /\ jobs'[c].pc = "ended" =>
        LET j == jobs'[c] IN
        IF j.result = "ok"
        THEN /\ content'[env'] = j.profile /\ radio' = j.profile
             /\ j.kind = "pair" => peer' = j.profile
        ELSE j.kind # "owner" => content'[env'] = j.before]_vars

(* The configuration hash that other access points compare is the hash of  *)
(* the profile that the radios really run.                                 *)
HashTells == alone /\ stated # Nothing => stated = radio

(* When every command reports success wifi.env holds the whole profile of  *)
(* one of them, also when they ran at the same time: of two that shared    *)
(* wifi.env.new one is told that it failed.                                *)
SuccessInstalls ==
    (\A c \in Callers : At(c, "ended") /\ jobs[c].result = "ok") /\ full = 0 =>
        \E c \in Callers : content[env] = jobs[c].profile
=============================================================================
