--------------------------- MODULE SetWifi_proofs ---------------------------
(***************************************************************************)
(* For any number of commands, profiles and failures: commands that take   *)
(* turns leave what they report, a configuration hash is the one of the    *)
(* profile that the radios run, and when all commands report success the   *)
(* profile of one of them is installed whole, even if they overlapped.     *)
(* What commands in turn install has passed the checks or was staged.      *)
(*                                                                         *)
(* The success of all rests on a count that needs no numbers.  Each        *)
(* command creates wifi.env.new or finds it, and each renames it once.     *)
(* When one finds it, more commands wait to rename than there are files    *)
(* (Crowded), and that remains so until one of them fails.  If none did,   *)
(* each has created its own file, which nobody else wrote (Orderly).       *)
(***************************************************************************)
EXTENDS SetWifi, TLAPS

Values == Profiles \cup {Original, Torn, Nothing}
Early == {"idle", "check", "peer", "backup", "open"}
Writing == {"fill", "move"}
Applying == {"restart", "start"}
Restoring == {"rollback", "restart_again", "start_again"}
PCs == Early \cup Writing \cup Applying \cup Restoring \cup {"ended"}

Job == [pc : PCs, kind : {"json", "pair", "staged", "owner"}, profile : Profiles \cup {Nothing},
        fd : Inodes \cup {Nothing}, loaded : Values, before : Values,
        result : {"none", "ok", "failed"}]

Types ==
    /\ TypeOK
    /\ jobs \in [Callers -> Job]
    /\ \A c \in Callers : At(c, "check") => jobs[c].kind # "staged"

(* No command is started while another runs, and what a command has loaded *)
(* is what wifi.env holds until it has started the radios with it.         *)
Turns ==
    alone => /\ \A c, d \in Callers : Running(c) /\ Running(d) => c = d
             /\ \A c \in Callers : jobs[c].pc \in {"start", "start_again"} =>
                    jobs[c].loaded = content[env]
             /\ HashTells

(* A command writes a file of its own, of which nobody else knows.         *)
Orderly ==
    /\ new \in {Nothing} \cup {NewOf(c) : c \in Callers}
    /\ \A c \in Callers :
        /\ jobs[c].pc \in Writing <=> new = NewOf(c)
        /\ jobs[c].fd \in {Nothing, NewOf(c)}
        /\ At(c, "fill") => jobs[c].fd = NewOf(c)
        /\ jobs[c].pc \in Applying \cup {"move", "rollback"} \/ jobs[c].result = "ok" =>
               content[NewOf(c)] = jobs[c].profile
        /\ env = NewOf(c) => jobs[c].pc \notin Early \cup Writing
        /\ env = RollbackOf(c) => jobs[c].pc \notin Early \cup Writing \cup Applying

(* More commands have a file to rename than there are files.               *)
Crowded ==
    \/ new = Nothing /\ \E c \in Callers : jobs[c].pc \in Writing
    \/ \E c, d \in Callers : c # d /\ jobs[c].pc \in Writing /\ jobs[d].pc \in Writing

NoneFailed == \A c \in Callers : jobs[c].pc \notin Restoring /\ jobs[c].result # "failed"
Done(c) == jobs[c].pc \in Applying \cup {"ended"}

Successes ==
    NoneFailed /\ full = 0 =>
        \/ Crowded
        \/ /\ Orderly
           /\ (\E c \in Callers : Done(c)) => \E c \in Callers : Done(c) /\ env = NewOf(c)

(* Where a command that runs alone has come to.                            *)
Progress(c) ==
    /\ jobs[c].pc \in (Early \ {"idle"}) \cup Writing \cup {"restart_again", "start_again"} =>
           content[env] = jobs[c].before
    /\ jobs[c].pc \in Applying \cup {"rollback"} => content[env] = jobs[c].profile
    /\ jobs[c].pc \in {"open"} \cup Writing \cup Applying \cup {"rollback"} /\ Restores(c) =>
           content[RollbackOf(c)] = jobs[c].before
    /\ jobs[c].pc \in {"backup", "open"} \cup Writing \cup Applying /\ jobs[c].kind = "pair" =>
           peer = jobs[c].profile
    /\ Running(c) /\ ~Restores(c) => jobs[c].pc \notin Restoring
InTurn == Undisturbed => Orderly /\ \A c \in Callers : Progress(c)

(* What a command installs or puts back has passed the checks, or came to  *)
(* this command or an earlier one as a staged file.                        *)
Sound == ValidProfiles \cup {Original} \cup Unchecked
Passed(c) == jobs[c].profile \in ValidProfiles \/ jobs[c].kind = "staged"
Valid ==
    Undisturbed =>
        /\ content[env] \in Sound
        /\ \A c \in Callers :
            /\ Running(c) => jobs[c].before \in Sound
            /\ Running(c) /\ ~At(c, "check") => Passed(c)

(* A command that has not been started has brought nothing.                *)
Fresh == \A c \in Callers : At(c, "idle") => jobs[c].kind # "staged"

IInv == Types /\ Turns /\ Successes /\ InTurn /\ Valid /\ Fresh

-----------------------------------------------------------------------------
(* The names of the files a command creates are different.                 *)
LEMMA InodeFacts ==
    ASSUME NEW c \in Callers
    PROVE  /\ NewOf(c) \in Inodes /\ RollbackOf(c) \in Inodes /\ Shipped \in Inodes
           /\ Nothing \notin Inodes
           /\ NewOf(c) # Nothing /\ NewOf(c) # Shipped /\ RollbackOf(c) # Shipped
BY InodeAssumption DEF Inodes, NewOf, RollbackOf

LEMMA InodesDiffer ==
    ASSUME NEW c \in Callers, NEW d \in Callers
    PROVE  /\ NewOf(c) # RollbackOf(d)
           /\ c # d => NewOf(c) # NewOf(d) /\ RollbackOf(c) # RollbackOf(d)
BY DEF NewOf, RollbackOf

(* A step of one command leaves the others where they are.                 *)
Alike(j, k) ==
    /\ j.pc = k.pc /\ j.kind = k.kind /\ j.profile = k.profile
    /\ j.loaded = k.loaded /\ j.before = k.before /\ j.result = k.result
Kept(c) == \A d \in Callers \ {c} : jobs'[d] = jobs[d]

(* What GoTo and End change.                                               *)
LEMMA GoToIs ==
    ASSUME Types, NEW c \in Callers, NEW s \in PCs, GoTo(c, s)
    PROVE  /\ jobs' \in [Callers -> Job] /\ Kept(c)
           /\ jobs'[c].pc = s /\ jobs'[c].kind = jobs[c].kind
           /\ jobs'[c].profile = jobs[c].profile /\ jobs'[c].fd = jobs[c].fd
           /\ jobs'[c].loaded = jobs[c].loaded /\ jobs'[c].before = jobs[c].before
           /\ jobs'[c].result = jobs[c].result
<1>1. jobs[c] \in Job /\ jobs' = [jobs EXCEPT ![c] = [jobs[c] EXCEPT !.pc = s]]
    BY DEF Types, GoTo
<1>2. jobs'[c] = [jobs[c] EXCEPT !.pc = s] /\ Kept(c)
    BY <1>1 DEF Types, Kept
<1>3. [jobs[c] EXCEPT !.pc = s] \in Job
    BY <1>1 DEF Job
<1>4. jobs' \in [Callers -> Job]
    BY <1>1, <1>3 DEF Types
<1> QED BY <1>1, <1>2, <1>4 DEF Job

LEMMA EndIs ==
    ASSUME Types, NEW c \in Callers, NEW r \in {"ok", "failed"}, End(c, r)
    PROVE  /\ jobs' \in [Callers -> Job] /\ Kept(c)
           /\ jobs'[c].pc = "ended" /\ jobs'[c].kind = jobs[c].kind
           /\ jobs'[c].profile = jobs[c].profile /\ jobs'[c].fd = jobs[c].fd
           /\ jobs'[c].loaded = jobs[c].loaded /\ jobs'[c].before = jobs[c].before
           /\ jobs'[c].result = r
<1> DEFINE j == [jobs[c] EXCEPT !.pc = "ended", !.result = r]
<1>1. jobs[c] \in Job /\ jobs' = [jobs EXCEPT ![c] = j]
    BY DEF Types, End
<1>2. jobs'[c] = j /\ Kept(c)
    BY <1>1 DEF Types, Kept
<1>3. j \in Job
    BY <1>1 DEF Job, PCs
<1>4. jobs' \in [Callers -> Job]
    BY <1>1, <1>3 DEF Types
<1> QED BY <1>1, <1>2, <1>4 DEF Job

LEMMA FullIs == Types => full \in Nat
BY FaultAssumption DEF Types, TypeOK

(* What staged files have brought depends on who was started with what.    *)
LEMMA UncheckedKept ==
    ASSUME \A d \in Callers : jobs'[d].kind = jobs[d].kind /\ jobs'[d].profile = jobs[d].profile
    PROVE  /\ Sound' = Sound
           /\ \A d \in Callers : Passed(d)' <=> Passed(d)
<1>1. Unchecked' = Unchecked
    BY DEF Unchecked
<1> QED BY <1>1 DEF Sound, Passed

(* While a command runs in its turn nothing has to be said of the others.  *)
LEMMA StepSuffices ==
    ASSUME IInv, NEW c \in Callers, Running(c), Types', Successes', UNCHANGED alone,
           full' \in {full, full + 1},
           \A d \in Callers \ {c} : Alike(jobs'[d], jobs[d]), jobs'[c].pc # "idle",
           jobs'[c].kind = jobs[c].kind, jobs'[c].profile = jobs[c].profile,
           jobs'[c].before = jobs[c].before,
           alone => /\ HashTells'
                    /\ jobs'[c].pc \in {"start", "start_again"} => jobs'[c].loaded = content'[env'],
           Undisturbed /\ full' = 0 => Orderly' /\ Progress(c)',
           Undisturbed /\ full' = 0 =>
               /\ content'[env'] \in Sound
               /\ Running(c)' /\ ~At(c, "check")' => Passed(c)
    PROVE  IInv'
<1>1. alone => \A d \in Callers \ {c} : ~Running(d) /\ ~Running(d)'
    BY DEF IInv, Turns, Running, Alike
<1>2. Turns'
    BY <1>1 DEF Turns, Running
<1>3. Undisturbed' => Undisturbed /\ full' = 0
    <2>1. full' = 0 => full = 0
        BY FullIs DEF IInv
    <2> QED BY <2>1 DEF Undisturbed
<1>4. ASSUME Undisturbed, NEW d \in Callers \ {c}
      PROVE  Progress(d)'
    <2>1. jobs'[d].pc \in {"idle", "ended"}
        BY <1>1, <1>4 DEF Undisturbed, Running
    <2> QED BY <2>1 DEF Progress, Early, Writing, Applying, Restoring, Running
<1>5. InTurn'
    BY <1>3, <1>4 DEF InTurn
<1>6. Valid'
    <2> SUFFICES ASSUME Undisturbed'
                 PROVE  /\ content'[env'] \in Sound'
                        /\ \A d \in Callers :
                             /\ Running(d)' => jobs'[d].before \in Sound'
                             /\ Running(d)' /\ ~At(d, "check")' => Passed(d)'
        BY DEF Valid
    <2>1. jobs[c].before \in Sound
        BY <1>3 DEF IInv, Valid
    <2>2. Sound' = Sound /\ (Passed(c)' <=> Passed(c))
        BY UncheckedKept DEF Alike
    <2> QED BY <1>1, <1>3, <2>1, <2>2 DEF Undisturbed
<1>7. Fresh'
    BY DEF IInv, Fresh, Alike, At
<1> QED BY <1>2, <1>5, <1>6, <1>7 DEF IInv

(* A step that leaves the new files alone, and with them who writes one.   *)
Quiet(c) ==
    /\ UNCHANGED <<env, new>> /\ Kept(c)
    /\ \A d \in Callers : content'[NewOf(d)] = content[NewOf(d)]
    /\ At(c, "idle") \/ jobs'[c].profile = jobs[c].profile
    /\ jobs'[c].fd \in {Nothing, jobs[c].fd}
    /\ jobs'[c].result = "ok" => jobs[c].pc = "start"
    /\ \/ jobs[c].pc \in Early /\ jobs'[c].pc \in Early
       \/ jobs[c].pc \in Early /\ jobs'[c].pc = "ended" /\ jobs'[c].result = "failed"
       \/ jobs[c].pc \in Applying /\ jobs'[c].pc \in Applying \cup {"rollback", "ended"}
       \/ jobs[c].pc \in Restoring /\ jobs'[c].pc \in {"start_again", "ended"}
            /\ (jobs'[c].pc = "ended" => jobs'[c].result = "failed")

LEMMA QuietOrderly ==
    ASSUME Types, NEW c \in Callers, Quiet(c), Orderly
    PROVE  Orderly'
<1>1. UNCHANGED <<env, new>> /\ \A d \in Callers : content'[NewOf(d)] = content[NewOf(d)]
    BY DEF Quiet
<1>2. \A d \in Callers \ {c} : jobs'[d] = jobs[d]
    BY DEF Quiet, Kept
<1>3. /\ jobs[c].pc \notin Writing /\ jobs'[c].pc \notin Writing
      /\ jobs'[c].fd \in {Nothing, jobs[c].fd}
    BY DEF Quiet, Early, Writing, Applying, Restoring
<1>4. jobs'[c].pc \in Applying \cup {"move", "rollback"} \/ jobs'[c].result = "ok" =>
          content[NewOf(c)] = jobs'[c].profile
    BY DEF Orderly, Quiet, At, Early, Writing, Applying, Restoring
<1>5. /\ jobs'[c].pc \in Early \cup Writing => jobs[c].pc \in Early
      /\ jobs'[c].pc \in Early \cup Writing \cup Applying => jobs[c].pc \in Early \cup Applying
    BY DEF Quiet, Early, Writing, Applying, Restoring
<1>6. ASSUME NEW d \in Callers
      PROVE  /\ jobs'[d].pc \in Writing <=> new = NewOf(d)
             /\ jobs'[d].fd \in {Nothing, NewOf(d)}
             /\ jobs'[d].pc = "fill" => jobs'[d].fd = NewOf(d)
             /\ jobs'[d].pc \in Applying \cup {"move", "rollback"} \/ jobs'[d].result = "ok" =>
                    content[NewOf(d)] = jobs'[d].profile
             /\ env = NewOf(d) => jobs'[d].pc \notin Early \cup Writing
             /\ env = RollbackOf(d) => jobs'[d].pc \notin Early \cup Writing \cup Applying
    <2>1. CASE d = c
        <3>1. jobs'[c].pc # "fill"
            BY <1>3 DEF Writing
        <3> QED BY <2>1, <1>3, <1>4, <1>5, <3>1 DEF Orderly
    <2>2. CASE d # c
        <3>1. jobs'[d] = jobs[d]
            BY <2>2, <1>2
        <3> QED BY <3>1 DEF Orderly, At
    <2> QED BY <2>1, <2>2
<1> QED BY <1>1, <1>6 DEF Orderly, At

LEMMA QuietSuccesses ==
    ASSUME IInv, NEW c \in Callers, Quiet(c), full' \in {full, full + 1}
    PROVE  Successes'
<1> SUFFICES ASSUME NoneFailed', full' = 0
             PROVE  \/ Crowded'
                    \/ /\ Orderly'
                       /\ (\E d \in Callers : Done(d)') => \E d \in Callers : Done(d)' /\ env' = NewOf(d)
    BY DEF Successes
<1>1. full = 0
    BY FullIs DEF IInv
<1>2. \A d \in Callers \ {c} : jobs'[d] = jobs[d]
    BY DEF Quiet, Kept
<1>3. jobs'[c].pc \notin Restoring /\ jobs'[c].result # "failed"
    BY DEF NoneFailed
<1>4. \/ jobs[c].pc \in Early /\ jobs'[c].pc \in Early
      \/ jobs[c].pc \in Applying /\ jobs'[c].pc \in Applying \cup {"ended"}
    BY <1>3 DEF Quiet, Early, Writing, Applying, Restoring
<1>5. NoneFailed
    <2>1. ASSUME NEW d \in Callers
          PROVE  jobs[d].pc \notin Restoring /\ jobs[d].result # "failed"
        <3>1. CASE d = c
            BY <3>1, <1>4 DEF Early, Applying, Restoring, IInv, Types, TypeOK
        <3>2. CASE d # c
            BY <3>2, <1>2 DEF NoneFailed
        <3> QED BY <3>1, <3>2
    <2> QED BY <2>1 DEF NoneFailed
<1>6. \A d \in Callers : /\ Done(d)' <=> Done(d)
                         /\ jobs'[d].pc \in Writing <=> jobs[d].pc \in Writing
    BY <1>2, <1>4 DEF Done, Early, Applying, Writing
<1>7. CASE Crowded
    BY <1>6, <1>7 DEF Crowded, Quiet
<1>8. CASE Orderly /\ ((\E d \in Callers : Done(d)) => \E d \in Callers : Done(d) /\ env = NewOf(d))
    <2>1. Orderly'
        BY <1>8, QuietOrderly DEF IInv
    <2> QED BY <1>6, <1>8, <2>1 DEF Quiet
<1> QED BY <1>1, <1>5, <1>7, <1>8 DEF IInv, Successes

(* A command is started.                                                   *)
LEMMA CallStep ==
    ASSUME IInv, NEW c \in Callers, Call(c)
    PROVE  IInv'
<1>1. PICK kind \in Kinds, profile \in Profiles :
          /\ kind = "staged" => profile \in StagedProfiles
          /\ jobs' = [jobs EXCEPT ![c] =
                 [NoJob EXCEPT !.kind = kind, !.profile = profile, !.before = content[env],
                               !.pc = IF kind = "staged" THEN "backup" ELSE "check"]]
    BY DEF Call
<1> DEFINE j == [NoJob EXCEPT !.kind = kind, !.profile = profile, !.before = content[env],
                              !.pc = IF kind = "staged" THEN "backup" ELSE "check"]
<1>2. /\ j.pc = IF kind = "staged" THEN "backup" ELSE "check"
      /\ j.kind = kind /\ j.profile = profile /\ j.fd = Nothing /\ j.loaded = Nothing
      /\ j.before = content[env] /\ j.result = "none"
    BY DEF NoJob
<1>3. j \in Job
    <2>1. content[env] \in Values /\ Nothing \in Values
        BY DEF IInv, Types, TypeOK, Values
    <2>2. kind \in {"json", "pair", "staged", "owner"}
        BY KindAssumption
    <2> QED BY <2>1, <2>2 DEF Job, NoJob, PCs, Early
<1> HIDE DEF j
<1>4. jobs' = [jobs EXCEPT ![c] = j]
    BY <1>1 DEF j
<1>5. jobs' \in [Callers -> Job] /\ jobs'[c] = j /\ Kept(c)
    BY <1>3, <1>4 DEF IInv, Types, Kept
<1>6. UNCHANGED <<content, env, new, radio, stated, peer, faults, full>>
    BY DEF Call, Files, Radios
<1>7. Types'
    <2>1. alone' \in BOOLEAN
        BY DEF Call
    <2>2. ASSUME NEW d \in Callers
          PROVE  jobs'[d].pc = "ended" <=> jobs'[d].result \in {"ok", "failed"}
        <3>1. CASE d = c
            BY <3>1, <1>2, <1>5
        <3>2. CASE d # c
            BY <3>2, <1>5 DEF Kept, IInv, Types, TypeOK
        <3> QED BY <3>1, <3>2
    <2>3. ASSUME NEW d \in Callers, jobs'[d].pc = "check"
          PROVE  jobs'[d].kind # "staged"
        <3>1. CASE d = c
            BY <2>3, <3>1, <1>2, <1>5
        <3>2. CASE d # c
            BY <2>3, <3>2, <1>5 DEF Kept, IInv, Types, At
        <3> QED BY <3>1, <3>2
    <2> QED BY <2>1, <2>2, <2>3, <1>5, <1>6 DEF IInv, Types, TypeOK, At
<1>8. Quiet(c)
    BY <1>2, <1>5, <1>6 DEF Call, Quiet, At, Early
<1>9. Successes'
    BY <1>6, <1>8, QuietSuccesses
<1>10. alone' => alone /\ \A d \in Callers : ~Running(d)
    BY DEF Call
<1>11. \A d \in Callers \ {c} : jobs'[d] = jobs[d]
    BY <1>5 DEF Kept
<1>12. j.pc \in {"backup", "check"}
    BY <1>2
<1>13. Turns'
    <2> SUFFICES ASSUME alone' PROVE Turns'
        BY DEF Turns
    <2>1. \A d \in Callers \ {c} : jobs'[d].pc \in {"idle", "ended"}
        BY <1>10, <1>11 DEF Running
    <2>2. HashTells'
        BY <1>6, <1>10 DEF IInv, Turns, HashTells
    <2> QED BY <2>1, <2>2, <1>5, <1>12 DEF Turns, Running
<1>14. InTurn'
    <2> SUFFICES ASSUME Undisturbed' PROVE InTurn'
        BY DEF InTurn
    <2>1. Orderly'
        BY <1>6, <1>8, <1>10, QuietOrderly DEF IInv, InTurn, Undisturbed
    <2>2. ASSUME NEW d \in Callers \ {c}
          PROVE  Progress(d)'
        <3>1. jobs'[d].pc \in {"idle", "ended"}
            BY <1>10, <1>11 DEF Running, Undisturbed
        <3> QED BY <3>1 DEF Progress, Early, Writing, Applying, Restoring, Running
    <2>3. Progress(c)'
        BY <1>2, <1>5, <1>6 DEF Progress, Restores, Early, Writing, Applying, Restoring
    <2> QED BY <2>1, <2>2, <2>3 DEF InTurn
<1>15. Valid'
    <2> SUFFICES ASSUME Undisturbed'
                 PROVE  /\ content'[env'] \in Sound'
                        /\ \A d \in Callers :
                             /\ Running(d)' => jobs'[d].before \in Sound'
                             /\ Running(d)' /\ ~At(d, "check")' => Passed(d)'
        BY DEF Valid
    <2>1. content[env] \in Sound
        BY <1>6, <1>10 DEF Undisturbed, IInv, Valid
    <2>2. \A d \in Callers \ {c} : ~Running(d)'
        BY <1>10, <1>11 DEF Undisturbed, Running
    <2>3. Sound \subseteq Sound'
        <3>1. jobs[c].kind # "staged"
            BY DEF Call, IInv, Fresh
        <3> QED BY <1>11, <3>1 DEF Sound, Unchecked
    <2>4. Running(c)' /\ ~At(c, "check")' => Passed(c)'
        BY <1>2, <1>5 DEF At, Passed
    <2> QED BY <1>2, <1>5, <1>6, <2>1, <2>2, <2>3, <2>4
<1>16. Fresh'
    BY <1>5, <1>11, <1>12 DEF IInv, Fresh, At
<1> QED BY <1>7, <1>9, <1>13, <1>14, <1>15, <1>16 DEF IInv

(* The types of the commands, of which one has moved.                      *)
LEMMA JobsTyped ==
    ASSUME Types, NEW c \in Callers, Kept(c),
           jobs'[c].pc = "ended" <=> jobs'[c].result \in {"ok", "failed"},
           jobs'[c].pc # "check"
    PROVE  \A d \in Callers : /\ jobs'[d].pc = "ended" <=> jobs'[d].result \in {"ok", "failed"}
                              /\ jobs'[d].pc = "check" => jobs'[d].kind # "staged"
BY DEF Types, TypeOK, Kept, At

LEMMA ResultIs ==
    ASSUME Types, NEW c \in Callers
    PROVE  jobs[c] \in Job /\ (jobs[c].pc # "ended" => jobs[c].result = "none")
BY DEF Types, TypeOK, Job

LEMMA CheckStep ==
    ASSUME IInv, NEW c \in Callers, Check(c), UNCHANGED alone
    PROVE  IInv'
<1>1. Types /\ jobs[c].pc = "check" /\ jobs[c].kind \in {"json", "pair", "owner"} /\ jobs[c].result = "none"
    BY ResultIs DEF IInv, Types, Check, At, Job
<1>2. UNCHANGED <<content, env, new, radio, stated, peer, faults, full>>
    BY DEF Check, Files, Radios
<1>3. /\ jobs' \in [Callers -> Job] /\ Kept(c)
      /\ jobs'[c].kind = jobs[c].kind /\ jobs'[c].profile = jobs[c].profile
      /\ jobs'[c].fd = jobs[c].fd /\ jobs'[c].before = jobs[c].before
      /\ \/ /\ jobs[c].profile \in ValidProfiles /\ jobs'[c].result = "none"
            /\ \/ jobs[c].kind = "json" /\ jobs'[c].pc = "backup"
               \/ jobs[c].kind = "pair" /\ jobs'[c].pc = "peer"
               \/ jobs[c].kind = "owner" /\ jobs'[c].pc = "open"
         \/ jobs'[c].pc = "ended" /\ jobs'[c].result = "failed"
    <2>1. CASE jobs[c].profile \in ValidProfiles
        <3>1. PICK s \in {"backup", "peer", "open"} :
                 /\ GoTo(c, s)
                 /\ \/ jobs[c].kind = "json" /\ s = "backup"
                    \/ jobs[c].kind = "pair" /\ s = "peer"
                    \/ jobs[c].kind = "owner" /\ s = "open"
            BY <1>1, <2>1 DEF Check, Checked
        <3>2. s \in PCs
            BY DEF PCs, Early
        <3> QED BY <1>1, <2>1, <3>1, <3>2, GoToIs
    <2>2. CASE jobs[c].profile \notin ValidProfiles
        BY <1>1, <2>2, EndIs DEF Check
    <2> QED BY <2>1, <2>2
<1>4. Types'
    <2>1. jobs'[c].pc = "ended" <=> jobs'[c].result \in {"ok", "failed"}
        BY <1>3
    <2> QED BY <1>1, <1>2, <1>3, <2>1, JobsTyped DEF Types, TypeOK, At
<1>5. Quiet(c)
    BY <1>1, <1>2, <1>3 DEF Quiet, Early
<1>6. Successes'
    BY <1>2, <1>5, QuietSuccesses
<1>7. alone => HashTells'
    BY <1>2 DEF IInv, Turns, HashTells
<1>8. ASSUME Undisturbed
      PROVE  Orderly' /\ Progress(c)'
    <2>1. Orderly /\ Progress(c)
        BY <1>8 DEF IInv, InTurn
    <2>2. content[env] = jobs[c].before
        BY <1>1, <2>1 DEF Progress, Early
    <2>3. Progress(c)'
        BY <1>1, <1>2, <1>3, <2>2 DEF Progress, Restores, Early, Writing, Applying, Restoring, Running
    <2> QED BY <1>1, <1>5, <2>1, <2>3, QuietOrderly
<1>9. ASSUME Undisturbed
      PROVE  /\ content'[env'] \in Sound
             /\ Running(c)' => Passed(c)
    BY <1>2, <1>3, <1>9 DEF IInv, Valid, Running, Passed
<1>10. Running(c)
    BY <1>1 DEF Running
<1>11. /\ jobs'[c].pc \notin {"idle", "start", "start_again"}
       /\ \A d \in Callers \ {c} : Alike(jobs'[d], jobs[d])
    BY <1>3 DEF Kept, Alike
<1> QED BY <1>2, <1>3, <1>4, <1>6, <1>7, <1>8, <1>9, <1>10, <1>11, StepSuffices

LEMMA PeerStep ==
    ASSUME IInv, NEW c \in Callers, PeerFirst(c), UNCHANGED alone
    PROVE  IInv'
<1>1. Types /\ jobs[c] \in Job /\ jobs[c].pc = "peer" /\ jobs[c].result = "none"
    BY ResultIs DEF IInv, PeerFirst, At
<1>2. UNCHANGED <<content, env, new, radio, stated, full>> /\ faults' \in 0..MaxFaults
    <2>1. faults \in 0..MaxFaults /\ MaxFaults \in Nat
        BY FaultAssumption DEF IInv, Types, TypeOK
    <2> QED BY <2>1 DEF PeerFirst, Files, Radios, Fault, NoFault
<1>3. /\ jobs' \in [Callers -> Job] /\ Kept(c)
      /\ jobs'[c].kind = jobs[c].kind /\ jobs'[c].profile = jobs[c].profile
      /\ jobs'[c].fd = jobs[c].fd /\ jobs'[c].before = jobs[c].before
      /\ \/ jobs'[c].pc = "backup" /\ jobs'[c].result = "none" /\ peer' = jobs[c].profile
         \/ jobs'[c].pc = "ended" /\ jobs'[c].result = "failed" /\ peer' \in {peer, jobs[c].profile}
    <2>1. CASE peer' = jobs[c].profile /\ GoTo(c, "backup")
        <3>1. "backup" \in PCs
            BY DEF PCs, Early
        <3> QED BY <1>1, <2>1, <3>1, GoToIs
    <2>2. CASE peer' \in {peer, jobs[c].profile} /\ End(c, "failed")
        BY <1>1, <2>2, EndIs
    <2> QED BY <2>1, <2>2 DEF PeerFirst
<1>4. Types'
    <2>1. jobs'[c].pc = "ended" <=> jobs'[c].result \in {"ok", "failed"}
        BY <1>3
    <2>2. peer' \in Profiles \cup {Original, Torn, Nothing}
        BY <1>1, <1>3 DEF Types, TypeOK, Job
    <2>3. \A d \in Callers : /\ jobs'[d].pc = "ended" <=> jobs'[d].result \in {"ok", "failed"}
                             /\ jobs'[d].pc = "check" => jobs'[d].kind # "staged"
        BY <1>1, <1>3, <2>1, JobsTyped
    <2> QED BY <1>1, <1>2, <1>3, <2>2, <2>3 DEF Types, TypeOK, At
<1>5. Quiet(c)
    BY <1>1, <1>2, <1>3 DEF Quiet, Early
<1>6. Successes'
    BY <1>2, <1>5, QuietSuccesses
<1>7. alone => HashTells'
    BY <1>2 DEF IInv, Turns, HashTells
<1>8. ASSUME Undisturbed
      PROVE  Orderly' /\ Progress(c)'
    <2>1. Orderly /\ Progress(c)
        BY <1>8 DEF IInv, InTurn
    <2>2. content[env] = jobs[c].before
        BY <1>1, <2>1 DEF Progress, Early
    <2>3. Progress(c)'
        BY <1>1, <1>2, <1>3, <2>2 DEF Progress, Restores, Early, Writing, Applying, Restoring, Running
    <2> QED BY <1>1, <1>5, <2>1, <2>3, QuietOrderly
<1>9. ASSUME Undisturbed
      PROVE  /\ content'[env'] \in Sound
             /\ Running(c)' => Passed(c)
    BY <1>1, <1>2, <1>3, <1>9 DEF IInv, Valid, Running, At
<1>10. Running(c)
    BY <1>1 DEF Running
<1>11. /\ jobs'[c].pc \notin {"idle", "start", "start_again"}
       /\ \A d \in Callers \ {c} : Alike(jobs'[d], jobs[d])
    BY <1>3 DEF Kept, Alike
<1> QED BY <1>2, <1>3, <1>4, <1>6, <1>7, <1>8, <1>9, <1>10, <1>11, StepSuffices

LEMMA BackupStep ==
    ASSUME IInv, NEW c \in Callers, Backup(c), UNCHANGED alone
    PROVE  IInv'
<1>1. Types /\ jobs[c] \in Job /\ jobs[c].pc = "backup" /\ jobs[c].result = "none"
    BY ResultIs DEF IInv, Backup, At
<1>2. UNCHANGED <<env, new, radio, stated, peer, full>> /\ faults' \in 0..MaxFaults
    <2>1. faults \in 0..MaxFaults /\ MaxFaults \in Nat
        BY FaultAssumption DEF IInv, Types, TypeOK
    <2> QED BY <2>1 DEF Backup, Radios, Fault, NoFault
<1>3. /\ jobs' \in [Callers -> Job] /\ Kept(c)
      /\ jobs'[c].kind = jobs[c].kind /\ jobs'[c].profile = jobs[c].profile
      /\ jobs'[c].fd = jobs[c].fd /\ jobs'[c].before = jobs[c].before
      /\ \/ /\ jobs'[c].pc = "open" /\ jobs'[c].result = "none"
            /\ content' = [content EXCEPT ![RollbackOf(c)] = content[env]]
         \/ jobs'[c].pc = "ended" /\ jobs'[c].result = "failed" /\ content' = content
    <2>1. CASE content' = [content EXCEPT ![RollbackOf(c)] = content[env]] /\ GoTo(c, "open")
        <3>1. "open" \in PCs
            BY DEF PCs, Early
        <3> QED BY <1>1, <2>1, <3>1, GoToIs
    <2>2. CASE UNCHANGED content /\ End(c, "failed")
        BY <1>1, <2>2, EndIs
    <2> QED BY <2>1, <2>2 DEF Backup
<1>4. /\ \A i \in Inodes : i # RollbackOf(c) => content'[i] = content[i]
      /\ jobs'[c].pc = "open" => content'[RollbackOf(c)] = content[env]
      /\ content' \in [Inodes -> Values] /\ env \in Inodes
    BY <1>1, <1>3, InodeFacts DEF Types, TypeOK, Values
<1>5. Types'
    <2>1. jobs'[c].pc = "ended" <=> jobs'[c].result \in {"ok", "failed"}
        BY <1>3
    <2>2. \A d \in Callers : /\ jobs'[d].pc = "ended" <=> jobs'[d].result \in {"ok", "failed"}
                             /\ jobs'[d].pc = "check" => jobs'[d].kind # "staged"
        BY <1>1, <1>3, <2>1, JobsTyped
    <2> QED BY <1>1, <1>2, <1>3, <1>4, <2>2 DEF Types, TypeOK, At, Values
<1>6. Quiet(c)
    <2>1. ASSUME NEW d \in Callers
          PROVE  content'[NewOf(d)] = content[NewOf(d)]
        <3>1. NewOf(d) \in Inodes /\ NewOf(d) # RollbackOf(c)
            BY InodeFacts, InodesDiffer
        <3> QED BY <1>4, <3>1
    <2> QED BY <1>1, <1>2, <1>3, <2>1 DEF Quiet, Early
<1>7. Successes'
    BY <1>2, <1>6, QuietSuccesses
<1>8. alone => HashTells'
    BY <1>2 DEF IInv, Turns, HashTells
<1>9. ASSUME Undisturbed
      PROVE  Orderly' /\ Progress(c)' /\ content'[env'] = content[env]
    <2>1. Orderly /\ Progress(c)
        BY <1>9 DEF IInv, InTurn
    <2>2. content[env] = jobs[c].before
        BY <1>1, <2>1 DEF Progress, Early
    <2>3. env # RollbackOf(c)
        BY <1>1, <2>1 DEF Orderly, Early
    <2>4. content'[env] = content[env]
        BY <1>4, <2>3
    <2>5. jobs[c].kind = "pair" => peer = jobs[c].profile
        BY <1>1, <2>1 DEF Progress
    <2>6. Progress(c)'
        BY <1>1, <1>2, <1>3, <1>4, <2>2, <2>4, <2>5
        DEF Progress, Restores, Early, Writing, Applying, Restoring, Running
    <2> QED BY <1>1, <1>2, <1>6, <2>1, <2>4, <2>6, QuietOrderly
<1>10. ASSUME Undisturbed
       PROVE  /\ content'[env'] \in Sound
              /\ Running(c)' => Passed(c)
    BY <1>1, <1>9, <1>10 DEF IInv, Valid, Running, At
<1>11. Running(c)
    BY <1>1 DEF Running
<1>12. /\ jobs'[c].pc \notin {"idle", "start", "start_again"}
       /\ \A d \in Callers \ {c} : Alike(jobs'[d], jobs[d])
    BY <1>3 DEF Kept, Alike
<1> QED BY <1>2, <1>3, <1>5, <1>7, <1>8, <1>9, <1>10, <1>11, <1>12, StepSuffices

(* wifi.env.new is opened; whoever had filled it has lost it.              *)
LEMMA OpenIs ==
    ASSUME Types, NEW c \in Callers, Open(c)
    PROVE  LET inode == IF new = Nothing THEN NewOf(c) ELSE new IN
           /\ inode \in Inodes /\ new' = inode
           /\ content' \in [Inodes -> Values] /\ \A i \in Inodes \ {inode} : content'[i] = content[i]
           /\ jobs' \in [Callers -> Job]
           /\ jobs'[c].pc = "fill" /\ jobs'[c].fd = inode
           /\ jobs'[c].kind = jobs[c].kind /\ jobs'[c].profile = jobs[c].profile
           /\ jobs'[c].before = jobs[c].before /\ jobs'[c].result = jobs[c].result
           /\ \A d \in Callers \ {c} : /\ Alike(jobs'[d], jobs[d])
                                      /\ jobs'[d].fd \in {Nothing, jobs[d].fd}
<1> DEFINE inode == IF new = Nothing THEN NewOf(c) ELSE new
           k(d) == IF d = c THEN [jobs[c] EXCEPT !.pc = "fill", !.fd = inode]
                   ELSE IF jobs[d].fd = inode /\ ~At(d, "fill")
                        THEN [jobs[d] EXCEPT !.fd = Nothing] ELSE jobs[d]
<1>1. inode \in Inodes
    BY InodeFacts DEF Types, TypeOK
<1>2. new' = inode /\ content' = [content EXCEPT ![inode] = Torn]
    BY DEF Open
<1>3. jobs' = [d \in Callers |-> k(d)]
    BY DEF Open
<1> HIDE DEF inode
<1>4. content' \in [Inodes -> Values] /\ \A i \in Inodes \ {inode} : content'[i] = content[i]
    BY <1>1, <1>2 DEF Types, TypeOK, Values
<1>5. ASSUME NEW d \in Callers
      PROVE  k(d) \in Job
    <2>1. jobs[d] \in Job /\ "fill" \in PCs
        BY DEF Types, PCs, Writing
    <2> QED BY <1>1, <2>1 DEF Job
<1>6. ASSUME NEW d \in Callers \ {c}
      PROVE  Alike(jobs'[d], jobs[d]) /\ jobs'[d].fd \in {Nothing, jobs[d].fd}
    <2>1. jobs[d] \in Job /\ jobs'[d] \in {[jobs[d] EXCEPT !.fd = Nothing], jobs[d]}
        BY <1>3 DEF Types
    <2> QED BY <2>1 DEF Alike, Job
<1>7. /\ jobs'[c].pc = "fill" /\ jobs'[c].fd = inode
      /\ jobs'[c].kind = jobs[c].kind /\ jobs'[c].profile = jobs[c].profile
      /\ jobs'[c].before = jobs[c].before /\ jobs'[c].result = jobs[c].result
    <2>1. jobs[c] \in Job /\ jobs'[c] = [jobs[c] EXCEPT !.pc = "fill", !.fd = inode]
        BY <1>3 DEF Types
    <2> QED BY <2>1 DEF Job
<1> QED BY <1>1, <1>2, <1>3, <1>4, <1>5, <1>6, <1>7 DEF inode

LEMMA OpenOrderly ==
    ASSUME Types, NEW c \in Callers, Open(c), Orderly, new = Nothing
    PROVE  /\ Orderly' /\ env # NewOf(c)
           /\ \A d \in Callers : jobs[d].pc \notin Writing
<1>1. /\ new' = NewOf(c) /\ UNCHANGED env
      /\ \A i \in Inodes \ {NewOf(c)} : content'[i] = content[i]
      /\ jobs'[c].pc = "fill" /\ jobs'[c].fd = NewOf(c) /\ jobs'[c].result = jobs[c].result
      /\ \A d \in Callers \ {c} : /\ Alike(jobs'[d], jobs[d])
                                 /\ jobs'[d].fd \in {Nothing, jobs[d].fd}
    BY OpenIs DEF Open
<1>2. jobs[c].pc = "open" /\ jobs[c].result = "none"
    BY ResultIs DEF Open, At
<1>3. ASSUME NEW d \in Callers
      PROVE  jobs[d].pc \notin Writing
    BY InodeFacts DEF Orderly
<1>4. env # NewOf(c) /\ env # RollbackOf(c)
    BY <1>2 DEF Orderly, Early
<1>5. ASSUME NEW d \in Callers
      PROVE  /\ jobs'[d].pc \in Writing <=> new' = NewOf(d)
             /\ jobs'[d].fd \in {Nothing, NewOf(d)}
             /\ jobs'[d].pc = "fill" => jobs'[d].fd = NewOf(d)
             /\ jobs'[d].pc \in Applying \cup {"move", "rollback"} \/ jobs'[d].result = "ok" =>
                    content'[NewOf(d)] = jobs'[d].profile
             /\ env' = NewOf(d) => jobs'[d].pc \notin Early \cup Writing
             /\ env' = RollbackOf(d) => jobs'[d].pc \notin Early \cup Writing \cup Applying
    <2>1. CASE d = c
        BY <2>1, <1>1, <1>2, <1>4 DEF Writing, Applying
    <2>2. CASE d # c
        <3>1. NewOf(d) # NewOf(c) /\ content'[NewOf(d)] = content[NewOf(d)]
            BY <2>2, <1>1, InodeFacts, InodesDiffer
        <3>2. jobs'[d].pc # "fill" /\ jobs[d].pc # "move"
            BY <2>2, <1>1, <1>3 DEF Alike, Writing
        <3> QED BY <2>2, <3>1, <3>2, <1>1, <1>3 DEF Orderly, Alike
    <2> QED BY <2>1, <2>2
<1>6. new' \in {Nothing} \cup {NewOf(d) : d \in Callers}
    BY <1>1
<1> QED BY <1>3, <1>4, <1>5, <1>6 DEF Orderly, At

LEMMA OpenStep ==
    ASSUME IInv, NEW c \in Callers, Open(c), UNCHANGED alone
    PROVE  IInv'
<1>1. Types /\ jobs[c].pc = "open" /\ jobs[c].result = "none"
    BY ResultIs DEF IInv, Open, At
<1>2. UNCHANGED <<env, radio, stated, peer, faults, full>>
    BY DEF Open, Radios
<1>3. PICK inode \in Inodes :
          /\ inode = IF new = Nothing THEN NewOf(c) ELSE new
          /\ new' = inode
          /\ content' \in [Inodes -> Values] /\ \A i \in Inodes \ {inode} : content'[i] = content[i]
          /\ jobs' \in [Callers -> Job]
          /\ jobs'[c].pc = "fill" /\ jobs'[c].fd = inode
          /\ jobs'[c].kind = jobs[c].kind /\ jobs'[c].profile = jobs[c].profile
          /\ jobs'[c].before = jobs[c].before /\ jobs'[c].result = jobs[c].result
          /\ \A d \in Callers \ {c} : /\ Alike(jobs'[d], jobs[d])
                                     /\ jobs'[d].fd \in {Nothing, jobs[d].fd}
    BY <1>1, OpenIs
<1>4. Types'
    <2>1. \A d \in Callers : /\ jobs'[d].pc = "ended" <=> jobs'[d].result \in {"ok", "failed"}
                             /\ jobs'[d].pc = "check" => jobs'[d].kind # "staged"
        BY <1>1, <1>3 DEF Types, TypeOK, Alike, At
    <2> QED BY <1>1, <1>2, <1>3, <2>1 DEF Types, TypeOK, Values, At
<1>5. ASSUME NoneFailed', full = 0
      PROVE  Crowded' \/ (Orderly' /\ ((\E d \in Callers : Done(d)') => \E d \in Callers : Done(d)' /\ env' = NewOf(d)))
    <2>1. NoneFailed
        BY <1>1, <1>3, <1>5 DEF NoneFailed, Alike, Restoring
    <2>2. \A d \in Callers : /\ Done(d)' <=> Done(d)
                             /\ d # c => (jobs'[d].pc \in Writing <=> jobs[d].pc \in Writing)
        BY <1>1, <1>3 DEF Done, Applying, Alike
    <2>3. jobs[c].pc \notin Writing /\ jobs'[c].pc \in Writing
        BY <1>1, <1>3 DEF Writing
    <2>4. ASSUME NEW d \in Callers, jobs[d].pc \in Writing
          PROVE  Crowded'
        BY <2>2, <2>3, <2>4 DEF Crowded
    <2>5. CASE Crowded
        BY <2>4, <2>5 DEF Crowded
    <2>6. CASE Orderly /\ ((\E d \in Callers : Done(d)) => \E d \in Callers : Done(d) /\ env = NewOf(d))
        <3>1. CASE new = Nothing
            BY <1>1, <1>2, <2>2, <2>6, <3>1, OpenOrderly
        <3>2. CASE new # Nothing
            BY <2>4, <2>6, <3>2 DEF Orderly
        <3> QED BY <3>1, <3>2
    <2> QED BY <1>5, <2>1, <2>5, <2>6 DEF IInv, Successes
<1>6. Successes'
    BY <1>2, <1>5 DEF Successes
<1>7. alone => HashTells'
    BY <1>2 DEF IInv, Turns, HashTells
<1>8. ASSUME Undisturbed
      PROVE  Orderly' /\ Progress(c)' /\ content'[env'] = content[env]
    <2>1. Orderly /\ Progress(c)
        BY <1>8 DEF IInv, InTurn
    <2>2. new = Nothing
        <3>1. ASSUME NEW d \in Callers, new = NewOf(d)
              PROVE  FALSE
            <4>1. Running(d) /\ Running(c) /\ d # c
                BY <1>1, <2>1, <3>1 DEF Orderly, Running, Writing
            <4> QED BY <1>8, <4>1 DEF IInv, Turns, Undisturbed
        <3> QED BY <2>1, <3>1 DEF Orderly
    <2>3. Orderly' /\ env # NewOf(c)
        BY <1>1, <2>1, <2>2, OpenOrderly
    <2>4. content'[env'] = content[env]
        BY <1>1, <1>2, <1>3, <2>2, <2>3 DEF Types, TypeOK
    <2>5. content'[RollbackOf(c)] = content[RollbackOf(c)]
        BY <1>3, <2>2, InodeFacts, InodesDiffer
    <2>6. Progress(c)'
        BY <1>1, <1>2, <1>3, <2>1, <2>4, <2>5 DEF Progress, Restores, Early, Writing, Applying, Restoring, Running
    <2> QED BY <2>3, <2>4, <2>6
<1>9. ASSUME Undisturbed
      PROVE  /\ content'[env'] \in Sound
             /\ Running(c)' => Passed(c)
    BY <1>1, <1>8, <1>9 DEF IInv, Valid, Running, At
<1>10. Running(c)
    BY <1>1 DEF Running
<1>11. /\ jobs'[c].pc \notin {"idle", "start", "start_again"}
       /\ \A d \in Callers \ {c} : Alike(jobs'[d], jobs[d])
    BY <1>3 DEF Alike
<1> QED BY <1>2, <1>3, <1>4, <1>6, <1>7, <1>8, <1>9, <1>10, <1>11, StepSuffices

(* A file that is filled in order has no second writer.                    *)
LEMMA FillStep ==
    ASSUME IInv, NEW c \in Callers, Fill(c), UNCHANGED alone
    PROVE  IInv'
<1>1. Types /\ jobs[c] \in Job /\ jobs[c].pc = "fill" /\ jobs[c].result = "none"
    BY ResultIs DEF IInv, Fill, At
<1>2. /\ UNCHANGED <<env, new, radio, stated, peer, faults>>
      /\ full' \in {full, full + 1} /\ full' \in 0..MaxFull
    <2>1. full \in 0..MaxFull /\ MaxFull \in Nat
        BY FaultAssumption DEF IInv, Types, TypeOK
    <2> QED BY <2>1 DEF Fill, Radios
<1>3. /\ jobs' \in [Callers -> Job] /\ Kept(c)
      /\ jobs'[c].kind = jobs[c].kind /\ jobs'[c].profile = jobs[c].profile
      /\ jobs'[c].fd = jobs[c].fd /\ jobs'[c].before = jobs[c].before
      /\ \/ jobs'[c].pc = "move" /\ jobs'[c].result = "none"
         \/ jobs'[c].pc = "ended" /\ jobs'[c].result = "failed"
      /\ full' = 0 => jobs'[c].pc = "move"
    <2>1. CASE GoTo(c, "move")
        <3>1. "move" \in PCs
            BY DEF PCs, Writing
        <3> QED BY <1>1, <2>1, <3>1, GoToIs
    <2>2. CASE End(c, "failed") /\ full' = full + 1
        <3>1. full' # 0
            BY <1>1, <2>2, FullIs
        <3> QED BY <1>1, <2>2, <3>1, EndIs
    <2> QED BY <2>1, <2>2 DEF Fill
<1>4. /\ content' \in [Inodes -> Values]
      /\ \A i \in Inodes : i # jobs[c].fd => content'[i] = content[i]
    <2>1. PICK v \in Values : content' = [content EXCEPT ![jobs[c].fd] = v]
        BY <1>1 DEF Fill, Values, Job
    <2> QED BY <1>1, <2>1 DEF Types, TypeOK, Values
<1>5. Types'
    <2>1. jobs'[c].pc = "ended" <=> jobs'[c].result \in {"ok", "failed"}
        BY <1>3
    <2>2. \A d \in Callers : /\ jobs'[d].pc = "ended" <=> jobs'[d].result \in {"ok", "failed"}
                             /\ jobs'[d].pc = "check" => jobs'[d].kind # "staged"
        BY <1>1, <1>3, <2>1, JobsTyped
    <2> QED BY <1>1, <1>2, <1>3, <1>4, <2>2 DEF Types, TypeOK, Values, At
<1>6. ASSUME Orderly, full' = 0
      PROVE  Orderly' /\ env # NewOf(c) /\ jobs[c].fd = NewOf(c)
    <2>1. jobs[c].fd = NewOf(c) /\ new = NewOf(c)
        BY <1>1, <1>6 DEF Orderly, At, Writing
    <2>2. ~SharedFile(c)
        <3>1. ASSUME NEW d \in Callers \ {c}
              PROVE  jobs[d].fd # NewOf(c)
            <4>1. jobs[d].fd \in {Nothing, NewOf(d)} /\ NewOf(d) # NewOf(c) /\ NewOf(c) # Nothing
                BY <1>6, InodeFacts, InodesDiffer DEF Orderly
            <4> QED BY <4>1
        <3> QED BY <2>1, <3>1 DEF SharedFile
    <2>3. content'[NewOf(c)] = jobs[c].profile
        <3>1. full' # full + 1
            BY <1>1, <1>6, FullIs
        <3>2. content' = [content EXCEPT ![jobs[c].fd] = jobs[c].profile]
            BY <2>2, <3>1 DEF Fill
        <3> QED BY <1>1, <2>1, <3>2, InodeFacts DEF Types, TypeOK
    <2>4. env # NewOf(c) /\ env # RollbackOf(c)
        BY <1>1, <1>6 DEF Orderly, Writing
    <2>5. ASSUME NEW d \in Callers
          PROVE  /\ jobs'[d].pc \in Writing <=> new = NewOf(d)
                 /\ jobs'[d].fd \in {Nothing, NewOf(d)}
                 /\ jobs'[d].pc = "fill" => jobs'[d].fd = NewOf(d)
                 /\ jobs'[d].pc \in Applying \cup {"move", "rollback"} \/ jobs'[d].result = "ok" =>
                        content'[NewOf(d)] = jobs'[d].profile
                 /\ env = NewOf(d) => jobs'[d].pc \notin Early \cup Writing
                 /\ env = RollbackOf(d) => jobs'[d].pc \notin Early \cup Writing \cup Applying
        <3>1. CASE d = c
            <4>1. jobs'[c].pc = "move"
                BY <1>3, <1>6
            <4> QED BY <3>1, <4>1, <1>3, <2>1, <2>3, <2>4 DEF Writing
        <3>2. CASE d # c
            <4>1. jobs'[d] = jobs[d] /\ content'[NewOf(d)] = content[NewOf(d)]
                BY <3>2, <1>3, <1>4, <2>1, InodeFacts, InodesDiffer DEF Kept
            <4> QED BY <4>1, <1>6 DEF Orderly, At
        <3> QED BY <3>1, <3>2
    <2> QED BY <1>2, <1>6, <2>1, <2>4, <2>5 DEF Orderly, At
<1>7. ASSUME NoneFailed', full' = 0
      PROVE  Crowded' \/ (Orderly' /\ ((\E d \in Callers : Done(d)') => \E d \in Callers : Done(d)' /\ env' = NewOf(d)))
    <2>1. NoneFailed /\ full = 0
        BY <1>1, <1>3, <1>7, FullIs, <1>2 DEF NoneFailed, Kept, Restoring
    <2>2. jobs'[c].pc = "move"
        BY <1>3, <1>7
    <2>3. \A d \in Callers : /\ Done(d)' <=> Done(d)
                             /\ jobs'[d].pc \in Writing <=> jobs[d].pc \in Writing
        BY <1>1, <1>3, <2>2 DEF Done, Applying, Writing, Kept
    <2>4. CASE Crowded
        BY <1>2, <2>3, <2>4 DEF Crowded
    <2>5. CASE Orderly /\ ((\E d \in Callers : Done(d)) => \E d \in Callers : Done(d) /\ env = NewOf(d))
        BY <1>2, <1>6, <1>7, <2>3, <2>5
    <2> QED BY <2>1, <2>4, <2>5 DEF IInv, Successes
<1>8. Successes'
    BY <1>7 DEF Successes
<1>9. alone => HashTells'
    BY <1>2 DEF IInv, Turns, HashTells
<1>10. ASSUME Undisturbed, full' = 0
       PROVE  Orderly' /\ Progress(c)' /\ content'[env'] = content[env]
    <2>1. Orderly /\ Progress(c)
        BY <1>10 DEF IInv, InTurn
    <2>2. Orderly' /\ env # NewOf(c) /\ jobs[c].fd = NewOf(c)
        BY <1>6, <1>10, <2>1
    <2>3. content'[env'] = content[env]
        BY <1>1, <1>2, <1>4, <2>2 DEF Types, TypeOK
    <2>4. content'[RollbackOf(c)] = content[RollbackOf(c)]
        BY <1>4, <2>2, InodeFacts, InodesDiffer
    <2>5. Progress(c)'
        BY <1>1, <1>2, <1>3, <1>10, <2>1, <2>3, <2>4 DEF Progress, Restores, Early, Writing, Applying, Restoring, Running
    <2> QED BY <2>2, <2>3, <2>5
<1>11. ASSUME Undisturbed, full' = 0
       PROVE  /\ content'[env'] \in Sound
              /\ Running(c)' => Passed(c)
    BY <1>1, <1>10, <1>11 DEF IInv, Valid, Running, At
<1>12. Running(c)
    BY <1>1 DEF Running
<1>13. /\ jobs'[c].pc \notin {"idle", "start", "start_again"}
       /\ \A d \in Callers \ {c} : Alike(jobs'[d], jobs[d])
    BY <1>3 DEF Kept, Alike
<1> QED BY <1>2, <1>3, <1>5, <1>8, <1>9, <1>10, <1>11, <1>12, <1>13, StepSuffices

(* The file that a command renames in order is its own and whole.          *)
LEMMA MoveStep ==
    ASSUME IInv, NEW c \in Callers, Move(c), UNCHANGED alone
    PROVE  IInv'
<1>1. Types /\ jobs[c] \in Job /\ jobs[c].pc = "move" /\ jobs[c].result = "none"
    BY ResultIs DEF IInv, Move, At
<1>2. UNCHANGED <<content, radio, stated, peer, faults, full>>
    BY DEF Move, Radios
<1>3. /\ jobs' \in [Callers -> Job] /\ Kept(c)
      /\ jobs'[c].kind = jobs[c].kind /\ jobs'[c].profile = jobs[c].profile
      /\ jobs'[c].fd = jobs[c].fd /\ jobs'[c].before = jobs[c].before
      /\ \/ /\ new = Nothing /\ UNCHANGED <<env, new>>
            /\ jobs'[c].pc = "ended" /\ jobs'[c].result = "failed"
         \/ /\ new # Nothing /\ env' = new /\ new' = Nothing
            /\ jobs'[c].pc = "restart" /\ jobs'[c].result = "none"
    <2>1. CASE new = Nothing
        BY <1>1, <2>1, EndIs DEF Move
    <2>2. CASE new # Nothing
        <3>1. "restart" \in PCs
            BY DEF PCs, Applying
        <3> QED BY <1>1, <2>2, <3>1, GoToIs DEF Move
    <2> QED BY <2>1, <2>2
<1>4. Types'
    <2>1. jobs'[c].pc = "ended" <=> jobs'[c].result \in {"ok", "failed"}
        BY <1>3
    <2>2. \A d \in Callers : /\ jobs'[d].pc = "ended" <=> jobs'[d].result \in {"ok", "failed"}
                             /\ jobs'[d].pc = "check" => jobs'[d].kind # "staged"
        BY <1>1, <1>3, <2>1, JobsTyped
    <2>3. env' \in Inodes /\ new' \in Inodes \cup {Nothing}
        BY <1>1, <1>3 DEF Types, TypeOK
    <2> QED BY <1>1, <1>2, <1>3, <2>2, <2>3 DEF Types, TypeOK, At
<1>5. ASSUME Orderly
      PROVE  /\ Orderly' /\ env' = NewOf(c) /\ content[NewOf(c)] = jobs[c].profile
             /\ new # Nothing
    <2>1. new = NewOf(c) /\ new # Nothing
        BY <1>1, <1>5, InodeFacts DEF Orderly, Writing
    <2>2. content[NewOf(c)] = jobs[c].profile
        BY <1>1, <1>5 DEF Orderly
    <2>3. env' = NewOf(c) /\ new' = Nothing /\ jobs'[c].pc = "restart" /\ jobs'[c].result = "none"
        BY <1>3, <2>1
    <2>4. ASSUME NEW d \in Callers
          PROVE  /\ jobs'[d].pc \in Writing <=> new' = NewOf(d)
                 /\ jobs'[d].fd \in {Nothing, NewOf(d)}
                 /\ jobs'[d].pc = "fill" => jobs'[d].fd = NewOf(d)
                 /\ jobs'[d].pc \in Applying \cup {"move", "rollback"} \/ jobs'[d].result = "ok" =>
                        content[NewOf(d)] = jobs'[d].profile
                 /\ env' = NewOf(d) => jobs'[d].pc \notin Early \cup Writing
                 /\ env' = RollbackOf(d) => jobs'[d].pc \notin Early \cup Writing \cup Applying
        <3>1. NewOf(d) # Nothing /\ env' # RollbackOf(d)
            BY <2>3, InodeFacts, InodesDiffer
        <3>2. CASE d = c
            BY <3>1, <3>2, <1>3, <1>5, <2>2, <2>3 DEF Orderly, Writing, Early
        <3>3. CASE d # c
            <4>1. jobs'[d] = jobs[d] /\ env' # NewOf(d) /\ new # NewOf(d)
                BY <3>3, <1>3, <2>1, <2>3, InodesDiffer DEF Kept
            <4> QED BY <3>1, <4>1, <1>5, <2>3 DEF Orderly, At
        <3> QED BY <3>2, <3>3
    <2> QED BY <1>2, <2>1, <2>2, <2>3, <2>4 DEF Orderly, At
<1>6. ASSUME NoneFailed', full = 0
      PROVE  Crowded' \/ (Orderly' /\ ((\E d \in Callers : Done(d)') => \E d \in Callers : Done(d)' /\ env' = NewOf(d)))
    <2>1. NoneFailed
        BY <1>1, <1>3, <1>6 DEF NoneFailed, Kept, Restoring
    <2>2. new # Nothing /\ new' = Nothing /\ jobs'[c].pc = "restart"
        BY <1>3, <1>6 DEF NoneFailed
    <2>3. CASE Crowded
        <3>1. PICK d \in Callers \ {c} : jobs[d].pc \in Writing
            BY <2>2, <2>3 DEF Crowded
        <3>2. jobs'[d].pc \in Writing
            BY <1>3, <3>1 DEF Kept
        <3> QED BY <2>2, <3>2 DEF Crowded
    <2>4. CASE Orderly
        <3>1. Done(c)'
            BY <2>2 DEF Done, Applying
        <3> QED BY <1>5, <2>4, <3>1
    <2> QED BY <1>6, <2>1, <2>3, <2>4 DEF IInv, Successes
<1>7. Successes'
    BY <1>2, <1>6 DEF Successes
<1>8. alone => HashTells'
    BY <1>2 DEF IInv, Turns, HashTells
<1>9. ASSUME Undisturbed
      PROVE  Orderly' /\ Progress(c)' /\ content'[env'] = jobs[c].profile
    <2>1. Orderly /\ Progress(c)
        BY <1>9 DEF IInv, InTurn
    <2>2. Orderly' /\ content'[env'] = jobs[c].profile /\ jobs'[c].pc = "restart"
        BY <1>2, <1>3, <1>5, <2>1
    <2>3. Progress(c)'
        BY <1>1, <1>2, <1>3, <2>1, <2>2 DEF Progress, Restores, Early, Writing, Applying, Restoring, Running
    <2> QED BY <2>2, <2>3
<1>10. ASSUME Undisturbed
       PROVE  /\ content'[env'] \in Sound
              /\ Running(c)' => Passed(c)
    BY <1>1, <1>9, <1>10 DEF IInv, Valid, Running, At, Sound, Passed, Unchecked
<1>11. Running(c)
    BY <1>1 DEF Running
<1>12. /\ jobs'[c].pc \notin {"idle", "start", "start_again"}
       /\ \A d \in Callers \ {c} : Alike(jobs'[d], jobs[d])
    BY <1>3 DEF Kept, Alike
<1> QED BY <1>2, <1>3, <1>4, <1>7, <1>8, <1>9, <1>10, <1>11, <1>12, StepSuffices

LEMMA StopStep ==
    ASSUME IInv, NEW c \in Callers, StopRadios(c), UNCHANGED alone
    PROVE  IInv'
<1>1. Types /\ jobs[c] \in Job /\ jobs[c].pc \in {"restart", "restart_again"} /\ jobs[c].result = "none"
    BY ResultIs DEF IInv, StopRadios, At
<1>2. UNCHANGED <<content, env, new, peer, faults, full>> /\ radio' = Nothing /\ stated' = Nothing
    BY DEF StopRadios, Files
<1>3. /\ jobs' \in [Callers -> Job] /\ Kept(c)
      /\ jobs'[c].kind = jobs[c].kind /\ jobs'[c].profile = jobs[c].profile
      /\ jobs'[c].fd = jobs[c].fd /\ jobs'[c].before = jobs[c].before
      /\ jobs'[c].loaded = content[env] /\ jobs'[c].result = "none"
      /\ \/ jobs[c].pc = "restart" /\ jobs'[c].pc = "start"
         \/ jobs[c].pc = "restart_again" /\ jobs'[c].pc = "start_again"
    <2>1. PICK s \in {"start", "start_again"} :
             /\ \/ jobs[c].pc = "restart" /\ s = "start"
                \/ jobs[c].pc = "restart_again" /\ s = "start_again"
             /\ jobs' = [jobs EXCEPT ![c] = [jobs[c] EXCEPT !.pc = s, !.loaded = content[env]]]
        BY <1>1 DEF StopRadios, At, Types
    <2> DEFINE j == [jobs[c] EXCEPT !.pc = s, !.loaded = content[env]]
    <2>2. content[env] \in Values /\ s \in PCs
        BY <1>1 DEF Types, TypeOK, Values, PCs, Applying, Restoring
    <2>3. j \in Job
        BY <1>1, <2>2 DEF Job
    <2>4. /\ j.kind = jobs[c].kind /\ j.profile = jobs[c].profile
          /\ j.fd = jobs[c].fd /\ j.before = jobs[c].before
          /\ j.loaded = content[env] /\ j.result = "none" /\ j.pc = s
        BY <1>1 DEF Job
    <2> HIDE DEF j
    <2>5. jobs' \in [Callers -> Job] /\ Kept(c) /\ jobs'[c] = j
        BY <1>1, <2>1, <2>3 DEF Types, Kept, j
    <2> QED BY <2>1, <2>4, <2>5
<1>4. Types'
    <2>1. jobs'[c].pc = "ended" <=> jobs'[c].result \in {"ok", "failed"}
        BY <1>3
    <2>2. \A d \in Callers : /\ jobs'[d].pc = "ended" <=> jobs'[d].result \in {"ok", "failed"}
                             /\ jobs'[d].pc = "check" => jobs'[d].kind # "staged"
        BY <1>1, <1>3, <2>1, JobsTyped
    <2> QED BY <1>1, <1>2, <1>3, <2>2 DEF Types, TypeOK, At
<1>5. Quiet(c)
    BY <1>1, <1>2, <1>3 DEF Quiet, Applying, Restoring
<1>6. Successes'
    BY <1>2, <1>5, QuietSuccesses
<1>7. HashTells' /\ jobs'[c].loaded = content'[env']
    BY <1>2, <1>3 DEF HashTells
<1>8. ASSUME Undisturbed
      PROVE  Orderly' /\ Progress(c)'
    <2>1. Orderly /\ Progress(c)
        BY <1>8 DEF IInv, InTurn
    <2>2. Progress(c)'
        BY <1>1, <1>2, <1>3, <2>1 DEF Progress, Restores, Early, Writing, Applying, Restoring, Running
    <2> QED BY <1>1, <1>5, <2>1, <2>2, QuietOrderly
<1>9. ASSUME Undisturbed
      PROVE  /\ content'[env'] \in Sound
             /\ Running(c)' => Passed(c)
    BY <1>1, <1>2, <1>9 DEF IInv, Valid, Running, At
<1>10. Running(c)
    BY <1>1 DEF Running
<1>11. jobs'[c].pc # "idle" /\ \A d \in Callers \ {c} : Alike(jobs'[d], jobs[d])
    BY <1>3 DEF Kept, Alike
<1> QED BY <1>2, <1>3, <1>4, <1>6, <1>7, <1>8, <1>9, <1>10, <1>11, StepSuffices

(* What starting the radios may leave behind.                              *)
LEMMA StartIs ==
    ASSUME Types, NEW c \in Callers, (Started(c) /\ NoFault) \/ NotStarted(c)
    PROVE  /\ \/ radio' = jobs[c].loaded /\ stated' = content[env]
              \/ radio' = Nothing /\ stated' = Nothing
           /\ {radio', stated'} \subseteq Values
           /\ faults' \in 0..MaxFaults /\ UNCHANGED full
<1>1. faults \in 0..MaxFaults /\ MaxFaults \in Nat /\ content[env] \in Values /\ jobs[c] \in Job
    BY FaultAssumption DEF Types, TypeOK, Values
<1>2. jobs[c].loaded \in Values /\ Nothing \in Values
    BY <1>1 DEF Job, Values
<1>3. (NoFault \/ Fault) => faults' \in 0..MaxFaults /\ UNCHANGED full
    BY <1>1 DEF NoFault, Fault
<1> QED BY <1>1, <1>2, <1>3 DEF Started, NotStarted

LEMMA StartStep ==
    ASSUME IInv, NEW c \in Callers, StartRadios(c), UNCHANGED alone
    PROVE  IInv'
<1>1. Types /\ jobs[c] \in Job /\ jobs[c].pc = "start" /\ jobs[c].result = "none"
    BY ResultIs DEF IInv, StartRadios, At
<1>2. UNCHANGED <<content, env, new, peer, full>> /\ faults' \in 0..MaxFaults
    BY <1>1, StartIs DEF StartRadios, Files
<1>3. /\ jobs' \in [Callers -> Job] /\ Kept(c)
      /\ jobs'[c].kind = jobs[c].kind /\ jobs'[c].profile = jobs[c].profile
      /\ jobs'[c].fd = jobs[c].fd /\ jobs'[c].before = jobs[c].before
      /\ \/ /\ radio' = jobs[c].loaded /\ stated' = content[env]
            /\ jobs'[c].pc = "ended" /\ jobs'[c].result = "ok"
         \/ /\ radio' = Nothing /\ stated' = Nothing
            /\ \/ Restores(c) /\ jobs'[c].pc = "rollback" /\ jobs'[c].result = "none"
               \/ ~Restores(c) /\ jobs'[c].pc = "ended" /\ jobs'[c].result = "failed"
    <2>1. CASE Started(c) /\ End(c, "ok")
        BY <1>1, <2>1, EndIs DEF Started
    <2>2. CASE NotStarted(c) /\ Restores(c) /\ GoTo(c, "rollback")
        <3>1. "rollback" \in PCs
            BY DEF PCs, Restoring
        <3> QED BY <1>1, <2>2, <3>1, GoToIs DEF NotStarted
    <2>3. CASE NotStarted(c) /\ ~Restores(c) /\ End(c, "failed")
        BY <1>1, <2>3, EndIs DEF NotStarted
    <2> QED BY <2>1, <2>2, <2>3 DEF StartRadios
<1>4. Types'
    <2>1. jobs'[c].pc = "ended" <=> jobs'[c].result \in {"ok", "failed"}
        BY <1>3
    <2>2. \A d \in Callers : /\ jobs'[d].pc = "ended" <=> jobs'[d].result \in {"ok", "failed"}
                             /\ jobs'[d].pc = "check" => jobs'[d].kind # "staged"
        BY <1>1, <1>3, <2>1, JobsTyped
    <2>3. {radio', stated'} \subseteq Values
        BY <1>1, StartIs DEF StartRadios
    <2> QED BY <1>1, <1>2, <1>3, <2>2, <2>3 DEF Types, TypeOK, At, Values
<1>5. Quiet(c)
    BY <1>1, <1>2, <1>3 DEF Quiet, Applying
<1>6. Successes'
    BY <1>2, <1>5, QuietSuccesses
<1>7. alone => HashTells'
    BY <1>1, <1>2, <1>3 DEF IInv, Turns, HashTells
<1>8. ASSUME Undisturbed
      PROVE  Orderly' /\ Progress(c)'
    <2>1. Orderly /\ Progress(c)
        BY <1>8 DEF IInv, InTurn
    <2>2. Progress(c)'
        BY <1>1, <1>2, <1>3, <2>1 DEF Progress, Restores, Early, Writing, Applying, Restoring, Running
    <2> QED BY <1>1, <1>5, <2>1, <2>2, QuietOrderly
<1>9. ASSUME Undisturbed
      PROVE  /\ content'[env'] \in Sound
             /\ Running(c)' => Passed(c)
    BY <1>1, <1>2, <1>9 DEF IInv, Valid, Running, At
<1>10. Running(c)
    BY <1>1 DEF Running
<1>11. /\ jobs'[c].pc \notin {"idle", "start", "start_again"}
       /\ \A d \in Callers \ {c} : Alike(jobs'[d], jobs[d])
    BY <1>3 DEF Kept, Alike
<1> QED BY <1>2, <1>3, <1>4, <1>6, <1>7, <1>8, <1>9, <1>10, <1>11, StepSuffices

(* The copy that is put back holds what the command found.                 *)
LEMMA RollBackStep ==
    ASSUME IInv, NEW c \in Callers, RollBack(c), UNCHANGED alone
    PROVE  IInv'
<1>1. Types /\ jobs[c] \in Job /\ jobs[c].pc = "rollback" /\ jobs[c].result = "none"
    BY ResultIs DEF IInv, RollBack, At
<1>2. UNCHANGED <<content, new, radio, stated, peer, faults, full>> /\ env' = RollbackOf(c)
    BY DEF RollBack, Radios
<1>3. /\ jobs' \in [Callers -> Job] /\ Kept(c)
      /\ jobs'[c].kind = jobs[c].kind /\ jobs'[c].profile = jobs[c].profile
      /\ jobs'[c].fd = jobs[c].fd /\ jobs'[c].before = jobs[c].before
      /\ jobs'[c].pc = "restart_again" /\ jobs'[c].result = "none"
    <2>1. "restart_again" \in PCs
        BY DEF PCs, Restoring
    <2> QED BY <1>1, <2>1, GoToIs DEF RollBack
<1>4. Types'
    <2>1. \A d \in Callers : /\ jobs'[d].pc = "ended" <=> jobs'[d].result \in {"ok", "failed"}
                             /\ jobs'[d].pc = "check" => jobs'[d].kind # "staged"
        BY <1>1, <1>3, JobsTyped
    <2>2. env' \in Inodes
        BY <1>2, InodeFacts
    <2> QED BY <1>1, <1>2, <1>3, <2>1, <2>2 DEF Types, TypeOK, At
<1>5. Successes'
    BY <1>3 DEF Successes, NoneFailed, Restoring
<1>6. alone => HashTells'
    BY <1>2 DEF IInv, Turns, HashTells
<1>7. ASSUME Undisturbed
      PROVE  Orderly' /\ Progress(c)' /\ content'[env'] = jobs[c].before
    <2>1. Orderly /\ Progress(c)
        BY <1>7 DEF IInv, InTurn
    <2>2. Restores(c)
        BY <1>1, <2>1 DEF Progress, Restoring, Running
    <2>3. content'[env'] = jobs[c].before
        BY <1>1, <1>2, <2>1, <2>2 DEF Progress
    <2>4. Progress(c)'
        BY <1>1, <1>2, <1>3, <2>2, <2>3 DEF Progress, Restores, Early, Writing, Applying, Restoring, Running
    <2>5. ASSUME NEW d \in Callers
          PROVE  /\ jobs'[d].pc \in Writing <=> new = NewOf(d)
                 /\ jobs'[d].fd \in {Nothing, NewOf(d)}
                 /\ jobs'[d].pc = "fill" => jobs'[d].fd = NewOf(d)
                 /\ jobs'[d].pc \in Applying \cup {"move", "rollback"} \/ jobs'[d].result = "ok" =>
                        content[NewOf(d)] = jobs'[d].profile
                 /\ env' = NewOf(d) => jobs'[d].pc \notin Early \cup Writing
                 /\ env' = RollbackOf(d) => jobs'[d].pc \notin Early \cup Writing \cup Applying
        <3>1. env' # NewOf(d)
            BY <1>2, InodesDiffer
        <3>2. CASE d = c
            BY <3>1, <3>2, <1>1, <1>3, <2>1 DEF Orderly, Writing, Early, Applying
        <3>3. CASE d # c
            <4>1. jobs'[d] = jobs[d] /\ env' # RollbackOf(d)
                BY <3>3, <1>2, <1>3, InodesDiffer DEF Kept
            <4> QED BY <3>1, <4>1, <2>1 DEF Orderly, At
        <3> QED BY <3>2, <3>3
    <2> QED BY <1>2, <2>1, <2>3, <2>4, <2>5 DEF Orderly, At
<1>8. ASSUME Undisturbed
      PROVE  /\ content'[env'] \in Sound
             /\ Running(c)' => Passed(c)
    BY <1>1, <1>7, <1>8 DEF IInv, Valid, Running, At
<1>9. Running(c)
    BY <1>1 DEF Running
<1>10. /\ jobs'[c].pc \notin {"idle", "start", "start_again"}
       /\ \A d \in Callers \ {c} : Alike(jobs'[d], jobs[d])
    BY <1>3 DEF Kept, Alike
<1> QED BY <1>2, <1>3, <1>4, <1>5, <1>6, <1>7, <1>8, <1>9, <1>10, StepSuffices

LEMMA AgainStep ==
    ASSUME IInv, NEW c \in Callers, StartAgain(c), UNCHANGED alone
    PROVE  IInv'
<1>1. Types /\ jobs[c] \in Job /\ jobs[c].pc = "start_again" /\ jobs[c].result = "none"
    BY ResultIs DEF IInv, StartAgain, At
<1>2. /\ UNCHANGED <<content, env, new, peer, full>> /\ faults' \in 0..MaxFaults
      /\ {radio', stated'} \subseteq Values
      /\ \/ radio' = jobs[c].loaded /\ stated' = content[env]
         \/ radio' = Nothing /\ stated' = Nothing
    BY <1>1, StartIs DEF StartAgain, Files
<1>3. /\ jobs' \in [Callers -> Job] /\ Kept(c)
      /\ jobs'[c].kind = jobs[c].kind /\ jobs'[c].profile = jobs[c].profile
      /\ jobs'[c].fd = jobs[c].fd /\ jobs'[c].before = jobs[c].before
      /\ jobs'[c].pc = "ended" /\ jobs'[c].result = "failed"
    BY <1>1, EndIs DEF StartAgain
<1>4. Types'
    <2>1. \A d \in Callers : /\ jobs'[d].pc = "ended" <=> jobs'[d].result \in {"ok", "failed"}
                             /\ jobs'[d].pc = "check" => jobs'[d].kind # "staged"
        BY <1>1, <1>3, JobsTyped
    <2> QED BY <1>1, <1>2, <1>3, <2>1 DEF Types, TypeOK, At, Values
<1>5. Quiet(c)
    BY <1>1, <1>2, <1>3 DEF Quiet, Restoring
<1>6. Successes'
    BY <1>2, <1>5, QuietSuccesses
<1>7. alone => HashTells'
    BY <1>1, <1>2 DEF IInv, Turns, HashTells
<1>8. ASSUME Undisturbed
      PROVE  Orderly' /\ Progress(c)'
    <2>1. Orderly
        BY <1>8 DEF IInv, InTurn
    <2>2. Progress(c)'
        BY <1>3 DEF Progress, Restores, Early, Writing, Applying, Restoring, Running
    <2> QED BY <1>1, <1>5, <2>1, <2>2, QuietOrderly
<1>9. ASSUME Undisturbed
      PROVE  content'[env'] \in Sound
    BY <1>2, <1>9 DEF IInv, Valid
<1>10. Running(c) /\ ~Running(c)'
    BY <1>1, <1>3 DEF Running
<1>11. /\ jobs'[c].pc \notin {"idle", "start", "start_again"}
       /\ \A d \in Callers \ {c} : Alike(jobs'[d], jobs[d])
    BY <1>3 DEF Kept, Alike
<1> QED BY <1>2, <1>3, <1>4, <1>6, <1>7, <1>8, <1>9, <1>10, <1>11, StepSuffices

-----------------------------------------------------------------------------
LEMMA InitInv == Init => IInv
<1> SUFFICES ASSUME Init PROVE IInv
    OBVIOUS
<1>1. NoJob \in Job /\ NoJob.pc = "idle" /\ NoJob.result = "none" /\ NoJob.fd = Nothing
    BY DEF NoJob, Job, PCs, Early, Values
<1>2. jobs \in [Callers -> Job] /\ \A c \in Callers : jobs[c] = NoJob
    BY <1>1 DEF Init
<1>3. content \in [Inodes -> Values] /\ env \in Inodes /\ content[env] = Original
    BY DEF Init, Inodes, Values
<1>4. Types
    BY <1>1, <1>2, <1>3, FaultAssumption DEF Init, Types, TypeOK, At, Values
<1>5. \A c \in Callers : ~Running(c)
    BY <1>1, <1>2 DEF Running
<1>6. Turns
    BY <1>1, <1>2, <1>5 DEF Init, Turns, HashTells
<1>7. Orderly
    BY <1>1, <1>2, InodeFacts DEF Init, Orderly, At, Early, Writing, Applying
<1>8. Successes
    BY <1>1, <1>2, <1>7 DEF Successes, Done, Applying
<1>9. InTurn
    BY <1>1, <1>2, <1>7 DEF InTurn, Progress, Early, Writing, Applying, Restoring, Running
<1>10. Valid
    BY <1>3, <1>5 DEF Valid, Sound
<1>11. Fresh
    BY <1>2 DEF Fresh, NoJob
<1> QED BY <1>4, <1>6, <1>8, <1>9, <1>10, <1>11 DEF IInv

LEMMA NextInv == IInv /\ [Next]_vars => IInv'
<1> SUFFICES ASSUME IInv, [Next]_vars PROVE IInv'
    OBVIOUS
<1>1. ASSUME NEW c \in Callers, Call(c) \/ Step(c)
      PROVE  IInv'
    <2>1. CASE Call(c)
        BY <2>1, CallStep
    <2>2. CASE Step(c)
        BY <2>2, CheckStep, PeerStep, BackupStep, OpenStep, FillStep, MoveStep, StopStep,
           StartStep, RollBackStep, AgainStep DEF Step
    <2> QED BY <1>1, <2>1, <2>2
<1>2. CASE UNCHANGED vars
    BY <1>2 DEF vars, IInv, Types, TypeOK, Turns, HashTells, Successes, Crowded, NoneFailed, Done,
                Orderly, InTurn, Undisturbed, Progress, Restores, Valid, At, Running,
                Sound, Unchecked, Passed, Fresh
<1> QED BY <1>1, <1>2 DEF Next

(* Types, for any number of commands.                                      *)
THEOREM TypeCorrect == Spec => []TypeOK
<1>1. IInv => TypeOK
    BY DEF IInv, Types
<1> QED BY <1>1, InitInv, NextInv, PTL DEF Spec

(* Commands that take turns leave in wifi.env a whole file, which has      *)
(* passed the checks unless a staged file brought it.                      *)
THEOREM Installs == Spec => []InstalledChecked
<1>1. IInv => InstalledChecked
    BY DEF IInv, Valid, InstalledChecked, Sound
<1> QED BY <1>1, InitInv, NextInv, PTL DEF Spec

(* The configuration hash is the one of the profile that the radios run.   *)
THEOREM HashCorrect == Spec => []HashTells
<1>1. IInv => HashTells
    BY DEF IInv, Turns, HashTells
<1> QED BY <1>1, InitInv, NextInv, PTL DEF Spec

(* When every command reports success, one of them is installed whole.     *)
THEOREM SuccessCorrect ==
    ASSUME Callers # {}
    PROVE  Spec => []SuccessInstalls
<1>1. IInv => SuccessInstalls
    <2> SUFFICES ASSUME IInv, full = 0, \A c \in Callers : At(c, "ended") /\ jobs[c].result = "ok"
                 PROVE  \E c \in Callers : content[env] = jobs[c].profile
        BY DEF SuccessInstalls
    <2>1. NoneFailed /\ ~Crowded /\ \A c \in Callers : Done(c)
        BY DEF At, NoneFailed, Restoring, Crowded, Writing, Done
    <2>2. Orderly /\ \E c \in Callers : env = NewOf(c)
        BY <2>1 DEF IInv, Successes
    <2> QED BY <2>2 DEF Orderly
<1> QED BY <1>1, InitInv, NextInv, PTL DEF Spec

(* What a command reports when it ends is what it leaves behind.           *)
LEMMA StepReports ==
    ASSUME IInv, Next, Undisturbed, NEW c \in Callers, ~At(c, "ended"), jobs'[c].pc = "ended"
    PROVE  IF jobs'[c].result = "ok"
           THEN /\ content'[env'] = jobs'[c].profile /\ radio' = jobs'[c].profile
                /\ jobs'[c].kind = "pair" => peer' = jobs'[c].profile
           ELSE jobs'[c].kind # "owner" => content'[env'] = jobs'[c].before
<1>1. Types /\ Orderly /\ Progress(c) /\ jobs[c] \in Job
    BY DEF IInv, InTurn, Types
<1>2. ASSUME NEW d \in Callers, Call(d)
      PROVE  FALSE
    <2>1. PICK kind \in Kinds, profile \in Profiles :
              jobs' = [jobs EXCEPT ![d] =
                 [NoJob EXCEPT !.kind = kind, !.profile = profile, !.before = content[env],
                               !.pc = IF kind = "staged" THEN "backup" ELSE "check"]]
        BY <1>2 DEF Call
    <2>2. jobs'[d].pc # "ended" /\ (d # c => jobs'[c] = jobs[c])
        BY <1>1, <2>1 DEF NoJob, Types
    <2> QED BY <2>2 DEF At
<1>3. PICK d \in Callers : Step(d)
    BY <1>2 DEF Next
<1>4. d = c
    <2>1. CASE Open(d)
        BY <1>1, <2>1, OpenIs DEF Alike, At
    <2>2. CASE StopRadios(d)
        <3>1. PICK j : jobs' = [jobs EXCEPT ![d] = j]
            BY <1>1, <2>2 DEF StopRadios
        <3> QED BY <1>1, <3>1 DEF Types, At
    <2>3. CASE ~Open(d) /\ ~StopRadios(d)
        <3>1. (\E s : GoTo(d, s)) \/ (\E r : End(d, r))
            <4>1. Check(d) => (\E s : GoTo(d, s)) \/ (\E r : End(d, r))
                BY DEF Check, Checked
            <4> QED BY <1>3, <2>3, <4>1 DEF Step, PeerFirst, Backup, Fill, Move, StartRadios, RollBack, StartAgain
        <3>2. PICK j : jobs' = [jobs EXCEPT ![d] = j]
            BY <1>1, <3>1 DEF GoTo, End
        <3> QED BY <1>1, <3>2 DEF Types, At
    <2> QED BY <2>1, <2>2, <2>3
<1>5. jobs[c].result = "none"
    BY <1>1, ResultIs DEF At
<1>6. ASSUME NEW r \in {"ok", "failed"}, End(c, r)
      PROVE  /\ jobs'[c].result = r /\ jobs'[c].kind = jobs[c].kind
             /\ jobs'[c].profile = jobs[c].profile /\ jobs'[c].before = jobs[c].before
    BY <1>1, <1>6, EndIs
<1>7. ASSUME NEW s \in PCs \ {"ended"}, GoTo(c, s)
      PROVE  FALSE
    BY <1>1, <1>7, GoToIs
<1>8. \A s \in {"peer", "backup", "open", "move", "restart", "rollback", "restart_again"} : s \in PCs \ {"ended"}
    BY DEF PCs, Early, Writing, Applying, Restoring
<1>9. CASE Check(c)
    <2>1. jobs[c].pc = "check" /\ jobs[c].kind # "staged"
        BY <1>1, <1>9 DEF Check, At, Types
    <2>2. End(c, "failed")
        <3>1. jobs[c].kind \in {"json", "pair", "owner"}
            BY <1>1, <2>1 DEF Job
        <3>2. Checked(c) => GoTo(c, "backup") \/ GoTo(c, "peer") \/ GoTo(c, "open")
            BY <3>1 DEF Checked
        <3> QED BY <1>7, <1>8, <1>9, <3>2 DEF Check
    <2>3. UNCHANGED <<content, env>>
        BY <1>9 DEF Check, Files
    <2> QED BY <1>1, <1>6, <2>1, <2>2, <2>3 DEF Progress, Early
<1>10. CASE PeerFirst(c)
    <2>1. jobs[c].pc = "peer" /\ End(c, "failed") /\ UNCHANGED <<content, env>>
        BY <1>7, <1>8, <1>10 DEF PeerFirst, At, Files
    <2> QED BY <1>1, <1>6, <2>1 DEF Progress, Early
<1>11. CASE Backup(c)
    <2>1. jobs[c].pc = "backup" /\ End(c, "failed") /\ UNCHANGED <<content, env>>
        BY <1>7, <1>8, <1>11 DEF Backup, At
    <2> QED BY <1>1, <1>6, <2>1 DEF Progress, Early
<1>12. CASE Open(c)
    BY <1>1, <1>12, OpenIs
<1>13. CASE Fill(c)
    <2>1. jobs[c].kind = "owner" /\ End(c, "failed")
        BY <1>7, <1>8, <1>13 DEF Fill, Restores
    <2> QED BY <1>6, <2>1
<1>14. CASE Move(c)
    <2>1. jobs[c].pc = "move" /\ new = Nothing
        BY <1>7, <1>8, <1>14 DEF Move, At
    <2> QED BY <1>1, <2>1, InodeFacts DEF Orderly, Writing
<1>15. CASE StopRadios(c)
    <2>1. PICK s \in {"start", "start_again"} :
             jobs' = [jobs EXCEPT ![c] = [jobs[c] EXCEPT !.pc = s, !.loaded = content[env]]]
        BY <1>1, <1>15 DEF StopRadios, Types
    <2>2. jobs'[c].pc = s
        BY <1>1, <2>1 DEF Types, Job
    <2> QED BY <2>2
<1>16. CASE StartRadios(c)
    <2>1. jobs[c].pc = "start" /\ UNCHANGED <<content, env, peer>>
        BY <1>16 DEF StartRadios, At, Files
    <2>2. CASE End(c, "ok") /\ Started(c)
        <3>1. jobs[c].loaded = content[env] /\ content[env] = jobs[c].profile
            BY <1>1, <2>1 DEF IInv, Turns, Undisturbed, Progress, Applying
        <3>2. jobs[c].kind = "pair" => peer = jobs[c].profile
            BY <1>1, <2>1 DEF Progress, Applying
        <3>3. radio' = jobs[c].profile
            BY <2>2, <3>1 DEF Started
        <3> QED BY <1>6, <2>1, <2>2, <3>1, <3>2, <3>3
    <2>3. CASE End(c, "failed") /\ ~Restores(c)
        BY <1>6, <2>3 DEF Restores
    <2> QED BY <1>7, <1>8, <1>16, <2>2, <2>3 DEF StartRadios
<1>17. CASE RollBack(c)
    BY <1>7, <1>8, <1>17 DEF RollBack
<1>18. CASE StartAgain(c)
    <2>1. jobs[c].pc = "start_again" /\ End(c, "failed") /\ UNCHANGED <<content, env>>
        BY <1>18 DEF StartAgain, At, Files
    <2> QED BY <1>1, <1>6, <2>1 DEF Progress
<1> QED BY <1>3, <1>4, <1>9, <1>10, <1>11, <1>12, <1>13, <1>14, <1>15, <1>16, <1>17, <1>18 DEF Step

THEOREM ReportsCorrect == Spec => ReportTells
<1>1. IInv /\ [Next]_vars =>
          [\A c \in Callers : Undisturbed /\ ~At(c, "ended") /\ jobs'[c].pc = "ended" =>
             LET j == jobs'[c] IN
             IF j.result = "ok"
             THEN /\ content'[env'] = j.profile /\ radio' = j.profile
                  /\ j.kind = "pair" => peer' = j.profile
             ELSE j.kind # "owner" => content'[env'] = j.before]_vars
    BY StepReports
<1> QED BY <1>1, InitInv, NextInv, PTL DEF Spec, ReportTells
=============================================================================
