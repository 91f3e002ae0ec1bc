--------------------------- MODULE BootStateFiles ---------------------------
(***************************************************************************)
(* bootstate as the shell runs it: several callers at once in a running    *)
(* system, one lock directory, and four scratch files in /tmp that every   *)
(* call shares.  A redirection empties its file before the command fills   *)
(* it.  `status' takes no lock but uses the same files, and a command that *)
(* INT or TERM finds inside gives the lock up and goes on.                 *)
(*                                                                         *)
(* A checksum is modelled by the body it was computed from, so a record is *)
(* readable when its checksum names its body.                              *)
(***************************************************************************)
EXTENDS BootState, Naturals, FiniteSets

CONSTANTS
    Procs,        \* concurrent callers
    Commands,     \* the commands they give, [op, slot] records
    MaxCommands,  \* bound: commands given in a behaviour
    MaxSignals    \* bound: signals sent to callers

(* bootstate dies on anything else before it takes the lock. *)
ASSUME CommandsAssumption ==
    /\ Commands # {}
    /\ Commands \subseteq
         [op : {"accept", "stage", "activate"}, slot : Slots]
           \cup [op : {"status", "recovery", "retry"}, slot : {NoSlot}]

(* What a checksum covers: the generation and the record. *)
Bodies == [gen : Nat, rec : Record]
ASSUME InvalidBodyAssumption == Invalid \notin Bodies

ASSUME FilesBoundAssumption == MaxCommands \in Nat /\ MaxSignals \in Nat

ASSUME ProcsAssumption == IsFiniteSet(Procs)

VARIABLES
    volume,    \* UBI volume 6
    file,      \* RAW, TEXT, PAYLOAD and NEW
    lock,      \* whether LOCK_DIR exists
    pc,        \* each caller's next step
    opened,    \* whether that step has already emptied its file
    cmd,       \* each caller's command
    mem,       \* each caller's shell variables: body and checksum
    given, signals,
    strays     \* history: how often, since a last caller left, one came in
               \* or went on without the lock

fileVars == <<volume, file, lock, pc, opened, cmd, mem, given, signals, strays>>

Empty == [body |-> Invalid, sum |-> Invalid]
Sealed(b) == [body |-> b, sum |-> b]

FileNames == {"RAW", "TEXT", "PAYLOAD", "NEW"}
Steps == {"idle", "lock", "dd", "tr", "sed", "parse", "check", "payload",
          "sum", "new", "update", "exit", "killed"}

(* The file a step redirects its output to. *)
Target == [dd |-> "RAW", tr |-> "TEXT", sed |-> "PAYLOAD",
           payload |-> "PAYLOAD", new |-> "NEW"]

Locked(c) == c.op # "status"

InitialBody == [gen |-> 1, rec |-> StartBoot(DefaultState)]

FilesInit ==
    /\ volume = Sealed(InitialBody)
    /\ file = [f \in FileNames |-> Empty]
    /\ lock = FALSE
    /\ pc = [p \in Procs |-> "idle"]
    /\ opened = [p \in Procs |-> FALSE]
    /\ cmd = [p \in Procs |-> CHOOSE c \in Commands : TRUE]
    /\ mem = [p \in Procs |-> Empty]
    /\ given = 0 /\ signals = 0 /\ strays = 0

-----------------------------------------------------------------------------
(* What a command may do with the record it read, and what it writes.      *)
(* prepare and reject run while PID 1 is alone, before any other caller.   *)

Allowed(c, v) ==
    CASE c.op = "accept" -> MayAccept(v, c.slot)
      [] c.op = "stage" -> MayStage(v, c.slot)
      [] c.op = "retry" -> v # Invalid
      [] c.op \in {"activate", "recovery"} -> TRUE
      [] c.op = "status" -> FALSE

NewRecord(c, v) ==
    CASE c.op = "accept" -> Accepted(c.slot)
      [] c.op = "stage" -> Staged(v, c.slot)
      [] c.op = "retry" -> Retried(v)
      [] c.op = "activate" -> Activated(c.slot)
      [] c.op = "recovery" -> RecoveryRequested(v)

RecordOf(b) == IF b = Invalid THEN Invalid ELSE b.rec
GenerationOf(b) == IF b = Invalid THEN 0 ELSE b.gen

Written(c, b) ==
    [gen |-> GenerationOf(b) + 1, rec |-> NewRecord(c, RecordOf(b))]

(* What read_state would make of a stored record nobody interferes with. *)
Readable(content) == content.body # Invalid /\ content.sum = content.body
Stored(content) == IF Readable(content) THEN content.body ELSE Invalid

-----------------------------------------------------------------------------
(* Callers past lock_state, or that need not pass it. *)
Inside(p) == pc[p] \notin {"idle", "lock", "killed"}
InsideNow == {p \in Procs : Inside(p)}

Goto(p, step) == pc' = [pc EXCEPT ![p] = step]
At(p, step) == pc[p] = step

Give(p) ==
    /\ At(p, "idle") /\ given < MaxCommands
    /\ given' = given + 1
    /\ \E c \in Commands :
         /\ cmd' = [cmd EXCEPT ![p] = c]
         /\ Goto(p, IF Locked(c) THEN "lock" ELSE "dd")
         /\ strays' = IF Locked(c) THEN strays ELSE strays + 1
    /\ UNCHANGED <<volume, file, lock, opened, mem, signals>>

(* Variant: mkdir -p, which succeeds on a directory that exists. *)
AcquireAnyway(p) ==
    /\ At(p, "lock")
    /\ lock' = TRUE
    /\ Goto(p, "dd")
    /\ UNCHANGED <<volume, file, opened, cmd, mem, given, signals, strays>>

(* mkdir either makes the directory or fails. *)
Acquire(p) ==
    /\ At(p, "lock") /\ ~lock
    /\ lock' = TRUE
    /\ Goto(p, "dd")
    /\ UNCHANGED <<volume, file, opened, cmd, mem, given, signals, strays>>

(* Variants: the trap is set before the loop; the loop has no limit. *)
TimeOutReleasing(p) ==
    /\ At(p, "lock") /\ lock
    /\ Goto(p, "idle")
    /\ lock' = FALSE
    /\ UNCHANGED <<volume, file, opened, cmd, mem, given, signals, strays>>

TimeOutNever(p) == At(p, "lock") /\ lock /\ UNCHANGED fileVars

(* After 50 tries the caller dies; its trap is not set yet. *)
TimeOut(p) ==
    /\ At(p, "lock") /\ lock
    /\ Goto(p, "idle")
    /\ UNCHANGED <<volume, file, lock, opened, cmd, mem, given, signals, strays>>

(* The shell opens a redirection's file, which empties it. *)
Truncate(p) ==
    /\ pc[p] \in DOMAIN Target /\ ~opened[p]
    /\ opened' = [opened EXCEPT ![p] = TRUE]
    /\ file' = [file EXCEPT ![Target[pc[p]]] = Empty]
    /\ UNCHANGED <<volume, lock, pc, cmd, mem, given, signals, strays>>

Fill(p, step, content, next) ==
    /\ At(p, step) /\ opened[p]
    /\ opened' = [opened EXCEPT ![p] = FALSE]
    /\ file' = [file EXCEPT ![Target[step]] = content]
    /\ Goto(p, next)
    /\ UNCHANGED <<volume, lock, cmd, mem, given, signals, strays>>

(* read_state *)
ReadVolume(p) == Fill(p, "dd", volume, "tr")
ReadText(p) == Fill(p, "tr", file["RAW"], "sed")
ReadPayload(p) ==
    Fill(p, "sed", [Empty EXCEPT !.body = file["TEXT"].body], "parse")

Parse(p) ==
    /\ At(p, "parse")
    /\ mem' = [mem EXCEPT ![p] = file["TEXT"]]
    /\ Goto(p, "check")
    /\ UNCHANGED <<volume, file, lock, opened, cmd, given, signals, strays>>

(* The checks at the end of read_state, then the command's own. *)
ReadResult(p) ==
    IF mem[p].body # Invalid /\ mem[p].sum = file["PAYLOAD"].body
    THEN mem[p].body ELSE Invalid

Decide(p) ==
    /\ At(p, "check")
    /\ LET b == ReadResult(p) IN
         IF Allowed(cmd[p], RecordOf(b))
         THEN /\ mem' = [mem EXCEPT ![p] =
                           [Empty EXCEPT !.body = Written(cmd[p], b)]]
              /\ Goto(p, "payload")
         ELSE UNCHANGED mem /\ Goto(p, "exit")
    /\ UNCHANGED <<volume, file, lock, opened, cmd, given, signals, strays>>

(* write_state *)
WritePayload(p) ==
    Fill(p, "payload", [Empty EXCEPT !.body = mem[p].body], "sum")

SumPayload(p) ==
    /\ At(p, "sum")
    /\ mem' = [mem EXCEPT ![p].sum = file["PAYLOAD"].body]
    /\ Goto(p, "new")
    /\ UNCHANGED <<volume, file, lock, opened, cmd, given, signals, strays>>

WriteNew(p) ==
    Fill(p, "new", [body |-> file["PAYLOAD"].body, sum |-> mem[p].sum], "update")

(* ubiupdatevol needs the volume to itself: while another caller's dd has  *)
(* it open it fails, and `set -e' ends the command.                        *)
ReadersOf(p) == {q \in Procs \ {p} : At(q, "dd") /\ opened[q]}

UpdateVolume(p) ==
    /\ At(p, "update")
    /\ volume' = IF ReadersOf(p) = {} THEN file["NEW"] ELSE volume
    /\ Goto(p, "exit")
    /\ UNCHANGED <<file, lock, opened, cmd, mem, given, signals, strays>>

(* The EXIT trap removes the directory of a caller that set it. *)
Exit(p) ==
    /\ At(p, "exit")
    /\ lock' = IF Locked(cmd[p]) THEN FALSE ELSE lock
    /\ Goto(p, "idle")
    /\ strays' = IF InsideNow = {p} THEN 0 ELSE strays
    /\ UNCHANGED <<volume, file, opened, cmd, mem, given, signals>>

(* INT or TERM runs the same trap, between two commands of the shell, and  *)
(* the trap does not exit: the caller goes on without the directory.       *)
Interrupt(p) ==
    /\ signals < MaxSignals /\ Inside(p) /\ Locked(cmd[p])
    /\ opened[p] => pc[p] \in {"payload", "new"}
    /\ signals' = signals + 1
    /\ lock' = FALSE
    /\ strays' = strays + 1
    /\ UNCHANGED <<volume, file, pc, opened, cmd, mem, given>>

(* Any other signal, or one that comes before the trap is set, runs no     *)
(* trap: the directory stays.  ubiupdatevol has not begun, is cut off and  *)
(* leaves the volume unreadable, or ends its work alone.                   *)
Kill(p) ==
    /\ signals < MaxSignals /\ pc[p] \notin {"idle", "killed"}
    /\ signals' = signals + 1
    /\ Goto(p, "killed")
    /\ volume' \in IF At(p, "update") THEN {volume, Empty, file["NEW"]}
                  ELSE {volume}
    /\ UNCHANGED <<file, lock, opened, cmd, mem, given, strays>>

-----------------------------------------------------------------------------
Run(p) ==
    \/ Acquire(p) \/ TimeOut(p) \/ Truncate(p)
    \/ ReadVolume(p) \/ ReadText(p) \/ ReadPayload(p) \/ Parse(p) \/ Decide(p)
    \/ WritePayload(p) \/ SumPayload(p) \/ WriteNew(p) \/ UpdateVolume(p)
    \/ Exit(p)

FilesNext == \E p \in Procs : Give(p) \/ Run(p) \/ Interrupt(p) \/ Kill(p)

FilesSpec == FilesInit /\ [][FilesNext]_fileVars

(* A caller that is running is scheduled. *)
FairFilesSpec == FilesSpec /\ \A p \in Procs : WF_fileVars(Run(p))

-----------------------------------------------------------------------------
Contents == [body : Bodies \cup {Invalid}, sum : Bodies \cup {Invalid}]

(* Every variable stays in its range. *)
FilesTypeOK ==
    /\ volume \in Contents
    /\ file \in [FileNames -> Contents]
    /\ lock \in BOOLEAN
    /\ pc \in [Procs -> Steps]
    /\ opened \in [Procs -> BOOLEAN]
    /\ cmd \in [Procs -> Commands]
    /\ mem \in [Procs -> Contents]
    /\ given \in Nat /\ signals \in Nat /\ strays \in Nat

(* What the files hold when a caller that is alone inside is about to use   *)
(* them: the record of the volume while it reads, its own new record while  *)
(* it writes.                                                               *)
FilesFollow ==
    strays = 0 => \A p \in Procs : Inside(p) =>
        /\ At(p, "tr") => file["RAW"] = volume
        /\ At(p, "sed") => file["TEXT"] = volume
        /\ At(p, "parse") => /\ file["TEXT"] = volume
                             /\ file["PAYLOAD"].body = volume.body
        /\ At(p, "check") => /\ mem[p] = volume
                             /\ file["PAYLOAD"].body = volume.body
        /\ pc[p] \in {"payload", "sum", "new", "update"} =>
             /\ mem[p].body = Written(cmd[p], Stored(volume))
             /\ mem[p].body # Invalid
        /\ pc[p] \in {"sum", "new"} => file["PAYLOAD"].body = mem[p].body
        /\ At(p, "new") => mem[p].sum = mem[p].body
        /\ At(p, "update") => file["NEW"] = Sealed(mem[p].body)

(* Each status and each INT or TERM lets at most one more caller in, until  *)
(* the last one has left: without them the directory admits one caller from *)
(* the read of the record to the exit, also when others give up waiting or  *)
(* are killed, and an exit never takes the directory from under another.    *)
LockExcludes ==
    Cardinality(InsideNow) <= (IF lock THEN 1 ELSE 0) + strays

(* A caller ends its write of the volume and leaves there what its command  *)
(* makes of the record that was there, or fails for a reader's sake.        *)
CommitsItsOwn(p) ==
    At(p, "update") /\ ~At(p, "update")' /\ pc'[p] # "killed" =>
        \/ volume' = Sealed(Written(cmd[p], Stored(volume)))
        \/ ReadersOf(p) # {} /\ volume' = volume

(* While no caller is inside without the lock, no update is lost and none   *)
(* is made from files another call changed.                                 *)
CommitsAreAtomic ==
    [][strays = 0 => \A p \in Procs : CommitsItsOwn(p)]_fileVars

(* The same of every call, status and interrupted ones included: what the   *)
(* head of bootstate and docs/ARCHITECTURE.md promise.                      *)
CommitsAlwaysAtomic ==
    [][\A p \in Procs : CommitsItsOwn(p)]_fileVars

(* Every command ends, even behind a directory a killed caller left.       *)
CommandsEnd ==
    \A p \in Procs : ~At(p, "idle") ~> pc[p] \in {"idle", "killed"}
=============================================================================
