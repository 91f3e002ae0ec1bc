----------------------------- MODULE Dashboard -----------------------------
(***************************************************************************)
(* The dashboards (status/index.js) of the two access points of a pair in  *)
(* some browsers, the rpcd of each access point, and Timezone below them.  *)
(*                                                                         *)
(* rpcd serves one call at a time: what is behind configure_timezone in    *)
(* its queue waits until the command has ended, on both access points.  An *)
(* answer is drawn when it is given; a page that has stopped waiting does  *)
(* not get it.  The three status calls of a poll are one call here.  In a  *)
(* cluster the page asks for the scope "cluster" (ClusterApply).           *)
(***************************************************************************)
EXTENDS Timezone, Health, Sequences

CONSTANTS
    Browsers,        \* the open browsers
    Host,            \* the access point whose dashboard each looks at
    BrowserZone,     \* the time zone each reports
    Systems,         \* what the overview may say
    NoBrowser, Nothing,
    MaxUses          \* bound: pages opened, controls used

ASSUME BrowserAssumption ==
    /\ Host \in [Browsers -> Nodes] /\ BrowserZone \in [Browsers -> Zones] /\ NoBrowser \notin Browsers
    /\ \A s \in Systems : s.error \in BOOLEAN

VARIABLES
    air, system,     \* the radios and the overview of each access point
    page, queue,
    uses,
    met              \* history: commands of both access points at the same time

dashVars == <<air, system, page, queue, uses, met>>
vars == <<tzVars, dashVars>>

Phases == {"closed", "load", "detect", "open"}
Kinds == {"load", "poll", "detect", "sync"}

(* browserTimezone, and whether the page takes what it returns.            *)
Supported(b) == BrowserZone[b] \in Known[Host[b]]

(* overview, status and timezone_status together.                          *)
View(n) ==
    [zone |-> conf[n], system |-> system[n],
     wireless |-> AttachPeer(WifiStatus(n, Peer[n], link, air), link, WifiStatus(Peer[n], n, link, air))]

Init ==
    /\ TzInit
    /\ air = [n \in Nodes |-> TRUE]
    /\ system \in [Nodes -> {s \in Systems : SystemWarnings(s) = {}}]
    /\ page = [b \in Browsers |-> [phase |-> "closed", shown |-> Nothing, polls |-> FALSE, settled |-> FALSE]]
    /\ queue = [n \in Nodes |-> <<>>]
    /\ uses = 0 /\ met = FALSE

Use == uses < MaxUses /\ uses' = uses + 1 /\ NoFault
Call(b, kind, zone, automatic) == [browser |-> b, kind |-> kind, zone |-> zone, automatic |-> automatic]
Append1(b, call) == queue' = [queue EXCEPT ![Host[b]] = Append(@, call)]
SameTime == UNCHANGED <<conf, lock, proc, link, kept>>
SameHealth == UNCHANGED <<air, system>>

-----------------------------------------------------------------------------
(* The user.                                                               *)

(* load(): nobody hears the answers to what the page has asked before.     *)
Open(b) ==
    /\ Use
    /\ page' = [page EXCEPT ![b] = [phase |-> "load", shown |-> Nothing, polls |-> FALSE,
                                    settled |-> kept[Host[b]] # Initial]]
    /\ LET Left(c) == IF c.browser = b THEN [c EXCEPT !.browser = NoBrowser] ELSE c
           waiting == queue[Host[b]] IN
       queue' = [queue EXCEPT ![Host[b]] =
                   Append([i \in DOMAIN waiting |-> Left(waiting[i])], Call(b, "load", Factory, TRUE))]
    /\ SameTime /\ SameHealth /\ UNCHANGED met

(* The box may always be unchecked.                                        *)
MaySync(b, automatic) == automatic => Supported(b)

(* handleTimezoneSync: the button, or the box checked or unchecked.  An    *)
(* unchecked box sends the zone that is shown.                             *)
Sync(b, automatic) ==
    /\ Use /\ page[b].phase = "open"
    /\ MaySync(b, automatic)
    /\ page' = [page EXCEPT ![b].polls = FALSE]
    /\ Append1(b, Call(b, "sync", IF automatic THEN BrowserZone[b] ELSE page[b].shown.zone.zone, automatic))
    /\ SameTime /\ SameHealth /\ UNCHANGED met

(* The timer of the page; LuCI does not begin a poll before the last ends. *)
Poll(b) ==
    /\ page[b].phase = "open" /\ page[b].polls
    /\ \A i \in DOMAIN queue[Host[b]] : queue[Host[b]][i].browser # b \/ queue[Host[b]][i].kind # "poll"
    /\ Append1(b, Call(b, "poll", Factory, TRUE))
    /\ NoFault /\ SameTime /\ SameHealth /\ UNCHANGED <<page, uses, met>>

-----------------------------------------------------------------------------
(* rpcd and the callbacks of the page.                                     *)

Turn(n, kinds) == queue[n] # <<>> /\ Head(queue[n]).kind \in kinds
Shown(p, view) == [p EXCEPT !.phase = "open", !.shown = view, !.polls = TRUE]

(* The load: a time zone nobody has set is set from the browser, once.     *)
ServeLoad(n) ==
    LET b == Head(queue[n]).browser
        detect == b # NoBrowser /\ conf[n].automatic /\ ~conf[n].detected /\ Supported(b) IN
    /\ Turn(n, {"load"}) /\ NoFault
    /\ queue' = [queue EXCEPT ![n] =
          IF detect THEN Append(Tail(@), Call(b, "detect", BrowserZone[b], TRUE)) ELSE Tail(@)]
    /\ page' = IF b = NoBrowser THEN page
               ELSE IF detect THEN [page EXCEPT ![b].phase = "detect", ![b].shown = View(n)]
               ELSE [page EXCEPT ![b] = Shown(@, View(n))]
    /\ SameTime /\ SameHealth /\ UNCHANGED <<uses, met>>

(* update: all that the page shows is drawn again.                         *)
ServePoll(n) ==
    LET b == Head(queue[n]).browser IN
    /\ Turn(n, {"poll"}) /\ NoFault
    /\ queue' = [queue EXCEPT ![n] = Tail(@)]
    /\ page' = IF b = NoBrowser THEN page ELSE [page EXCEPT ![b].shown = View(n)]
    /\ SameTime /\ SameHealth /\ UNCHANGED <<uses, met>>

(* configure_timezone: the scope is always the pair.                       *)
Configure(n) ==
    LET c == Head(queue[n]) IN
    /\ Turn(n, {"detect", "sync"}) /\ proc[n]["own"].pc = "idle"
    /\ proc' = [proc EXCEPT ![n]["own"] = Command(n, c.zone, c.automatic, "call")]
    /\ met' = (met \/ proc[Peer[n]]["own"].pc # "idle")
    /\ NoFault /\ SameHealth /\ UNCHANGED <<conf, lock, link, kept, page, queue, uses>>

(* Variant: the poll starts again only when the command has succeeded. *)
AnsweredWell(p, kind, success, view) ==
    IF kind = "sync" THEN [p EXCEPT !.polls = success]
    ELSE Shown(p, IF success THEN [p.shown EXCEPT !.zone = view.zone, !.system = view.system] ELSE p.shown)
(* The rest of load(), or of handleTimezoneSync.  A failure leaves what    *)
(* the load has found, with a note.                                        *)
Answered(p, kind, success, view) ==
    IF kind = "sync" THEN [p EXCEPT !.polls = TRUE]
    ELSE Shown(p, IF success THEN [p.shown EXCEPT !.zone = view.zone, !.system = view.system] ELSE p.shown)

Finish(n) ==
    LET c == Head(queue[n])  pc == proc[n]["own"].pc IN
    /\ Turn(n, {"detect", "sync"}) /\ pc \in Ended /\ NoFault
    /\ proc' = [proc EXCEPT ![n]["own"] = Idle]
    /\ queue' = [queue EXCEPT ![n] = Tail(@)]
    /\ page' = IF c.browser = NoBrowser THEN page
               ELSE [page EXCEPT ![c.browser] = Answered(@, c.kind, pc = "done", View(n))]
    /\ SameHealth /\ UNCHANGED <<conf, lock, link, kept, uses, met>>

(* The request ends without an answer; rpcd goes on.  A load without its   *)
(* answer leaves no dashboard, a poll draws nothing.                       *)
GiveUp(n, i) ==
    LET c == queue[n][i]  b == c.browser IN
    /\ Fault /\ b # NoBrowser
    /\ queue' = [queue EXCEPT ![n][i].browser = NoBrowser]
    /\ page' = CASE c.kind = "load" -> [page EXCEPT ![b].phase = "closed"]
                 [] c.kind = "poll" -> page
                 [] OTHER -> [page EXCEPT ![b] = Answered(@, c.kind, FALSE, Nothing)]
    /\ SameTime /\ SameHealth /\ UNCHANGED <<uses, met>>

(* The radios of an access point, or what its overview says.               *)
HealthChange(n) ==
    /\ Fault
    /\ \/ air' = [air EXCEPT ![n] = ~@] /\ UNCHANGED system
       \/ \E s \in Systems : s # system[n] /\ system' = [system EXCEPT ![n] = s] /\ UNCHANGED air
    /\ SameTime /\ UNCHANGED <<page, queue, uses, met>>

-----------------------------------------------------------------------------
User(b) == Open(b) \/ \E automatic \in BOOLEAN : Sync(b, automatic)
Serve(n) == ServeLoad(n) \/ ServePoll(n) \/ Configure(n) \/ Finish(n)

Next ==
    \/ TzNext /\ UNCHANGED dashVars
    \/ \E b \in Browsers : User(b) \/ Poll(b)
    \/ \E n \in Nodes : Serve(n) \/ HealthChange(n) \/ \E i \in DOMAIN queue[n] : GiveUp(n, i)

Spec == Init /\ [][Next]_vars

(* rpcd serves its queue, a command that can go on does, and the timers of *)
(* the pages run.                                                          *)
FairSpec ==
    /\ Spec
    /\ \A n \in Nodes : WF_vars(Serve(n)) /\ WF_tzVars(Ask(n)) /\ \A s \in Slots : WF_tzVars(Step(n, s))
    /\ \A b \in Browsers : WF_vars(Poll(b))
-----------------------------------------------------------------------------
TypeOK ==
    /\ TzTypeOK
    /\ air \in [Nodes -> BOOLEAN] /\ system \in [Nodes -> Systems]
    /\ \A b \in Browsers : page[b].phase \in Phases /\ page[b].polls \in BOOLEAN
    /\ \A n \in Nodes : \A i \in DOMAIN queue[n] :
          queue[n][i].browser \in Browsers \cup {NoBrowser} /\ queue[n][i].kind \in Kinds

(* Without failures, and while only one of the two access points sets the  *)
(* zone at a time, both have the same options once nothing is left to do:  *)
(* "timezone changes apply to both APs" (status/index.js:550).             *)
Quiet == \A n \in Nodes : queue[n] = <<>> /\ \A s \in Slots : proc[n][s].pc = "idle"
PairAgrees == Quiet /\ faults = 0 /\ ~met => \A n \in Nodes : conf[n] = conf[Peer[n]]

(* "Detection uses the browser IANA timezone once" (status/index.js:392):  *)
(* a page that is opened after a command has succeeded never detects.      *)
DetectedOnce == \A b \in Browsers : page[b].phase = "detect" => ~page[b].settled

(* The dashboard says "All systems operational" (status/index.js:344) only *)
(* with the radios of both access points listed and its own radios on.     *)
GoodIsComplete ==
    \A b \in Browsers :
        page[b].phase = "open" /\ Hero(page[b].shown) = "good" =>
            /\ \A n \in Nodes : \E row \in Listed(page[b].shown.wireless) : row.node = n
            /\ \A row \in Listed(page[b].shown.wireless) : row.node = Host[b] => row.online

(* Every call ends, without counting on a time-out: with commands on both  *)
(* access points too, each waiting for the other (the comment at           *)
(* rg-ma2820-timezone:151-153).                                            *)
CallsEnd ==
    \A n \in Nodes : []<>(proc[n]["own"].pc = "idle") /\ []<>(\A i \in DOMAIN queue[n] : queue[n][i].kind = "poll")

(* A dashboard that stays open comes to show what its access point says,   *)
(* whatever commands fail or requests get lost.                            *)
ShownInTheEnd == <>[](\A b \in Browsers : page[b].phase = "open" => page[b].shown = View(Host[b]))
=============================================================================
