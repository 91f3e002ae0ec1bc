------------------------------ MODULE WebPages ------------------------------
(***************************************************************************)
(* The Wi-Fi page (wireless.js) and the cluster page (cluster.js) in the   *)
(* tabs of some browsers, and the rpcd plugin (rg-ma2820.uc) of the access *)
(* point that serves them.                                                 *)
(*                                                                         *)
(* A page is built once, from what status says when it is loaded: the form *)
(* and which options it offers are never brought up to date.  The part     *)
(* that shows the status is drawn again by a timer and after each command. *)
(* rpcd is one process; a call runs its helper to the end before the next  *)
(* is served.  A page may give up waiting while its call is queued or runs *)
(* (a time-out of the request, a lost connection): the call is still       *)
(* carried out, and nobody hears of it.  A command is one step here;       *)
(* SetWifi and ClusterApply have its parts.                                *)
(***************************************************************************)
EXTENDS WirelessForm, Naturals, Sequences, FiniteSets

CONSTANTS
    Tabs,            \* the tabs of the browsers
    Names,           \* names of clusters
    Starts,          \* the access points considered: profile, secrets, membership
    Others,          \* what others may turn the access point into meanwhile
    Edits,           \* the inputs a user may make: <<group, option, value>>
    Secret12,        \* shared secrets that are long enough
    NoTab, NoArgs, Failed, Done,
    MaxUses,         \* bound: inputs, buttons pressed, pages opened
    MaxFaults        \* bound: calls that fail or are given up, changes by others

VARIABLES
    ap,        \* the profile, the secrets and the cluster of the access point
    tabs,      \* the page in each tab
    queue,     \* the calls rpcd has yet to serve
    answers,   \* the answers on their way to a page
    uses, faults

counters == <<uses, faults>>
vars == <<ap, tabs, queue, answers, counters>>

Members == Names \cup {"standalone", "unsupported"}
AccessPoints == [profile : Profiles, secret : [Bss -> {"", "old", "new"}], member : Members]
ASSUME AccessPointAssumption == Starts \cup Others \subseteq AccessPoints
ASSUME EditsAssumption ==
    \A e \in Edits : e[1] \in DOMAIN Keys /\ e[2] \in Keys[e[1]] /\ e[3] \in Values[e[1]]
Statuses == [profile : Profiles, has : [Bss -> BOOLEAN], member : Members]
Buttons == {"action", "scan"}
Kinds == {"configure", "refresh", "configure_cluster", "joined", "acted", "poll"} \cup Buttons

(* What the status methods say: everything but the secrets.                *)
StatusOf(a) == [profile |-> a.profile, has |-> [b \in Bss |-> a.secret[b] # ""], member |-> a.member]
(* cluster_status of an access point whose helper failed reads as that of  *)
(* one that is in no cluster.                                              *)
Standalone(status) == [status EXCEPT !.member = "standalone"]

Enabled(status) == status.member \in Names
ScopeOf(status) == IF Enabled(status) THEN "cluster" ELSE "local"
(* The targets that are offered.                                           *)
Offered(status) == {"local"} \cup (IF Enabled(status) THEN {"cluster"} ELSE {})
                             \cup (IF status.member = "unsupported" THEN {"pair"} ELSE {})

(* loaded: what the page was built from; data: formData; form: the inputs; *)
(* has: the passwords that need not be typed; touched: what the user has   *)
(* changed; typed: the inputs of the cluster page; busy: the buttons that  *)
(* are disabled.                                                           *)
Fields(status) == [name |-> IF Enabled(status) THEN status.member ELSE "", secret |-> ""]
Page(page, status) ==
    LET data == NormalizeFormData(status.profile, ScopeOf(status)) IN
    [page |-> page, loaded |-> status, data |-> data, form |-> data, has |-> status.has, touched |-> {},
     typed |-> Fields(status), shown |-> status, modal |-> FALSE, busy |-> {}]

(* The cluster page comes with the community build.                        *)
Pages == {"wireless", "cluster"}
MayOpen(page) == page = "cluster" => ap.member # "unsupported"

Init ==
    /\ ap \in Starts
    /\ \E page \in [Tabs -> Pages] :
          /\ tabs = [t \in Tabs |-> Page(page[t], StatusOf(ap))]
          /\ \A t \in Tabs : MayOpen(page[t])
    /\ queue = <<>> /\ answers = {}
    /\ uses = 0 /\ faults = 0

Fault == faults < MaxFaults /\ faults' = faults + 1 /\ UNCHANGED uses
NoFault == UNCHANGED counters
Use == uses < MaxUses /\ uses' = uses + 1 /\ UNCHANGED faults

Call(t, kind, args) ==
    [tab |-> t, kind |-> kind, args |-> args, has |-> tabs[t].has]
Ask(t, kind, args) == queue' = Append(queue, Call(t, kind, args))

-----------------------------------------------------------------------------
(* What users do.                                                          *)

(* load() and the first rendering.  What the tab was waiting for before    *)
(* goes to nobody.                                                         *)
Open(t, page) ==
    /\ Use /\ MayOpen(page)
    /\ tabs' = [tabs EXCEPT ![t] = Page(page, StatusOf(ap))]
    /\ queue' = [i \in DOMAIN queue |-> IF queue[i].tab = t THEN [queue[i] EXCEPT !.tab = NoTab] ELSE queue[i]]
    /\ answers' = {a \in answers : a.tab # t}
    /\ UNCHANGED ap

On(t, page) == tabs[t].page = page /\ ~tabs[t].modal

(* An option of the Wi-Fi form.                                            *)
Edit(t, g, k, value) ==
    /\ Use /\ On(t, "wireless")
    /\ Shown(tabs[t].form, g, k)
    /\ tabs[t].form[g][k] # value
    /\ g = "target" => value \in Offered(tabs[t].loaded)
    /\ tabs' = [tabs EXCEPT ![t].form[g][k] = value, ![t].touched = @ \cup {<<g, k>>}]
    /\ UNCHANGED <<ap, queue, answers>>

(* The inputs of the cluster page.                                         *)
Type(t, field, value) ==
    /\ Use /\ On(t, "cluster")
    /\ tabs[t].typed[field] # value
    /\ tabs' = [tabs EXCEPT ![t].typed[field] = value]
    /\ UNCHANGED <<ap, queue, answers>>

(* handleSaveApply.  LuCI draws the form again from the data, which undoes *)
(* what was typed in an option that has been hidden since.                 *)
Save(t) ==
    /\ Use /\ On(t, "wireless")
    /\ PageAccepts(tabs[t].form, tabs[t].has)
    /\ LET sent == Parsed(tabs[t].form, tabs[t].data) IN
       /\ tabs' = [tabs EXCEPT ![t].data = sent, ![t].form = sent, ![t].has = tabs[t].loaded.has,
                               ![t].modal = TRUE]
       /\ Ask(t, "configure", sent)
    /\ UNCHANGED <<ap, answers>>

(* apply(enabled) of the cluster page.                                     *)
Apply(t, enabled) ==
    /\ Use /\ On(t, "cluster")
    /\ IF enabled THEN tabs[t].typed.name \in Names /\ tabs[t].typed.secret \in Secret12
                  ELSE Enabled(tabs[t].shown)
    /\ tabs' = [tabs EXCEPT ![t].modal = TRUE]
    /\ Ask(t, "configure_cluster", IF enabled THEN tabs[t].typed.name ELSE "standalone")
    /\ UNCHANGED <<ap, answers>>

(* handleAction, handleScan: the buttons below the form.                   *)
Press(t, button) ==
    /\ Use /\ On(t, "wireless") /\ button \notin tabs[t].busy
    /\ tabs' = [tabs EXCEPT ![t].busy = @ \cup {button}]
    /\ Ask(t, button, NoArgs)
    /\ UNCHANGED <<ap, answers>>

(* The timer of the page: a poll begins when the one before has ended.     *)
Poll(t) ==
    /\ ~\E i \in DOMAIN queue : queue[i].tab = t /\ queue[i].kind = "poll"
    /\ ~\E a \in answers : a.tab = t /\ a.kind = "poll"
    /\ Ask(t, "poll", NoArgs)
    /\ NoFault /\ UNCHANGED <<ap, tabs, answers>>

-----------------------------------------------------------------------------
(* rpcd.                                                                   *)

Turn(kinds) == queue # <<>> /\ Head(queue).kind \in kinds
Reply(answer) ==
    LET c == Head(queue) IN
    /\ queue' = Tail(queue)
    /\ answers' = IF c.tab = NoTab THEN answers
                  ELSE answers \cup {[tab |-> c.tab, kind |-> c.kind, answer |-> answer]}
    /\ UNCHANGED tabs

(* A profile for the cluster needs a cluster, one for the pair a peer.     *)
MayTarget(member, scope) ==
    /\ scope = "cluster" => member \in Names
    /\ scope = "pair" => member = "unsupported"

(* configure                                                               *)
ServeConfigure ==
    /\ Turn({"configure"}) /\ NoFault
    /\ LET form == Head(queue).args IN
       IF MayTarget(ap.member, form.target["scope"]) /\ Agrees(form, ap.secret)
       THEN /\ ap' = [ap EXCEPT !.profile = Normalized(Profile(form)), !.secret = Secrets(form, ap.secret)]
            /\ Reply(Done)
       ELSE Reply(Failed) /\ UNCHANGED ap

(* configure_cluster                                                       *)
ServeCluster ==
    /\ Turn({"configure_cluster"}) /\ NoFault
    /\ ap' = [ap EXCEPT !.member = Head(queue).args]
    /\ Reply(Done)

(* status, cluster_status                                                  *)
ServeStatus ==
    /\ Turn({"refresh", "joined", "acted", "poll"}) /\ NoFault
    /\ Reply(StatusOf(ap))
    /\ UNCHANGED ap

(* action, scan                                                            *)
ServeAction == Turn(Buttons) /\ NoFault /\ Reply(Done) /\ UNCHANGED ap

(* A helper fails, or a command is refused and has undone what it did.     *)
ServeFails == queue # <<>> /\ Fault /\ Reply(Failed) /\ UNCHANGED ap

-----------------------------------------------------------------------------
(* What a page does with an answer.                                        *)

(* The status of the cluster page holds its inputs, which are drawn again  *)
(* too; a failed helper shows as an access point without a cluster.        *)
RenderedCluster(tab, answer) ==
    LET status == IF answer = Failed THEN Standalone(tab.shown) ELSE answer IN
    [tab EXCEPT !.shown = status, !.typed = Fields(status)]
(* Variant: the cluster page is drawn again only with a cluster to show. *)
RenderedInCluster(tab, answer) ==
    IF tab.page = "wireless" THEN [tab EXCEPT !.shown = answer]
    ELSE IF answer = Failed \/ ~Enabled(answer) THEN tab
    ELSE [tab EXCEPT !.shown = answer, !.typed = Fields(answer)]
(* updateStatus, renderStatus.                                             *)
Rendered(tab, answer) ==
    IF tab.page = "cluster" THEN RenderedCluster(tab, answer)
    ELSE [tab EXCEPT !.shown = answer]

(* The data forget the passwords.  The form is not drawn again: a text     *)
(* that is left in it is not sent once more, since LuCI passes on only     *)
(* what has changed since it drew an input, but it satisfies the validator.*)
NoPasswords(form) == [form EXCEPT !.password = [b \in Bss |-> ""]]
Forgotten(tab) ==
    [tab EXCEPT !.data = NoPasswords(@), !.form = NoPasswords(@),
                !.has = [b \in Bss |-> tab.has[b] \/ tab.form.password[b] # ""]]

(* Variant: the failing branch leaves the modal. *)
EndedShowing(tab, kind) ==
    CASE kind \in Buttons -> [tab EXCEPT !.busy = @ \ {kind}]
      [] kind = "acted" -> [tab EXCEPT !.busy = @ \ {"action"}]
      [] kind = "refresh" -> [tab EXCEPT !.modal = FALSE]
      [] OTHER -> tab
(* catch and finally                                                       *)
Ended(tab, kind) ==
    CASE kind \in Buttons -> [tab EXCEPT !.busy = @ \ {kind}]
      [] kind = "acted" -> [tab EXCEPT !.busy = @ \ {"action"}]
      [] kind \in {"configure", "refresh", "configure_cluster", "joined"} -> [tab EXCEPT !.modal = FALSE]
      [] OTHER -> tab

Answered(t, kinds, answer) ==
    \E a \in answers :
        /\ a.tab = t /\ a.kind \in kinds /\ a.answer = answer
        /\ answers' = answers \ {a}
        /\ NoFault /\ UNCHANGED ap

(* A command that succeeded is followed by a status call.                  *)
Then(t, kind, next) ==
    /\ Answered(t, {kind}, Done)
    /\ Ask(t, next, NoArgs)

ConfigureDone(t) ==
    /\ Then(t, "configure", "refresh")
    /\ tabs' = [tabs EXCEPT ![t] = [Forgotten(@) EXCEPT !.modal = FALSE]]
ClusterDone(t) == Then(t, "configure_cluster", "joined") /\ UNCHANGED tabs
ActionDone(t) == Then(t, "action", "acted") /\ UNCHANGED tabs
ScanDone(t) ==
    /\ Answered(t, {"scan"}, Done)
    /\ tabs' = [tabs EXCEPT ![t] = Ended(@, "scan")]
    /\ UNCHANGED queue
CommandFailed(t, kind) ==
    /\ Answered(t, {kind}, Failed)
    /\ tabs' = [tabs EXCEPT ![t] = Ended(@, kind)]
    /\ UNCHANGED queue

(* The answer of a status call, in the refresh after a command or a poll.  *)
Refresh(t, kind) ==
    /\ \E s \in {a.answer : a \in answers} :
          /\ Answered(t, {kind}, s)
          /\ tabs' = [tabs EXCEPT ![t] = Ended(Rendered(@, s), kind)]
    /\ UNCHANGED queue

(* The request ends without an answer.                                     *)
GiveUp(i) ==
    LET c == queue[i] IN
    /\ Fault /\ c.tab # NoTab
    /\ queue' = [queue EXCEPT ![i].tab = NoTab]
    /\ tabs' = [tabs EXCEPT ![c.tab] = Ended(@, c.kind)]
    /\ UNCHANGED <<ap, answers>>

(* A command on the access point itself, or one that came from another     *)
(* member or from the peer.                                                *)
OtherChange ==
    /\ Fault
    /\ \E a \in Others : ap' = a
    /\ (ap'.member = "unsupported") = (ap.member = "unsupported")
    /\ UNCHANGED <<tabs, queue, answers>>

-----------------------------------------------------------------------------
Commands == {"configure", "configure_cluster"} \cup Buttons
Reads == {"refresh", "joined", "acted", "poll"}
User(t) ==
    \/ \E page \in Pages : Open(t, page)
    \/ \E e \in Edits : Edit(t, e[1], e[2], e[3])
    \/ \E name \in Names : Type(t, "name", name)
    \/ \E secret \in Secret12 : Type(t, "secret", secret)
    \/ Save(t)
    \/ \E enabled \in BOOLEAN : Apply(t, enabled)
    \/ \E button \in Buttons : Press(t, button)
Serve == ServeConfigure \/ ServeCluster \/ ServeStatus \/ ServeAction
HandleCommand(t) ==
    ConfigureDone(t) \/ ClusterDone(t) \/ ActionDone(t) \/ ScanDone(t)
        \/ \E kind \in Commands : CommandFailed(t, kind)

Next ==
    \/ \E t \in Tabs : User(t) \/ Poll(t) \/ HandleCommand(t) \/ \E kind \in Reads : Refresh(t, kind)
    \/ Serve \/ ServeFails \/ OtherChange
    \/ \E i \in DOMAIN queue : GiveUp(i)

Spec == Init /\ [][Next]_vars

(* rpcd serves what it is given, a page's timer and its callbacks run.     *)
FairSpec ==
    /\ Spec /\ WF_vars(Serve)
    /\ \A t \in Tabs : /\ WF_vars(Poll(t)) /\ WF_vars(HandleCommand(t))
                       /\ \A kind \in Reads : WF_vars(Refresh(t, kind))
-----------------------------------------------------------------------------
(* Every variable keeps its range. *)
TypeOK ==
    /\ ap \in AccessPoints
    /\ \A t \in Tabs : /\ tabs[t].page \in Pages
                       /\ tabs[t].loaded \in Statuses
                       /\ tabs[t].shown \in Statuses \cup {Failed}
                       /\ tabs[t].busy \subseteq Buttons
    /\ \A i \in DOMAIN queue : queue[i].tab \in Tabs \cup {NoTab} /\ queue[i].kind \in Kinds
    /\ \A a \in answers : a.tab \in Tabs /\ a.kind \in Kinds

(* The page and set-wifi check alike (wireless.js:127-175 and 438-601,     *)
(* set-wifi:273-346): a profile that has passed the page is refused only   *)
(* for what the page could not see (a secret or a cluster it knew of that  *)
(* has gone) or does not check (a fraction in a number, which the ranges   *)
(* of LuCI take and set-wifi:45-55 does not, the country typed freely, the *)
(* values of options that are hidden).                                     *)
Unseen(c) ==
    \/ ~Checked(c.args)
    \/ \E b \in Bss : c.has[b] /\ ap.secret[b] \in {"", "malformed"}
    \/ ~MayTarget(ap.member, c.args.target["scope"])
RefusedOnlyUnseen ==
    \A i \in DOMAIN queue :
        queue[i].kind = "configure" => Unseen(queue[i]) \/ Agrees(queue[i].args, ap.secret)

(* An option nobody has touched is sent as it was loaded, also when the    *)
(* radio or the feature it belongs to is switched off and the page hides   *)
(* it: "Hidden options are still part of the complete atomic profile"      *)
(* (wireless.js:602).                                                      *)
UntouchedKept ==
    [][\A t \in Tabs :
        (Len(queue') > Len(queue) /\ queue'[Len(queue')].tab = t /\ queue'[Len(queue')].kind = "configure")
        => LET sent == queue'[Len(queue')].args IN
           \A g \in DOMAIN ProfileKeys : \A k \in ProfileKeys[g] :
               <<g, k>> \notin tabs[t].touched => sent[g][k] = tabs[t].loaded.profile[g][k]]_vars

(* Whatever fails, the spinning modal goes and the buttons come back       *)
(* (wireless.js:203-208, 223-228, 650-660; cluster.js:53-62).              *)
OperationsEnd == \A t \in Tabs : []<>(~tabs[t].modal /\ tabs[t].busy = {})

(* What a page shows becomes what the access point is, whatever was        *)
(* answered late, in another order or not at all.                          *)
ShowsAp(tab) ==
    /\ tab.page = "wireless" => tab.shown = StatusOf(ap)
    /\ tab.page = "cluster" => tab.shown.member = ap.member
ShownInTheEnd == <>[](\A t \in Tabs : ShowsAp(tabs[t]))
=============================================================================
