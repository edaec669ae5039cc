---------------------------- MODULE HiveUpgrade ----------------------------
(***************************************************************************)
(* The upgrade of a standalone cluster, one hub call per step.  The hub     *)
(* reaches the cluster's ClusterVersion through two objects in the          *)
(* cluster's namespace: a ManagedClusterView, into which the cluster's      *)
(* agent copies the ClusterVersion in its own time, and a                   *)
(* ManagedClusterAction, which the agent carries out once.  upgrade-cluster *)
(* and the two EUS steps read the one and create the other, in a number of  *)
(* attempts; monitor-upgrade polls the view.                                *)
(*                                                                          *)
(* Both objects have fixed names and outlive the container that made them.  *)
(* Implements UpgradeCycle.  The Job runs undisturbed by the controller     *)
(* (CuratorLifecycle), and users edit between Jobs.                         *)
(***************************************************************************)
EXTENDS Integers, CuratorObject

CONSTANTS
    Requests,       \* the values the user gives spec.upgrade
    StartVersions,  \* the versions the cluster may start at
    Updates,        \* the updates offered to a cluster, by the version it runs
    Channels,       \* the channels a cluster may be put on
    EUSChannel,     \* the channel of the final version of an EUS upgrade
    ForcedRequests, \* the requests made with upgrade-allow-not-recommended-versions
    PrintedIn,      \* pairs <<v, w>>: the text of version v is part of that of w
    ForeignView,    \* may somebody else have a view of the cluster's name?
    BackoffLimit,   \* upgrade-clusterversion-backoff-limit
    WaitPolls,      \* the polls for a view's or an action's result (5 in the code)
    MonitorPolls,   \* the polls of monitor-upgrade (monitorTimeout)
    MaxEdits,       \* bound: edits of spec.upgrade
    MaxFaults       \* bound: failed API calls

ASSUME RequestsAssumption ==
    /\ Requests \subseteq Request
    /\ ForcedRequests \subseteq Requests
ASSUME ClusterAssumption ==
    /\ StartVersions \subseteq Nat \ ({0} \cup Malformed)
    /\ DOMAIN Updates \subseteq Nat
    /\ \A v \in DOMAIN Updates : Updates[v] \subseteq Nat \ {0}
    /\ Channels \subseteq Names
    /\ EUSChannel \in Names
    /\ PrintedIn \subseteq Nat \X Nat
ASSUME BoundAssumption ==
    /\ ForeignView \in BOOLEAN
    /\ BackoffLimit \in 1 .. 100
    /\ WaitPolls \in Nat \ {0}
    /\ MonitorPolls \in Nat \ {0}
    /\ MaxEdits \in Nat
    /\ MaxFaults \in Nat

VARIABLES
    request,    \* spec.upgrade
    cond,       \* the clustercurator-job condition
    last,       \* the request the last finished Job printed (history)
    edits,
    mci,        \* the version the ManagedClusterInfo shows, {} when there is none
    cv,         \* the cluster's ClusterVersion
    view,       \* the ManagedClusterViews, by name
    action,     \* the ManagedClusterActions, by name
    asked,      \* the versions actions were created for (history)
    todo,       \* the containers left of the Job, the current one first
    at,         \* where that container is
    faults

hubVars == <<view, action>>
jobVars == <<cond, last, todo>>
userVars == <<request, edits>>
vars == <<request, cond, last, edits, mci, cv, view, action, asked, todo, at, faults>>

\* Named clusterName and clusterName + "admack", the admin-acks ConfigMap's.
Objects == {"cluster", "admack"}

\* rv 0: not read yet.
ClusterVersion == [rv : Nat, version : Nat, desired : Nat, channel : Names, upstream : Names]

NotRead == [rv |-> 0, version |-> NoVersion, desired |-> NoVersion, channel |-> "",
            upstream |-> ""]

View == [there : BOOLEAN, ours : BOOLEAN, result : ClusterVersion]

NoView == [there |-> FALSE, ours |-> FALSE, result |-> NotRead]

Action == [there : BOOLEAN, template : ClusterVersion, outcome : {"none", "done", "failed"}]

NoAction == [there |-> FALSE, template |-> NotRead, outcome |-> "none"]

Calls == {"rest", "validate", "view", "wait", "act", "await", "delete", "monitor",
          "forget", "close"}

\* attempt 0 is what comes before the attempts; well: has the work been done?
Place == [call : Calls, of : Objects, attempt : 0 .. BackoffLimit,
          polls : 0 .. WaitPolls + MonitorPolls, seen : ClusterVersion, well : BOOLEAN]

Begin(call) == [call |-> call, of |-> "cluster", attempt |-> 0, polls |-> 0,
                seen |-> NotRead, well |-> FALSE]

TypeOK ==
    /\ request \in Request
    /\ last \in Request
    /\ edits \in 0 .. MaxEdits
    /\ mci \in SUBSET Nat
    /\ cv \in ClusterVersion
    /\ view \in [Objects -> View]
    /\ action \in [Objects -> Action]
    /\ asked \in SUBSET Nat
    /\ todo \in Seq(Steps)
    /\ at \in Place
    /\ faults \in 0 .. MaxFaults

MonitorSteps == {"monitor-upgrade", "intermediate-monitor-upgrade"}

\* The phase of UpgradeCycle.
phase ==
    CASE todo = <<>> -> "idle"
      [] todo # <<>> /\ Head(todo) = "monitor-upgrade" -> "monitoring"
      [] todo # <<>> /\ Head(todo) = "done" -> "closing"
      [] OTHER -> "launched"

Cycle == INSTANCE UpgradeCycle WITH cluster <- cv.version, MidRunEdits <- FALSE

Init ==
    /\ request \in Requests
    /\ cond = Cycle!Absent
    /\ last = NoRequest
    /\ edits = 0
    /\ \E v \in StartVersions : cv = [NotRead EXCEPT !.rv = 1, !.version = v]
    /\ mci \in {{}, {cv.version}}
    /\ \E foreign \in {FALSE, ForeignView} :
          view = [n \in Objects |->
                    IF foreign /\ n = "cluster" THEN [NoView EXCEPT !.there = TRUE] ELSE NoView]
    /\ action = [n \in Objects |-> NoAction]
    /\ asked = {}
    /\ todo = <<>>
    /\ at = Begin("rest")
    /\ faults = 0

-----------------------------------------------------------------------------
(* A Job and its containers.                                                *)

Edit(r) ==
    /\ edits < MaxEdits
    /\ todo = <<>>
    /\ r # request
    /\ Admitted(request, r)
    /\ request' = r
    /\ edits' = edits + 1
    /\ UNCHANGED <<cond, last, mci, cv, view, action, asked, todo, at, faults>>

FirstCall(step) ==
    CASE step = "done" -> "close"
      [] step \in MonitorSteps -> "monitor"
      [] OTHER -> "validate"

Launch ==
    LET steps == Containers([desired |-> "upgrade", op |-> "nil", upgrade |-> request], {})
    IN  /\ todo = <<>>
        /\ NeedToUpgrade(request, cond, mci) = "yes"
        /\ todo' = steps
        /\ at' = Begin(FirstCall(Head(steps)))
        /\ cond' = Cycle!Running
        /\ UNCHANGED <<request, last, edits, mci, cv, view, action, asked, faults>>

\* The container goes on.
GoOn(place) == at' = place /\ UNCHANGED jobVars

\* The container ends well and the next begins.
Succeed ==
    /\ todo' = Tail(todo)
    /\ at' = Begin(FirstCall(Head(Tail(todo))))
    /\ UNCHANGED <<cond, last>>

\* The container fails, and the Job with it; what it left on the hub stays.
Fail ==
    /\ todo' = <<>>
    /\ at' = Begin("rest")
    /\ cond' = Cycle!Finished(TRUE, request)
    /\ last' = request

EUSStep == Head(todo) \in EUSSteps

Intermediate ==
    Head(todo) \in {"intermediate-upgrade-cluster", "intermediate-monitor-upgrade"}

Target == IF Intermediate THEN request.intermediate ELSE request.version

Forced == request \in ForcedRequests

Remote == UNCHANGED <<request, edits, mci, cv, faults>>

-----------------------------------------------------------------------------
(* Validation.                                                              *)

ChannelValid == request.channel \in Channels \cup {""}

\* validateUpgradeVersion, from the ManagedClusterInfo alone.
AlreadyAtVersion == request.version # NoVersion /\ request.version \in mci

Valid ==
    /\ mci # {}
    /\ <<request.version, request.channel, request.upstream>> # <<NoVersion, "", "">>
    /\ Forced \/ /\ request.version \in {NoVersion} \cup UNION {Updates[m] : m \in mci}
                 /\ ChannelValid

Major(v) == v \div 1000
Minor(v) == (v \div 100) % 10

\* validateEUSUpgradeVersion.
EUSValid ==
    LET final == request.version
        inter == request.intermediate
    IN  /\ {final, inter} \cap Malformed = {}
        /\ final > inter
        /\ mci # {}
        /\ \A m \in mci :
              /\ Major(inter) = Major(m) /\ Major(final) = Major(m)
              /\ Intermediate => /\ inter > m
                                 /\ Minor(inter) = Minor(m) + 1
                                 /\ Minor(final) = Minor(m) + 2

\* A cluster at its version ends the container at once; a forced upgrade and an EUS
\* step read a view before their first attempt.
Validate ==
    /\ at.call = "validate"
    /\ IF EUSStep
       THEN IF EUSValid THEN GoOn([at EXCEPT !.call = "view", !.of = "admack"]) ELSE Fail
       ELSE CASE AlreadyAtVersion -> Succeed
              [] ~AlreadyAtVersion /\ ~Valid -> Fail
              [] ~AlreadyAtVersion /\ Valid ->
                    GoOn([at EXCEPT !.call = "view", !.attempt = IF Forced THEN 0 ELSE 1])
    /\ Remote /\ UNCHANGED <<view, action, asked>>

-----------------------------------------------------------------------------
(* An attempt: view, action, result.                                        *)

\* The view is created unless there is one of its name.
EnsureView ==
    /\ at.call = "view"
    /\ view' = IF view[at.of].there THEN view
               ELSE [view EXCEPT ![at.of] = [NoView EXCEPT !.there = TRUE, !.ours = TRUE]]
    /\ GoOn([at EXCEPT !.call = "wait", !.polls = 0])
    /\ Remote /\ UNCHANGED <<action, asked>>

\* Once a view has shown its result: the attempts' action; before them, the EUS
\* steps' ClusterVersion and admin-acks, and the channel of a forced upgrade.
AfterView ==
    CASE at.attempt > 0 -> GoOn([at EXCEPT !.call = "act", !.seen = view[at.of].result])
      [] at.attempt = 0 /\ EUSStep /\ at.of = "admack" ->
            GoOn([at EXCEPT !.call = "view", !.of = "cluster"])
      [] at.attempt = 0 /\ EUSStep /\ at.of = "cluster" ->
            GoOn([at EXCEPT !.call = "act", !.of = "admack"])
      [] at.attempt = 0 /\ ~EUSStep ->
            IF ChannelValid THEN GoOn([at EXCEPT !.call = "view", !.attempt = 1]) ELSE Fail

\* waitForMCV, one poll.
WaitForView ==
    LET v == view[at.of]
    IN  /\ at.call = "wait"
        /\ CASE ~v.ours -> Fail
             [] v.ours /\ v.result # NotRead -> AfterView
             [] v.ours /\ v.result = NotRead ->
                   IF at.polls + 1 < WaitPolls THEN GoOn([at EXCEPT !.polls = @ + 1]) ELSE Fail
        /\ Remote /\ UNCHANGED <<view, action, asked>>

\* The ClusterVersion the action writes: the one seen, with the request in it.
VersionTemplate ==
    LET or(new, old) == IF new = "" THEN old ELSE new
    IN  [at.seen EXCEPT
            !.desired = IF Forced \/ Target \in Updates[at.seen.version] THEN Target ELSE @,
            !.channel = or(request.channel, @),
            !.upstream = or(request.upstream, @)]

\* That of an EUS step: always forced, and on the final version's channel at the end.
EUSTemplate ==
    [at.seen EXCEPT !.desired = Target,
                    !.channel = IF Intermediate THEN @ ELSE EUSChannel]

Template == IF EUSStep THEN EUSTemplate ELSE VersionTemplate

\* An action of the name that is still there makes the creation fail.
CreateAction ==
    /\ at.call = "act"
    /\ IF action[at.of].there
       THEN Fail /\ UNCHANGED <<action, asked>>
       ELSE /\ action' = [action EXCEPT ![at.of] = [NoAction EXCEPT !.there = TRUE,
                            !.template = IF at.of = "cluster" THEN Template ELSE NotRead]]
            /\ asked' = IF at.of = "cluster" /\ Template.desired # NoVersion
                        THEN asked \cup {Template.desired} ELSE asked
            /\ GoOn([at EXCEPT !.call = "await", !.polls = 0])
    /\ Remote /\ UNCHANGED view

\* MUTANT: one attempt more than the limit.
OneTooMany == at.attempt <= BackoffLimit

MoreAttempts == at.attempt < BackoffLimit

\* What the result of the action, "none" after the last poll, leads to.  The EUS steps
\* do not delete the action that did its work.
Judge(outcome) ==
    CASE outcome = "done" /\ EUSStep /\ at.attempt > 0 -> Succeed
      [] outcome = "done" /\ ~(EUSStep /\ at.attempt > 0) ->
            GoOn([at EXCEPT !.call = "delete", !.well = TRUE])
      [] outcome # "done" /\ at.attempt > 0 /\ MoreAttempts ->
            GoOn([at EXCEPT !.call = "delete"])
      [] outcome # "done" /\ ~(at.attempt > 0 /\ MoreAttempts) -> Fail

\* MUTANT: the polls for the action's result are not counted.
PollsForever ==
    /\ at.call = "await"
    /\ action[at.of].outcome # "none"
    /\ Judge(action[at.of].outcome)
    /\ Remote /\ UNCHANGED <<view, action, asked>>

\* One poll for the action's result.  An action that is gone is an error at the last.
AwaitAction ==
    LET a == action[at.of]
    IN  /\ at.call = "await"
        /\ CASE a.there /\ a.outcome # "none" -> Judge(a.outcome)
             [] ~(a.there /\ a.outcome # "none") /\ at.polls + 1 < WaitPolls ->
                   GoOn([at EXCEPT !.polls = @ + 1])
             [] a.there /\ a.outcome = "none" /\ at.polls + 1 = WaitPolls -> Judge("none")
             [] ~a.there /\ at.polls + 1 = WaitPolls -> Fail
        /\ Remote /\ UNCHANGED <<view, action, asked>>

\* The action is deleted before the next attempt, or before the end.
DeleteAction ==
    /\ at.call = "delete"
    /\ IF ~action[at.of].there THEN Fail
       ELSE IF at.attempt > 0 /\ at.well THEN Succeed
       ELSE GoOn([Begin("view") EXCEPT !.attempt = at.attempt + 1])
    /\ action' = [action EXCEPT ![at.of] = NoAction]
    /\ Remote /\ UNCHANGED <<view, asked>>

-----------------------------------------------------------------------------
(* MonitorUpgradeStatus.                                                    *)

\* MUTANT: strings.Contains with its arguments swapped.
PrintsSwapped(shown, v) == shown = v \/ <<shown, v>> \in PrintedIn

\* "Available" is True with a message that contains the version.
Prints(shown, v) == shown = v \/ <<v, shown>> \in PrintedIn

\* What monitor-upgrade looks for: the version, or if none was asked the channel or
\* the upstream.
Fulfilled(shown) ==
    IF Target # NoVersion THEN Prints(shown.version, Target)
    ELSE \/ request.channel # "" /\ shown.channel = request.channel
         \/ request.upstream # "" /\ shown.upstream = request.upstream

\* One poll.  A view without a result panics.  At the last poll a version is given up,
\* even one that is shown if another condition comes first; a channel is not.  It is
\* given up on any condition but Available, and a ClusterVersion always has others.
MonitorUpgrade ==
    LET v      == view["cluster"]
        isLast == at.polls + 1 = MonitorPolls
        Forget(well) == GoOn([at EXCEPT !.call = "forget", !.well = well])
    IN  /\ at.call = "monitor"
        /\ \/ v.there /\ (~v.ours \/ v.result = NotRead) /\ Fail
           \/ ~v.there /\ isLast /\ Fail
           \/ /\ v.ours /\ v.result # NotRead
              /\ \/ Fulfilled(v.result) /\ Forget(TRUE)
                 \/ isLast /\ Target # NoVersion /\ Forget(FALSE)
                 \/ isLast /\ Target = NoVersion /\ Forget(TRUE)
           \/ /\ ~isLast
              /\ ~v.there \/ (v.ours /\ v.result # NotRead /\ ~Fulfilled(v.result))
              /\ GoOn([at EXCEPT !.polls = @ + 1])
        /\ Remote /\ UNCHANGED <<view, action, asked>>

\* MUTANT: the timeout is not returned.
ForgetsTimeout ==
    /\ at.call = "forget"
    /\ view' = [view EXCEPT !["cluster"] = NoView]
    /\ Succeed
    /\ Remote /\ UNCHANGED <<action, asked>>

\* The view is deleted, and the timeout returned if there was one.
ForgetView ==
    /\ at.call = "forget"
    /\ view' = [view EXCEPT !["cluster"] = NoView]
    /\ IF at.well THEN Succeed ELSE Fail
    /\ Remote /\ UNCHANGED <<action, asked>>

\* done.
Close ==
    /\ at.call = "close"
    /\ todo' = <<>>
    /\ at' = Begin("rest")
    /\ cond' = Cycle!Finished(FALSE, request)
    /\ last' = request
    /\ Remote /\ UNCHANGED <<view, action, asked>>

\* A poll's Get fails: the loops go on to the next, and monitor-upgrade deletes the view
\* it saw before it returns the error of the last.
PollFails ==
    LET isLast == at.polls + 1 = IF at.call = "monitor" THEN MonitorPolls ELSE WaitPolls
    IN  /\ at.call \in {"wait", "await", "monitor"}
        /\ faults < MaxFaults
        /\ faults' = faults + 1
        /\ \/ ~isLast /\ GoOn([at EXCEPT !.polls = @ + 1])
           \/ /\ isLast /\ at.call = "monitor" /\ at.polls > 0 /\ view["cluster"].there
              /\ GoOn([at EXCEPT !.call = "forget", !.well = FALSE])
        /\ UNCHANGED <<request, edits, mci, cv, view, action, asked>>

\* Any other API call of the container fails, and the failure is reported.  (A killed
\* pod reports nothing and leaves its Job's name behind: CuratorLifecycle!KillPod.)
CallFails ==
    /\ todo # <<>>
    /\ faults < MaxFaults
    /\ faults' = faults + 1
    /\ Fail
    /\ UNCHANGED <<request, edits, mci, cv, view, action, asked>>

-----------------------------------------------------------------------------
(* The managed cluster.                                                     *)

Snapshot(n) == IF n = "cluster" THEN cv ELSE [NotRead EXCEPT !.rv = 1]

RefreshView(n) ==
    /\ view[n].ours
    /\ view[n].result # Snapshot(n)
    /\ view' = [view EXCEPT ![n].result = Snapshot(n)]
    /\ UNCHANGED <<request, cond, last, edits, mci, cv, action, asked, todo, at, faults>>

\* The agent updates the resource, which fails if the template is of another version
\* than the live one, and may fail in any case.
RunAction(n) ==
    LET t   == action[n].template
        new == [cv EXCEPT !.desired = t.desired, !.channel = t.channel, !.upstream = t.upstream]
    IN  /\ action[n].there
        /\ action[n].outcome = "none"
        /\ \/ /\ n = "cluster" => t.rv = cv.rv
              /\ action' = [action EXCEPT ![n].outcome = "done"]
              /\ cv' = IF n = "cluster" /\ new # cv THEN [new EXCEPT !.rv = @ + 1] ELSE cv
           \/ action' = [action EXCEPT ![n].outcome = "failed"] /\ UNCHANGED cv
        /\ UNCHANGED <<request, cond, last, edits, mci, view, asked, todo, at, faults>>

\* The hub removes actions that were carried out.
ExpireAction(n) ==
    /\ action[n].there
    /\ action[n].outcome # "none"
    /\ action' = [action EXCEPT ![n] = NoAction]
    /\ UNCHANGED <<request, cond, last, edits, mci, cv, view, asked, todo, at, faults>>

\* The cluster only moves to later versions.
ReachVersion ==
    /\ cv.desired \notin Malformed
    /\ cv.desired > cv.version
    /\ cv' = [cv EXCEPT !.version = cv.desired, !.rv = @ + 1]
    /\ UNCHANGED <<request, cond, last, edits, mci, view, action, asked, todo, at, faults>>

RefreshMCI ==
    /\ mci # {cv.version}
    /\ mci' = {cv.version}
    /\ UNCHANGED <<request, cond, last, edits, cv, view, action, asked, todo, at, faults>>

-----------------------------------------------------------------------------
Container ==
    \/ Validate
    \/ EnsureView \/ WaitForView \/ CreateAction \/ AwaitAction \/ DeleteAction
    \/ MonitorUpgrade \/ ForgetView
    \/ Close

ManagedCluster ==
    \/ \E n \in Objects : RefreshView(n) \/ RunAction(n) \/ ExpireAction(n)
    \/ ReachVersion \/ RefreshMCI

Next ==
    \/ \E r \in Requests : Edit(r)
    \/ Launch
    \/ Container
    \/ PollFails \/ CallFails
    \/ ManagedCluster

\* Containers keep going; the managed cluster may be gone.
Spec == Init /\ [][Next]_vars /\ WF_vars(Container)

-----------------------------------------------------------------------------
\* The calls, attempts and polls of the containers, with views and actions that may be
\* stale, late or left over, carry out UpgradeCycle: above all, monitor-upgrade ends
\* well only when the cluster has reached the version, and the cluster only ever
\* moves to a version a container asked for (hive.go:274-344 and 605-700).
ImplementsCycle == Cycle!Spec

\* An EUS upgrade asks for the final version only of a cluster that has run the
\* intermediate one, over failures, retries and actions carried out late
\* (hive.go:346-603, job.go:177-201).
EUSInOrder ==
    [][/\ request.intermediate # NoVersion
       /\ cv'.desired # cv.desired
       /\ cv'.desired = request.version
       => cv.version >= request.intermediate]_vars

\* Every Job ends, though the managed cluster never answer: no loop waits for it
\* (hive.go:622-690, 847-875 and 1087-1105).
JobsEnd == todo # <<>> ~> todo = <<>>
=============================================================================
