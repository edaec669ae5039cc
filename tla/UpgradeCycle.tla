---------------------------- MODULE UpgradeCycle ----------------------------
(***************************************************************************)
(* One cluster's upgrades, one curation after the other: the user edits     *)
(* spec.upgrade, the controller asks NeedToUpgrade and launches a Job, the  *)
(* Job's containers (upgrade-cluster, monitor-upgrade, done) each read the  *)
(* ClusterCurator anew, and the last of them prints the request it reads    *)
(* into the condition that the next NeedToUpgrade is asked about.           *)
(*                                                                          *)
(* The concurrency of controller, cache and pods is CuratorLifecycle's, and *)
(* how a container asks the cluster is HiveUpgrade's, which implements this *)
(* module: the steps here are whole reconciles and whole containers.  What  *)
(* a cluster was once asked for it may still come to after its Job failed;  *)
(* it only moves to later versions.                                         *)
(***************************************************************************)
EXTENDS Integers, UpgradeDecision

CONSTANTS
    Requests,       \* the values the user gives spec.upgrade
    StartVersions,  \* the versions the managed cluster may start at
    MidRunEdits,    \* may the user edit spec.upgrade while a Job runs?
    MaxEdits        \* bound: edits of spec.upgrade in a behaviour

ASSUME RequestsAssumption == Requests \subseteq Request
ASSUME VersionsAssumption == StartVersions \subseteq Nat \ {0}
ASSUME EditsAssumption == MidRunEdits \in BOOLEAN /\ MaxEdits \in Nat

VARIABLES
    request,    \* spec.upgrade, live
    cond,       \* the clustercurator-job condition
    phase,      \* the step of the Job in progress, or "idle"
    asked,      \* the versions the managed cluster was asked for
    cluster,    \* the version the managed cluster runs
    mci,        \* the version its ManagedClusterInfo shows, {} when there is none
    last,       \* the request the last finished Job printed (history)
    edits

vars == <<request, cond, phase, asked, cluster, mci, last, edits>>

Phases == {"idle", "launched", "monitoring", "closing"}

Absent == [status |-> "absent", upgrade |-> FALSE, failed |-> FALSE, info |-> NoInfo]

Running == [status |-> "False", upgrade |-> TRUE, failed |-> FALSE, info |-> NoInfo]

Finished(failed, req) ==
    [status |-> "True", upgrade |-> TRUE, failed |-> failed,
     info |-> GetCurrentVersionInfo(req)]

Condition == [status : {"absent", "False", "True"}, upgrade : BOOLEAN,
              failed : BOOLEAN, info : Info]

TypeOK ==
    /\ request \in Request
    /\ cond \in Condition
    /\ phase \in Phases
    /\ asked \in SUBSET Nat
    /\ cluster \in Nat
    /\ mci \in SUBSET Nat
    /\ last \in Request
    /\ edits \in 0 .. MaxEdits

Init ==
    /\ request \in Requests
    /\ cond = Absent
    /\ phase = "idle"
    /\ asked = {}
    /\ cluster \in StartVersions
    /\ mci \in {{}, {cluster}}
    /\ last = NoRequest
    /\ edits = 0

-----------------------------------------------------------------------------
\* The user changes spec.upgrade.
Edit(r) ==
    /\ edits < MaxEdits
    /\ phase = "idle" \/ MidRunEdits
    /\ r # request
    /\ request' = r
    /\ edits' = edits + 1
    /\ UNCHANGED <<cond, phase, asked, cluster, mci, last>>

\* The cluster's agent refreshes the ManagedClusterInfo.
RefreshMCI ==
    /\ mci # {cluster}
    /\ mci' = {cluster}
    /\ UNCHANGED <<request, cond, phase, asked, cluster, last, edits>>

\* Reconcile of a desiredCuration "upgrade" with no curating Job, and the first
\* container's first write.
Launch ==
    /\ phase = "idle"
    /\ NeedToUpgrade(request, cond, mci) = "yes"
    /\ phase' = "launched"
    /\ cond' = Running
    /\ UNCHANGED <<request, asked, cluster, mci, last, edits>>

\* A container fails: curatorRun's deferred function prints the request that
\* container read.
Fail(req) ==
    /\ cond' = Finished(TRUE, req)
    /\ last' = req
    /\ phase' = "idle"

\* A container asks the cluster for a version of the request it read.
Ask ==
    /\ phase = "launched"
    /\ \E v \in {request.version, request.intermediate} \ {NoVersion} :
          asked' = asked \cup {v}
    /\ UNCHANGED <<request, cond, phase, cluster, mci, last, edits>>

\* The containers before monitor-upgrade end, having asked or not.
UpgradeCluster ==
    /\ phase = "launched"
    /\ \/ phase' = "monitoring" /\ UNCHANGED <<cond, last>>
       \/ Fail(request)
    /\ UNCHANGED <<request, asked, cluster, mci, edits>>

\* The managed cluster reaches a version it was asked for, in its own time.
ReachVersion ==
    /\ \E v \in asked \ Malformed : v > cluster /\ cluster' = v
    /\ UNCHANGED <<request, cond, phase, asked, mci, last, edits>>

\* monitor-upgrade: succeeds when the cluster has shown the version this container
\* read, at once when it read no version; otherwise it times out.
MonitorUpgrade ==
    /\ phase = "monitoring"
    /\ \/ /\ request.version <= cluster
          /\ phase' = "closing"
          /\ UNCHANGED <<cond, last>>
       \/ Fail(request)
    /\ UNCHANGED <<request, asked, cluster, mci, edits>>

\* done: the Job succeeded, or fails after all; the message prints the request read
\* by this container.
Done ==
    /\ phase = "closing"
    /\ \E failed \in BOOLEAN : cond' = Finished(failed, request)
    /\ last' = request
    /\ phase' = "idle"
    /\ UNCHANGED <<request, asked, cluster, mci, edits>>

Next ==
    \/ \E r \in Requests : Edit(r)
    \/ RefreshMCI
    \/ Launch
    \/ Ask
    \/ UpgradeCluster
    \/ ReachVersion
    \/ MonitorUpgrade
    \/ Done

Spec == Init /\ [][Next]_vars

-----------------------------------------------------------------------------
\* A Job is launched only for a request that differs, in a field a message
\* records, from the one the last Job finished with, whether that Job failed or
\* succeeded and whatever the user edited meanwhile (helpers.go:451 and 518).
NoRelaunch ==
    [][phase = "idle" /\ phase' = "launched" /\ cond.status = "True"
         => Recorded(request) # Recorded(last)]_vars

\* When the controller finds nothing to do for a request with a version, after a
\* Job that succeeded, the cluster has that version or a later one was recorded
\* and reached (helpers.go:490-519).
SkippedMeansReached ==
    /\ phase = "idle"
    /\ cond.status = "True"
    /\ ~cond.failed
    /\ request.version # NoVersion
    /\ NeedToUpgrade(request, cond, mci) = "no"
    => request.version <= cluster

\* After a failure, a request for another version is never taken for the one
\* that failed (helpers.go:466).
NewVersionRetried ==
    /\ phase = "idle"
    /\ cond.failed
    /\ request.version \notin {NoVersion, last.version}
    => NeedToUpgrade(request, cond, mci) = "yes"
=============================================================================
