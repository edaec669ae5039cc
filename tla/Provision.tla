----------------------------- MODULE Provision -----------------------------
(***************************************************************************)
(* activate-and-monitor, monitor-import, destroy-cluster, monitor-destroy:  *)
(* install and destroy of a standalone cluster, which Hive does for a       *)
(* ClusterDeployment, and of a hosted cluster, which Hypershift does for a  *)
(* HostedCluster and its NodePools.  The containers release the resource    *)
(* or delete it, and poll what the operators report; one API call, or a     *)
(* few reads with nothing between them, is a step.                          *)
(***************************************************************************)
EXTENDS JobPod

CONSTANTS
    Provisions, \* bound: the provisions Hive attempts of one ClusterDeployment
    Platforms   \* the platforms of hosted clusters

ASSUME ProvisionAssumption == Provisions \in Nat \ {0} /\ Platforms # {}

VARIABLES
    shared,     \* is the curator's namespace other than its cluster's name?
    cd,         \* the ClusterDeployment
    provision,  \* the installer Jobs of Hive's provisions
    uninstall,  \* the uninstaller Job
    hc,         \* the HostedCluster
    pool,       \* its NodePools
    managed,    \* the ManagedCluster, as its ManagedClusterInfo shows it
    mci,        \* the version in the ManagedClusterInfo, {} when there is none
    asked       \* the versions the HostedCluster was to run (history)

clusterVars == <<cd, provision, uninstall, hc, pool, managed, mci, asked>>

\* pending: no pod yet.
JobStates == {"absent", "pending", "active", "succeeded", "failed"}

\* What keeps an operator from a resource: the pause of the console ("true"), nothing
\* ("no"), or another value that users set themselves.
Pauses == {"no", "true", "other"}

\* ref: the provision of status.provisionRef, 0 for none; console: is there a web console
\* URL; stopped: ProvisionStopped is True or RequirementsMet is False.
ClusterDeployment == [there : BOOLEAN, paused : Pauses, ref : 0 .. Provisions,
                      console : BOOLEAN, stopped : BOOLEAN, deleting : BOOLEAN]

NoCD == [there |-> FALSE, paused |-> "no", ref |-> 0, console |-> FALSE,
         stopped |-> FALSE, deleting |-> FALSE]

\* ready: do the conditions say what isHostedReady asks; version: that of the newest entry
\* of the history; image: the version of spec.release.image.
HostedCluster == [there : BOOLEAN, paused : Pauses, ready : BOOLEAN, deleting : BOOLEAN,
                  image : Nat, version : Nat, channel : Names, platform : Platforms]

NoHC == [there |-> FALSE, paused |-> "no", ready |-> FALSE, deleting |-> FALSE,
         image |-> NoVersion, version |-> NoVersion, channel |-> "",
         platform |-> CHOOSE p \in Platforms : TRUE]

\* ready: Ready and not UpdatingVersion.
NodePool == [paused : Pauses, ready : BOOLEAN, image : Nat, version : Nat]

\* available: the condition is there, whatever its status.
ManagedStates == {"none", "pending", "denied", "available", "detaching"}

ProvisionTypeOK ==
    /\ shared \in BOOLEAN
    /\ cd \in ClusterDeployment
    /\ provision \in [1 .. Provisions -> JobStates]
    /\ uninstall \in JobStates
    /\ hc \in HostedCluster
    /\ pool \in [Pools -> NodePool]
    /\ managed \in ManagedStates
    /\ mci \in SUBSET Nat
    /\ asked \in SUBSET Nat

-----------------------------------------------------------------------------
(* Which cluster is it?                                                     *)

TypedSteps == {"activate-and-monitor", "destroy-cluster", "monitor-destroy",
               "upgrade-cluster", "monitor-upgrade"}

\* GetClusterType, but for imported clusters, whose upgrade is HiveUpgrade's.
ClusterType ==
    CASE shared -> "hosted"
      [] ~shared /\ cd.there -> "standalone"
      [] ~shared /\ ~cd.there /\ hc.there -> "hosted"
      [] OTHER -> "none"

\* Every container asks it, activate-and-monitor again before it monitors.
AskType ==
    /\ todo # <<>>
    /\ Head(todo) \in TypedSteps
    /\ at.call \in {"start", "again"}
    /\ IF ClusterType = "none" THEN Fail
       ELSE GoOn([at EXCEPT
              !.type = ClusterType,
              !.call = IF @ = "again" \/ Head(todo) \in {"monitor-destroy", "monitor-upgrade"}
                       THEN "monitor" ELSE "work"])
    /\ UNCHANGED clusterVars

AtWork(step, call, type) == In(step, call) /\ at.type = type

-----------------------------------------------------------------------------
(* Activation.                                                              *)

\* hive.ActivateDeploy: only the console's pause annotation is removed.
ActivateDeploy ==
    /\ AtWork("activate-and-monitor", "work", "standalone")
    /\ IF cd.there
       THEN /\ cd' = [cd EXCEPT !.paused = IF @ = "true" THEN "no" ELSE @]
            /\ GoOn([at EXCEPT !.call = "again"])
       ELSE Fail /\ UNCHANGED cd
    /\ UNCHANGED <<provision, uninstall, hc, pool, managed, mci, asked>>

\* removePausedUntil: a JSON patch removes the field, and fails when there is none.
Unpaused(p) == IF p = "true" THEN "no" ELSE p

\* hypershift.ActivateDeploy: the HostedCluster first,
UnpauseHostedCluster ==
    /\ AtWork("activate-and-monitor", "work", "hosted")
    /\ IF hc.there /\ hc.paused # "no"
       THEN /\ hc' = [hc EXCEPT !.paused = Unpaused(@)]
            /\ GoOn([at EXCEPT !.call = "pools", !.left = Pools])
       ELSE Fail /\ UNCHANGED hc
    /\ UNCHANGED <<cd, provision, uninstall, pool, managed, mci, asked>>

\* then its NodePools, in the order of the list.
UnpauseNodePool ==
    /\ AtWork("activate-and-monitor", "pools", "hosted")
    /\ IF at.left = {}
       THEN GoOn([at EXCEPT !.call = "again"]) /\ UNCHANGED pool
       ELSE \E p \in at.left :
              IF pool[p].paused = "no" THEN Fail /\ UNCHANGED pool
              ELSE /\ pool' = [pool EXCEPT ![p].paused = Unpaused(@)]
                   /\ GoOn([at EXCEPT !.left = @ \ {p}])
    /\ UNCHANGED <<cd, provision, uninstall, hc, managed, mci, asked>>
-----------------------------------------------------------------------------
(* Hive's monitor.                                                          *)

MonitorSteps == {"activate-and-monitor", "monitor-destroy"}

Installing == Head(todo) = "activate-and-monitor"

Monitors(call, type) == \E step \in MonitorSteps : AtWork(step, call, type)

Unchanged == UNCHANGED clusterVars

\* One turn of monitorClusterStatus: what the ClusterDeployment says.
PollDeployment ==
    /\ Monitors("monitor", "standalone")
    /\ CASE ~cd.there -> IF Installing THEN Fail ELSE Succeed
         [] cd.there /\ Installing /\ cd.console -> Succeed
         [] cd.there /\ (Installing => ~cd.console /\ cd.ref # 0) ->
               GoOn([at EXCEPT !.call = "find", !.item = cd.ref])
         [] OTHER -> IF cd.stopped THEN Fail ELSE NextAttempt(at)
    /\ Unchanged

\* The Job of the provision seen, or of the uninstall.
WatchedJob == IF Installing THEN provision[at.item] ELSE uninstall

\* What a Job that is not active leads to: one that is not there any more panics an
\* install; any other has ended for a destroy, and must have succeeded for an install.
JudgeJob ==
    IF ~Installing THEN Succeed
    ELSE IF WatchedJob = "succeeded" THEN NextAttempt([at EXCEPT !.call = "monitor"])
    ELSE Fail

\* A Job that is missing costs an attempt.
FindJob ==
    /\ Monitors("find", "standalone")
    /\ CASE WatchedJob = "absent" -> NextAttempt([at EXCEPT !.call = "monitor"])
         [] WatchedJob = "active" -> GoOn([at EXCEPT !.call = "job"])
         [] OTHER -> JudgeJob
    /\ Unchanged

\* The poll that finds the Job no longer active; there is no last one.
AwaitJob ==
    /\ Monitors("job", "standalone")
    /\ WatchedJob # "active"
    /\ JudgeJob
    /\ Unchanged

-----------------------------------------------------------------------------
(* Hypershift's monitor.                                                    *)

\* A turn of MonitorClusterStatus.  A destroy takes conditions that still read ready for
\* the end of the uninstall.
PollHostedCluster ==
    /\ Monitors("monitor", "hosted")
    /\ CASE ~hc.there -> IF Installing THEN Fail ELSE Succeed
         [] hc.there /\ hc.ready -> Succeed
         [] hc.there /\ ~hc.ready -> GoOn([at EXCEPT !.call = "ready"])
    /\ Unchanged

\* The poll of the inner loop that ends it; there is no last one.
AwaitHostedCluster ==
    /\ Monitors("ready", "hosted")
    /\ \/ hc.there /\ hc.ready /\ Installing /\ NextAttempt([at EXCEPT !.call = "monitor"])
       \/ hc.there /\ hc.ready /\ ~Installing /\ Succeed
       \/ ~hc.there /\ (IF Installing THEN Fail ELSE Succeed)
    /\ Unchanged

-----------------------------------------------------------------------------
(* Import.                                                                  *)

\* A turn of MonitorMCInfoImport.  What is being detached may still read available.
MonitorImport ==
    /\ In("monitor-import", "start")
    /\ \/ managed \in {"none", "denied"} /\ Fail
       \/ managed \in {"available", "detaching"} /\ Succeed
       \/ managed \in {"pending", "detaching"} /\ NextAttempt(at)
    /\ Unchanged

-----------------------------------------------------------------------------
(* Destroy.                                                                 *)

\* DestroyClusterDeployment.
DestroyDeployment ==
    /\ AtWork("destroy-cluster", "work", "standalone")
    /\ cd' = [cd EXCEPT !.deleting = cd.there]
    /\ Succeed
    /\ UNCHANGED <<provision, uninstall, hc, pool, managed, mci, asked>>

\* DetachAndMonitor: without a HostedCluster it panics, and for most platforms it
\* refuses; a ManagedCluster is deleted and awaited.
Detach ==
    /\ AtWork("destroy-cluster", "work", "hosted")
    /\ CASE ~hc.there \/ hc.platform \notin {"KubeVirt", "Agent"} -> Fail /\ UNCHANGED managed
         [] hc.there /\ hc.platform \in {"KubeVirt", "Agent"} /\ managed = "none" ->
               GoOn([at EXCEPT !.call = "delete"]) /\ UNCHANGED managed
         [] OTHER -> managed' = "detaching" /\ GoOn([at EXCEPT !.call = "detach"])
    /\ UNCHANGED <<cd, provision, uninstall, hc, pool, mci, asked>>

AwaitDetach ==
    /\ AtWork("destroy-cluster", "detach", "hosted")
    /\ IF managed = "none" THEN GoOn([at EXCEPT !.call = "delete"]) ELSE NextAttempt(at)
    /\ Unchanged

DestroyHostedCluster ==
    /\ AtWork("destroy-cluster", "delete", "hosted")
    /\ hc' = [hc EXCEPT !.deleting = hc.there]
    /\ Succeed
    /\ UNCHANGED <<cd, provision, uninstall, pool, managed, mci, asked>>

Provisioning ==
    \/ AskType
    \/ ActivateDeploy \/ UnpauseHostedCluster \/ UnpauseNodePool
    \/ PollDeployment \/ FindJob \/ AwaitJob
    \/ PollHostedCluster \/ AwaitHostedCluster
    \/ MonitorImport
    \/ DestroyDeployment \/ Detach \/ AwaitDetach \/ DestroyHostedCluster

-----------------------------------------------------------------------------
(* Hive.                                                                    *)

\* The first provision of a ClusterDeployment that is not paused, or one more after a
\* failure.
StartProvision ==
    /\ cd.there /\ ~cd.deleting /\ cd.paused = "no" /\ ~cd.console /\ ~cd.stopped
    /\ cd.ref < Provisions
    /\ cd.ref # 0 => provision[cd.ref] = "failed"
    /\ cd' = [cd EXCEPT !.ref = @ + 1]
    /\ UNCHANGED <<podVars, provision, uninstall, hc, pool, managed, mci, asked>>

\* Hive gives up: no more provisions, or a requirement is not met.
StopProvision ==
    /\ cd.there /\ ~cd.console /\ ~cd.stopped /\ cd.paused = "no"
    /\ cd.ref # 0 => provision[cd.ref] = "failed"
    /\ cd' = [cd EXCEPT !.stopped = TRUE]
    /\ UNCHANGED <<podVars, provision, uninstall, hc, pool, managed, mci, asked>>

NextStates(state) ==
    CASE state = "absent"  -> {"pending"}
      [] state = "pending" -> {"active"}
      [] state = "active"  -> {"succeeded", "failed"}
      [] OTHER -> {}

RunInstaller ==
    /\ cd.there /\ cd.ref # 0
    /\ \E s \in NextStates(provision[cd.ref]) :
          provision' = [provision EXCEPT ![cd.ref] = s]
    /\ UNCHANGED <<podVars, cd, uninstall, hc, pool, managed, mci, asked>>

\* The provision is done and the cluster's console URL known.
FinishProvision ==
    /\ cd.there /\ cd.ref # 0 /\ ~cd.console
    /\ provision[cd.ref] = "succeeded"
    /\ cd' = [cd EXCEPT !.console = TRUE]
    /\ UNCHANGED <<podVars, provision, uninstall, hc, pool, managed, mci, asked>>

\* A failed uninstall is retried by its Job.
RunUninstaller ==
    /\ cd.deleting
    /\ \E s \in NextStates(uninstall) \cup (IF uninstall = "failed" THEN {"active"} ELSE {}) :
          uninstall' = s
    /\ UNCHANGED <<podVars, cd, provision, hc, pool, managed, mci, asked>>

\* The finalizer is removed, after the uninstall or without one (preserveOnDelete).
RemoveDeployment ==
    /\ cd.deleting
    /\ uninstall \in {"absent", "succeeded"}
    /\ cd' = NoCD
    /\ uninstall' = "absent"
    /\ provision' = [r \in 1 .. Provisions |-> "absent"]
    /\ UNCHANGED <<podVars, hc, pool, managed, mci, asked>>

Hive == \/ StartProvision \/ StopProvision \/ RunInstaller \/ FinishProvision
        \/ RunUninstaller \/ RemoveDeployment

-----------------------------------------------------------------------------
(* Hypershift.                                                              *)

\* The operator takes up a new release image, or the cluster degrades.
Unsettle ==
    /\ hc.there /\ ~hc.deleting /\ hc.paused = "no"
    /\ hc.image >= hc.version
    /\ hc' = [hc EXCEPT !.version = hc.image, !.ready = FALSE]
    /\ hc' # hc
    /\ UNCHANGED <<podVars, cd, provision, uninstall, pool, managed, mci, asked>>

\* Everything is at the version of the history.
Settle ==
    /\ hc.there /\ ~hc.deleting /\ ~hc.ready /\ hc.version # NoVersion /\ hc.paused = "no"
    /\ hc' = [hc EXCEPT !.ready = TRUE]
    /\ UNCHANGED <<podVars, cd, provision, uninstall, pool, managed, mci, asked>>

\* A deleted HostedCluster is torn down, and its conditions may or may not say so.
RemoveHostedCluster ==
    /\ hc.deleting
    /\ hc' \in {NoHC, [hc EXCEPT !.ready = FALSE]} \ {hc}
    /\ UNCHANGED <<podVars, cd, provision, uninstall, pool, managed, mci, asked>>

\* A NodePool follows its release image.
RunNodePool(p) ==
    LET np == pool[p]
    IN  /\ hc.there /\ np.paused = "no"
        /\ \/ /\ np.image # np.version /\ np.ready
              /\ pool' = [pool EXCEPT ![p].ready = FALSE]
           \/ /\ ~np.ready
              /\ pool' = [pool EXCEPT ![p].ready = TRUE, ![p].version = np.image]
        /\ UNCHANGED <<podVars, cd, provision, uninstall, hc, managed, mci, asked>>

Hypershift == \/ Unsettle \/ Settle \/ RemoveHostedCluster
              \/ \E p \in Pools : RunNodePool(p)

-----------------------------------------------------------------------------
(* The agent of the managed cluster and the hub.                            *)

Installed == cd.console \/ (hc.there /\ hc.version # NoVersion)

Join ==
    /\ \/ /\ managed = "pending" /\ Installed
          /\ managed' \in {"available", "denied"} /\ UNCHANGED mci
       \/ managed = "detaching" /\ managed' = "none" /\ mci' = {}
    /\ UNCHANGED <<podVars, cd, provision, uninstall, hc, pool, asked>>

ReportVersion ==
    /\ managed = "available"
    /\ hc.there /\ hc.ready
    /\ mci' = {hc.version}
    /\ mci' # mci
    /\ UNCHANGED <<podVars, cd, provision, uninstall, hc, pool, managed, asked>>
=============================================================================
