# A TLA+ model of the cluster curator controller

The controller carries out *curations* of managed clusters (install, upgrade, destroy)
that users ask for in `ClusterCurator` resources. It launches one Kubernetes Job per
curation; the containers of that Job run the `curator` command, one step each, and
report into the same resource. This directory holds TLA+ modules of that system, the TLC
runs that check them on small instances, and TLAPS proofs of what matters most for every
instance.

Line numbers below are those of `src/`.

## The system and its parts

| Part | State it keeps | Operations | Modelled in |
|---|---|---|---|
| ClusterCurator resource (`pkg/api/v1beta1`) | spec, operation and status of one object, under one resourceVersion | whole-object Updates, merge patches | `CuratorObject` |
| Reconciler and event filter (`controllers/`) | informer cache, work queue, one worker | `Reconcile`, `newClusterCuratorPredicate` | `CuratorLifecycle`, `CuratorObject` |
| Job launcher (`pkg/controller/launcher`) | – | `getBatchJob`, `CreateJob` | `Launcher`, `CuratorLifecycle` |
| RBAC of the Jobs (`pkg/jobs/rbac`) | ServiceAccount, RoleBindings, the singleton `curator-crb` | `ApplyRBAC*`, `Cleanup*` | `CuratorRBAC`, `CuratorLifecycle` |
| `curator` command (`cmd/curator`) | the object it read, its `desiredCuration` variable | `curatorRun` with its deferred failure path and closing patches | `CuratorLifecycle` |
| Status recording, upgrade decision (`pkg/jobs/utils`) | the `clustercurator-job` condition and its message | `RecordCuratorJobName`, `recordCuratedStatusCondition`, `NeedToUpgrade` | `CuratorLifecycle`, `UpgradeDecision`, `UpgradeCycle` |
| Hive upgrade (`pkg/jobs/hive`, 274-1220) | ManagedClusterView, ManagedClusterAction, remote ClusterVersion | `UpgradeCluster`, `EUSUpgradeCluster`, `MonitorUpgradeStatus` | `HiveUpgrade` |
| Hive provision and destroy (`pkg/jobs/hive`, 42-272) | ClusterDeployment, provisions, installer and uninstaller Job | `ActivateDeploy`, `DestroyClusterDeployment`, `monitorClusterStatus` | `Provision` |
| Hypershift (`pkg/jobs/hypershift`) | HostedCluster, NodePools, ManagedCluster | install, upgrade, detach, destroy and their monitors | `Provision`, `HostedUpgrade` |
| Ansible hooks (`pkg/jobs/ansible`) | AnsibleJobs, one after the other | `Job`, `RunAnsibleJob`, `MonitorAnsibleJob` | `AnsibleHooks` |
| Import monitor (`pkg/jobs/importer`) | ManagedClusterInfo | `MonitorMCInfoImport` | `Provision` |
| Provider secrets, manager | – | copies, leader election | restart only |

Controller and pods share nothing but the API server. The controller decides from a cache
that lags; its own writes, the pods' and the users' meet in one object. Most hazards come
from there: a stale read before a write of the whole object; an event that is filtered
out, merged or late; a Job that exists before its name is recorded; access that is
granted and revoked in several calls; a container that dies between two writes. The
upgrade adds a second kind: objects on the hub that outlive the container which made
them, and a managed cluster that answers late or never. The containers add a third: they
write to resources that Hive, Hypershift and the Ansible operator go on working with
after the container has failed, and read from their status what may be of an earlier
moment. `PROJECT.json` lists every hazard
at its line, with the properties aimed at it.

## Modules

* `UpgradeDecision`: `NeedToUpgrade` as a function of the request, the last condition and
  the ManagedClusterInfo. A version is a number, a message the fields it prints.
* `UpgradeCycle`: upgrades of one cluster, one Job after the other; whole reconciles and
  whole containers are steps. It is the abstract specification of an upgrade: what is
  skipped, retried and recorded, and when the cluster may move.
* `HiveUpgrade`: the same with every hub call of the upgrade and monitor containers as a
  step, the agent of the managed cluster, attempts and polls. It implements
  `UpgradeCycle` (`INSTANCE UpgradeCycle WITH cluster <- cv.version`, its `phase` read
  off the container that runs).
* `Launcher`: the containers of the Job for every kind of curation, as a sequence.
* `CuratorObject`: the resource, what each writer does to it, and the event filter.
* `CuratorRBAC`: the access objects and the calls on them.
* `CuratorLifecycle`: everything together, one API call per step: users, informer, worker,
  pods, faults.
* `Curation`: what controller and Jobs together promise a user who waits for one curation
  to end before asking for another, without cache, watch, queue, access or conditions. A
  request that calls for work is taken up once, as it is, by one Job; its containers run in
  order; the request stays as it is until the Job gives it back, which it always does; a
  Job that fails before is told as failed. `CuratorLifecycle` implements it.
* `JobPod`: the Jobs of one curator one after the other, as far as the work of their
  containers needs them: the container that runs, its next call, and how a Job ends.
* `AnsibleHooks`: the two hook containers and the AnsibleJobs they create and await.
* `Provision`: activation, the monitors of install, import and destroy, and destroy, for
  a standalone and for a hosted cluster, with Hive, Hypershift and the klusterlet beside
  them.
* `HostedUpgrade`: upgrade and monitor of a hosted cluster, one patch per step.
* `ClusterJob`: these four composed. `CuratorLifecycle` says how Jobs come to be and what
  they do to the curator; here a Job is launched in one step, and what its containers do
  to the cluster is the subject.
* `MC*`: the same for TLC, with the requests and hooks of the runs.
* `*_proofs`: the theorems.

How `CuratorLifecycle` corresponds to the code: `api` is the live object, `cache` and
`watch` the informer, `queue` and `worker` controller-runtime's queue and its single
worker (`MaxConcurrentReconciles` is not set). `worker.pc` names the next API call of
`Reconcile`; `Branch` is its `if`s. A job's `pc` is the next API call of `curatorRun`,
`todo` its containers. A status write is a read (`ReadForStatus`) and an update
(`UpdateStatus`) that is refused when somebody wrote since; a failed call goes on as the
`panic` and the `defer` of `curatorRun` do, which before line 132 is nowhere. The closing
patches (`DonePatch`, `FailPatch`) carry no resourceVersion and always apply.

A call of the worker that fails ends the reconcile with an error and a requeue
(`CallFails`), with three exceptions. The creation of the Job fails without an error
(`CreateRefused`). So do two lookups (`LookupFails`): when the HostedCluster cannot be read
the cluster is taken for one that is not hosted and the launch goes on
(clustercurator_controller.go:174-179), without the RoleBinding in the cluster's namespace
and `curator-crb`; nothing retries, since no error is returned. When the
ManagedClusterInfo cannot be read no upgrade is needed (helpers.go:412-418).

`Promise`, at its end, is the instance of `Curation` that it implements. The request is what
the live object desires (`Desired`); the phase and the containers are those of the Job at
work (`Phase`, `Todo`), a Job being "released" from done's closing patch to its end signal.
With no Job at work, a curator is wanted when a reconcile that finds the live object in the
cache may launch a Job (`Waiting`), and failed when its condition says so (`Blamed`).

How `ClusterJob` corresponds to the code: `todo` is what is left of the Job's containers,
`at` the place in the one that runs: its next call, the cluster type it was told, the
polls used, the NodePools still to patch. `cd`, `provision` and `uninstall` are what Hive
shows, `hc` and `pool` what Hypershift shows (`ready` stands for all the conditions
`isHostedReady` asks for), `managed` and `mci` the ManagedCluster and the version in its
ManagedClusterInfo. A poll that changes nothing is no step; one that uses up an attempt
is. `CallFails` is the failure of a call, reported as `curatorRun`'s deferred function does;
so it is in `HiveUpgrade`. That a pod is killed and reports nothing is in
`CuratorLifecycle` (`KillPod`).

Definitions that start with a comment `MUTANT` are not part of the model: each is a
mistake someone could make in that place of the code, and the property it belongs to
fails under it.

## Runs

| Run | Checks | Shows |
|---|---|---|
| `Calm` | `AtMostOneActive`, `PodsKeepAccess`, `OnlyAskedFor`, `FailureReported`, `FailedJobReleased`, `ImplementsCuration`, `CurationsEnd` | two curations, each of any kind, with hooks and a posthook retry |
| `Faults` | `TypeOK`, `NoResurrection`, `GrantsBeforeLaunch`, `CRBNotInherited`, `AccessRevoked` | a hosted cluster, edits at any time, pods ahead of the controller, a fault |
| `UpgradeCycle` | `TypeOK`, `SkippedMeansReached`, `NewVersionRetried`, `NoRelaunch` | four requests out of seven, failures in between |
| `HiveUpgrade` | `TypeOK`, `ImplementsCycle`, `EUSInOrder`, `JobsEnd` | three requests out of six, two attempts, a fault |
| `ClusterJob` | `TypeOK`, `OneHookAtATime`, `PrehooksFirst`, `AchievedFirst`, `PoolsBehind`, `JobsEnd` | two Jobs out of nine kinds on a standalone or hosted cluster, new or installed, a fault |
| `Wedged` | `FailedJobReleased` is refuted | a pod that starts before its Job's name is recorded |
| `EndSignal` | `EndSignalled` is refuted | access revoked before the end signal |
| `SharedCRB` | `ActiveCurationKeepsCRB` is refuted | two hosted clusters in one namespace |
| `Relaunch` | `UpgradeNotRepeated` is refuted | a reconcile between done's two writes |
| `AfterEUS` | `DesiredCurationOccurs` is refuted | a destroy after an EUS to EUS upgrade |
| `NextNodePool` | `NamedPoolsAsked` is refuted | upgrades of one NodePool after the other |
| `DestroyedGone` | `UninstallComplete` is refuted | the destroy of a hosted cluster |

The refuted properties are what comments, messages or tests of the code say; `findings` in
`PROJECT.json` quotes them and tells what happens instead. In short:

* **Wedged.** `FailedJobReleased` holds in the run `Calm`, and not here. The first condition write of a container races the controller's record of
  the Job's name. It panics on the conflict before the deferred function exists, so the
  dead Job's name, recorded a moment later, is never removed and the curator is stuck.
* **EndSignal.** `done` clears the spec, which makes the controller revoke the access the
  same pod needs to write the last condition.
* **SharedCRB.** `curator-crb` is recognised by namespace only.
* **Relaunch.** `done` removes the condition that `NeedToUpgrade` reads before writing the
  new one.
* **AfterEUS.** The event filter drops all edits of a curator with an
  `intermediateUpdate`, which the API does not let the user remove.
* **NextNodePool.** A cluster whose control plane is at the version asked for is taken to
  need no upgrade, whichever NodePools the request names: none is patched, and the
  monitor of the same Job waits for them until its timeout.
* **DestroyedGone.** The wait for the end of an uninstall is the wait for conditions that
  read ready, which those of a HostedCluster just deleted still do.

### Bounds

`MaxJobs`, `MaxEdits` and `MaxFaults` bound Jobs, user edits and faults. Two edits and two
Jobs let a curation follow another and race what the first left behind; that is where the
single-worker, single-object design can go wrong; for what `Calm` checks, but for
`CurationsEnd`, the proofs show that more of them change nothing. In `Faults` one fault
may fall between any two of the calls of a launch, a Job or a cleanup, and a second edit
between any two of all steps; its user asks for an upgrade or clears the request, so that
the upgrade decision, which reads too, is on the way to a launch. When all of `MaxJobs` are used a further creation is
refused, as by a quota, so no behaviour is cut short. In `HiveUpgrade` two attempts, two
polls for a result and two of the monitor are the smallest numbers with a first, a retried
and a last one; the requests hold a version printed in another (4.1.1 in 4.1.12), an EUS
request, a forced one, a channel that does not exist and a channel alone. `UpgradeCycle`
has every field of a request changed by some edit, and a version semver rejects.

In `ClusterJob` two attempts, two polls of monitor-upgrade, two provisions and two
NodePools are the smallest numbers with a first and a last one; two Jobs let one meet
what another left half done (a NodePool unpaused or patched, a HostedCluster being
deleted, an AnsibleJob still running). Its curators are an install, a destroy, a posthook
retry and six upgrades: default, of one NodePool, NodePools only at a version the control
plane may have reached and at one it has not, a channel alone, and a control plane with a
channel. A platform that cannot be destroyed and a namespace shared with the curator are
among the initial states.

`Calm` assumes what the code relies on and does not enforce: a pod starts after its Job's
name is recorded, users edit at rest, nothing fails. What happens otherwise is in `Faults`
and `Wedged`.

### Fairness

`FairSpec` assumes that the watch delivers, that the worker takes the next step it can,
and that every pod goes on and its work ends one way or another: the informer, the
queue and the kubelet do so, and every loop of the work is bounded (for the upgrade,
`JobsEnd` shows it). No user edit, fault or restart is ever required to happen, and in
`HiveUpgrade` the managed cluster need not answer: only the container is fair. So it is in
`ClusterJob`, but there some loops have no last turn: those for an AnsibleJob's result, for
Hive's Job to be no longer active, and for a HostedCluster's conditions. `JobsEnd` is
therefore claimed of behaviours in which those settle for good (`<>[]Settled`); that a
provision never starts, a ManagedCluster never joins or a NodePool never upgrades is no
obstacle.

### Outside the code

Not under `src/` and taken from how it is used: the API server's conflict check, the
informer and its relists, the Job controller and kubelet, the agent that fills a
ManagedClusterView and carries out a ManagedClusterAction (an update of a template with an
old resourceVersion fails, and any may fail), the hub's removal of finished actions (which
the EUS steps count on: the intermediate one leaves its action behind, hive.go:582), and a
managed cluster that only moves to later versions. Of Hive: provisions one after the
other until one succeeds or it gives up, a Job that has no pod at first, and an uninstaller
that is retried. Of Hypershift: a HostedCluster whose history gets the version of its
release image when the update begins, conditions that may lag behind both an update and a
deletion, and NodePools that follow their own image. A JSON patch that removes an absent
field fails; one that replaces an absent channel is taken to succeed. Nobody deletes a
HostedCluster by hand, users do not upgrade one that is being deleted, and the channels
offered to a HostedCluster are those of one that has a channel. In `CuratorLifecycle` a
HostedCluster exists or does not for the whole of a behaviour (`HostedClusters`); what the
lookup answers may differ by a failure only. In `HiveUpgrade` a ClusterVersion always shows
conditions besides Available, as those of OpenShift do: without one the last poll of
monitor-upgrade would end well at any version (hive.go:645-671).

## Proofs

All theorems hold for any constants that satisfy the modules' assumptions.

* `UpgradeCycle_proofs`: the type invariant; `NoRelaunch` and `NewVersionRetried` from the
  invariant `CondIsLast` (at rest the condition prints the request of the last Job);
  `SkippedMeansReached`, if nobody edits during a Job, from `DoneIsReached` (a Job that
  succeeded printed a version the cluster has reached). Without that assumption it is
  false: `done` prints the request it reads last (curator.go:522), so an edit made during
  the Job is recorded as reached.
* `CuratorLifecycle_proofs`: the type invariant. It is not inductive alone: which fields of
  worker and Jobs are set depends on their `pc` (`Shape`), and the two are proved together.
  Then `GrantsBeforeLaunch`. The invariant `GrantedSoFar` says which access is there at each
  `pc` of the worker, whichever lookups and calls fail; it needs that all grants and cleanups
  are made by that one worker, and the assumption `NamespacesApart`: the namespace a hosted
  cluster is named after holds no other curators. A hosted cluster's `curator-crb` is claimed
  only as long as nothing has failed: after a failed lookup its Job starts without it.
  And `CRBNotInherited`. `CRBOwned` says whose `curator-crb` is, and that a worker about to
  delete a ServiceAccount has just deleted the binding that names it. The controller cleans
  `curator-crb` up only for curators not named after their namespace
  (clustercurator_controller.go:82 and 98), so the theorem assumes that such a curator does
  not share its namespace with a hosted cluster (`HostedApart`).
* `CuratorWrites_proofs`: `NoResurrection`. The resourceVersion check protects a stale
  write only if equal versions mean equal objects, so the invariant is
  `VersionsFaithful`: no copy in cache, watch or a pod's hand is newer than the live
  object, and one of its version is that object (`CopiesFaithful`).
* `ClusterJob_proofs`: the type invariant; `OneHookAtATime` from `HooksIInv` (no AnsibleJob is
  of a Job to come, and while a Job runs all of its AnsibleJobs were successful, but for the
  one it waits for); `PoolsBehind` from `PoolsIInv` (a HostedCluster's version and image were
  asked for, and past its validation a request that goes to the NodePools is not ahead of
  what was). `PrehooksFirst` and `AchievedFirst` rest on the order of a Job's containers
  (`LeftInOrder`, from `ContainersInOrder` about what the launcher builds). `PrehooksIInv`
  counts the prehook's AnsibleJobs; `AchievedIInv` says what the containers that are done have
  achieved, that nothing undoes it while the Job runs (`Keeps`: a HostedCluster that is
  upgraded is not deleted meanwhile, a NodePool at its image stays there), and that a cluster
  is of one kind, so that the monitor that ends an install has looked at the right resource.
* `HiveUpgrade_proofs`: the type invariant, with the place of the Job (`Control`: which
  container makes which call, and that no loop runs past its last turn). On it rests
  `UpgradesImplementCycle`: `HiveUpgrade` implements `UpgradeCycle`. The invariant says that
  a version desired anywhere (in the cluster, a view, the template of an action, the hands of
  a container) was asked for, that a view shows no version the cluster has not reached, and
  that the verdict of monitor-upgrade stands until it ends. It assumes `NoEarlyPrint`: no
  version's text is part of an earlier version's. Releases satisfy that; a cluster at a
  pre-release of the version asked for does not, and there the monitor ends too early.
* `CuratorCalm_proofs`: `AtMostOneActive`, `OnlyAskedFor`, `PodsKeepAccess` and
  `FailureReported`, invariants of the run `Calm`, for any number of curators, Jobs and
  edits. See below.
* `CuratorPromise_proofs`: `FailedJobReleased`, and that `CuratorLifecycle` implements
  `Curation`. See below, too.
* `CuratorObject_proofs`: lemmas the others share, about blank objects and the lists of
  containers.

### One curation after the other

The controller decides from a cache, so nothing in one state says that a curator has one
Job: a version that was written before the Job's name was recorded may still be on its way
to the cache, and after the Job's end the same version must launch nothing. The invariant
`CalmInv` therefore says, for each curator, which of the versions in the cache, on the
watch and in the worker's hands are `Launchable`, and that such a version is the live one,
met by no Job (`Queued`, `Carried`, `Watched`). It rests on

* `Working`: the Job at work is the one the controller has recorded or is about to record,
  or has released a curator that is not launchable;
* `Retrying`: a posthook retry is launchable whatever Job is recorded, so no version of it
  may wake the controller, which holds because none differs in `operation` (`Passes`);
* `Told`: an upgrade is still desired after its Job, so what keeps it from a second launch
  is the condition the Job writes at its end, or, while done has cleared that, the version
  the cluster has reached. So the containers must hold the live request, monitor-upgrade
  must be among those to come until the cluster has it, and the message of the end must
  print the request.

`CurationsCalm` proves it inductive (one lemma for each action and kind of step), and
`AtMostOneActive` follows, even with a Job that has yet to send its end signal counted.
On top of it

* `OnlyAskedFor` by counting (`Accounted`): the Jobs launched and the curators that still
  want one together are no more than the edits;
* `PodsKeepAccess` (`Kept`): a Job the controller knows of has its access, because the
  worker comes to a curator to revoke only when none is recorded;
* `FailureReported` (`Telling`): what a container has read for its report is still live
  when it writes, because nobody else writes while its Job is at work, and the last Job of a
  curator is the one at work.

`ImplementsCuration` is proved from two more invariants (`PromiseInv`). `Called`: a worker on
its way to a launch holds a request that calls for one; as such a request is the live one
(`Carried`), a Job is of what is desired at that moment. `GivenBack`: the Job a curator names
is at work, and one that has released its curator is named no longer and will not be. So a
Job that has failed is named by nobody, which is `FailedJobReleased`. With them
every step of a pod is one of five moves (`PodMoves`: it goes on in its container, takes the
next, releases the curator, finishes or breaks), of which the first is a stutter and each
other one an action of `Curation`. The creation of a Job is `Launch`, an edit is `Ask`, and
all else that the controller does (what it reads, caches, grants, records, revokes and
queues) is a stutter.

The hypothesis `Calm` is that of the run: no faults, a pod starts after its Job's name is
recorded, users edit at rest, the ManagedClusterInfos do not lag, upgrades name a version
and posthook retries are not of upgrades. The first two are not mere convenience: `Wedged`
shows what becomes of a Job whose pod is ahead of the controller, and a fault between the
creation of a Job and the record of its name has it launched twice. Upgrades by channel
alone are excluded because for them `AtMostOneActive` is false, even in these
circumstances: done's closing patch has the upgrade launched again (`Relaunch`), the end
signal of the first Job then makes the record of the second Job's name conflict, and the
reconcile that comes back launches a third. With three Jobs allowed TLC finds this.
`PodsKeepAccess`, `FailureReported`, `FailedJobReleased` and `ImplementsCuration` also assume
`OwnNamespaces`, that every curator is alone in its namespace, as for clusters that are not
hosted: the cleanup of one curator revokes the access of its whole namespace
(clustercurator_controller.go:95), and a pod without access cannot give its curator back.

### Model-checked only

Everything about liveness (`AccessRevoked`, `CurationsEnd`, `JobsEnd`): fairness and ENABLED
are beyond the prover. And `EUSInOrder`, which is not a theorem: an action left over by a
forced request for the final version can be carried out after the user has made it an EUS
request. With the requests of the run none is.

## What is not modelled

* The desiredCuration `delete-cluster-namespace` with the namespaces it deletes; the
  deletion of a ClusterCurator; the periodic resync of the informer.
* `overrideJob`, and what a Job carries besides its containers' commands.
* ClusterRoles (created on first use, never removed) and the identity of a recreated
  ServiceAccount's tokens.
* The user removing `spec.upgrade` as a whole and adding it again.
* In `HiveUpgrade`: image digests, the vendor check, an action that fails for another reason
  than a failed update, the progress monitor-upgrade writes into the status (which
  `CuratorLifecycle` has), the content of the admin-acks ConfigMap.
* Strings: a version, channel or upstream is compared as a whole, and as part of another
  where a comparison by substring makes a difference the properties see.
* In `Provision` and `HostedUpgrade`: what the installer and the conditions say beyond
  their outcome, the fallback of `GetClusterType` for imported clusters (their upgrade is
  `HiveUpgrade`'s), the timeouts' lengths (monitor-destroy of a hosted cluster uses the
  install's, curator.go:349), a HostedCluster gone in the middle of an upgrade beyond that
  the container fails. In `AnsibleHooks`: tags, variables and secrets.
* `MonitorImport`, `DetachCluster` and the provider secrets: code that no launched Job runs.

## Plan

Done: the core (`CuratorLifecycle` and the modules it is built from), the upgrade decision
and cycle, the Hive upgrade, the work of every other container (`ClusterJob`), the abstract
specification `Curation` with its refinement, and the proofs above. Next, in this order:

1. A hosted upgrade as an implementation of `UpgradeCycle`, as far as it is one: a
   ControlPlane upgrade ends on conditions of any version.
2. `overrideJob` and `delete-cluster-namespace` in `Launcher` and `CuratorLifecycle`.
