-------------------------- MODULE CuratorLifecycle --------------------------
(***************************************************************************)
(* The life of a curation: users edit ClusterCurators, the controller sees  *)
(* them through its informer's cache, grants access, launches a Job and     *)
(* records its name, and the Job's containers report into the same object   *)
(* and finally release it.                                                  *)
(*                                                                          *)
(* Controller and pods share nothing but the API server.  An Update carries *)
(* the whole object and is refused when its resourceVersion is not the live *)
(* one; a merge patch carries none and always applies.  Every API call of   *)
(* the code that reads or writes shared state is a step of its own.         *)
(***************************************************************************)
EXTENDS Integers, FiniteSets, CuratorObject, CuratorRBAC

CONSTANTS
    Curators,       \* the ClusterCurator resources
    NoCurator,
    NamespaceOf,    \* the namespace of each
    ClusterOf,      \* its name, which is also the cluster's namespace
    HostedClusters, \* those for which a HostedCluster exists, all along
    Hooks,          \* the Ansible hooks configured: <<curation, hook>>
    Asks,           \* what users set: desired, and upgrade if that is an upgrade
    RetryAsks,      \* the posthook retries: <<desiredCuration found, retryPosthook>>
    Reporting,      \* the steps whose work reports progress into the status
    EagerPods,      \* may a pod run before the controller has recorded its Job?
    EditsAnyTime,   \* may users edit while a curation is under way?
    StartInfo,      \* what the ManagedClusterInfos show at first: {}, or {1}
    InfoLags,       \* may a ManagedClusterInfo show an older version for a while?
    MaxJobs,        \* bound: Jobs created in a behaviour
    MaxEdits,       \* bound: edits by users
    MaxFaults       \* bound: failed calls, killed pods, controller restarts

ASSUME CuratorAssumption ==
    /\ NoCurator \notin Curators
    /\ NamespaceOf \in [Curators -> Namespaces]
    /\ ClusterOf \in [Curators -> Namespaces]
    /\ HostedClusters \subseteq Curators
ASSUME AsksAssumption ==
    /\ Asks \subseteq [desired : Curations \ {"delete-cluster-namespace"}, upgrade : Request]
    /\ RetryAsks \subseteq Curations \X Retries
ASSUME BoundAssumption ==
    /\ EagerPods \in BOOLEAN
    /\ EditsAnyTime \in BOOLEAN
    /\ InfoLags \in BOOLEAN
    /\ StartInfo \in {{}, {1}}
    /\ MaxJobs \in Nat
    /\ MaxEdits \in Nat
    /\ MaxFaults \in Nat

VARIABLES
    api,        \* the live objects
    cache,      \* the controller's informer cache
    watch,      \* versions written and not yet delivered to the cache
    queue,      \* the controller's work queue
    worker,     \* its one worker
    jobs,       \* the Jobs, by number
    grants,     \* the access granted (CuratorRBAC)
    cluster,    \* the version each managed cluster runs
    mci,        \* the version its ManagedClusterInfo shows
    edits, faults

apiVars == <<api, watch>>
jobVars == <<api, watch, jobs>>
budget  == <<edits, faults>>
clusterVars == <<cluster, mci>>
vars == <<api, cache, watch, queue, worker, jobs, grants, cluster, mci, edits, faults>>

NS(c) == NamespaceOf[c]

JobIds == 1 .. MaxJobs

WorkerPCs == {"idle", "dropCRB", "dropSA", "dropRB", "dropClusterRB", "dropOwnedCRB",
              "decide", "applySA", "applyRB", "isHosted", "applyClusterRB", "applyCRB",
              "create", "record"}

\* Where a pod writes a condition: it reads the object, then updates it.
StatusPCs == {"jobcond", "stepcond", "progress", "stepfail", "jobfail", "final"}

RunningPCs == StatusPCs \cup {"get", "work", "donepatch", "failpatch"}

Job == [pc : RunningPCs \cup {"none", "pending", "succeeded", "failed"},
        cc : Curators \cup {NoCurator},
        kind : Curations \cup Retries,  \* what it was launched for
        todo : Seq(Steps),              \* the containers left, the current one first
        held : Object,                  \* the curator the container holds
        local : Curations,              \* its desiredCuration variable
        msg : Condition,                \* the message of the end of the Job
        buf : Object,                   \* read for a condition's update
        reported : BOOLEAN]             \* has this container reported progress?

UnusedJob == [pc |-> "none", cc |-> NoCurator, kind |-> "", todo |-> <<>>,
              held |-> NoObject, local |-> "", msg |-> NoCondition,
              buf |-> NoObject, reported |-> FALSE]

IdleWorker == [pc |-> "idle", cc |-> NoCurator, held |-> NoObject, job |-> NoJob]

TypeOK ==
    /\ api \in [Curators -> Object]
    /\ cache \in [Curators -> Object]
    /\ watch \in [Curators -> SUBSET Object]
    /\ queue \subseteq Curators
    /\ worker \in [pc : WorkerPCs, cc : Curators \cup {NoCurator},
                   held : Object, job : 0 .. MaxJobs]
    /\ jobs \in [JobIds -> Job]
    /\ grants \in Grants
    /\ cluster \in [Curators -> Nat]
    /\ mci \in [Curators -> SUBSET Nat]
    /\ edits \in 0 .. MaxEdits
    /\ faults \in 0 .. MaxFaults

FirstVersion == [NoObject EXCEPT !.rv = 1]

Init ==
    /\ api = [c \in Curators |-> FirstVersion]
    /\ cache = api
    /\ watch = [c \in Curators |-> {}]
    /\ queue = Curators
    /\ worker = IdleWorker
    /\ jobs = [j \in JobIds |-> UnusedJob]
    /\ grants = NoGrants
    /\ cluster = [c \in Curators |-> 1]
    /\ mci = [c \in Curators |-> StartInfo]
    /\ edits = 0
    /\ faults = 0

-----------------------------------------------------------------------------
(* The API server.                                                          *)

\* The server takes o as c's object: a write that changes nothing makes no version.
Put(c, o) ==
    LET new == [o EXCEPT !.rv = api[c].rv + 1]
    IN  IF [o EXCEPT !.rv = api[c].rv] = api[c]
        THEN UNCHANGED apiVars
        ELSE /\ api' = [api EXCEPT ![c] = new]
             /\ watch' = [watch EXCEPT ![c] = @ \cup {new}]

\* MUTANT: an Update is taken whatever version it was read at.
NeverConflicts(c, o) == TRUE

\* An Update of an object read earlier is taken only if nobody wrote since.
Current(c, o) == o.rv = api[c].rv

Pods == {j \in JobIds : jobs[j].pc \in RunningPCs}

Active(c) == {j \in JobIds : jobs[j].cc = c /\ jobs[j].pc \in RunningPCs \cup {"pending"}}

-----------------------------------------------------------------------------
(* Users.                                                                   *)

AtRest(c) ==
    /\ api[c].job = NoJob
    /\ Active(c) = {}
    /\ watch[c] = {}
    /\ c \notin queue
    /\ worker.cc # c

\* A user writes desired, upgrade or operation: through kubectl or the console,
\* on the live object.
UserWrite(c, o) ==
    /\ edits < MaxEdits
    /\ EditsAnyTime \/ AtRest(c)
    /\ o # api[c]
    /\ Admitted(api[c].upgrade, o.upgrade)
    /\ Put(c, o)
    /\ edits' = edits + 1
    /\ UNCHANGED <<cache, queue, worker, jobs, grants, cluster, mci, faults>>

Ask(c) ==
    \E a \in Asks :
        UserWrite(c, [api[c] EXCEPT !.desired = a.desired,
                        !.upgrade = IF a.desired = "upgrade" THEN a.upgrade ELSE @])

AskRetry(c) ==
    \E r \in RetryAsks :
        /\ r[1] = api[c].desired
        /\ UserWrite(c, [api[c] EXCEPT !.op = r[2]])

-----------------------------------------------------------------------------
(* The informer.                                                            *)

Wake(c, old, new) == queue' = IF Passes(old, new) THEN queue \cup {c} ELSE queue

\* The watch delivers the oldest version not yet seen.
Deliver(c) ==
    \E o \in watch[c] :
        /\ \A p \in watch[c] : o.rv <= p.rv
        /\ watch' = [watch EXCEPT ![c] = @ \ {o}]
        /\ cache' = [cache EXCEPT ![c] = o]
        /\ Wake(c, cache[c], o)
        /\ UNCHANGED <<api, worker, jobs, grants, cluster, mci, edits, faults>>

\* A watch that was cut lists again: the versions between are never seen.
Relist(c) ==
    /\ Cardinality(watch[c]) > 1
    /\ faults < MaxFaults
    /\ faults' = faults + 1
    /\ watch' = [watch EXCEPT ![c] = {}]
    /\ cache' = [cache EXCEPT ![c] = api[c]]
    /\ Wake(c, cache[c], api[c])
    /\ UNCHANGED <<api, worker, jobs, grants, cluster, mci, edits>>

\* The controller stops and another instance starts: it lists everything, and
\* every object is a creation to it.
Restart ==
    /\ faults < MaxFaults
    /\ faults' = faults + 1
    /\ worker' = IdleWorker
    /\ watch' = [c \in Curators |-> {}]
    /\ cache' = api
    /\ queue' = Curators
    /\ UNCHANGED <<api, jobs, grants, cluster, mci, edits>>

-----------------------------------------------------------------------------
(* The controller's worker: Reconcile, one API call per step.               *)

Goto(pc) == worker' = IF pc = "idle" THEN IdleWorker ELSE [worker EXCEPT !.pc = pc]

\* An error is returned: the key comes back, rate limited.
Requeue ==
    /\ worker' = IdleWorker
    /\ queue' = queue \cup {worker.cc}

NamedApart(c) == ClusterOf[c] # NamespaceOf[c]

\* MUTANT: access is revoked whenever there is no curation to do, also because one is
\* under way.
BranchCleansAlways(o) ==
    IF (o.job # NoJob \/ o.desired = "") /\ ~PosthookOnly(o) THEN "dropSA" ELSE "applySA"

\* MUTANT: a curator with a curating Job is not skipped.
BranchIgnoresJob(o) ==
    IF o.desired = "" /\ ~PosthookOnly(o) THEN "dropSA" ELSE "applySA"

\* What Reconcile does with the object once curator-crb is dealt with: access is
\* revoked at rest, nothing is done while a Job is recorded, an upgrade is first
\* decided upon, and the rest is launched.
Branch(o) ==
    CASE o.job = NoJob /\ o.desired = "" /\ ~PosthookOnly(o) -> "dropSA"
      [] o.job # NoJob /\ ~PosthookOnly(o) -> "idle"
      [] o.job = NoJob /\ o.desired = "upgrade" /\ ~PosthookOnly(o) -> "decide"
      [] OTHER -> "applySA"

\* A key is taken from the queue and its object read from the cache.
Reconcile(c) ==
    LET o  == cache[c]
        pc == IF NamedApart(c) /\ o.job = NoJob THEN "dropCRB" ELSE Branch(o)
    IN  /\ worker.pc = "idle"
        /\ c \in queue
        /\ queue' = queue \ {c}
        /\ worker' = IF pc = "idle" THEN IdleWorker
                     ELSE [pc |-> pc, cc |-> c, held |-> o, job |-> NoJob]
        /\ UNCHANGED <<api, cache, watch, jobs, grants, cluster, mci, edits, faults>>

\* One call on the access objects, then on to pc.
Grant(at, g, pc) ==
    /\ worker.pc = at
    /\ grants' = g
    /\ Goto(pc)
    /\ UNCHANGED <<api, cache, watch, queue, jobs, cluster, mci, edits, faults>>

DropCRB ==
    Grant("dropCRB", CleanupCuratorCRBIfOwned(grants, NS(worker.cc)), Branch(worker.held))

\* CleanupRBAC, then CleanupRBACHypershift when name and namespace differ.
DropServiceAccount ==
    Grant("dropSA", DeleteServiceAccount(grants, NS(worker.cc)), "dropRB")

DropRoleBinding ==
    Grant("dropRB", DeleteRoleBinding(grants, NS(worker.cc)),
          IF NamedApart(worker.cc) THEN "dropClusterRB" ELSE "idle")

DropClusterRoleBinding ==
    Grant("dropClusterRB", DeleteRoleBinding(grants, ClusterOf[worker.cc]), "dropOwnedCRB")

DropOwnedCRB ==
    Grant("dropOwnedCRB", CleanupCuratorCRBIfOwned(grants, NS(worker.cc)), "idle")

\* ApplyRBAC.
ApplyServiceAccount ==
    Grant("applySA", CreateServiceAccount(grants, NS(worker.cc)), "applyRB")

\* MUTANT: the RoleBinding is taken for granted once the ServiceAccount is there.
SkipRoleBinding == Grant("applyRB", grants, "isHosted")

ApplyRoleBinding ==
    Grant("applyRB", CreateRoleBinding(grants, NS(worker.cc), NS(worker.cc)), "isHosted")

\* isHostedCluster is asked of the API server.
IsHostedCluster ==
    Grant("isHosted", grants,
          IF worker.cc \in HostedClusters THEN "applyClusterRB" ELSE "create")

\* ApplyRBACHypershift, when it finds a HostedCluster.
ApplyClusterRoleBinding ==
    Grant("applyClusterRB",
          CreateRoleBinding(grants, ClusterOf[worker.cc], NS(worker.cc)), "applyCRB")

ApplyCRB == Grant("applyCRB", UpsertCRB(grants, NS(worker.cc)), "create")

\* utils.NeedToUpgrade on the object held; the ManagedClusterInfo is read live.
Decide ==
    LET answer == NeedToUpgrade(worker.held.upgrade, worker.held.cond, mci[worker.cc])
    IN  /\ worker.pc = "decide"
        /\ \/ answer = "yes" /\ Goto("applySA") /\ UNCHANGED queue
           \/ answer = "no" /\ Goto("idle") /\ UNCHANGED queue
           \/ answer = "error" /\ Requeue
        /\ UNCHANGED <<api, cache, watch, jobs, grants, cluster, mci, edits, faults>>

Launched(c, o) ==
    [UnusedJob EXCEPT !.pc = "pending", !.cc = c, !.kind = JobKind(o),
                      !.todo = Containers(o, Hooks)]

\* CreateJob, up to the creation of the Job.
CreateJob ==
    /\ worker.pc = "create"
    /\ Containers(worker.held, Hooks) # <<>>
    /\ \E j \in JobIds :
        /\ jobs[j].pc = "none"
        /\ \A i \in JobIds : i < j => jobs[i].pc # "none"
        /\ jobs' = [jobs EXCEPT ![j] = Launched(worker.cc, worker.held)]
        /\ worker' = [worker EXCEPT !.pc = "record", !.job = j]
    /\ UNCHANGED <<api, cache, watch, queue, grants, cluster, mci, edits, faults>>

\* The API server refuses the Job, an empty one always: CreateJob's err is shadowed
\* and nil is returned, so the key does not come back.
CreateRefused ==
    /\ worker.pc = "create"
    /\ \/ /\ \/ Containers(worker.held, Hooks) = <<>>
             \/ \A j \in JobIds : jobs[j].pc # "none"   \* MaxJobs is the quota
          /\ UNCHANGED faults
       \/ faults < MaxFaults /\ faults' = faults + 1
    /\ Goto("idle")
    /\ UNCHANGED <<api, cache, watch, queue, jobs, grants, cluster, mci, edits>>

\* RecordCuratorJobName: the object is read from the cache and updated.
RecordJobName ==
    LET c == worker.cc
    IN  /\ worker.pc = "record"
        /\ IF Current(c, cache[c])
           THEN /\ Put(c, WithJob(cache[c], worker.job))
                /\ Goto("idle")
                /\ UNCHANGED queue
           ELSE Requeue /\ UNCHANGED apiVars
        /\ UNCHANGED <<cache, jobs, grants, cluster, mci, edits, faults>>

\* The HostedCluster or the ManagedClusterInfo cannot be read: the error is not
\* returned, and taken for a cluster that is not hosted, or needs no upgrade.
LookupFails ==
    /\ faults < MaxFaults
    /\ faults' = faults + 1
    /\ \/ worker.pc = "isHosted" /\ Goto("create")
       \/ /\ worker.pc = "decide"
          /\ worker.held.cond.status = "absent"
          /\ ~NothingRecorded(worker.held.upgrade, {})
          /\ Goto("idle")
    /\ UNCHANGED <<api, cache, watch, queue, jobs, grants, cluster, mci, edits>>

\* Any other call fails: Reconcile returns the error.
CallFails ==
    /\ worker.pc \notin {"idle", "decide", "isHosted", "create"}
    /\ faults < MaxFaults
    /\ faults' = faults + 1
    /\ Requeue
    /\ UNCHANGED <<api, cache, watch, jobs, grants, cluster, mci, edits>>

-----------------------------------------------------------------------------
(* The pods of the curation Jobs: curatorRun, once per container.           *)

Step(j) == Head(jobs[j].todo)

Owner(j) == jobs[j].cc

MayCall(j) == Authorized(grants, NS(Owner(j)))

PodOnly(j, job) ==
    /\ jobs' = [jobs EXCEPT ![j] = job]
    /\ UNCHANGED <<cache, queue, worker, grants, cluster, mci, edits, faults>>

\* A finished pod keeps nothing but its outcome.
Over(j, outcome) ==
    [jobs[j] EXCEPT !.pc = outcome, !.todo = <<>>, !.held = NoObject, !.local = "",
                    !.msg = NoCondition, !.buf = NoObject, !.reported = FALSE]

\* The Job controller starts the pod once its ServiceAccount exists.
StartPod(j) ==
    /\ jobs[j].pc = "pending"
    /\ NS(Owner(j)) \in grants.sa
    /\ EagerPods \/ worker.job # j
    /\ PodOnly(j, [jobs[j] EXCEPT !.pc = "get"])
    /\ UNCHANGED apiVars

\* A container begins: it reads the curator.
GetCurator(j) ==
    LET o == api[Owner(j)]
    IN  /\ jobs[j].pc = "get"
        /\ PodOnly(j, IF MayCall(j)
                      THEN [jobs[j] EXCEPT !.pc = "jobcond", !.held = o,
                              !.local = LocalCuration(o),
                              !.msg = InProgress(o.job, LocalCuration(o))]
                      ELSE Over(j, "failed"))
        /\ UNCHANGED apiVars

\* Where a failed call leads.  Before the deferred function is registered, and
\* inside it, the container just dies.
AfterError(pc) ==
    CASE pc \in {"jobcond", "stepcond", "jobfail", "failpatch"} -> "failed"
      [] OTHER -> "jobfail"

\* Inside the deferred function the message is that of a failure.
Failing(j, pc) ==
    IF pc = "failed" THEN Over(j, "failed")
    ELSE [jobs[j] EXCEPT !.pc = pc, !.buf = NoObject,
            !.msg = Ended(jobs[j].held.job, jobs[j].local, jobs[j].held.upgrade, TRUE)]

\* What a condition write leaves on the object it read.
Written(j) ==
    LET o == jobs[j].buf
    IN  CASE jobs[j].pc \in {"jobcond", "jobfail"} -> WithCondition(o, jobs[j].msg)
          [] jobs[j].pc = "final" /\ Step(j) = "done" -> WithCondition(o, jobs[j].msg)
          [] jobs[j].pc = "final" /\ Step(j) # "done" -> WithStep(o, Step(j), "Completed")
          [] jobs[j].pc = "stepcond" -> WithStep(o, Step(j), "Executing")
          [] jobs[j].pc = "progress" -> WithStep(o, Step(j), "Reporting")
          [] jobs[j].pc = "stepfail" -> WithStep(o, Step(j), "Failed")

\* The container's next step once the condition is written.
AfterWrite(j) ==
    LET job == [jobs[j] EXCEPT !.buf = NoObject]
    IN  CASE job.pc = "jobcond"  ->
                [job EXCEPT !.pc = IF Step(j) = "done" THEN "donepatch" ELSE "stepcond"]
          [] job.pc = "stepcond" -> [job EXCEPT !.pc = "work"]
          [] job.pc = "progress" -> [job EXCEPT !.pc = "work", !.reported = TRUE]
          [] job.pc = "stepfail" -> Failing(j, "jobfail")
          [] job.pc = "jobfail"  -> [job EXCEPT !.pc = "failpatch"]
          [] job.pc = "final" /\ Step(j) = "done" -> Over(j, "succeeded")
          [] job.pc = "final" /\ Step(j) # "done" ->
                [job EXCEPT !.pc = "get", !.todo = Tail(@), !.held = NoObject,
                            !.local = "", !.msg = NoCondition, !.reported = FALSE]

\* recordCuratedStatusCondition: its Get ...
ReadForStatus(j) ==
    /\ jobs[j].pc \in StatusPCs
    /\ jobs[j].buf = NoObject
    /\ PodOnly(j, IF MayCall(j) THEN [jobs[j] EXCEPT !.buf = api[Owner(j)]]
                  ELSE Failing(j, AfterError(jobs[j].pc)))
    /\ UNCHANGED apiVars

\* ... and its Update of the whole object.
UpdateStatus(j) ==
    /\ jobs[j].pc \in StatusPCs
    /\ jobs[j].buf # NoObject
    /\ IF MayCall(j) /\ Current(Owner(j), jobs[j].buf)
       THEN Put(Owner(j), Written(j)) /\ PodOnly(j, AfterWrite(j))
       ELSE /\ PodOnly(j, Failing(j, AfterError(jobs[j].pc)))
            /\ UNCHANGED apiVars

\* The container's own work succeeds; monitor-upgrade has seen the cluster at the
\* version it read, which no cluster is if semver rejects it.
WorkDone(j) ==
    LET c == Owner(j)
        v == jobs[j].held.upgrade.version
    IN  /\ jobs[j].pc = "work"
        /\ Step(j) = "monitor-upgrade" => v \notin Malformed
        /\ jobs' = [jobs EXCEPT ![j].pc = "final"]
        /\ cluster' = IF Step(j) = "monitor-upgrade" /\ v # NoVersion
                      THEN [cluster EXCEPT ![c] = v] ELSE cluster
        /\ mci' = IF InfoLags \/ cluster' = cluster THEN mci
                  ELSE [mci EXCEPT ![c] = {v}]
        /\ UNCHANGED <<api, cache, watch, queue, worker, grants, edits, faults>>

\* It fails: with an error, recorded on the step first, or (not in the hooks and
\* the EUS steps) with a panic while it finds out the type of the cluster.
WorkFails(j) ==
    /\ jobs[j].pc = "work"
    /\ \/ PodOnly(j, [jobs[j] EXCEPT !.pc = "stepfail"])
       \/ /\ Step(j) \notin HookSteps \cup EUSSteps
          /\ PodOnly(j, Failing(j, "jobfail"))
    /\ UNCHANGED apiVars

\* It reports progress into the status (once, here).
WorkReports(j) ==
    /\ jobs[j].pc = "work"
    /\ Step(j) \in Reporting
    /\ ~jobs[j].reported
    /\ PodOnly(j, [jobs[j] EXCEPT !.pc = "progress"])
    /\ UNCHANGED apiVars

\* done: the closing patch.  The message of the end was composed before it; the
\* patch's answer replaces the curator held.
DonePatch(j) ==
    LET c    == Owner(j)
        held == jobs[j].held
        new  == updateDoneClusterCurator(held.desired, api[c])
    IN  /\ jobs[j].pc = "donepatch"
        /\ IF MayCall(j)
           THEN /\ Put(c, new)
                /\ PodOnly(j, [jobs[j] EXCEPT !.pc = "final", !.held = new,
                                 !.msg = Ended(held.job, jobs[j].local, held.upgrade, FALSE)])
           ELSE PodOnly(j, Failing(j, AfterError("donepatch"))) /\ UNCHANGED apiVars

\* The deferred function's closing patch; then the panic goes on.
FailPatch(j) ==
    LET c == Owner(j)
    IN  /\ jobs[j].pc = "failpatch"
        /\ IF MayCall(j)
           THEN Put(c, updateFailingClusterCurator(jobs[j].held.desired, api[c]))
           ELSE UNCHANGED apiVars
        /\ PodOnly(j, Over(j, "failed"))

\* The pod is evicted or its node is lost.
KillPod(j) ==
    /\ jobs[j].pc \in RunningPCs
    /\ faults < MaxFaults
    /\ faults' = faults + 1
    /\ jobs' = [jobs EXCEPT ![j] = Over(j, "failed")]
    /\ UNCHANGED <<api, cache, watch, queue, worker, grants, cluster, mci, edits>>

\* The managed cluster's agent reports its version.
RefreshMCI(c) ==
    /\ mci[c] # {cluster[c]}
    /\ mci' = [mci EXCEPT ![c] = {cluster[c]}]
    /\ UNCHANGED <<api, cache, watch, queue, worker, jobs, grants, cluster, edits, faults>>

-----------------------------------------------------------------------------
Informer(c) == Deliver(c) \/ Reconcile(c)

Worker ==
    \/ DropCRB \/ DropServiceAccount \/ DropRoleBinding
    \/ DropClusterRoleBinding \/ DropOwnedCRB
    \/ ApplyServiceAccount \/ ApplyRoleBinding \/ IsHostedCluster
    \/ ApplyClusterRoleBinding \/ ApplyCRB
    \/ Decide \/ CreateJob \/ RecordJobName

Pod(j) ==
    \/ StartPod(j) \/ GetCurator(j)
    \/ ReadForStatus(j) \/ UpdateStatus(j)
    \/ WorkDone(j) \/ WorkFails(j) \/ WorkReports(j)
    \/ DonePatch(j) \/ FailPatch(j)

Next ==
    \/ \E c \in Curators : Ask(c) \/ AskRetry(c)
    \/ \E c \in Curators : Informer(c) \/ Relist(c) \/ RefreshMCI(c)
    \/ Worker \/ CreateRefused \/ LookupFails \/ CallFails \/ Restart
    \/ \E j \in JobIds : Pod(j) \/ KillPod(j)

\* The watch, the worker and the kubelets keep going, and every container's work
\* ends one way or the other; users and faults need not come.
Fairness ==
    /\ \A c \in Curators : WF_vars(Deliver(c)) /\ WF_vars(Reconcile(c))
    /\ WF_vars(Worker \/ CreateRefused)
    /\ \A j \in JobIds : WF_vars(Pod(j))

Spec == Init /\ [][Next]_vars

FairSpec == Spec /\ Fairness

-----------------------------------------------------------------------------
(* What holds however pods, users, faults and the cache interleave.         *)

\* Every copy of an object anyone holds to write back.
Copies(c) ==
    {cache[c]} \cup watch[c]
      \cup {jobs[j].buf : j \in {i \in JobIds : jobs[i].cc = c /\ jobs[i].buf # NoObject}}

\* No copy is newer than the live object, and one with its version is that object:
\* what the resourceVersion check of client.Update relies on.
VersionsFaithful ==
    \A c \in Curators : \A o \in Copies(c) :
        /\ o.rv <= api[c].rv
        /\ o.rv = api[c].rv => o = api[c]

\* Only a user says what is desired.  The program's own writes, of whole objects
\* that may be stale, never bring back or change a request: they leave
\* desiredCuration and the operation as they are or clear them, and never touch
\* spec.upgrade (helpers.go:148-161 and 257-285, curator.go:541-565).
NoResurrection ==
    [][edits' = edits =>
         \A c \in Curators :
            /\ api'[c].desired \in {api[c].desired, ""}
            /\ api'[c].op \in {api[c].op, "nil"}
            /\ api'[c].upgrade = api[c].upgrade]_vars

\* A Job comes into being only when its ServiceAccount and the RoleBinding of its
\* namespace are there, whatever was cleaned up, retried or restarted before
\* (clustercurator_controller.go:118-123).  That of a hosted cluster has curator-crb too,
\* but only as long as nothing has failed: a failed lookup of the HostedCluster is taken
\* for its absence, and the Job is launched without (174-179).
GrantsBeforeLaunch ==
    [][\A j \in JobIds :
         jobs[j].pc = "none" /\ jobs'[j].pc = "pending" =>
             /\ Authorized(grants, NS(jobs'[j].cc))
             /\ jobs'[j].cc \in HostedClusters /\ faults = 0
                  => grants.crb = NS(jobs'[j].cc)]_vars

\* curator-crb never outlives the ServiceAccount it names, so that a later one of that
\* name does not inherit it (rbac.go:388-391).  It must come last in every launch and
\* go first in every cleanup, with calls that fail and restarts between them
\* (clustercurator_controller.go:82-104 and 145-148).
CRBNotInherited == grants.crb # NoNamespace => grants.crb \in grants.sa

Idle(c) ==
    /\ api[c].desired = ""
    /\ api[c].job = NoJob
    /\ api[c].op = "nil"

\* Once a curator stays with nothing to do, the access of its namespace is revoked
\* for good: the one event that says so is never filtered out, lost or read stale
\* (clustercurator_controller.go:89-104 and 197-222).
AccessRevoked ==
    \A c \in Curators :
        <>[]Idle(c) => <>[](NS(c) \notin grants.sa /\ grants.rb[NS(c)] = NoNamespace)

-----------------------------------------------------------------------------
(* What holds for one curation after the other: a pod starts after its Job's  *)
(* name is recorded, users wait for a curation to end, nothing fails.         *)

\* Has this pod sent done's closing patch?
Released(j) ==
    /\ jobs[j].pc \in {"final", "jobfail", "failpatch"}
    /\ Step(j) = "done"

\* A curator never has two Jobs at work, one that has yet to send the end signal
\* after its closing patch apart.
AtMostOneActive ==
    \A c \in Curators : Cardinality({j \in Active(c) : ~Released(j)}) <= 1

\* A pod keeps its access until its own closing patch gives it up.
PodsKeepAccess == \A j \in Pods : Released(j) \/ MayCall(j)

\* Every install, destroy and retry that runs was asked for: none is launched again
\* by a stale cache, a lost name or its own status writes.  (Upgrades are decided
\* by NeedToUpgrade: UpgradeCycle.)
OnlyAskedFor ==
    Cardinality({j \in JobIds : jobs[j].pc # "none" /\ jobs[j].kind # "upgrade"}) <= edits

\* A Job that failed and was not followed by another is reported as failed, unless
\* done had already cleared the status (curator.go:132-151).
FailureReported ==
    \A j \in JobIds :
        /\ jobs[j].pc = "failed"
        /\ \A i \in JobIds : jobs[i].cc = jobs[j].cc => i <= j
        => api[Owner(j)].cond.failed \/ api[Owner(j)].cond = NoCondition

InstallOrDestroyEnds(c) == api[c].desired \in {"install", "destroy"} ~> api[c].desired = ""

\* Every curation comes to its end, done or failed: the name of its Job does not
\* stay on the curator, a retry is consumed, and an install or destroy is cleared,
\* on a curator without an intermediateUpdate (curator.go:541-565).
CurationsEnd ==
    \A c \in Curators :
        /\ \A j \in JobIds : api[c].job = j ~> api[c].job # j
        /\ api[c].op \in Retries ~> api[c].op = "nil"
        /\ [](api[c].upgrade.intermediate = NoVersion) => InstallOrDestroyEnds(c)

-----------------------------------------------------------------------------
(* The promise behind these, which Curation states.                         *)

\* The condition says that req is being carried out, or was the last one tried.
Repeats(req, cond) ==
    \/ cond.status = "False"
    \/ cond.status = "True" /\ cond.upgrade /\ cond.info = GetCurrentVersionInfo(req)

\* NeedToUpgrade answers no for o, and goes on to.
Settled(c, o) ==
    \/ Repeats(o.upgrade, o.cond)
    \/ /\ o.cond.status = "absent"
       /\ o.upgrade.version = cluster[c]
       /\ cluster[c] # NoVersion

\* Reconcile may launch a Job when it finds o in the cache.
Launchable(c, o) ==
    \/ PosthookOnly(o)
    \/ o.job = NoJob /\ o.desired # "" /\ ~(o.desired = "upgrade" /\ Settled(c, o))

\* The Job at work for c, when there is one only.
JobOf(c) == CHOOSE j \in JobIds : j \in Active(c)

Phase(c) ==
    IF Active(c) = {} THEN "rest"
    ELSE IF \E j \in Active(c) : Released(j) THEN "released" ELSE "running"

Todo(c) == IF Active(c) = {} THEN <<>> ELSE jobs[JobOf(c)].todo

Desired(c) == [desired |-> api[c].desired, op |-> api[c].op, upgrade |-> api[c].upgrade]

\* With no Job at work: does the request call for one, did the last one fail?
Waiting(c) == Active(c) = {} /\ Launchable(c, api[c])

Blamed(c) == Active(c) = {} /\ api[c].cond.failed

Promise == INSTANCE Curation WITH
    request <- [c \in Curators |-> Desired(c)],
    wanted  <- {c \in Curators : Waiting(c)},
    phase   <- [c \in Curators |-> Phase(c)],
    todo    <- [c \in Curators |-> Todo(c)],
    failed  <- {c \in Curators : Blamed(c)}

\* Controller and pods, that share nothing but objects read at different times, carry
\* out Curation: every edit is taken up at most once and as it is, nothing changes
\* it under the Job, and every Job gives its curator back
\* (clustercurator_controller.go:52-222, curator.go:79-536).
ImplementsCuration == Promise!Spec

-----------------------------------------------------------------------------
(* What comments in the code say, and runs refute.                            *)

\* "Remove curatingJob ... for failed job" (curator.go:147): the curator of a failed
\* Job does not name it (so it is in the run Calm, but not when a pod is ahead of
\* the controller: the run Wedged).
FailedJobReleased ==
    \A j \in JobIds : jobs[j].pc = "failed" => api[Owner(j)].job # j

\* "Used to signal end of job" (curator.go:529): after done's closing patch only the
\* signal is left to send, and the Job ends well.
EndSignalled ==
    [][\A j \in JobIds :
         jobs[j].pc = "final" /\ Step(j) = "done"
           => jobs'[j].pc \in {"final", "succeeded"}]_vars

\* "This is the desired curation that occurs" (clustercurator_types.go:17): an install
\* or destroy asked for is carried out, to its end, on any curator.
DesiredCurationOccurs == \A c \in Curators : InstallOrDestroyEnds(c)

\* When the "desired version is less than or equal to current version, or channel or
\* upstream is not changed, do nothing" (helpers.go:518): no upgrade is launched
\* while the same upgrade, done, has only its end signal left to send.
UpgradeNotRepeated ==
    [][\A i, j \in JobIds :
         /\ jobs[j].pc = "none"
         /\ jobs'[j].kind = "upgrade"
         /\ jobs[i].cc = jobs'[j].cc
         /\ jobs[i].pc = "final"
         /\ Step(i) = "done"
         /\ jobs[i].kind = "upgrade"
         => Recorded(jobs[i].msg.info.of) # Recorded(worker.held.upgrade)]_vars

\* The cleanup of curator-crb leaves an "unrelated, still-active curation's access"
\* alone (rbac.go:387): it is not revoked while the Job recorded on another curator
\* of a hosted cluster in that namespace is at work.
ActiveCurationKeepsCRB ==
    [][\A c \in HostedClusters :
         /\ worker.cc # c
         /\ grants.crb = NS(c)
         /\ grants'.crb = NoNamespace
         => ~\E j \in Pods : Owner(j) = c /\ api[c].job = j /\ ~Released(j)]_vars
=============================================================================
