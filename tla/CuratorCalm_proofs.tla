------------------------- MODULE CuratorCalm_proofs -------------------------
(***************************************************************************)
(* Curations one after the other: no call fails, users wait for a curation *)
(* to end, and no pod runs before the controller has recorded its Job.      *)
(* Then a curator has at most one Job at work, every install, destroy and   *)
(* retry was asked for, a Job keeps its access, and one that fails is       *)
(* reported so.                                                             *)
(*                                                                          *)
(* The controller acts on a cache that lags behind, so what has to be       *)
(* inductive is which of the versions in the cache, on the watch and in the *)
(* worker's hands could still launch a Job: none but the latest one, and    *)
(* that only while no Job is there.  This is CalmInv; the rest is counted   *)
(* and granted on top of it.                                                *)
(***************************************************************************)
EXTENDS CuratorWrites_proofs, FiniteSetTheorems

\* The circumstances of the run Calm.  An upgrade names a version: with a channel
\* alone, done's cleared condition has it launched again (run Relaunch).
Calm ==
    /\ ~EagerPods /\ ~EditsAnyTime /\ ~InfoLags /\ MaxFaults = 0
    /\ \A a \in Asks : a.desired = "upgrade" => a.upgrade.version # NoVersion
    /\ \A r \in RetryAsks : r[1] # "upgrade"

-----------------------------------------------------------------------------
(* The inductive invariant, for one curator c.                              *)

LaunchPCs == {"applySA", "applyRB", "isHosted", "applyClusterRB", "applyCRB", "create"}

\* A retry is of an install or destroy, not of an upgrade.
PlainRetry(o) == PosthookOnly(o) => o.desired # "upgrade"

Recording(c, j) == worker.pc = "record" /\ worker.cc = c /\ worker.job = j

\* The controller knows of the Job, or is about to write its name down.
Bound(c, j) == Recording(c, j) \/ api[c].job = j

Seen(c) == {cache[c]} \cup watch[c]

\* The cache is up to date and there is no Job.
Quiet(c) ==
    /\ cache[c] = api[c]
    /\ watch[c] = {}
    /\ Active(c) = {}
    /\ api[c].job = NoJob

\* The user has written, and nobody has seen it.
JustAsked(c) ==
    /\ watch[c] = {api[c]}
    /\ Active(c) = {}
    /\ api[c].job = NoJob
    /\ c \notin queue
    /\ worker.cc # c

\* The watch holds the versions since the cached one, up to the live one.
Ordered(c) ==
    /\ watch[c] = {} => cache[c] = api[c]
    /\ watch[c] # {} => api[c] \in watch[c]
    /\ \A o \in watch[c] : cache[c].rv < o.rv
    /\ \A o, p \in watch[c] : o.rv = p.rv => o = p

\* What users ask for: upgrades have a version.
Admissible(c) ==
    /\ api[c].desired = "upgrade" => api[c].upgrade.version # NoVersion
    /\ \A o \in Seen(c) : o.desired # "delete-cluster-namespace"

\* There is one Job, which the controller knows of or which has released a curator
\* that launches no other; nobody else wrote while its name is recorded.
Working(c) ==
    /\ \A i, j \in Active(c) : i = j
    /\ \A j \in Active(c) :
         \/ Bound(c, j)
         \/ api[c].job = NoJob /\ Released(j) /\ ~Launchable(c, api[c])
    /\ worker.cc = c /\ worker.pc = "record" =>
         /\ worker.job \in Active(c)
         /\ jobs[worker.job].pc = "pending"
         /\ cache[c] = api[c]
         /\ watch[c] = {}
         /\ c \notin queue
         /\ api[c].job = NoJob

\* A retry at work does not wake the controller: no version differs in it.
Retrying(c) ==
    \A j \in Active(c) :
        Bound(c, j) /\ PosthookOnly(api[c]) =>
            /\ c \notin queue
            /\ api[c].desired # "upgrade"
            /\ \A o \in Seen(c) : o.op = api[c].op

\* Reconcile finds a launchable object only when there is no Job.
Queued(c) ==
    c \in queue =>
        /\ cache[c].job = NoJob => api[c].job = NoJob
        /\ Launchable(c, cache[c]) => Quiet(c) /\ worker.cc # c /\ PlainRetry(cache[c])

\* The worker on its way to a launch carries the live object, and there is no Job.
Carried(c) ==
    worker.cc = c /\ worker.pc # "record" =>
        /\ api[c].job = NoJob
        /\ worker.pc \in {"dropCRB", "decide"} => worker.held.job = NoJob
        /\ worker.pc = "decide" => worker.held.desired = "upgrade"
        /\ \/ worker.pc \in LaunchPCs
           \/ worker.pc \in {"dropCRB", "decide"} /\ Launchable(c, worker.held)
           \/ Launchable(c, cache[c])
           => /\ Quiet(c)
              /\ worker.held = api[c]
              /\ c \notin queue
              /\ PlainRetry(api[c])

\* A launchable version on its way to the cache is what the user has just asked for,
\* or will not wake the controller.
Watched(c) ==
    \A o \in watch[c] :
        /\ o.job = NoJob => api[c].job = NoJob
        /\ Launchable(c, o) =>
             \/ JustAsked(c) /\ PlainRetry(o)
             \/ /\ PosthookOnly(o)
                /\ c \notin queue
                /\ worker.cc # c
                /\ \A p \in Seen(c) : p.rv < o.rv => p.op = o.op

\* monitor-upgrade is yet to come.
Upgrades(todo) ==
    \E i \in 1 .. Len(todo) :
        /\ todo[i] = "monitor-upgrade"
        /\ \A k \in 1 .. i : todo[k] # "done"

\* Only done sends the closing patch, and it does no other work.
Placed(j) ==
    /\ jobs[j].pc = "donepatch" => Step(j) = "done"
    /\ jobs[j].pc \in {"stepcond", "work", "progress", "stepfail"} => Step(j) # "done"

\* What a container holds is the request at work, and the end of an upgrade is told
\* such that it is not launched again.
Tells(c, j) ==
    jobs[j].pc \notin {"pending", "get"} =>
      /\ jobs[j].held.desired = api[c].desired
      /\ jobs[j].held.upgrade = api[c].upgrade
      /\ api[c].desired = "upgrade" =>
           /\ jobs[j].local = "upgrade"
           /\ jobs[j].pc = "jobfail" \/ (jobs[j].pc = "final" /\ Step(j) = "done")
                => Repeats(api[c].upgrade, jobs[j].msg)
           /\ jobs[j].pc = "failpatch" => Repeats(api[c].upgrade, api[c].cond)

\* An upgrade that is not yet monitored to its end will be.
Monitors(c, j) ==
    Bound(c, j) /\ api[c].desired = "upgrade" =>
      \/ cluster[c] = api[c].upgrade.version
      \/ /\ Upgrades(jobs[j].todo)
         /\ ~(jobs[j].pc = "final" /\ Step(j) = "monitor-upgrade")

Told(c, j) == Placed(j) /\ Tells(c, j) /\ Monitors(c, j)

Handled(c) ==
    /\ Ordered(c) /\ Admissible(c) /\ Working(c) /\ Retrying(c)
    /\ Queued(c) /\ Carried(c) /\ Watched(c)

Calmly(c) == Handled(c) /\ \A j \in Active(c) : Told(c, j)

\* The ManagedClusterInfos do not lag.
InfoShown == \A c \in Curators : mci[c] \in {{}, {cluster[c]}}

\* A worker at rest is at no curator.
Resting == worker.pc = "idle" => worker.cc = NoCurator

CalmInv == InfoShown /\ Resting /\ \A c \in Curators : Calmly(c)

-----------------------------------------------------------------------------
(* What the definitions depend on.                                          *)

\* Whether an object is launchable depends on the cluster's version alone, and only
\* for an upgrade without a Job.
LEMMA LaunchableStays ==
  ASSUME NEW c, NEW o, cluster'[c] = cluster[c] \/ o.job # NoJob
  PROVE  Launchable(c, o)' <=> Launchable(c, o)
  BY DEF Launchable, Settled

\* NeedToUpgrade launches nothing that is settled.
LEMMA SettledNotNeeded ==
  ASSUME NEW c, NEW o, o.upgrade \in Request, o.cond \in Condition,
         Settled(c, o), mci[c] \in {{}, {cluster[c]}}
  PROVE  NeedToUpgrade(o.upgrade, o.cond, mci[c]) # "yes"
<1> DEFINE req == o.upgrade
           cond == o.cond
<1>1. CASE cond.status = "False"
  BY <1>1 DEF NeedToUpgrade
<1>2. CASE cond.status = "absent"
  <2>1. ~NothingRecorded(req, mci[c])
    BY <1>2 DEF Settled, Repeats, NothingRecorded
  <2> QED
    BY <1>2, <2>1 DEF NeedToUpgrade
<1>3. CASE cond.status = "True"
  <2>1. cond.upgrade /\ cond.info = GetCurrentVersionInfo(req)
    BY <1>3 DEF Settled, Repeats
  <2>2. cond.info.fields = 5 /\ cond.info.of = req
    BY <2>1 DEF GetCurrentVersionInfo
  <2>3. ContainsBasicInfo(req, cond.info) /\ ~ExtendedChanged(req, cond.info)
    BY <2>2 DEF ContainsBasicInfo, ExtendedChanged, parseExtendedVersionInfo
  <2>4. ~RetryAfterFailure(req, cond.info)
    BY <2>3 DEF RetryAfterFailure
  <2>5. req.version \notin Malformed => ~MoreThanDone(req, cond.info)
    BY <2>2, <2>3 DEF MoreThanDone, parseVersionInfoFails, Request
  <2> QED
    BY <1>3, <2>1, <2>4, <2>5 DEF NeedToUpgrade
<1> QED
  BY <1>1, <1>2, <1>3 DEF Condition

\* An active Job is a pod or waits for one.
LEMMA ActiveJobs ==
  ASSUME NEW c, NEW j
  PROVE  j \in Active(c) <=> /\ j \in JobIds
                             /\ j # NoJob
                             /\ jobs[j].cc = c
                             /\ jobs[j].pc \in RunningPCs \cup {"pending"}
  BY BoundAssumption DEF Active, JobIds, NoJob

\* What a write leaves: the live object, or its next version, which is put on the watch.
LEMMA PutWrites ==
  ASSUME TypeOK, NEW c \in Curators, NEW o \in Object, Put(c, o)
  PROVE  /\ \A d \in Curators : d # c => api'[d] = api[d] /\ watch'[d] = watch[d]
         /\ api'[c].desired = o.desired /\ api'[c].job = o.job
         /\ api'[c].op = o.op /\ api'[c].upgrade = o.upgrade
         /\ api'[c].cond = o.cond
         /\ \/ api'[c] = api[c] /\ watch'[c] = watch[c]
            \/ api'[c].rv = api[c].rv + 1 /\ watch'[c] = watch[c] \cup {api'[c]}
<1> DEFINE new == [o EXCEPT !.rv = api[c].rv + 1]
<1>1. api[c] \in Object /\ api[c].rv \in Nat
  BY DEF TypeOK, Object
<1>2. /\ new.rv = api[c].rv + 1
      /\ new.desired = o.desired /\ new.op = o.op /\ new.upgrade = o.upgrade
      /\ new.job = o.job /\ new.cond = o.cond
  BY DEF Object
<1>3. CASE [o EXCEPT !.rv = api[c].rv] = api[c] /\ UNCHANGED apiVars
  <2>1. /\ api[c].desired = o.desired /\ api[c].op = o.op /\ api[c].upgrade = o.upgrade
        /\ api[c].job = o.job /\ api[c].cond = o.cond
    BY <1>3 DEF Object
  <2> QED
    BY <1>3, <2>1 DEF apiVars
<1>4. CASE /\ api' = [api EXCEPT ![c] = new]
           /\ watch' = [watch EXCEPT ![c] = @ \cup {new}]
  <2> HIDE DEF new
  <2>1. \A d \in Curators : /\ api'[d] = IF d = c THEN new ELSE api[d]
                            /\ watch'[d] = IF d = c THEN watch[c] \cup {new} ELSE watch[d]
    BY <1>4 DEF TypeOK
  <2> QED
    BY <1>1, <1>2, <2>1
<1> QED
  BY <1>3, <1>4 DEF Put

-----------------------------------------------------------------------------
(* Steps that leave c's object, and what is known of it, alone.             *)

\* A step of others, or of a pod that writes nothing.  The cluster's version matters
\* only without a Job.
LEMMA Untouched ==
  ASSUME NEW c \in Curators, Handled(c),
         api'[c] = api[c], cache'[c] = cache[c], watch'[c] = watch[c],
         c \in queue' <=> c \in queue,
         cluster'[c] = cluster[c] \/ api[c].job # NoJob,
         worker' = worker \/ (worker.cc # c /\ worker'.cc # c),
         Active(c)' \subseteq Active(c),
         \A j \in Active(c)' : Released(j) => Released(j)',
         worker.cc = c /\ worker.pc = "record"
           => worker.job \in Active(c)' /\ jobs'[worker.job].pc = "pending"
  PROVE  Handled(c)'
<1>1. /\ \A o \in watch[c] \cup {api[c]} : Launchable(c, o)' <=> Launchable(c, o)
      /\ c \in queue => (Launchable(c, cache[c])' <=> Launchable(c, cache[c]))
      /\ worker.cc = c /\ worker.pc # "record"
           => \A o : Launchable(c, o)' <=> Launchable(c, o)
  <2>1. CASE cluster'[c] = cluster[c]
    BY <2>1, LaunchableStays
  <2>2. CASE api[c].job # NoJob
    <3>1. /\ \A o \in watch[c] \cup {api[c]} : o.job # NoJob
          /\ c \in queue => cache[c].job # NoJob
          /\ ~(worker.cc = c /\ worker.pc # "record")
      BY <2>2 DEF Handled, Watched, Queued, Carried
    <3> QED
      BY <3>1, LaunchableStays
  <2> QED
    BY <2>1, <2>2
<1>2. \A j : Bound(c, j)' <=> Bound(c, j)
  BY DEF Bound, Recording
<1>3. Seen(c)' = Seen(c)
  BY DEF Seen
<1>4. Quiet(c) => Quiet(c)'
  BY DEF Quiet
<1>5. JustAsked(c) => JustAsked(c)'
  BY DEF JustAsked
<1>6. Ordered(c)' /\ Admissible(c)'
  BY <1>3 DEF Handled, Ordered, Admissible
<1>7. Working(c)'
  <2>1. \A j \in Active(c)' : \/ Bound(c, j)'
                              \/ /\ api'[c].job = NoJob
                                 /\ Released(j)'
                                 /\ ~Launchable(c, api[c])'
    BY <1>1, <1>2 DEF Handled, Working
  <2> QED
    BY <2>1 DEF Handled, Working
<1>8. Retrying(c)'
  BY <1>2, <1>3 DEF Handled, Retrying
<1>9. Queued(c)'
  BY <1>1, <1>4 DEF Handled, Queued
<1>10. Carried(c)'
  BY <1>1, <1>4 DEF Handled, Carried
<1>11. Watched(c)'
  BY <1>1, <1>3, <1>5 DEF Handled, Watched
<1> QED
  BY <1>6, <1>7, <1>8, <1>9, <1>10, <1>11 DEF Handled

\* A step that leaves c's Jobs alone, and what they are told.
LEMMA JobsUntouched ==
  ASSUME NEW c \in Curators, Calmly(c),
         \A j \in JobIds : \/ jobs[j].cc = c /\ jobs[j].pc # "none"
                          \/ jobs'[j].cc = c
                          => jobs'[j] = jobs[j]
  PROVE  /\ Active(c)' = Active(c)
         /\ \A j \in Active(c) : /\ jobs'[j] = jobs[j]
                                 /\ Released(j)' <=> Released(j)
         /\ worker.cc = c /\ worker.pc = "record"
              => worker.job \in Active(c)' /\ jobs'[worker.job].pc = "pending"
<1>0. "none" \notin RunningPCs \cup {"pending"}
  BY DEF RunningPCs, StatusPCs
<1>1. Active(c)' = Active(c)
  BY <1>0 DEF Active
<1>2. \A j \in Active(c) : jobs'[j] = jobs[j]
  BY <1>0 DEF Active
<1> QED
  BY <1>1, <1>2 DEF Released, Step, Calmly, Handled, Working

\* The Jobs know what they knew when neither they nor the live object change, and the
\* controller forgets no Job of theirs.
LEMMA StillTold ==
  ASSUME NEW c \in Curators, Calmly(c),
         \A j \in Active(c)' : j \in Active(c) /\ jobs'[j] = jobs[j],
         api'[c].desired = api[c].desired, api'[c].upgrade = api[c].upgrade,
         api'[c].cond = api[c].cond, cluster'[c] = cluster[c],
         \A j \in Active(c)' : Bound(c, j)' => Bound(c, j)
  PROVE  \A j \in Active(c)' : Told(c, j)'
<1> SUFFICES ASSUME NEW j \in Active(c)' PROVE Told(c, j)'
  OBVIOUS
<1>1. Told(c, j) /\ jobs'[j] = jobs[j]
  BY DEF Calmly
<1> QED
  BY <1>1 DEF Told, Placed, Tells, Monitors, Step

\* Nothing of c changes.
LEMMA Elsewhere ==
  ASSUME NEW c \in Curators, Calmly(c),
         api'[c] = api[c], cache'[c] = cache[c], watch'[c] = watch[c],
         c \in queue' <=> c \in queue, cluster'[c] = cluster[c],
         worker' = worker \/ (worker.cc # c /\ worker'.cc # c),
         \A j \in JobIds : \/ jobs[j].cc = c /\ jobs[j].pc # "none"
                          \/ jobs'[j].cc = c
                          => jobs'[j] = jobs[j]
  PROVE  Calmly(c)'
<1>1. /\ Active(c)' = Active(c)
      /\ \A j \in Active(c) : /\ jobs'[j] = jobs[j]
                              /\ Released(j)' <=> Released(j)
      /\ worker.cc = c /\ worker.pc = "record"
           => worker.job \in Active(c)' /\ jobs'[worker.job].pc = "pending"
  BY JobsUntouched
<1>2. Handled(c)'
  BY <1>1, Untouched DEF Calmly
<1>3. \A j : Bound(c, j)' => Bound(c, j)
  BY DEF Bound, Recording
<1>4. \A j \in Active(c)' : Told(c, j)'
  BY <1>1, <1>3, StillTold
<1> QED
  BY <1>2, <1>4 DEF Calmly

-----------------------------------------------------------------------------
(* The controller's worker at c.                                            *)

\* While the worker is at c, and not recording, no Job of c is bound.
LEMMA NoneBound ==
  ASSUME NEW c \in Curators, Handled(c), worker.cc = c, worker.pc # "record"
  PROVE  /\ api[c].job = NoJob
         /\ \A j \in Active(c) : ~Bound(c, j)
         /\ \A o \in watch[c] : ~Launchable(c, o)
         /\ c \in queue => ~Launchable(c, cache[c])
<1>1. api[c].job = NoJob
  BY DEF Handled, Carried
<1>2. \A j \in Active(c) : ~Bound(c, j)
  BY <1>1 DEF Active, JobIds, NoJob, Bound, Recording
<1> QED
  BY <1>1, <1>2 DEF Handled, Watched, JustAsked, Queued

\* The worker goes on towards a launch or leaves c.
LEMMA WorkerMoves ==
  ASSUME NEW c \in Curators, Calmly(c), worker.cc = c, worker.pc # "record",
         UNCHANGED <<api, cache, watch, jobs, cluster>>,
         \/ queue' = queue
         \/ queue' = queue \cup {c} /\ worker'.cc # c,
         \/ worker'.cc # c
         \/ /\ worker'.cc = c /\ worker'.held = worker.held
            /\ worker'.pc \notin {"record", "dropCRB"}
            /\ worker'.pc = "decide" => worker.pc = "dropCRB" /\ worker.held.desired = "upgrade"
            /\ worker'.pc \in LaunchPCs =>
                 \/ worker.pc \in LaunchPCs
                 \/ worker.pc \in {"dropCRB", "decide"} /\ Launchable(c, worker.held)
  PROVE  Calmly(c)'
<1>1. \A o : Launchable(c, o)' <=> Launchable(c, o)
  BY LaunchableStays
<1>2. /\ Active(c)' = Active(c) /\ Seen(c)' = Seen(c) /\ Quiet(c)' = Quiet(c)
      /\ \A j : Released(j)' <=> Released(j)
  BY DEF Active, Seen, Quiet, Released, Step
<1>3. /\ api[c].job = NoJob
      /\ \A j \in Active(c) : ~Bound(c, j) /\ ~Bound(c, j)'
      /\ \A o \in watch[c] : ~Launchable(c, o)
      /\ c \in queue => ~Launchable(c, cache[c])
  <2>1. \A j \in Active(c) : ~Bound(c, j)'
    BY NoneBound DEF Calmly, Bound, Recording
  <2> QED
    BY <2>1, NoneBound DEF Calmly
<1>4. Ordered(c)' /\ Admissible(c)'
  BY <1>2 DEF Calmly, Handled, Ordered, Admissible
<1>5. Working(c)'
  BY <1>1, <1>2, <1>3 DEF Calmly, Handled, Working
<1>6. Retrying(c)'
  BY <1>2, <1>3 DEF Retrying
<1>7. Queued(c)'
  BY <1>1, <1>2, <1>3 DEF Calmly, Handled, Queued, Carried, Quiet
<1>8. Watched(c)'
  BY <1>1, <1>3 DEF Watched
<1>9. Carried(c)'
  <2>1. CASE worker'.cc # c
    BY <2>1 DEF Carried
  <2>2. CASE worker'.cc = c
    BY <1>1, <1>2, <2>2 DEF Calmly, Handled, Carried, LaunchPCs
  <2> QED
    BY <2>1, <2>2
<1>10. \A j \in Active(c)' : Told(c, j)'
  BY <1>2, <1>3, StillTold
<1> QED
  BY <1>2, <1>4, <1>5, <1>6, <1>7, <1>8, <1>9, <1>10 DEF Calmly, Handled

\* What Reconcile launches for is launchable.
LEMMA BranchLaunches ==
  ASSUME NEW c, NEW o
  PROVE  /\ Branch(o) = "applySA" => Launchable(c, o)
         /\ Branch(o) \in {"decide", "dropSA"} => o.job = NoJob
         /\ Branch(o) = "decide" => o.desired = "upgrade"
         /\ Branch(o) \in {"idle", "dropSA", "decide", "applySA"}
  BY DEF Branch, Launchable

\* Taking c's key from the queue.
LEMMA ReconcileCalm ==
  ASSUME NEW c \in Curators, Calmly(c), Reconcile(c)
  PROVE  Calmly(c)'
<1> DEFINE pc == IF NamedApart(c) /\ cache[c].job = NoJob THEN "dropCRB" ELSE Branch(cache[c])
<1>1. /\ worker.pc = "idle" /\ c \in queue /\ queue' = queue \ {c}
      /\ worker' = IF pc = "idle" THEN IdleWorker
                   ELSE [pc |-> pc, cc |-> c, held |-> cache[c], job |-> NoJob]
      /\ UNCHANGED <<api, cache, watch, jobs, cluster>>
  BY DEF Reconcile
<1>2. /\ pc \in {"dropCRB", "idle", "dropSA", "decide", "applySA"}
      /\ pc = "applySA" => Launchable(c, cache[c])
      /\ pc \in {"dropCRB", "decide", "dropSA"} => cache[c].job = NoJob
      /\ pc = "decide" => cache[c].desired = "upgrade"
  BY BranchLaunches
<1> HIDE DEF pc
<1>3. /\ Active(c)' = Active(c) /\ Seen(c)' = Seen(c) /\ Quiet(c)' = Quiet(c)
      /\ \A j : Released(j)' <=> Released(j)
      /\ \A o : Launchable(c, o)' <=> Launchable(c, o)
  BY <1>1, LaunchableStays DEF Active, Seen, Quiet, Released, Step
<1>4. worker'.pc # "record" /\ c \notin queue'
  BY <1>1, <1>2 DEF IdleWorker
<1>5. \A j : Bound(c, j)' <=> Bound(c, j)
  BY <1>1, <1>4 DEF Bound, Recording
<1>6. \A o \in watch[c] : ~Launchable(c, o)
  BY <1>1 DEF Calmly, Handled, Watched, JustAsked
<1>7. Ordered(c)' /\ Admissible(c)'
  BY <1>1, <1>3 DEF Calmly, Handled, Ordered, Admissible
<1>8. Working(c)'
  <2>1. Working(c)
    BY DEF Calmly, Handled
  <2> QED
    BY <1>1, <1>3, <1>4, <1>5, <2>1 DEF Working
<1>9. Retrying(c)'
  BY <1>1, <1>3, <1>4, <1>5 DEF Calmly, Handled, Retrying
<1>10. Queued(c)'
  BY <1>4 DEF Queued
<1>11. Watched(c)'
  BY <1>1, <1>3, <1>6 DEF Calmly, Handled, Watched
<1>12. Carried(c)'
  <2> SUFFICES ASSUME worker'.cc = c PROVE Carried(c)'
    BY DEF Carried
  <2>1. CASE pc = "idle"
    <3>1. worker'.cc = NoCurator
      BY <1>1, <2>1 DEF IdleWorker
    <3> QED
      BY <3>1, CuratorAssumption
  <2>2. CASE pc # "idle"
    <3>1. worker'.pc = pc /\ worker'.held = cache[c]
      BY <1>1, <2>2
    <3>2. Launchable(c, cache[c]) =>
            Quiet(c) /\ cache[c] = api[c] /\ PlainRetry(cache[c])
      BY <1>1 DEF Calmly, Handled, Queued, Quiet
    <3>3. api[c].job = NoJob
      BY <1>1, <1>2, <2>2, <3>2 DEF Calmly, Handled, Queued, Quiet
    <3> QED
      BY <1>1, <1>2, <1>3, <1>4, <3>1, <3>2, <3>3 DEF Carried, LaunchPCs
  <2> QED
    BY <2>1, <2>2
<1>13. \A j \in Active(c)' : Told(c, j)'
  BY <1>1, <1>3, <1>5, StillTold
<1> QED
  BY <1>3, <1>7, <1>8, <1>9, <1>10, <1>11, <1>12, <1>13 DEF Calmly, Handled

-----------------------------------------------------------------------------
(* A Job is launched and recorded.                                          *)

\* The Job of an upgrade monitors it, whatever its hooks.
LEMMA UpgradeMonitored ==
  ASSUME NEW o, NEW hooks, JobKind(o) = "upgrade"
  PROVE  Upgrades(Containers(o, hooks))
<1> DEFINE Hook(hook, step) == IF RunsHook(o, hooks, hook) THEN <<step>> ELSE <<>>
           Work == Steps \ {"done"}
<1>1. /\ {"prehook-ansiblejob", "posthook-ansiblejob", "intermediate-upgrade-cluster",
          "intermediate-monitor-upgrade", "final-upgrade-cluster", "upgrade-cluster",
          "monitor-upgrade"} \subseteq Work
      /\ "done" \notin Work
  BY DEF Steps, HookSteps, EUSSteps
<1> HIDE DEF Work
<1>2. /\ Hook("prehook", "prehook-ansiblejob") \in Seq(Work)
      /\ Hook("posthook", "posthook-ansiblejob") \in Seq(Work)
  <2>1. /\ <<"prehook-ansiblejob">> \in Seq(Work)
        /\ <<"posthook-ansiblejob">> \in Seq(Work)
        /\ <<>> \in Seq(Work)
    BY <1>1
  <2> QED
    BY <2>1
<1>3. MainSteps(o) \in Seq(Work) /\ MainSteps(o) # <<>>
      /\ MainSteps(o)[Len(MainSteps(o))] = "monitor-upgrade"
  <2>1. CASE IsEUS(o)
    <3>1. MainSteps(o) = <<"intermediate-upgrade-cluster", "intermediate-monitor-upgrade",
                           "final-upgrade-cluster", "monitor-upgrade">>
      BY <2>1 DEF MainSteps
    <3> QED
      BY <1>1, <3>1
  <2>2. CASE ~IsEUS(o)
    <3>1. MainSteps(o) = <<"upgrade-cluster", "monitor-upgrade">>
      BY <2>2 DEF MainSteps
    <3> QED
      BY <1>1, <3>1
  <2> QED
    BY <2>1, <2>2
<1> DEFINE Pre == Hook("prehook", "prehook-ansiblejob")
           Post == Hook("posthook", "posthook-ansiblejob")
           Main == MainSteps(o)
<1>4. Containers(o, hooks) = ((Pre \o Main) \o Post) \o <<"done">>
  BY DEF Containers
<1> HIDE DEF Hook, Pre, Post, Main
<1>5. ASSUME NEW S, NEW s \in Seq(S), NEW T, NEW t \in Seq(T)
      PROVE  /\ s \o t \in Seq(S \cup T)
             /\ Len(s \o t) = Len(s) + Len(t)
             /\ \A i \in 1 .. Len(s) : (s \o t)[i] = s[i]
             /\ t # <<>> => /\ (s \o t)[Len(s \o t)] = t[Len(t)]
                            /\ Len(t) >= 1
  OBVIOUS
<1> DEFINE ToMain == Pre \o Main
           n == Len(ToMain)
<1>6. /\ ToMain \in Seq(Work) /\ n \in Nat /\ n >= 1 /\ ToMain[n] = "monitor-upgrade"
      /\ \A i \in 1 .. n : ToMain[i] # "done"
  <2>1. /\ ToMain \in Seq(Work \cup Work) /\ ToMain[n] = "monitor-upgrade"
        /\ n = Len(Pre) + Len(Main) /\ Len(Main) >= 1
    BY <1>2, <1>3, <1>5 DEF Pre, Main
  <2>2. Len(Pre) \in Nat /\ Len(Main) \in Nat
    BY <1>2, <1>3 DEF Pre, Main
  <2>3. ToMain \in Seq(Work)
    BY <2>1
  <2> HIDE DEF ToMain
  <2>4. \A i \in 1 .. n : ToMain[i] \in Work
    BY <2>3
  <2> QED
    BY <1>1, <2>1, <2>2, <2>3, <2>4
<1> HIDE DEF ToMain
<1>7. /\ ToMain \o Post \in Seq(Work \cup Work) /\ Len(ToMain \o Post) >= n
      /\ \A i \in 1 .. n : (ToMain \o Post)[i] = ToMain[i]
  <2>1. Post \in Seq(Work) /\ Len(Post) \in Nat
    BY <1>2 DEF Post
  <2> QED
    BY <1>5, <1>6, <2>1
<1>8. /\ Len((ToMain \o Post) \o <<"done">>) >= n
      /\ \A i \in 1 .. n : ((ToMain \o Post) \o <<"done">>)[i] = ToMain[i]
  <2>1. <<"done">> \in Seq({"done"}) /\ Len(<<"done">>) \in Nat
    OBVIOUS
  <2>2. Len(ToMain \o Post) \in Nat /\ \A i \in 1 .. n : i \in 1 .. Len(ToMain \o Post)
    BY <1>6, <1>7
  <2> QED
    BY <1>5, <1>6, <1>7, <2>1, <2>2
<1>9. Containers(o, hooks) = (ToMain \o Post) \o <<"done">>
  BY <1>4 DEF ToMain
<1> QED
  <2> DEFINE todo == (ToMain \o Post) \o <<"done">>
  <2>1. /\ n \in 1 .. Len(todo) /\ todo[n] = "monitor-upgrade"
        /\ \A i \in 1 .. n : todo[i] # "done"
    <3>1. Len(todo) \in Nat
      BY <1>7
    <3> QED
      BY <1>6, <1>8, <3>1
  <2> HIDE DEF todo, n
  <2>2. Upgrades(todo)
    BY <2>1 DEF Upgrades
  <2> QED
    BY <1>9, <2>2 DEF todo

\* CreateJob for c.
LEMMA CreateCalm ==
  ASSUME TypeOK, NEW c \in Curators, Calmly(c), worker.cc = c, CreateJob
  PROVE  Calmly(c)'
<1>1. PICK j \in JobIds : /\ jobs[j].pc = "none"
                          /\ jobs' = [jobs EXCEPT ![j] = Launched(c, worker.held)]
                          /\ worker' = [worker EXCEPT !.pc = "record", !.job = j]
  BY DEF CreateJob
<1>2. /\ worker.pc = "create"
      /\ UNCHANGED <<api, cache, watch, queue, cluster>>
  BY DEF CreateJob
<1>3. /\ Quiet(c) /\ worker.held = api[c] /\ c \notin queue /\ PlainRetry(api[c])
  BY <1>2 DEF Calmly, Handled, Carried, LaunchPCs
<1>4. /\ worker'.pc = "record" /\ worker'.cc = c /\ worker'.job = j
  BY <1>1 DEF TypeOK
<1>5. /\ jobs'[j] = Launched(c, api[c])
      /\ \A i \in JobIds : i # j => jobs'[i] = jobs[i]
  BY <1>1, <1>3 DEF TypeOK
<1>6. /\ jobs'[j].pc = "pending" /\ jobs'[j].cc = c
      /\ jobs'[j].todo = Containers(api[c], Hooks)
  BY <1>5 DEF Launched, UnusedJob
<1>7. Active(c)' = {j}
  BY <1>3, <1>5, <1>6 DEF Quiet, Active
<1>8. Ordered(c)' /\ Admissible(c)'
  BY <1>2 DEF Calmly, Handled, Ordered, Admissible, Seen
<1>9. Working(c)'
  BY <1>2, <1>3, <1>4, <1>6, <1>7 DEF Working, Bound, Recording, Quiet
<1>10. Retrying(c)'
  BY <1>2, <1>3 DEF Retrying, Seen, Quiet, PlainRetry
<1>11. Queued(c)' /\ Carried(c)' /\ Watched(c)'
  BY <1>2, <1>3, <1>4 DEF Queued, Carried, Watched, Quiet
<1>12. Told(c, j)'
  <2>1. api'[c].desired = "upgrade" => Upgrades(jobs'[j].todo)
    BY <1>2, <1>3, <1>6, UpgradeMonitored DEF PlainRetry, JobKind
  <2> QED
    BY <1>6, <2>1 DEF Told, Placed, Tells, Monitors
<1> QED
  BY <1>7, <1>8, <1>9, <1>10, <1>11, <1>12 DEF Calmly, Handled

\* RecordCuratorJobName for c: nobody has written since the cache was filled.
LEMMA RecordCalm ==
  ASSUME TypeOK, NEW c \in Curators, Calmly(c), worker.cc = c, RecordJobName
  PROVE  Calmly(c)' /\ api'[c].job = worker.job
<1>0. PICK j : j = worker.job
  OBVIOUS
<1>1. /\ worker.pc = "record" /\ UNCHANGED <<cache, jobs, cluster>>
  BY DEF RecordJobName
<1>2. /\ j \in Active(c) /\ jobs[j].pc = "pending" /\ cache[c] = api[c] /\ watch[c] = {}
      /\ c \notin queue /\ api[c].job = NoJob
  BY <1>0, <1>1 DEF Calmly, Handled, Working
<1>3. Current(c, cache[c])
  BY <1>2 DEF Current
<1>4. Put(c, WithJob(api[c], j)) /\ queue' = queue /\ worker' = IdleWorker
  BY <1>0, <1>2, <1>3 DEF RecordJobName, Goto
<1>5. j \in JobIds /\ j # NoJob /\ j \in Nat /\ api[c] \in Object
  BY <1>2 DEF Active, JobIds, NoJob, TypeOK
<1>6. WithJob(api[c], j) \in Object
  BY <1>5, StatusWrites
<1>7. /\ WithJob(api[c], j).job = j /\ WithJob(api[c], j).desired = api[c].desired
      /\ WithJob(api[c], j).op = api[c].op /\ WithJob(api[c], j).upgrade = api[c].upgrade
      /\ WithJob(api[c], j).cond = api[c].cond
  BY <1>5 DEF WithJob, Object
<1>8. /\ api'[c].job = j /\ api'[c].desired = api[c].desired
      /\ api'[c].op = api[c].op /\ api'[c].upgrade = api[c].upgrade
      /\ api'[c].cond = api[c].cond
      /\ api'[c].rv = api[c].rv + 1 /\ watch'[c] = {api'[c]}
  BY <1>2, <1>4, <1>5, <1>6, <1>7, PutWrites
<1>9. worker'.cc # c
  BY <1>4, CuratorAssumption DEF IdleWorker
<1>10. Active(c)' = Active(c) /\ \A i \in Active(c) : i = j
  BY <1>1, <1>2 DEF Active, Calmly, Handled, Working
<1>11. \A o : Launchable(c, o)' <=> Launchable(c, o)
  BY <1>1, LaunchableStays
<1>12. Ordered(c)'
  <2>1. api[c].rv \in Nat
    BY <1>5 DEF Object
  <2> QED
    BY <1>1, <1>2, <1>8, <2>1 DEF Ordered
<1>13. Admissible(c)'
  BY <1>1, <1>2, <1>8 DEF Calmly, Handled, Admissible, Seen
<1>14. Working(c)'
  BY <1>8, <1>9, <1>10 DEF Working, Bound
<1>15. Bound(c, j)
  BY <1>0, <1>1 DEF Bound, Recording
<1>16. Retrying(c)'
  <2>1. PosthookOnly(api'[c]) => PosthookOnly(api[c])
    BY <1>8 DEF PosthookOnly
  <2>2. PosthookOnly(api[c]) => api[c].desired # "upgrade"
    BY <1>2, <1>15 DEF Calmly, Handled, Retrying
  <2> QED
    BY <1>1, <1>2, <1>4, <1>8, <2>1, <2>2 DEF Retrying, Seen
<1>17. Queued(c)' /\ Carried(c)'
  BY <1>2, <1>4, <1>9 DEF Queued, Carried
<1>18. Watched(c)'
  <2>1. Launchable(c, api'[c]) => PosthookOnly(api'[c])
    BY <1>5, <1>8 DEF Launchable
  <2> QED
    BY <1>1, <1>2, <1>4, <1>5, <1>8, <1>9, <1>11, <2>1 DEF Watched, Seen
<1>19. Told(c, j)'
  <2>1. Told(c, j)
    BY <1>2 DEF Calmly
  <2> QED
    BY <1>1, <1>2, <1>8, <1>15, <2>1 DEF Told, Placed, Tells, Monitors, Step
<1> QED
  BY <1>0, <1>8, <1>10, <1>12, <1>13, <1>14, <1>16, <1>17, <1>18, <1>19
  DEF Calmly, Handled

-----------------------------------------------------------------------------
(* The watch delivers, and users ask.                                       *)

\* The controller is not woken by a change that leaves a retry as it is.
LEMMA RetryNotHeard ==
  ASSUME NEW old, NEW new, PosthookOnly(new), old.op = new.op,
         new.desired # "delete-cluster-namespace"
  PROVE  ~Passes(old, new)
  BY DEF Passes, PosthookOnly, Retries

\* A delivery for c.
LEMMA DeliverCalm ==
  ASSUME TypeOK, VersionsFaithful, NEW c \in Curators, Calmly(c), Deliver(c)
  PROVE  Calmly(c)'
<1>1. PICK o \in watch[c] : /\ \A p \in watch[c] : o.rv <= p.rv
                            /\ watch' = [watch EXCEPT ![c] = @ \ {o}]
                            /\ cache' = [cache EXCEPT ![c] = o]
                            /\ Wake(c, cache[c], o)
                            /\ UNCHANGED <<api, worker, jobs, cluster>>
  BY DEF Deliver
<1>2. /\ cache'[c] = o /\ watch'[c] = watch[c] \ {o}
      /\ c \in queue' => c \in queue \/ Passes(cache[c], o)
  BY <1>1 DEF TypeOK, Wake
<1>3. /\ \A p \in watch[c] : p.rv \in Nat /\ p.rv <= api[c].rv
      /\ cache[c].rv \in Nat /\ api[c].rv \in Nat
      /\ cache[c].rv < o.rv
      /\ api[c] \in watch[c]
      /\ o.desired # "delete-cluster-namespace"
  <2>1. \A p \in watch[c] : p \in Copies(c) /\ p \in Object
    BY DEF Copies, TypeOK
  <2>2. /\ cache[c] \in Object /\ api[c] \in Object
    BY DEF TypeOK
  <2> QED
    BY <1>1, <2>1, <2>2
    DEF VersionsFaithful, Object, Calmly, Handled, Ordered, Admissible, Seen
<1>4. \A p \in watch'[c] : p \in watch[c] /\ o.rv < p.rv
  BY <1>1, <1>2, <1>3 DEF Calmly, Handled, Ordered
<1>5. /\ Active(c)' = Active(c) /\ Seen(c)' \subseteq Seen(c)
      /\ \A j : (Released(j)' <=> Released(j)) /\ (Bound(c, j)' <=> Bound(c, j))
      /\ \A p : Launchable(c, p)' <=> Launchable(c, p)
  BY <1>1, <1>2, LaunchableStays DEF Active, Seen, Released, Step, Bound, Recording
<1>6. ~(worker.cc = c /\ worker.pc = "record") /\ ~Quiet(c)
  BY <1>1 DEF Calmly, Handled, Working, Quiet
<1>7. JustAsked(c) => o = api[c] /\ watch'[c] = {}
  BY <1>1, <1>2 DEF JustAsked
<1>8. Ordered(c)'
  <2>1. watch'[c] = {} => o = api[c]
    BY <1>2, <1>3
  <2>2. watch'[c] # {} => api[c] \in watch'[c]
    BY <1>2, <1>3, <1>4
  <2> QED
    BY <1>1, <1>2, <1>4, <2>1, <2>2 DEF Calmly, Handled, Ordered
<1>9. Admissible(c)'
  BY <1>1, <1>5 DEF Calmly, Handled, Admissible
<1>10. Working(c)'
  <2>1. Working(c)
    BY DEF Calmly, Handled
  <2> QED
    BY <1>1, <1>5, <1>6, <2>1 DEF Working
<1>11. Retrying(c)'
  <2>1. Retrying(c)
    BY DEF Calmly, Handled
  <2> SUFFICES ASSUME NEW j \in Active(c), Bound(c, j), PosthookOnly(api[c])
               PROVE  c \notin queue'
    BY <1>1, <1>5, <2>1 DEF Retrying
  <2>2. c \notin queue /\ o.op = api[c].op /\ cache[c].op = api[c].op
    BY <1>1, <2>1 DEF Retrying, Seen
  <2>3. PosthookOnly(o)
    BY <2>2 DEF PosthookOnly
  <2> QED
    BY <1>2, <1>3, <2>2, <2>3, RetryNotHeard
<1>12. /\ o.job = NoJob => api[c].job = NoJob
       /\ Launchable(c, o) =>
            \/ JustAsked(c) /\ PlainRetry(o)
            \/ /\ PosthookOnly(o) /\ c \notin queue /\ worker.cc # c
               /\ cache[c].op = o.op
  BY <1>1, <1>3 DEF Calmly, Handled, Watched, Seen
<1>13. Queued(c)'
  <2> SUFFICES ASSUME c \in queue', Launchable(c, o)
               PROVE  Quiet(c)' /\ worker.cc # c /\ PlainRetry(o)
    BY <1>1, <1>2, <1>5, <1>12 DEF Queued
  <2>1. JustAsked(c) /\ PlainRetry(o)
    BY <1>2, <1>3, <1>12, RetryNotHeard
  <2> QED
    BY <1>1, <1>2, <1>5, <1>7, <2>1 DEF JustAsked, Quiet
<1>14. Carried(c)'
  <2> SUFFICES ASSUME worker.cc = c PROVE Carried(c)'
    BY <1>1 DEF Carried
  <2>1. ~Launchable(c, o)
    BY <1>12 DEF JustAsked
  <2>2. Carried(c)
    BY DEF Calmly, Handled
  <2> QED
    BY <1>1, <1>2, <1>5, <1>6, <2>1, <2>2 DEF Carried
<1>15. Watched(c)'
  <2> SUFFICES ASSUME NEW p \in watch'[c], Launchable(c, p)
               PROVE  /\ PosthookOnly(p) /\ c \notin queue' /\ worker.cc # c
                      /\ \A q \in Seen(c) : q.rv < p.rv => q.op = p.op
    <3>1. \A p \in watch'[c] : p.job = NoJob => api[c].job = NoJob
      BY <1>4 DEF Calmly, Handled, Watched
    <3> QED
      BY <1>1, <1>5, <3>1 DEF Watched
  <2>1. /\ PosthookOnly(p) /\ c \notin queue /\ worker.cc # c
        /\ \A q \in Seen(c) : q.rv < p.rv => q.op = p.op
    BY <1>4, <1>7 DEF Calmly, Handled, Watched
  <2>2. cache[c].op = p.op /\ o.op = p.op
    <3>1. cache[c].rv < p.rv /\ o.rv < p.rv /\ cache[c] \in Seen(c) /\ o \in Seen(c)
      BY <1>1, <1>4 DEF Calmly, Handled, Ordered, Seen
    <3> QED
      BY <2>1, <3>1
  <2>3. PosthookOnly(o)
    BY <2>1, <2>2 DEF PosthookOnly
  <2> QED
    BY <1>2, <1>3, <2>1, <2>2, <2>3, RetryNotHeard
<1>16. \A j \in Active(c)' : Told(c, j)'
  BY <1>1, <1>5, StillTold
<1> QED
  BY <1>5, <1>8, <1>9, <1>10, <1>11, <1>13, <1>14, <1>15, <1>16 DEF Calmly, Handled

\* What users write, in calm circumstances: of a curator at rest, either what is
\* desired or the operation.
LEMMA UserWrites ==
  ASSUME Calm, TypeOK, NEW c \in Curators, Ask(c) \/ AskRetry(c)
  PROVE  \E o \in Object :
            /\ UserWrite(c, o)
            /\ o.job = api[c].job /\ o.cond = api[c].cond
            /\ \/ /\ o.op = api[c].op
                  /\ o.desired # "delete-cluster-namespace"
                  /\ o.desired = "upgrade" => o.upgrade.version # NoVersion
               \/ /\ o.desired = api[c].desired /\ o.upgrade = api[c].upgrade
                  /\ o.desired # "upgrade"
<1>1. api[c] \in Object
  BY DEF TypeOK
<1>2. CASE Ask(c)
  <2>1. PICK a \in Asks :
          UserWrite(c, [api[c] EXCEPT !.desired = a.desired,
                          !.upgrade = IF a.desired = "upgrade" THEN a.upgrade ELSE @])
    BY <1>2 DEF Ask
  <2>2. /\ a.desired \in Curations /\ a.upgrade \in Request
        /\ a.desired # "delete-cluster-namespace"
        /\ a.desired = "upgrade" => a.upgrade.version # NoVersion
    BY AsksAssumption DEF Calm
  <2> DEFINE o == [api[c] EXCEPT !.desired = a.desired,
                     !.upgrade = IF a.desired = "upgrade" THEN a.upgrade ELSE @]
  <2>3. /\ o \in Object /\ o.job = api[c].job /\ o.cond = api[c].cond
        /\ o.desired = a.desired /\ o.op = api[c].op
        /\ a.desired = "upgrade" => o.upgrade = a.upgrade
    BY <1>1, <2>2 DEF Object
  <2> HIDE DEF o
  <2> QED
    BY <2>1, <2>2, <2>3 DEF o
<1>3. CASE AskRetry(c)
  <2>1. PICK r \in RetryAsks : /\ r[1] = api[c].desired
                               /\ UserWrite(c, [api[c] EXCEPT !.op = r[2]])
    BY <1>3 DEF AskRetry
  <2>2. r[2] \in Operations /\ r[1] # "upgrade"
    BY AsksAssumption DEF Operations, Calm
  <2> DEFINE o == [api[c] EXCEPT !.op = r[2]]
  <2>3. /\ o \in Object /\ o.job = api[c].job /\ o.cond = api[c].cond
        /\ o.desired = api[c].desired /\ o.upgrade = api[c].upgrade
    BY <1>1, <2>2 DEF Object
  <2> HIDE DEF o
  <2> QED
    BY <2>1, <2>2, <2>3 DEF o
<1> QED
  BY <1>2, <1>3

\* Someone asks something of c.
LEMMA UserCalm ==
  ASSUME Calm, TypeOK, NEW c \in Curators, Calmly(c), Ask(c) \/ AskRetry(c)
  PROVE  Calmly(c)'
<1>1. PICK o \in Object :
            /\ UserWrite(c, o)
            /\ o.job = api[c].job /\ o.cond = api[c].cond
            /\ \/ /\ o.op = api[c].op
                  /\ o.desired # "delete-cluster-namespace"
                  /\ o.desired = "upgrade" => o.upgrade.version # NoVersion
               \/ /\ o.desired = api[c].desired /\ o.upgrade = api[c].upgrade
                  /\ o.desired # "upgrade"
  BY UserWrites
<1>2. /\ AtRest(c) /\ Put(c, o)
      /\ UNCHANGED <<cache, queue, worker, jobs, cluster>>
  BY <1>1 DEF UserWrite, Calm
<1>3. /\ api'[c].desired = o.desired /\ api'[c].op = o.op
      /\ api'[c].upgrade = o.upgrade /\ api'[c].job = o.job
      /\ \/ api'[c] = api[c] /\ watch'[c] = watch[c]
         \/ api'[c].rv = api[c].rv + 1 /\ watch'[c] = watch[c] \cup {api'[c]}
  BY <1>2, PutWrites
<1>4. CASE api'[c] = api[c] /\ watch'[c] = watch[c]
  BY <1>2, <1>4, Elsewhere
<1>5. CASE api'[c].rv = api[c].rv + 1 /\ watch'[c] = watch[c] \cup {api'[c]}
  <2>1. /\ watch'[c] = {api'[c]} /\ Active(c)' = {} /\ Active(c) = {}
        /\ cache[c] = api[c] /\ api[c].job = NoJob /\ api'[c].job = NoJob
        /\ c \notin queue' /\ worker'.cc # c
    BY <1>1, <1>2, <1>3, <1>5 DEF AtRest, Active, Calmly, Handled, Ordered
  <2>2. JustAsked(c)'
    BY <2>1 DEF JustAsked
  <2>3. Ordered(c)'
    <3>1. api[c].rv \in Nat
      BY DEF TypeOK, Object
    <3> QED
      BY <1>2, <1>5, <2>1, <3>1 DEF Ordered
  <2>4. Admissible(c)'
    BY <1>1, <1>2, <1>3, <2>1 DEF Calmly, Handled, Admissible, Seen
  <2>5. Working(c)' /\ Retrying(c)' /\ Queued(c)' /\ Carried(c)'
    BY <2>1 DEF Working, Retrying, Queued, Carried
  <2>6. Watched(c)'
    BY <1>1, <1>2, <1>3, <2>1, <2>2 DEF Watched, PlainRetry, Seen
  <2> QED
    BY <2>1, <2>3, <2>4, <2>5, <2>6 DEF Calmly, Handled
<1> QED
  BY <1>3, <1>4, <1>5

-----------------------------------------------------------------------------
(* The pods of c's Jobs.                                                    *)

\* A pod of c is its one Job, and the controller is not recording it.
LEMMA TheJob ==
  ASSUME NEW c \in Curators, Handled(c), NEW j \in Active(c), jobs[j].pc # "pending"
  PROVE  /\ \A i \in Active(c) : i = j
         /\ ~Quiet(c) /\ ~JustAsked(c)
         /\ ~(worker.cc = c /\ worker.pc = "record")
         /\ Bound(c, j) <=> api[c].job = j
         /\ api[c].job = j \/ (api[c].job = NoJob /\ Released(j) /\ ~Launchable(c, api[c]))
         /\ api[c].job = j => worker.cc # c
<1>1. /\ \A i \in Active(c) : i = j
      /\ ~Quiet(c) /\ ~JustAsked(c)
  BY DEF Handled, Working, Quiet, JustAsked
<1>2. ~(worker.cc = c /\ worker.pc = "record")
  BY <1>1 DEF Handled, Working
<1>3. Bound(c, j) <=> api[c].job = j
  BY <1>2 DEF Bound, Recording
<1>4. api[c].job = j \/ (api[c].job = NoJob /\ Released(j) /\ ~Launchable(c, api[c]))
  BY <1>3 DEF Handled, Working
<1>5. api[c].job = j => worker.cc # c
  BY <1>2, NoneBound DEF Active, JobIds, NoJob
<1> QED
  BY <1>1, <1>2, <1>3, <1>4, <1>5

\* A new version is the latest, and stays so until it is delivered.
LEMMA OrderedWrite ==
  ASSUME TypeOK, VersionsFaithful, NEW c \in Curators, Ordered(c), cache' = cache,
         \/ api'[c] = api[c] /\ watch'[c] = watch[c]
         \/ api'[c].rv = api[c].rv + 1 /\ watch'[c] = watch[c] \cup {api'[c]}
  PROVE  /\ Ordered(c)'
         /\ \A o \in watch[c] : \A p \in Seen(c)' : p.rv < o.rv => p \in Seen(c)
<1>1. /\ cache[c].rv \in Nat /\ api[c].rv \in Nat /\ cache[c].rv <= api[c].rv
      /\ \A o \in watch[c] : o.rv \in Nat /\ o.rv <= api[c].rv
  <2>1. /\ cache[c] \in Object /\ api[c] \in Object
        /\ \A o \in watch[c] : o \in Object
    BY DEF TypeOK
  <2> QED
    BY <2>1 DEF VersionsFaithful, Copies, Object
<1>2. CASE api'[c] = api[c] /\ watch'[c] = watch[c]
  BY <1>2 DEF Ordered, Seen
<1>3. CASE api'[c].rv = api[c].rv + 1 /\ watch'[c] = watch[c] \cup {api'[c]}
  <2> DEFINE n == api'[c]
  <2>1. /\ n.rv = api[c].rv + 1
        /\ \A o : o \in watch'[c] <=> o \in watch[c] \/ o = n
    BY <1>3
  <2>2. /\ cache[c].rv < n.rv /\ n.rv \in Nat
        /\ \A o \in watch[c] : o.rv < n.rv
    BY <1>1, <2>1
  <2> HIDE DEF n
  <2>3. \A o \in watch'[c] : cache[c].rv < o.rv
    BY <2>1, <2>2 DEF Ordered
  <2>4. \A o, p \in watch'[c] : o.rv = p.rv => o = p
    <3> SUFFICES ASSUME NEW o \in watch'[c], NEW p \in watch'[c], o.rv = p.rv
                 PROVE  o = p
      OBVIOUS
    <3>1. CASE o \in watch[c] /\ p \in watch[c]
      BY <3>1 DEF Ordered
    <3>2. CASE o = n /\ p \in watch[c]
      <4>1. p.rv < n.rv /\ p.rv \in Nat
        BY <1>1, <2>2, <3>2
      <4> QED
        BY <2>2, <3>2, <4>1
    <3>3. CASE o \in watch[c] /\ p = n
      <4>1. o.rv < n.rv /\ o.rv \in Nat
        BY <1>1, <2>2, <3>3
      <4> QED
        BY <2>2, <3>3, <4>1
    <3> QED
      BY <2>1, <3>1, <3>2, <3>3
  <2>5. Ordered(c)'
    BY <2>1, <2>3, <2>4 DEF Ordered, n
  <2>6. ASSUME NEW o \in watch[c], NEW p \in Seen(c)', p.rv < o.rv
        PROVE  p \in Seen(c)
    <3>1. p # n
      <4>1. o.rv < n.rv /\ o.rv \in Nat /\ n.rv \in Nat
        BY <1>1, <2>2
      <4> QED
        BY <2>6, <4>1
    <3> QED
      BY <2>1, <3>1 DEF Seen
  <2> QED
    BY <2>5, <2>6
<1> QED
  BY <1>2, <1>3

\* What a pod may write: a version that launches nothing, or, of a retry at work, one
\* that does not wake the controller.
LEMMA PodWrite ==
  ASSUME TypeOK, VersionsFaithful, NEW c \in Curators, Handled(c),
         NEW j \in Active(c), jobs[j].pc # "pending",
         UNCHANGED <<cache, queue, worker, cluster>>,
         \/ api'[c] = api[c] /\ watch'[c] = watch[c]
         \/ api'[c].rv = api[c].rv + 1 /\ watch'[c] = watch[c] \cup {api'[c]},
         api'[c].desired \in {api[c].desired, ""}, api'[c].upgrade = api[c].upgrade,
         api'[c].job \in {api[c].job, NoJob},
         \/ ~Launchable(c, api'[c])
         \/ /\ api'[c].job = api[c].job /\ api'[c].op = api[c].op
            /\ PosthookOnly(api[c]),
         Active(c)' \subseteq Active(c),
         \A i \in Active(c)' :
            \/ api'[c].job = i /\ api'[c].op = api[c].op
            \/ api'[c].job = NoJob /\ Released(i)' /\ ~Launchable(c, api'[c])
  PROVE  Handled(c)'
<1>1. /\ \A i \in Active(c) : i = j
      /\ ~Quiet(c) /\ ~JustAsked(c)
      /\ ~(worker.cc = c /\ worker.pc = "record")
      /\ api[c].job = j \/ (api[c].job = NoJob /\ Released(j) /\ ~Launchable(c, api[c]))
      /\ Bound(c, j) <=> api[c].job = j
      /\ api[c].job = j => worker.cc # c
  BY TheJob
<1>2. \A o : Launchable(c, o)' <=> Launchable(c, o)
  BY LaunchableStays
<1>3. /\ Seen(c)' \subseteq Seen(c) \cup {api'[c]}
      /\ watch'[c] \subseteq watch[c] \cup {api'[c]}
  BY DEF Seen
<1>4. /\ Ordered(c)'
      /\ \A o \in watch[c] : \A p \in Seen(c)' : p.rv < o.rv => p \in Seen(c)
  BY OrderedWrite DEF Handled
<1>5. Admissible(c)'
  BY <1>3 DEF Handled, Admissible, Ordered, Seen
<1>6. Working(c)'
  BY <1>1, <1>2 DEF Working, Bound, Recording
<1>7. ASSUME api'[c].job = api[c].job, api'[c].op = api[c].op, PosthookOnly(api[c])
      PROVE  /\ c \notin queue
             /\ worker.cc # c
             /\ api[c].desired # "upgrade"
             /\ \A o \in Seen(c)' : o.op = api'[c].op
  <2>1. api[c].job = j
    BY <1>1, <1>7 DEF Launchable
  <2>2. /\ c \notin queue /\ api[c].desired # "upgrade"
        /\ \A o \in Seen(c) : o.op = api[c].op
    BY <1>1, <1>7, <2>1 DEF Handled, Retrying
  <2> QED
    BY <1>1, <1>3, <1>7, <2>1, <2>2
<1>8. Retrying(c)'
  <2> SUFFICES ASSUME NEW i \in Active(c)', Bound(c, i)', PosthookOnly(api'[c])
               PROVE  /\ c \notin queue'
                      /\ api'[c].desired # "upgrade"
                      /\ \A o \in Seen(c)' : o.op = api'[c].op
    BY DEF Retrying
  <2>1. i \in Active(c) /\ i # NoJob
    <3>1. i \in Active(c)
      OBVIOUS
    <3> QED
      BY <3>1, ActiveJobs
  <2>2. api'[c].job = api[c].job /\ api'[c].op = api[c].op
    <3>1. api'[c].job = i
      <4>1. Bound(c, i)' /\ worker' = worker
        OBVIOUS
      <4> QED
        BY <1>1, <4>1 DEF Bound, Recording
    <3> QED
      BY <2>1, <3>1
  <2>3. PosthookOnly(api[c])
    BY <2>2 DEF PosthookOnly
  <2> QED
    BY <1>7, <2>2, <2>3
<1>9. Queued(c)'
  BY <1>1, <1>2 DEF Handled, Queued
<1>10. Carried(c)'
  BY <1>1, <1>2 DEF Handled, Carried
<1>11. Watched(c)'
  <2>1. \A o \in watch'[c] : o.job = NoJob => api'[c].job = NoJob
    BY <1>3 DEF Handled, Watched
  <2>2. ASSUME NEW o \in watch'[c], Launchable(c, o)
        PROVE  /\ PosthookOnly(o) /\ c \notin queue /\ worker.cc # c
               /\ \A p \in Seen(c)' : p.rv < o.rv => p.op = o.op
    <3>1. CASE o = api'[c] /\ o \notin watch[c]
      <4>1. /\ api'[c].job = api[c].job /\ api'[c].op = api[c].op
            /\ PosthookOnly(api[c])
        BY <2>2, <3>1
      <4>2. PosthookOnly(o)
        BY <3>1, <4>1 DEF PosthookOnly
      <4> QED
        BY <1>7, <3>1, <4>1, <4>2
    <3>2. CASE o \in watch[c]
      <4>1. /\ PosthookOnly(o) /\ c \notin queue /\ worker.cc # c
            /\ \A p \in Seen(c) : p.rv < o.rv => p.op = o.op
        BY <1>1, <2>2, <3>2 DEF Handled, Watched
      <4> QED
        BY <1>4, <3>2, <4>1
    <3> QED
      BY <1>3, <3>1, <3>2
  <2> QED
    BY <1>2, <2>1, <2>2 DEF Watched
<1> QED
  BY <1>4, <1>5, <1>6, <1>8, <1>9, <1>10, <1>11 DEF Handled

\* What a container keeps in mind from one call to the next.
Keeps(p, q) ==
    /\ q.held = p.held /\ q.local = p.local /\ q.todo = p.todo
    /\ q.cc = p.cc /\ q.kind = p.kind

\* A container's work or a call failed: the deferred function is to tell so.
GivesUp(p, q) ==
    /\ p.pc \in {"progress", "stepfail", "final", "work", "donepatch"}
    /\ q.pc = "jobfail"
    /\ Keeps(p, q)
    /\ q.buf = NoObject
    /\ q.msg = Ended(p.held.job, p.local, p.held.upgrade, TRUE)

\* The pod is over.
Ends(p, q) == q.pc \in {"succeeded", "failed"} /\ q.cc = p.cc /\ q.kind = p.kind

\* A step of j's pod touches no other Job, and nothing of the controller's.
LEMMA PodAlone ==
  ASSUME TypeOK, Shape, NEW j \in JobIds, Pod(j)
  PROVE  /\ j \in Active(Owner(j)) /\ Owner(j) \in Curators
         /\ jobs[j].pc # "none" /\ jobs[j] \in Job
         /\ \A i \in JobIds : i # j => jobs'[i] = jobs[i]
         /\ UNCHANGED <<cache, queue, worker, grants, edits, faults>>
<1>1. jobs[j].pc \in RunningPCs \cup {"pending"} /\ jobs[j].pc # "none"
  BY DEF Pod, StartPod, GetCurator, ReadForStatus, UpdateStatus, WorkDone, WorkFails,
         WorkReports, DonePatch, FailPatch, RunningPCs, StatusPCs
<1>2. /\ \E job : jobs' = [jobs EXCEPT ![j] = job]
      /\ UNCHANGED <<cache, queue, worker, grants, edits, faults>>
  <2>1. CASE WorkDone(j)
    <3>1. jobs' = [jobs EXCEPT ![j] = [jobs[j] EXCEPT !.pc = "final"]]
      BY <2>1 DEF WorkDone, TypeOK
    <3> QED
      BY <2>1, <3>1 DEF WorkDone
  <2>2. CASE ~WorkDone(j)
    BY <2>2 DEF Pod, StartPod, GetCurator, ReadForStatus, UpdateStatus, WorkFails,
                WorkReports, DonePatch, FailPatch, PodOnly
  <2> QED
    BY <2>1, <2>2
<1>3. \A i \in JobIds : i # j => jobs'[i] = jobs[i]
  BY <1>2 DEF TypeOK
<1> QED
  BY <1>1, <1>2, <1>3 DEF Active, Owner, Shape, TypeOK

\* A pod's own new state.
LEMMA PodOnlyMoves ==
  ASSUME TypeOK, NEW j \in JobIds, NEW job, PodOnly(j, job)
  PROVE  jobs'[j] = job /\ UNCHANGED <<cluster, mci>>
  BY DEF PodOnly, TypeOK

\* The two ways a pod leaves its course.
LEMMA Leaving ==
  ASSUME TypeOK, NEW j \in JobIds
  PROVE  /\ \A out \in {"succeeded", "failed"} : Ends(jobs[j], Over(j, out))
         /\ jobs[j].pc \in {"progress", "stepfail", "final", "work", "donepatch"}
              => GivesUp(jobs[j], Failing(j, "jobfail"))
<1>1. jobs[j] \in Job
  BY DEF TypeOK
<1>2. ASSUME NEW out \in {"succeeded", "failed"} PROVE Ends(jobs[j], Over(j, out))
  BY <1>1 DEF Over, Job, Ends
<1>3. ASSUME jobs[j].pc \in {"progress", "stepfail", "final", "work", "donepatch"}
      PROVE  GivesUp(jobs[j], Failing(j, "jobfail"))
  <2> DEFINE m == Ended(jobs[j].held.job, jobs[j].local, jobs[j].held.upgrade, TRUE)
  <2>1. Failing(j, "jobfail") = [jobs[j] EXCEPT !.pc = "jobfail", !.buf = NoObject, !.msg = m]
    BY DEF Failing
  <2> HIDE DEF m
  <2>2. /\ Failing(j, "jobfail").pc = "jobfail" /\ Failing(j, "jobfail").msg = m
        /\ Failing(j, "jobfail").buf = NoObject
        /\ Keeps(jobs[j], Failing(j, "jobfail"))
    BY <1>1, <2>1 DEF Job, Keeps
  <2> QED
    BY <1>3, <2>2 DEF GivesUp, m
<1> QED
  BY <1>2, <1>3

\* StartPod, GetCurator.
LEMMA StartEffect ==
  ASSUME Calm, TypeOK, NEW j \in JobIds, StartPod(j)
  PROVE  /\ jobs[j].pc = "pending" /\ jobs'[j].pc = "get"
         /\ Keeps(jobs[j], jobs'[j]) /\ jobs'[j].buf = jobs[j].buf
         /\ worker.job # j
         /\ UNCHANGED <<api, watch, cluster, mci>>
<1>1. /\ jobs[j].pc = "pending" /\ PodOnly(j, [jobs[j] EXCEPT !.pc = "get"])
      /\ worker.job # j /\ UNCHANGED apiVars
  BY DEF StartPod, Calm
<1>2. jobs'[j] = [jobs[j] EXCEPT !.pc = "get"] /\ UNCHANGED <<cluster, mci>>
  BY <1>1, PodOnlyMoves
<1>3. jobs[j] \in Job
  BY DEF TypeOK
<1> QED
  BY <1>1, <1>2, <1>3 DEF Job, Keeps, apiVars

LEMMA GetEffect ==
  ASSUME TypeOK, NEW j \in JobIds, GetCurator(j)
  PROVE  /\ jobs[j].pc = "get"
         /\ \/ /\ MayCall(j)
               /\ jobs'[j].pc = "jobcond"
               /\ jobs'[j].held = api[Owner(j)]
               /\ jobs'[j].local = LocalCuration(api[Owner(j)])
               /\ jobs'[j].todo = jobs[j].todo /\ jobs'[j].buf = jobs[j].buf
               /\ jobs'[j].cc = jobs[j].cc /\ jobs'[j].kind = jobs[j].kind
            \/ ~MayCall(j) /\ Ends(jobs[j], jobs'[j])
         /\ UNCHANGED <<api, watch, cluster, mci>>
<1> DEFINE o == api[Owner(j)]
           l == LocalCuration(o)
           m == InProgress(o.job, l)
           job == [jobs[j] EXCEPT !.pc = "jobcond", !.held = o, !.local = l, !.msg = m]
<1>1. /\ jobs[j].pc = "get" /\ UNCHANGED apiVars
      /\ PodOnly(j, IF MayCall(j) THEN job ELSE Over(j, "failed"))
  BY DEF GetCurator
<1>2. /\ jobs'[j] = IF MayCall(j) THEN job ELSE Over(j, "failed")
      /\ UNCHANGED <<cluster, mci>>
  BY <1>1, PodOnlyMoves
<1>3. jobs[j] \in Job
  BY DEF TypeOK
<1> HIDE DEF o, l, m
<1>4. /\ job.pc = "jobcond" /\ job.held = o /\ job.local = l
      /\ job.todo = jobs[j].todo /\ job.buf = jobs[j].buf
      /\ job.cc = jobs[j].cc /\ job.kind = jobs[j].kind
  BY <1>3 DEF Job
<1> HIDE DEF job
<1>5. Ends(jobs[j], Over(j, "failed"))
  BY Leaving
<1> QED
  BY <1>1, <1>2, <1>4, <1>5 DEF apiVars, o, l

\* A failed call of a condition's update.
LEMMA StatusFails ==
  ASSUME TypeOK, NEW j \in JobIds, jobs[j].pc \in StatusPCs,
         PodOnly(j, Failing(j, AfterError(jobs[j].pc)))
  PROVE  /\ \/ Ends(jobs[j], jobs'[j]) /\ jobs[j].pc \in {"jobcond", "stepcond", "jobfail"}
            \/ GivesUp(jobs[j], jobs'[j])
         /\ UNCHANGED <<cluster, mci>>
<1>1. jobs'[j] = Failing(j, AfterError(jobs[j].pc)) /\ UNCHANGED <<cluster, mci>>
  BY PodOnlyMoves
<1>2. CASE jobs[j].pc \in {"jobcond", "stepcond", "jobfail"}
  <2>1. jobs'[j] = Over(j, "failed")
    BY <1>1, <1>2 DEF AfterError, Failing
  <2> QED
    BY <1>1, <1>2, <2>1, Leaving
<1>3. CASE jobs[j].pc \in {"progress", "stepfail", "final"}
  <2>1. jobs'[j] = Failing(j, "jobfail")
    BY <1>1, <1>3 DEF AfterError
  <2> QED
    BY <1>1, <1>3, <2>1, Leaving
<1> QED
  BY <1>2, <1>3 DEF StatusPCs

\* ReadForStatus.
LEMMA ReadEffect ==
  ASSUME TypeOK, NEW j \in JobIds, ReadForStatus(j)
  PROVE  /\ jobs[j].pc \in StatusPCs
         /\ UNCHANGED <<api, watch, cluster, mci>>
         /\ \/ /\ MayCall(j)
               /\ jobs'[j].pc = jobs[j].pc /\ jobs'[j].msg = jobs[j].msg
               /\ Keeps(jobs[j], jobs'[j]) /\ jobs'[j].buf = api[Owner(j)]
            \/ /\ ~MayCall(j)
               /\ jobs[j].pc \in {"jobcond", "stepcond", "jobfail"}
               /\ Ends(jobs[j], jobs'[j])
            \/ ~MayCall(j) /\ GivesUp(jobs[j], jobs'[j])
<1> DEFINE job == [jobs[j] EXCEPT !.buf = api[Owner(j)]]
<1>1. /\ jobs[j].pc \in StatusPCs /\ UNCHANGED apiVars
      /\ PodOnly(j, IF MayCall(j) THEN job ELSE Failing(j, AfterError(jobs[j].pc)))
  BY DEF ReadForStatus
<1>2. CASE MayCall(j)
  <2>1. jobs'[j] = job /\ UNCHANGED <<cluster, mci>>
    BY <1>1, <1>2, PodOnlyMoves
  <2>2. jobs[j] \in Job
    BY DEF TypeOK
  <2>3. /\ job.pc = jobs[j].pc /\ job.msg = jobs[j].msg
        /\ Keeps(jobs[j], job) /\ job.buf = api[Owner(j)]
    BY <2>2 DEF Job, Keeps
  <2> HIDE DEF job
  <2> QED
    BY <1>1, <1>2, <2>1, <2>3 DEF apiVars
<1>3. CASE ~MayCall(j)
  BY <1>1, <1>3, StatusFails DEF apiVars
<1> QED
  BY <1>2, <1>3

\* WorkFails, WorkReports.
LEMMA WorkGoesOn ==
  ASSUME TypeOK, NEW j \in JobIds, WorkFails(j) \/ WorkReports(j)
  PROVE  /\ jobs[j].pc = "work"
         /\ UNCHANGED <<api, watch, cluster, mci>>
         /\ \/ /\ jobs'[j].pc \in {"stepfail", "progress"}
               /\ Keeps(jobs[j], jobs'[j]) /\ jobs'[j].buf = jobs[j].buf
            \/ GivesUp(jobs[j], jobs'[j])
<1>1. /\ jobs[j].pc = "work" /\ UNCHANGED apiVars
      /\ \/ PodOnly(j, [jobs[j] EXCEPT !.pc = "stepfail"])
         \/ PodOnly(j, [jobs[j] EXCEPT !.pc = "progress"])
         \/ PodOnly(j, Failing(j, "jobfail"))
  BY DEF WorkFails, WorkReports
<1>2. /\ UNCHANGED <<cluster, mci>>
      /\ \/ \E pc \in {"stepfail", "progress"} : jobs'[j] = [jobs[j] EXCEPT !.pc = pc]
         \/ jobs'[j] = Failing(j, "jobfail")
  BY <1>1, PodOnlyMoves
<1>3. GivesUp(jobs[j], Failing(j, "jobfail"))
  BY <1>1, Leaving
<1>4. jobs[j] \in Job
  BY DEF TypeOK
<1>5. ASSUME NEW pc \in {"stepfail", "progress"}
      PROVE  /\ [jobs[j] EXCEPT !.pc = pc].pc = pc
             /\ [jobs[j] EXCEPT !.pc = pc].buf = jobs[j].buf
             /\ Keeps(jobs[j], [jobs[j] EXCEPT !.pc = pc])
  BY <1>4 DEF Job, Keeps
<1> QED
  BY <1>1, <1>2, <1>3, <1>5 DEF apiVars

\* A condition's update changes nothing but the status.
LEMMA WrittenEffect ==
  ASSUME TypeOK, NEW j \in JobIds, jobs[j].pc \in StatusPCs
  PROVE  /\ Written(j).desired = jobs[j].buf.desired /\ Written(j).op = jobs[j].buf.op
         /\ Written(j).job = jobs[j].buf.job /\ Written(j).upgrade = jobs[j].buf.upgrade
         /\ Written(j).cond = IF \/ jobs[j].pc \in {"jobcond", "jobfail"}
                                 \/ jobs[j].pc = "final" /\ Step(j) = "done"
                              THEN jobs[j].msg ELSE jobs[j].buf.cond
<1> DEFINE o == jobs[j].buf
<1>1. o \in Object
  BY DEF TypeOK, Job
<1> HIDE DEF o
<1>2. \A s, t : /\ WithStep(o, s, t).desired = o.desired /\ WithStep(o, s, t).op = o.op
                /\ WithStep(o, s, t).job = o.job /\ WithStep(o, s, t).upgrade = o.upgrade
                /\ WithStep(o, s, t).cond = o.cond
  BY <1>1 DEF WithStep, Object
<1>3. \A q : /\ WithCondition(o, q).desired = o.desired /\ WithCondition(o, q).op = o.op
             /\ WithCondition(o, q).job = o.job /\ WithCondition(o, q).upgrade = o.upgrade
             /\ WithCondition(o, q).cond = q
  BY <1>1 DEF WithCondition, Object
<1>4. CASE \/ jobs[j].pc \in {"jobcond", "jobfail"}
           \/ jobs[j].pc = "final" /\ Step(j) = "done"
  <2>1. Written(j) = WithCondition(o, jobs[j].msg)
    BY <1>4 DEF Written, o
  <2> QED
    BY <1>3, <1>4, <2>1 DEF o
<1>5. CASE ~(\/ jobs[j].pc \in {"jobcond", "jobfail"}
             \/ jobs[j].pc = "final" /\ Step(j) = "done")
  <2>1. \E t : Written(j) = WithStep(o, Step(j), t)
    BY <1>5 DEF Written, StatusPCs, o
  <2> QED
    BY <1>2, <1>5, <2>1 DEF o
<1> QED
  BY <1>4, <1>5

\* Where a container goes on once its update is taken.
LEMMA AfterWriteEffect ==
  ASSUME TypeOK, NEW j \in JobIds, jobs[j].pc \in StatusPCs
  PROVE  \/ /\ jobs[j].pc = "jobcond"
            /\ AfterWrite(j).pc = IF Step(j) = "done" THEN "donepatch" ELSE "stepcond"
            /\ Keeps(jobs[j], AfterWrite(j)) /\ AfterWrite(j).buf = NoObject
         \/ /\ jobs[j].pc \in {"stepcond", "progress"} /\ AfterWrite(j).pc = "work"
            /\ Keeps(jobs[j], AfterWrite(j)) /\ AfterWrite(j).buf = NoObject
         \/ jobs[j].pc = "stepfail" /\ GivesUp(jobs[j], AfterWrite(j))
         \/ /\ jobs[j].pc = "jobfail" /\ AfterWrite(j).pc = "failpatch"
            /\ Keeps(jobs[j], AfterWrite(j)) /\ AfterWrite(j).buf = NoObject
            /\ AfterWrite(j).msg = jobs[j].msg
         \/ /\ jobs[j].pc = "final" /\ Step(j) = "done" /\ AfterWrite(j).pc = "succeeded"
            /\ Ends(jobs[j], AfterWrite(j))
         \/ /\ jobs[j].pc = "final" /\ Step(j) # "done" /\ AfterWrite(j).pc = "get"
            /\ AfterWrite(j).todo = Tail(jobs[j].todo) /\ AfterWrite(j).buf = NoObject
            /\ AfterWrite(j).cc = jobs[j].cc /\ AfterWrite(j).kind = jobs[j].kind
<1> DEFINE job == [jobs[j] EXCEPT !.buf = NoObject]
<1>1. jobs[j] \in Job
  BY DEF TypeOK
<1>2. /\ job \in [pc : RunningPCs \cup {"none", "pending", "succeeded", "failed"},
                  cc : Curators \cup {NoCurator}, kind : Curations \cup Retries,
                  todo : Seq(Steps), held : Object, local : Curations, msg : Condition,
                  buf : {NoObject}, reported : BOOLEAN]
      /\ job.pc = jobs[j].pc /\ Keeps(jobs[j], job) /\ job.msg = jobs[j].msg
      /\ job.buf = NoObject
  BY <1>1 DEF Job, Keeps
<1> HIDE DEF job
<1>3. \A pc : /\ [job EXCEPT !.pc = pc].pc = pc
              /\ Keeps(jobs[j], [job EXCEPT !.pc = pc])
              /\ [job EXCEPT !.pc = pc].buf = NoObject
              /\ [job EXCEPT !.pc = pc].msg = jobs[j].msg
  BY <1>2 DEF Keeps
<1>4. CASE job.pc = "jobcond"
  <2>1. AfterWrite(j) = [job EXCEPT !.pc = IF Step(j) = "done" THEN "donepatch" ELSE "stepcond"]
    BY <1>4 DEF AfterWrite, job
  <2>2. /\ AfterWrite(j).pc = IF Step(j) = "done" THEN "donepatch" ELSE "stepcond"
        /\ Keeps(jobs[j], AfterWrite(j)) /\ AfterWrite(j).buf = NoObject
    BY <1>3, <2>1
  <2>3. jobs[j].pc = "jobcond"
    BY <1>2, <1>4
  <2> QED
    BY <2>2, <2>3
<1>5. CASE job.pc = "stepcond"
  <2>1. AfterWrite(j) = [job EXCEPT !.pc = "work"]
    BY <1>5 DEF AfterWrite, job
  <2>2. /\ AfterWrite(j).pc = "work" /\ Keeps(jobs[j], AfterWrite(j))
        /\ AfterWrite(j).buf = NoObject
    BY <1>3, <2>1
  <2>3. jobs[j].pc = "stepcond"
    BY <1>2, <1>5
  <2> QED
    BY <2>2, <2>3
<1>6. CASE job.pc = "progress"
  <2>1. AfterWrite(j) = [job EXCEPT !.pc = "work", !.reported = TRUE]
    BY <1>6 DEF AfterWrite, job
  <2>2. /\ AfterWrite(j).pc = "work" /\ Keeps(jobs[j], AfterWrite(j))
        /\ AfterWrite(j).buf = NoObject
    BY <1>2, <2>1 DEF Keeps
  <2>3. jobs[j].pc = "progress"
    BY <1>2, <1>6
  <2> QED
    BY <2>2, <2>3
<1>7. CASE job.pc = "stepfail"
  <2>1. AfterWrite(j) = Failing(j, "jobfail")
    BY <1>7 DEF AfterWrite, job
  <2> QED
    BY <1>2, <1>7, <2>1, Leaving
<1>8. CASE job.pc = "jobfail"
  <2>1. AfterWrite(j) = [job EXCEPT !.pc = "failpatch"]
    BY <1>8 DEF AfterWrite, job
  <2>2. /\ AfterWrite(j).pc = "failpatch" /\ Keeps(jobs[j], AfterWrite(j))
        /\ AfterWrite(j).buf = NoObject /\ AfterWrite(j).msg = jobs[j].msg
    BY <1>3, <2>1
  <2>3. jobs[j].pc = "jobfail"
    BY <1>2, <1>8
  <2> QED
    BY <2>2, <2>3
<1>9. CASE job.pc = "final" /\ Step(j) = "done"
  <2>1. AfterWrite(j) = Over(j, "succeeded")
    BY <1>9 DEF AfterWrite, job
  <2>2. Over(j, "succeeded").pc = "succeeded"
    BY LeavingTypes
  <2> QED
    BY <1>2, <1>9, <2>1, <2>2, Leaving
<1>10. CASE job.pc = "final" /\ Step(j) # "done"
  <2>1. AfterWrite(j) = [job EXCEPT !.pc = "get", !.todo = Tail(@), !.held = NoObject,
                                    !.local = "", !.msg = NoCondition, !.reported = FALSE]
    BY <1>10 DEF AfterWrite, job
  <2>2. /\ AfterWrite(j).pc = "get" /\ AfterWrite(j).todo = Tail(job.todo)
        /\ AfterWrite(j).buf = NoObject /\ AfterWrite(j).cc = job.cc
        /\ AfterWrite(j).kind = job.kind
    BY <1>2, <2>1
  <2>3. /\ jobs[j].pc = "final" /\ job.todo = jobs[j].todo
        /\ job.cc = jobs[j].cc /\ job.kind = jobs[j].kind
    BY <1>2, <1>10 DEF Keeps
  <2> QED
    BY <1>10, <2>2, <2>3
<1> QED
  BY <1>2, <1>4, <1>5, <1>6, <1>7, <1>8, <1>9, <1>10 DEF StatusPCs

\* UpdateStatus.
LEMMA UpdateEffect ==
  ASSUME TypeOK, Shape, VersionsFaithful, NEW j \in JobIds, UpdateStatus(j),
         NEW c \in Curators, c = Owner(j)
  PROVE  /\ jobs[j].pc \in StatusPCs
         /\ UNCHANGED <<cluster, mci>>
         /\ \/ /\ MayCall(j)
               /\ jobs'[j] = AfterWrite(j)
               /\ api'[c].desired = api[c].desired /\ api'[c].op = api[c].op
               /\ api'[c].job = api[c].job /\ api'[c].upgrade = api[c].upgrade
               /\ api'[c].cond = IF \/ jobs[j].pc \in {"jobcond", "jobfail"}
                                    \/ jobs[j].pc = "final" /\ Step(j) = "done"
                                 THEN jobs[j].msg ELSE api[c].cond
               /\ \A d \in Curators : d # c => api'[d] = api[d] /\ watch'[d] = watch[d]
               /\ \/ api'[c] = api[c] /\ watch'[c] = watch[c]
                  \/ api'[c].rv = api[c].rv + 1 /\ watch'[c] = watch[c] \cup {api'[c]}
            \/ /\ ~MayCall(j) \/ jobs[j].buf \notin {NoObject, api[c]}
               /\ UNCHANGED <<api, watch>>
               /\ \/ /\ jobs[j].pc \in {"jobcond", "stepcond", "jobfail"}
                     /\ Ends(jobs[j], jobs'[j])
                  \/ GivesUp(jobs[j], jobs'[j])
<1>1. jobs[j].pc \in StatusPCs /\ jobs[j].buf # NoObject
  BY DEF UpdateStatus
<1>2. CASE MayCall(j) /\ Current(Owner(j), jobs[j].buf)
  <2>1. Put(c, Written(j)) /\ PodOnly(j, AfterWrite(j))
    BY <1>2 DEF UpdateStatus
  <2>2. jobs'[j] = AfterWrite(j) /\ UNCHANGED <<cluster, mci>>
    BY <2>1, PodOnlyMoves
  <2>3. jobs[j].buf = api[c]
    <3>1. jobs[j].buf \in Copies(c)
      BY <1>1 DEF Copies, Owner
    <3> QED
      BY <1>2, <3>1, CurrentCopy
  <2>4. Written(j) \in Object
    BY <1>1, WrittenType
  <2>5. /\ api'[c].desired = Written(j).desired /\ api'[c].op = Written(j).op
        /\ api'[c].job = Written(j).job /\ api'[c].upgrade = Written(j).upgrade
        /\ api'[c].cond = Written(j).cond
        /\ \A d \in Curators : d # c => api'[d] = api[d] /\ watch'[d] = watch[d]
        /\ \/ api'[c] = api[c] /\ watch'[c] = watch[c]
           \/ api'[c].rv = api[c].rv + 1 /\ watch'[c] = watch[c] \cup {api'[c]}
    BY <2>1, <2>4, PutWrites
  <2> QED
    BY <1>1, <1>2, <2>2, <2>3, <2>5, WrittenEffect
<1>3. CASE ~(MayCall(j) /\ Current(Owner(j), jobs[j].buf))
  <2>1. PodOnly(j, Failing(j, AfterError(jobs[j].pc))) /\ UNCHANGED apiVars
    BY <1>3 DEF UpdateStatus
  <2>2. ~MayCall(j) \/ jobs[j].buf \notin {NoObject, api[c]}
    BY <1>1, <1>3 DEF Current
  <2> QED
    BY <1>1, <2>1, <2>2, StatusFails DEF apiVars
<1> QED
  BY <1>2, <1>3

\* WorkDone.
LEMMA WorkDoneEffect ==
  ASSUME Calm, TypeOK, NEW j \in JobIds, WorkDone(j), NEW c \in Curators, c = Owner(j)
  PROVE  /\ jobs[j].pc = "work" /\ jobs'[j].pc = "final"
         /\ Keeps(jobs[j], jobs'[j]) /\ jobs'[j].buf = jobs[j].buf
         /\ UNCHANGED <<api, watch>>
         /\ \A d \in Curators : d # c => cluster'[d] = cluster[d] /\ mci'[d] = mci[d]
         /\ \/ Step(j) # "monitor-upgrade" /\ UNCHANGED <<cluster, mci>>
            \/ jobs[j].held.upgrade.version = NoVersion /\ UNCHANGED <<cluster, mci>>
            \/ /\ cluster'[c] = jobs[j].held.upgrade.version
               /\ mci'[c] = {cluster'[c]} \/ UNCHANGED <<cluster, mci>>
<1>1. /\ jobs[j].pc = "work" /\ UNCHANGED <<api, watch>>
      /\ jobs' = [jobs EXCEPT ![j] = [jobs[j] EXCEPT !.pc = "final"]]
  BY DEF WorkDone, TypeOK
<1>2. jobs'[j] = [jobs[j] EXCEPT !.pc = "final"] /\ jobs[j] \in Job
  BY <1>1 DEF TypeOK
<1>3. /\ jobs'[j].pc = "final" /\ Keeps(jobs[j], jobs'[j])
      /\ jobs'[j].buf = jobs[j].buf
  BY <1>2 DEF Job, Keeps
<1>4. PICK v : v = jobs[j].held.upgrade.version
  OBVIOUS
<1>5. /\ cluster' = IF Step(j) = "monitor-upgrade" /\ v # NoVersion
                    THEN [cluster EXCEPT ![c] = v] ELSE cluster
      /\ mci' = IF cluster' = cluster THEN mci ELSE [mci EXCEPT ![c] = {v}]
  BY <1>4 DEF WorkDone, Calm
<1>6. CASE Step(j) = "monitor-upgrade" /\ v # NoVersion
  <2>1. /\ cluster'[c] = v /\ \A d \in Curators : d # c => cluster'[d] = cluster[d]
    BY <1>5, <1>6 DEF TypeOK
  <2>2. CASE cluster' = cluster
    BY <1>1, <1>3, <1>4, <1>5, <2>1, <2>2
  <2>3. CASE cluster' # cluster
    <3>1. mci'[c] = {v} /\ \A d \in Curators : d # c => mci'[d] = mci[d]
      BY <1>5, <2>3 DEF TypeOK
    <3> QED
      BY <1>1, <1>3, <1>4, <2>1, <3>1
  <2> QED
    BY <2>2, <2>3
<1>7. CASE ~(Step(j) = "monitor-upgrade" /\ v # NoVersion)
  BY <1>1, <1>3, <1>4, <1>5, <1>7
<1> QED
  BY <1>6, <1>7

\* What a closing patch leaves, of an object o.
LEMMA ClosingLeaves ==
  ASSUME NEW o \in Object, NEW held
  PROVE  /\ updateFailingClusterCurator(held, o).desired = IF held = "upgrade" THEN o.desired ELSE ""
         /\ updateFailingClusterCurator(held, o).job = NoJob
         /\ updateFailingClusterCurator(held, o).cond = o.cond
         /\ updateDoneClusterCurator(held, o).desired = IF held = "upgrade" THEN o.desired ELSE ""
         /\ updateDoneClusterCurator(held, o).job = NoJob
         /\ updateDoneClusterCurator(held, o).cond = NoCondition
<1> DEFINE x == ClearSpec(held, o)
<1>1. x \in [rv : Nat, desired : {o.desired, ""}, job : Nat, op : {"nil"}, upgrade : Request,
             cond : Condition, steps : [Steps -> StepStates]]
  BY DEF ClearSpec, Object, NoJob
<1>2. /\ x.desired = IF held = "upgrade" THEN o.desired ELSE ""
      /\ x.job = NoJob /\ x.cond = o.cond
  BY DEF ClearSpec, Object
<1> HIDE DEF x
<1>3. /\ [x EXCEPT !.cond = NoCondition, !.steps = NoSteps].desired = x.desired
      /\ [x EXCEPT !.cond = NoCondition, !.steps = NoSteps].job = x.job
      /\ [x EXCEPT !.cond = NoCondition, !.steps = NoSteps].cond = NoCondition
  BY <1>1
<1> QED
  BY <1>2, <1>3 DEF updateFailingClusterCurator, updateDoneClusterCurator, x

\* DonePatch.
LEMMA DonePatchEffect ==
  ASSUME TypeOK, NEW j \in JobIds, DonePatch(j), NEW c \in Curators, c = Owner(j)
  PROVE  /\ jobs[j].pc = "donepatch"
         /\ UNCHANGED <<cluster, mci>>
         /\ \/ /\ MayCall(j)
               /\ api'[c].desired = IF jobs[j].held.desired = "upgrade"
                                    THEN api[c].desired ELSE ""
               /\ api'[c].op = "nil" /\ api'[c].job = NoJob
               /\ api'[c].upgrade = api[c].upgrade /\ api'[c].cond = NoCondition
               /\ \A d \in Curators : d # c => api'[d] = api[d] /\ watch'[d] = watch[d]
               /\ \/ api'[c] = api[c] /\ watch'[c] = watch[c]
                  \/ api'[c].rv = api[c].rv + 1 /\ watch'[c] = watch[c] \cup {api'[c]}
               /\ jobs'[j].pc = "final"
               /\ jobs'[j].held.desired = api'[c].desired
               /\ jobs'[j].held.upgrade = api[c].upgrade
               /\ jobs'[j].msg = Ended(jobs[j].held.job, jobs[j].local,
                                       jobs[j].held.upgrade, FALSE)
               /\ jobs'[j].local = jobs[j].local /\ jobs'[j].todo = jobs[j].todo
               /\ jobs'[j].buf = jobs[j].buf
               /\ jobs'[j].cc = jobs[j].cc /\ jobs'[j].kind = jobs[j].kind
            \/ ~MayCall(j) /\ UNCHANGED <<api, watch>> /\ GivesUp(jobs[j], jobs'[j])
<1>1. PICK new : new = updateDoneClusterCurator(jobs[j].held.desired, api[c])
  OBVIOUS
<1>2. PICK msg : msg = Ended(jobs[j].held.job, jobs[j].local, jobs[j].held.upgrade, FALSE)
  OBVIOUS
<1>3. /\ jobs[j].pc = "donepatch"
      /\ IF MayCall(j)
         THEN /\ Put(c, new)
              /\ PodOnly(j, [jobs[j] EXCEPT !.pc = "final", !.held = new, !.msg = msg])
         ELSE PodOnly(j, Failing(j, AfterError("donepatch"))) /\ UNCHANGED apiVars
  BY <1>1, <1>2 DEF DonePatch
<1>4. /\ new \in Object /\ new.op = "nil" /\ new.upgrade = api[c].upgrade
      /\ new.desired = IF jobs[j].held.desired = "upgrade" THEN api[c].desired ELSE ""
      /\ new.job = NoJob /\ new.cond = NoCondition
  <2>1. api[c] \in Object
    BY DEF TypeOK
  <2>2. new \in Object /\ new.op = "nil" /\ new.upgrade = api[c].upgrade
    BY <1>1, <2>1, ClosingWrites
  <2>3. /\ new.desired = IF jobs[j].held.desired = "upgrade" THEN api[c].desired ELSE ""
        /\ new.job = NoJob /\ new.cond = NoCondition
    BY <1>1, <2>1, ClosingLeaves
  <2> QED
    BY <2>2, <2>3
<1>5. CASE MayCall(j)
  <2>1. /\ api'[c].desired = new.desired /\ api'[c].op = new.op
        /\ api'[c].job = new.job /\ api'[c].upgrade = new.upgrade
        /\ api'[c].cond = new.cond
        /\ \A d \in Curators : d # c => api'[d] = api[d] /\ watch'[d] = watch[d]
        /\ \/ api'[c] = api[c] /\ watch'[c] = watch[c]
           \/ api'[c].rv = api[c].rv + 1 /\ watch'[c] = watch[c] \cup {api'[c]}
    BY <1>3, <1>4, <1>5, PutWrites
  <2>2. /\ jobs'[j] = [jobs[j] EXCEPT !.pc = "final", !.held = new, !.msg = msg]
        /\ UNCHANGED <<cluster, mci>>
    BY <1>3, <1>5, PodOnlyMoves
  <2>3. jobs[j] \in Job
    BY DEF TypeOK
  <2>4. /\ jobs'[j].pc = "final" /\ jobs'[j].held = new /\ jobs'[j].msg = msg
        /\ jobs'[j].local = jobs[j].local /\ jobs'[j].todo = jobs[j].todo
        /\ jobs'[j].buf = jobs[j].buf
        /\ jobs'[j].cc = jobs[j].cc /\ jobs'[j].kind = jobs[j].kind
    BY <2>2, <2>3 DEF Job
  <2>5. /\ jobs[j].pc = "donepatch"
        /\ jobs'[j].held.desired = api'[c].desired
        /\ jobs'[j].held.upgrade = api[c].upgrade
    BY <1>3, <1>4, <2>1, <2>4
  <2> QED
    BY <1>2, <1>4, <1>5, <2>1, <2>2, <2>4, <2>5
<1>6. CASE ~MayCall(j)
  <2>1. jobs'[j] = Failing(j, "jobfail") /\ UNCHANGED <<api, watch, cluster, mci>>
    BY <1>3, <1>6, PodOnlyMoves DEF AfterError, apiVars
  <2> QED
    BY <1>3, <1>6, <2>1, Leaving
<1> QED
  BY <1>5, <1>6

\* FailPatch.
LEMMA FailPatchEffect ==
  ASSUME TypeOK, NEW j \in JobIds, FailPatch(j), NEW c \in Curators, c = Owner(j)
  PROVE  /\ jobs[j].pc = "failpatch" /\ Ends(jobs[j], jobs'[j])
         /\ UNCHANGED <<cluster, mci>>
         /\ \/ /\ MayCall(j)
               /\ api'[c].desired = IF jobs[j].held.desired = "upgrade"
                                    THEN api[c].desired ELSE ""
               /\ api'[c].op = "nil" /\ api'[c].job = NoJob
               /\ api'[c].upgrade = api[c].upgrade /\ api'[c].cond = api[c].cond
               /\ \A d \in Curators : d # c => api'[d] = api[d] /\ watch'[d] = watch[d]
               /\ \/ api'[c] = api[c] /\ watch'[c] = watch[c]
                  \/ api'[c].rv = api[c].rv + 1 /\ watch'[c] = watch[c] \cup {api'[c]}
            \/ ~MayCall(j) /\ UNCHANGED <<api, watch>>
<1>1. PICK new : new = updateFailingClusterCurator(jobs[j].held.desired, api[c])
  OBVIOUS
<1>2. /\ jobs[j].pc = "failpatch"
      /\ IF MayCall(j) THEN Put(c, new) ELSE UNCHANGED apiVars
      /\ PodOnly(j, Over(j, "failed"))
  BY <1>1 DEF FailPatch
<1>3. /\ new \in Object /\ new.op = "nil" /\ new.upgrade = api[c].upgrade
      /\ new.desired = IF jobs[j].held.desired = "upgrade" THEN api[c].desired ELSE ""
      /\ new.job = NoJob /\ new.cond = api[c].cond
  <2>1. api[c] \in Object
    BY DEF TypeOK
  <2>2. new \in Object /\ new.op = "nil" /\ new.upgrade = api[c].upgrade
    BY <1>1, <2>1, ClosingWrites
  <2>3. /\ new.desired = IF jobs[j].held.desired = "upgrade" THEN api[c].desired ELSE ""
        /\ new.job = NoJob /\ new.cond = api[c].cond
    BY <1>1, <2>1, ClosingLeaves
  <2> QED
    BY <2>2, <2>3
<1>4. Ends(jobs[j], jobs'[j]) /\ UNCHANGED <<cluster, mci>>
  BY <1>2, PodOnlyMoves, Leaving
<1>5. CASE MayCall(j)
  <2>1. /\ api'[c].desired = new.desired /\ api'[c].op = new.op
        /\ api'[c].job = new.job /\ api'[c].upgrade = new.upgrade
        /\ api'[c].cond = new.cond
        /\ \A d \in Curators : d # c => api'[d] = api[d] /\ watch'[d] = watch[d]
        /\ \/ api'[c] = api[c] /\ watch'[c] = watch[c]
           \/ api'[c].rv = api[c].rv + 1 /\ watch'[c] = watch[c] \cup {api'[c]}
    BY <1>2, <1>3, <1>5, PutWrites
  <2> QED
    BY <1>2, <1>3, <1>4, <1>5, <2>1
<1>6. CASE ~MayCall(j)
  BY <1>2, <1>4, <1>6 DEF apiVars
<1> QED
  BY <1>5, <1>6

\* A pod's step that writes nothing leaves c handled as it was.
LEMMA PodRests ==
  ASSUME NEW c \in Curators, Handled(c), NEW j \in Active(c),
         \A i \in JobIds : i # j => jobs'[i] = jobs[i],
         api'[c] = api[c], watch'[c] = watch[c], UNCHANGED <<cache, queue, worker>>,
         cluster'[c] = cluster[c] \/ api[c].job # NoJob,
         jobs'[j].cc = c, j \in Active(c)' => (Released(j) => Released(j)'),
         jobs[j].pc = "pending" => worker.job # j
  PROVE  Handled(c)' /\ Active(c)' \subseteq {j}
<1>1. \A i \in Active(c) : i = j
  BY DEF Handled, Working
<1>2. ~(worker.cc = c /\ worker.pc = "record")
  BY <1>1 DEF Handled, Working
<1>3. Active(c)' \subseteq {j}
  <2> SUFFICES ASSUME NEW i \in Active(c)', i # j PROVE FALSE
    OBVIOUS
  <2>1. i \in Active(c)
    BY DEF Active
  <2> QED
    BY <1>1, <2>1
<1>4. Active(c)' \subseteq Active(c)
  BY <1>3
<1> QED
  BY <1>2, <1>3, <1>4, Untouched

\* A Job at work has a container, done among them.
LEMMA AtWork ==
  ASSUME TypeOK, Shape, NEW j \in JobIds, jobs[j].pc \in RunningPCs \cup {"pending"}
  PROVE  /\ Len(jobs[j].todo) \in Nat \ {0}
         /\ Step(j) = jobs[j].todo[1]
         /\ Step(j) = "done" => ~Upgrades(jobs[j].todo)
         /\ Step(j) # "monitor-upgrade" /\ Upgrades(jobs[j].todo)
              => Upgrades(Tail(jobs[j].todo))
<1> DEFINE todo == jobs[j].todo
<1>1. todo \in Seq(Steps) /\ EndsInDone(todo)
  BY DEF TypeOK, Job, Shape
<1>2. todo # <<>> /\ Step(j) = Head(todo)
  BY <1>1 DEF EndsInDone, Step
<1> HIDE DEF todo
<1>3. /\ Len(todo) \in Nat \ {0} /\ Head(todo) = todo[1]
      /\ Len(Tail(todo)) = Len(todo) - 1
      /\ \A i \in 1 .. Len(todo) - 1 : Tail(todo)[i] = todo[i + 1]
  BY <1>1, <1>2, EmptySeq, HeadTailProperties
<1>4. ASSUME Upgrades(todo)
      PROVE  todo[1] # "done" /\ (todo[1] # "monitor-upgrade" => Upgrades(Tail(todo)))
  <2>1. PICK i \in 1 .. Len(todo) : /\ todo[i] = "monitor-upgrade"
                                    /\ \A k \in 1 .. i : todo[k] # "done"
    BY <1>4 DEF Upgrades
  <2>2. todo[1] # "done"
    BY <1>3, <2>1
  <2>3. ASSUME todo[1] # "monitor-upgrade" PROVE Upgrades(Tail(todo))
    <3>1. i - 1 \in 1 .. Len(todo) - 1
      BY <1>3, <2>1, <2>3
    <3>2. Tail(todo)[i - 1] = "monitor-upgrade"
      BY <1>3, <2>1, <3>1
    <3>3. \A k \in 1 .. i - 1 : Tail(todo)[k] # "done"
      <4> SUFFICES ASSUME NEW k \in 1 .. i - 1 PROVE Tail(todo)[k] # "done"
        OBVIOUS
      <4>1. k \in 1 .. Len(todo) - 1 /\ k + 1 \in 1 .. i
        BY <1>3, <3>1
      <4> QED
        BY <1>3, <2>1, <4>1
    <3> QED
      BY <1>3, <3>1, <3>2, <3>3 DEF Upgrades
  <2> QED
    BY <2>2, <2>3
<1> QED
  BY <1>2, <1>3, <1>4 DEF todo

\* The message of the end of an upgrade is that of its request.
LEMMA EndedRepeats ==
  ASSUME NEW n, NEW req, NEW f PROVE Repeats(req, Ended(n, "upgrade", req, f))
  BY DEF Repeats, Ended

\* A container that gives up is told of as before.
LEMMA GivesUpTold ==
  ASSUME NEW c \in Curators, NEW j \in JobIds, Told(c, j), GivesUp(jobs[j], jobs'[j]),
         api'[c] = api[c], cluster'[c] = cluster[c], worker' = worker
  PROVE  Told(c, j)' /\ (Released(j) => Released(j)')
<1>1. /\ jobs[j].pc \in {"progress", "stepfail", "final", "work", "donepatch"}
      /\ jobs'[j].pc = "jobfail" /\ jobs'[j].held = jobs[j].held
      /\ jobs'[j].local = jobs[j].local /\ jobs'[j].todo = jobs[j].todo
      /\ jobs'[j].msg = Ended(jobs[j].held.job, jobs[j].local, jobs[j].held.upgrade, TRUE)
  BY DEF GivesUp, Keeps
<1>2. Step(j)' = Step(j)
  BY <1>1 DEF Step
<1>3. Placed(j)'
  BY <1>1 DEF Placed
<1>4. Tells(c, j)'
  <2>1. Tells(c, j)
    BY DEF Told
  <2>2. /\ jobs[j].held.desired = api[c].desired
        /\ jobs[j].held.upgrade = api[c].upgrade
        /\ api[c].desired = "upgrade" => jobs[j].local = "upgrade"
    BY <1>1, <2>1 DEF Tells
  <2>3. api[c].desired = "upgrade" => Repeats(api[c].upgrade, jobs'[j].msg)
    BY <1>1, <2>2, EndedRepeats
  <2> QED
    BY <1>1, <2>2, <2>3 DEF Tells
<1>5. Monitors(c, j)'
  BY <1>1, <1>2 DEF Told, Monitors, Bound, Recording
<1> QED
  BY <1>1, <1>2, <1>3, <1>4, <1>5 DEF Told, Released

\* A pod that is over is no longer at work.
LEMMA EndsInactive ==
  ASSUME NEW c, NEW j, Ends(jobs[j], jobs'[j])
  PROVE  j \notin Active(c)'
  BY DEF Ends, Active, RunningPCs, StatusPCs

\* The context of a step of c's pod.
PodStep(c, j) ==
    /\ TypeOK /\ Shape /\ VersionsFaithful
    /\ c \in Curators /\ j \in Active(c) /\ Owner(j) = c
    /\ Calmly(c)
    /\ \A i \in JobIds : i # j => jobs'[i] = jobs[i]
    /\ UNCHANGED <<cache, queue, worker>>

\* StartPod, and then GetCurator.
LEMMA StartCalm ==
  ASSUME Calm, NEW c \in Curators, NEW j \in JobIds, PodStep(c, j), StartPod(j)
  PROVE  Calmly(c)'
<1>1. /\ jobs[j].pc = "pending" /\ jobs'[j].pc = "get"
      /\ Keeps(jobs[j], jobs'[j]) /\ worker.job # j
      /\ UNCHANGED <<api, watch, cluster>>
  BY StartEffect DEF PodStep
<1>2. Handled(c) /\ Told(c, j) /\ jobs[j].cc = c
  BY DEF PodStep, Calmly, Active
<1>3. ~Released(j)
  BY <1>1 DEF Released
<1>4. Handled(c)' /\ Active(c)' \subseteq {j}
  <2>1. jobs'[j].cc = c
    BY <1>1, <1>2 DEF Keeps
  <2> QED
    BY <1>1, <1>2, <1>3, <2>1, PodRests DEF PodStep
<1>5. Told(c, j)'
  BY <1>1, <1>2 DEF Told, Placed, Tells, Monitors, Bound, Recording, Keeps, PodStep
<1> QED
  BY <1>4, <1>5 DEF Calmly

LEMMA GetCalm ==
  ASSUME NEW c \in Curators, NEW j \in JobIds, PodStep(c, j), GetCurator(j)
  PROVE  Calmly(c)'
<1>1. /\ jobs[j].pc = "get" /\ UNCHANGED <<api, watch, cluster>>
      /\ \/ /\ jobs'[j].pc = "jobcond"
            /\ jobs'[j].held = api[c] /\ jobs'[j].local = LocalCuration(api[c])
            /\ jobs'[j].todo = jobs[j].todo /\ jobs'[j].cc = jobs[j].cc
         \/ Ends(jobs[j], jobs'[j])
  BY GetEffect DEF PodStep
<1>2. Handled(c) /\ Told(c, j) /\ jobs[j].cc = c
  BY DEF PodStep, Calmly, Active
<1>3. ~Released(j)
  BY <1>1 DEF Released
<1>4. Handled(c)' /\ Active(c)' \subseteq {j}
  <2>1. jobs'[j].cc = c
    BY <1>1, <1>2 DEF Ends
  <2> QED
    BY <1>1, <1>2, <1>3, <2>1, PodRests DEF PodStep
<1>5. ASSUME j \in Active(c)' PROVE Told(c, j)'
  <2>1. /\ jobs'[j].pc = "jobcond"
        /\ jobs'[j].held = api[c] /\ jobs'[j].local = LocalCuration(api[c])
        /\ jobs'[j].todo = jobs[j].todo
    BY <1>1, <1>5, EndsInactive
  <2>2. api[c].desired = "upgrade" => LocalCuration(api[c]) = "upgrade"
    <3>1. Bound(c, j) /\ Retrying(c)
      BY <1>2, <1>3 DEF Handled, Working, PodStep
    <3>2. api[c].desired = "upgrade" => ~PosthookOnly(api[c])
      BY <3>1 DEF Retrying, PodStep
    <3> QED
      BY <3>2 DEF PosthookOnly, Retries, LocalCuration
  <2>3. Tells(c, j)' /\ Placed(j)'
    BY <1>1, <2>1, <2>2 DEF Tells, Placed
  <2>4. Monitors(c, j)'
    BY <1>1, <1>2, <2>1 DEF Told, Monitors, Bound, Recording, PodStep
  <2> QED
    BY <2>3, <2>4 DEF Told
<1> QED
  BY <1>4, <1>5 DEF Calmly

\* A pod's failed call, or a step that ends it.
LEMMA LeavesCalm ==
  ASSUME NEW c \in Curators, NEW j \in JobIds, PodStep(c, j),
         UNCHANGED <<api, watch, cluster>>, jobs[j].pc # "pending",
         Ends(jobs[j], jobs'[j]) \/ GivesUp(jobs[j], jobs'[j])
  PROVE  Calmly(c)'
<1>1. Handled(c) /\ Told(c, j) /\ jobs[j].cc = c
  BY DEF PodStep, Calmly, Active
<1>2. jobs'[j].cc = c
  BY <1>1 DEF Ends, GivesUp, Keeps
<1>3. j \in Active(c)' => Told(c, j)' /\ (Released(j) => Released(j)')
  <2>1. CASE Ends(jobs[j], jobs'[j])
    BY <2>1, EndsInactive
  <2>2. CASE GivesUp(jobs[j], jobs'[j])
    BY <1>1, <2>2, GivesUpTold DEF PodStep
  <2> QED
    BY <2>1, <2>2
<1>4. Handled(c)' /\ Active(c)' \subseteq {j}
  BY <1>1, <1>2, <1>3, PodRests DEF PodStep
<1> QED
  BY <1>3, <1>4 DEF Calmly

\* A pod's step that keeps all but its place.
LEMMA MovesCalm ==
  ASSUME NEW c \in Curators, NEW j \in JobIds, PodStep(c, j),
         UNCHANGED <<api, watch, cluster>>, jobs[j].pc \notin {"pending", "get"},
         Keeps(jobs[j], jobs'[j]),
         \/ jobs'[j].pc = jobs[j].pc /\ jobs'[j].msg = jobs[j].msg
         \/ jobs[j].pc = "work" /\ jobs'[j].pc \in {"stepfail", "progress"}
  PROVE  Calmly(c)'
<1>1. Handled(c) /\ Told(c, j) /\ jobs[j].cc = c
  BY DEF PodStep, Calmly, Active
<1>2. /\ jobs'[j].cc = c /\ Step(j)' = Step(j) /\ jobs'[j].todo = jobs[j].todo
      /\ jobs'[j].held = jobs[j].held /\ jobs'[j].local = jobs[j].local
  BY <1>1 DEF Keeps, Step
<1>3. Released(j) => Released(j)'
  BY <1>2 DEF Released
<1>4. Handled(c)' /\ Active(c)' \subseteq {j}
  BY <1>1, <1>2, <1>3, PodRests DEF PodStep
<1>5. Placed(j)' /\ Tells(c, j)'
  BY <1>1, <1>2 DEF Told, Placed, Tells
<1>6. Monitors(c, j)'
  BY <1>1, <1>2 DEF Told, Monitors, Bound, Recording, PodStep
<1> QED
  BY <1>4, <1>5, <1>6 DEF Calmly, Told

\* WorkDone.
LEMMA WorkDoneCalm ==
  ASSUME Calm, NEW c \in Curators, NEW j \in JobIds, PodStep(c, j), WorkDone(j)
  PROVE  Calmly(c)'
<1>1. /\ jobs[j].pc = "work" /\ jobs'[j].pc = "final"
      /\ Keeps(jobs[j], jobs'[j]) /\ UNCHANGED <<api, watch>>
      /\ \/ Step(j) # "monitor-upgrade" /\ cluster' = cluster
         \/ jobs[j].held.upgrade.version = NoVersion /\ cluster' = cluster
         \/ cluster'[c] = jobs[j].held.upgrade.version
  BY WorkDoneEffect DEF PodStep
<1>2. Handled(c) /\ Told(c, j) /\ jobs[j].cc = c
  BY DEF PodStep, Calmly, Active
<1>3. /\ jobs'[j].cc = c /\ Step(j)' = Step(j) /\ jobs'[j].todo = jobs[j].todo
      /\ jobs'[j].held = jobs[j].held /\ jobs'[j].local = jobs[j].local
  BY <1>1, <1>2 DEF Keeps, Step
<1>4. Step(j) # "done"
  BY <1>1, <1>2 DEF Told, Placed
<1>5. ~Released(j) /\ api[c].job = j
  BY <1>1, <1>2, TheJob DEF Released, PodStep
<1>6. Handled(c)' /\ Active(c)' \subseteq {j}
  <2>1. j # NoJob
    BY ActiveJobs DEF PodStep
  <2> QED
    BY <1>1, <1>2, <1>3, <1>5, <2>1, PodRests DEF PodStep
<1>7. /\ jobs[j].held.desired = api[c].desired
      /\ jobs[j].held.upgrade = api[c].upgrade
      /\ api[c].desired = "upgrade" => jobs[j].local = "upgrade"
  BY <1>1, <1>2 DEF Told, Tells
<1>8. Placed(j)' /\ Tells(c, j)'
  BY <1>1, <1>3, <1>4, <1>7 DEF Placed, Tells
<1>9. Monitors(c, j)'
  <2> SUFFICES ASSUME api[c].desired = "upgrade", cluster'[c] # api[c].upgrade.version
               PROVE  Upgrades(jobs[j].todo) /\ Step(j) # "monitor-upgrade"
    BY <1>1, <1>3 DEF Monitors
  <2>1. api[c].upgrade.version # NoVersion
    BY <1>2 DEF Handled, Admissible
  <2>2. Step(j) # "monitor-upgrade" /\ cluster' = cluster
    BY <1>1, <1>7, <2>1
  <2>3. Monitors(c, j) /\ Bound(c, j)
    BY <1>2, <1>5 DEF Told, Bound
  <2> QED
    BY <2>2, <2>3 DEF Monitors
<1> QED
  BY <1>6, <1>8, <1>9 DEF Calmly, Told

\* ReadForStatus, WorkFails, WorkReports.
LEMMA RestCalm ==
  ASSUME NEW c \in Curators, NEW j \in JobIds, PodStep(c, j),
         ReadForStatus(j) \/ WorkFails(j) \/ WorkReports(j)
  PROVE  Calmly(c)'
<1>1. CASE ReadForStatus(j)
  <2>1. /\ jobs[j].pc \in StatusPCs /\ UNCHANGED <<api, watch, cluster>>
        /\ \/ /\ jobs'[j].pc = jobs[j].pc /\ jobs'[j].msg = jobs[j].msg
              /\ Keeps(jobs[j], jobs'[j])
           \/ Ends(jobs[j], jobs'[j])
           \/ GivesUp(jobs[j], jobs'[j])
    BY <1>1, ReadEffect DEF PodStep
  <2>2. jobs[j].pc \notin {"pending", "get"}
    BY <2>1 DEF StatusPCs
  <2> QED
    BY <2>1, <2>2, MovesCalm, LeavesCalm
<1>2. CASE WorkFails(j) \/ WorkReports(j)
  <2>1. /\ jobs[j].pc = "work" /\ UNCHANGED <<api, watch, cluster>>
        /\ \/ jobs'[j].pc \in {"stepfail", "progress"} /\ Keeps(jobs[j], jobs'[j])
           \/ GivesUp(jobs[j], jobs'[j])
    BY <1>2, WorkGoesOn DEF PodStep
  <2> QED
    BY <2>1, MovesCalm, LeavesCalm
<1> QED
  BY <1>1, <1>2

\* FailPatch: what is left launches nothing.
LEMMA FailPatchCalm ==
  ASSUME NEW c \in Curators, NEW j \in JobIds, PodStep(c, j), FailPatch(j)
  PROVE  Calmly(c)'
<1>1. /\ jobs[j].pc = "failpatch" /\ Ends(jobs[j], jobs'[j]) /\ UNCHANGED cluster
      /\ \/ /\ api'[c].desired = IF jobs[j].held.desired = "upgrade"
                                 THEN api[c].desired ELSE ""
            /\ api'[c].op = "nil" /\ api'[c].job = NoJob
            /\ api'[c].upgrade = api[c].upgrade /\ api'[c].cond = api[c].cond
            /\ \/ api'[c] = api[c] /\ watch'[c] = watch[c]
               \/ api'[c].rv = api[c].rv + 1 /\ watch'[c] = watch[c] \cup {api'[c]}
         \/ UNCHANGED <<api, watch>>
  BY FailPatchEffect DEF PodStep
<1>2. CASE UNCHANGED <<api, watch>>
  BY <1>1, <1>2, LeavesCalm
<1>3. CASE ~UNCHANGED <<api, watch>>
  <2>1. Handled(c) /\ Told(c, j) /\ jobs[j].cc = c
    BY DEF PodStep, Calmly, Active
  <2>2. j \notin Active(c)' /\ \A i \in Active(c) : i = j
    BY <1>1, <2>1, TheJob, EndsInactive DEF PodStep
  <2>3. Active(c)' = {}
    <3> SUFFICES ASSUME NEW i \in Active(c)' PROVE FALSE
      OBVIOUS
    <3>1. i \in JobIds /\ i # j
      BY <2>2 DEF Active
    <3>2. i \in Active(c)
      BY <3>1 DEF Active, PodStep
    <3> QED
      BY <2>2, <3>1, <3>2
  <2>4. /\ jobs[j].held.desired = api[c].desired
        /\ api[c].desired = "upgrade" => Repeats(api[c].upgrade, api[c].cond)
    BY <1>1, <2>1 DEF Told, Tells
  <2>5. ~Launchable(c, api'[c])
    <3>1. ~PosthookOnly(api'[c])
      BY <1>1, <1>3 DEF PosthookOnly, Retries
    <3>2. api'[c].desired = "upgrade" => Settled(c, api'[c])
      BY <1>1, <1>3, <2>4 DEF Settled
    <3>3. api'[c].desired \in {"", "upgrade"}
      BY <1>1, <1>3, <2>4
    <3> QED
      BY <3>1, <3>2, <3>3 DEF Launchable
  <2>6. Handled(c)'
    <3>1. api'[c].desired \in {api[c].desired, ""}
      BY <1>1, <1>3
    <3> QED
      BY <1>1, <1>3, <2>1, <2>3, <2>5, <3>1, PodWrite DEF PodStep
  <2> QED
    BY <2>3, <2>6 DEF Calmly
<1> QED
  BY <1>2, <1>3

\* DonePatch: it leaves an install or destroy with nothing to do, and an upgrade with
\* no condition, at the version it asks for.
LEMMA DonePatchCalm ==
  ASSUME NEW c \in Curators, NEW j \in JobIds, PodStep(c, j), DonePatch(j)
  PROVE  Calmly(c)'
<1>1. /\ jobs[j].pc = "donepatch" /\ UNCHANGED cluster
      /\ \/ /\ MayCall(j)
            /\ api'[c].desired = IF jobs[j].held.desired = "upgrade"
                                 THEN api[c].desired ELSE ""
            /\ api'[c].op = "nil" /\ api'[c].job = NoJob
            /\ api'[c].upgrade = api[c].upgrade /\ api'[c].cond = NoCondition
            /\ \/ api'[c] = api[c] /\ watch'[c] = watch[c]
               \/ api'[c].rv = api[c].rv + 1 /\ watch'[c] = watch[c] \cup {api'[c]}
            /\ jobs'[j].pc = "final"
            /\ jobs'[j].held.desired = api'[c].desired
            /\ jobs'[j].held.upgrade = api[c].upgrade
            /\ jobs'[j].msg = Ended(jobs[j].held.job, jobs[j].local,
                                    jobs[j].held.upgrade, FALSE)
            /\ jobs'[j].local = jobs[j].local /\ jobs'[j].todo = jobs[j].todo
            /\ jobs'[j].cc = jobs[j].cc
         \/ ~MayCall(j) /\ UNCHANGED <<api, watch>> /\ GivesUp(jobs[j], jobs'[j])
  BY DonePatchEffect DEF PodStep
<1>2. CASE ~MayCall(j)
  BY <1>1, <1>2, LeavesCalm
<1>3. CASE MayCall(j)
  <2>1. Handled(c) /\ Told(c, j) /\ jobs[j].cc = c
    BY DEF PodStep, Calmly, Active
  <2>2. /\ jobs[j].held.desired = api[c].desired
        /\ jobs[j].held.upgrade = api[c].upgrade
        /\ api[c].desired = "upgrade" => jobs[j].local = "upgrade"
        /\ Step(j) = "done"
    BY <1>1, <2>1 DEF Told, Tells, Placed
  <2>3. Step(j)' = "done" /\ Released(j)' /\ ~Released(j)
    BY <1>1, <1>3, <2>2 DEF Step, Released
  <2>4. api[c].job = j /\ Bound(c, j)
    BY <1>1, <2>1, <2>3, TheJob DEF PodStep
  <2>5. api[c].desired = "upgrade" => cluster[c] = api[c].upgrade.version
    <3>1. jobs[j].pc \in RunningPCs
      BY <1>1 DEF RunningPCs
    <3>2. ~Upgrades(jobs[j].todo)
      BY <2>2, <3>1, AtWork DEF PodStep
    <3> QED
      BY <2>1, <2>4, <3>2 DEF Told, Monitors
  <2>6. ~Launchable(c, api'[c])
    <3>1. ~PosthookOnly(api'[c])
      BY <1>1, <1>3 DEF PosthookOnly, Retries
    <3>2. api'[c].desired = "upgrade" => Settled(c, api'[c])
      <4>1. api[c].desired = "upgrade" => api[c].upgrade.version # NoVersion
        BY <2>1 DEF Handled, Admissible
      <4>2. api'[c].cond.status = "absent"
        <5>1. api'[c].cond = NoCondition
          BY <1>1, <1>3
        <5>2. NoCondition.status = "absent"
          BY DEF NoCondition
        <5> QED
          BY <5>1, <5>2
      <4>3. api'[c].desired = "upgrade" => api[c].desired = "upgrade"
        BY <1>1, <1>3
      <4> QED
        BY <1>1, <1>3, <2>5, <4>1, <4>2, <4>3 DEF Settled
    <3>3. api'[c].desired \in {"", "upgrade"}
      BY <1>1, <1>3, <2>2
    <3> QED
      BY <3>1, <3>2, <3>3 DEF Launchable
  <2>7. Active(c)' \subseteq {j}
    <3> SUFFICES ASSUME NEW i \in Active(c)', i # j PROVE FALSE
      OBVIOUS
    <3>1. i \in Active(c)
      BY DEF Active, PodStep
    <3> QED
      BY <1>1, <2>1, <3>1, TheJob DEF PodStep
  <2>8. Handled(c)'
    <3>1. api'[c].desired \in {api[c].desired, ""}
      BY <1>1, <1>3
    <3>2. /\ api'[c].job = NoJob /\ api'[c].upgrade = api[c].upgrade
          /\ \/ api'[c] = api[c] /\ watch'[c] = watch[c]
             \/ api'[c].rv = api[c].rv + 1 /\ watch'[c] = watch[c] \cup {api'[c]}
      BY <1>1, <1>3
    <3>3. Active(c)' \subseteq Active(c)
      BY <2>7 DEF PodStep
    <3> QED
      BY <1>1, <2>1, <2>3, <2>6, <2>7, <3>1, <3>2, <3>3, PodWrite DEF PodStep
  <2>9. Tells(c, j)' /\ Placed(j)'
    <3>1. /\ jobs'[j].pc = "final" /\ jobs'[j].held.desired = api'[c].desired
          /\ jobs'[j].held.upgrade = api'[c].upgrade /\ api'[c].upgrade = api[c].upgrade
          /\ jobs'[j].local = jobs[j].local
      BY <1>1, <1>3
    <3>2. api'[c].desired = "upgrade" => api[c].desired = "upgrade"
      BY <1>1, <1>3
    <3>3. api'[c].desired = "upgrade" => Repeats(api'[c].upgrade, jobs'[j].msg)
      <4>1. jobs'[j].msg = Ended(jobs[j].held.job, jobs[j].local, jobs[j].held.upgrade, FALSE)
        BY <1>1, <1>3
      <4> QED
        BY <2>2, <3>1, <3>2, <4>1, EndedRepeats
    <3> QED
      BY <2>2, <3>1, <3>2, <3>3 DEF Tells, Placed
  <2>10. Monitors(c, j)'
    <3>1. api'[c].job # j /\ worker' = worker
      <4>1. api'[c].job = NoJob
        BY <1>1, <1>3
      <4>2. j \in Active(c) /\ worker' = worker
        BY DEF PodStep
      <4> QED
        BY <4>1, <4>2, ActiveJobs
    <3>2. j \in Active(c) /\ jobs[j].pc # "pending"
      BY <1>1 DEF PodStep
    <3>3. ~(worker.cc = c /\ worker.pc = "record")
      BY <2>1, <3>2, TheJob
    <3> QED
      BY <3>1, <3>3 DEF Monitors, Bound, Recording
  <2> QED
    BY <2>7, <2>8, <2>9, <2>10 DEF Calmly, Told
<1> QED
  BY <1>2, <1>3

\* What the container knows once its update is taken.
LEMMA AfterWriteTold ==
  ASSUME TypeOK, Shape, NEW c \in Curators, NEW j \in JobIds, Told(c, j),
         jobs[j].pc \in StatusPCs, jobs'[j] = AfterWrite(j),
         api'[c].desired = api[c].desired, api'[c].upgrade = api[c].upgrade,
         api'[c].job = api[c].job,
         jobs[j].pc = "jobfail" => api'[c].cond = jobs[j].msg,
         UNCHANGED <<cluster, worker>>
  PROVE  \/ Ends(jobs[j], jobs'[j])
         \/ Told(c, j)' /\ (Released(j) => Released(j)')
<1>1. jobs[j].pc \notin {"pending", "get", "donepatch", "failpatch"}
  BY DEF StatusPCs
<1>2. /\ jobs[j].held.desired = api[c].desired
      /\ jobs[j].held.upgrade = api[c].upgrade
      /\ api[c].desired = "upgrade" =>
           /\ jobs[j].local = "upgrade"
           /\ jobs[j].pc = "jobfail" => Repeats(api[c].upgrade, jobs[j].msg)
  BY <1>1 DEF Told, Tells
<1>3. Bound(c, j)' <=> Bound(c, j)
  BY DEF Bound, Recording
<1>4. ASSUME Keeps(jobs[j], jobs'[j]), jobs'[j].pc \in {"stepcond", "work"},
             Step(j) # "done"
      PROVE  Told(c, j)' /\ (Released(j) => Released(j)')
  <2>1. /\ Step(j)' = Step(j) /\ jobs'[j].todo = jobs[j].todo
        /\ jobs'[j].held = jobs[j].held /\ jobs'[j].local = jobs[j].local
    BY <1>4 DEF Keeps, Step
  <2> QED
    BY <1>2, <1>3, <1>4, <2>1 DEF Told, Placed, Tells, Monitors, Released
<1>5. ASSUME Keeps(jobs[j], jobs'[j]), jobs'[j].pc = "donepatch", jobs[j].pc = "jobcond",
             Step(j) = "done"
      PROVE  Told(c, j)' /\ (Released(j) => Released(j)')
  <2>1. /\ Step(j)' = Step(j) /\ jobs'[j].todo = jobs[j].todo
        /\ jobs'[j].held = jobs[j].held /\ jobs'[j].local = jobs[j].local
    BY <1>5 DEF Keeps, Step
  <2> QED
    BY <1>2, <1>3, <1>5, <2>1 DEF Told, Placed, Tells, Monitors, Released
<1>6. ASSUME Keeps(jobs[j], jobs'[j]), jobs[j].pc = "jobfail", jobs'[j].pc = "failpatch"
      PROVE  Told(c, j)' /\ (Released(j) => Released(j)')
  <2>1. /\ Step(j)' = Step(j) /\ jobs'[j].todo = jobs[j].todo
        /\ jobs'[j].held = jobs[j].held /\ jobs'[j].local = jobs[j].local
    BY <1>6 DEF Keeps, Step
  <2>2. Placed(j)' /\ Tells(c, j)'
    BY <1>2, <1>6, <2>1 DEF Placed, Tells
  <2>3. Monitors(c, j)'
    BY <1>3, <1>6, <2>1 DEF Told, Monitors
  <2> QED
    BY <1>6, <2>1, <2>2, <2>3 DEF Told, Released
<1>7. ASSUME jobs[j].pc = "stepfail", GivesUp(jobs[j], jobs'[j])
      PROVE  Told(c, j)' /\ (Released(j) => Released(j)')
  <2>1. /\ Step(j)' = Step(j) /\ jobs'[j].todo = jobs[j].todo /\ jobs'[j].pc = "jobfail"
        /\ jobs'[j].held = jobs[j].held /\ jobs'[j].local = jobs[j].local
        /\ jobs'[j].msg = Ended(jobs[j].held.job, jobs[j].local, jobs[j].held.upgrade, TRUE)
    BY <1>7 DEF GivesUp, Keeps, Step
  <2>2. api[c].desired = "upgrade" => Repeats(api[c].upgrade, jobs'[j].msg)
    BY <1>2, <2>1, EndedRepeats
  <2>3. Placed(j)' /\ Tells(c, j)'
    BY <1>2, <2>1, <2>2 DEF Placed, Tells
  <2>4. Monitors(c, j)'
    BY <1>3, <2>1 DEF Told, Monitors
  <2> QED
    BY <1>7, <2>3, <2>4 DEF Told, Released
<1>8. ASSUME jobs[j].pc = "final", Step(j) # "done", jobs'[j].pc = "get",
             jobs'[j].todo = Tail(jobs[j].todo)
      PROVE  Told(c, j)' /\ (Released(j) => Released(j)')
  <2>1. jobs[j].pc \in RunningPCs
    BY <1>8 DEF RunningPCs, StatusPCs
  <2>2. Step(j) # "monitor-upgrade" /\ Upgrades(jobs[j].todo) => Upgrades(jobs'[j].todo)
    BY <1>8, <2>1, AtWork
  <2>3. Placed(j)' /\ Tells(c, j)'
    BY <1>8 DEF Placed, Tells
  <2>4. Monitors(c, j)'
    BY <1>3, <1>8, <2>2 DEF Told, Monitors
  <2> QED
    BY <1>8, <2>3, <2>4 DEF Told, Released
<1> QED
  <2>1. jobs[j].pc \in {"stepcond", "progress"} => Step(j) # "done"
    BY DEF Told, Placed
  <2> QED
    BY <1>4, <1>5, <1>6, <1>7, <1>8, <2>1, AfterWriteEffect

\* UpdateStatus.
LEMMA UpdateCalm ==
  ASSUME NEW c \in Curators, NEW j \in JobIds, PodStep(c, j), UpdateStatus(j)
  PROVE  Calmly(c)'
<1>1. jobs[j].pc \in StatusPCs /\ UNCHANGED cluster
  BY UpdateEffect DEF PodStep
<1>2. \/ /\ jobs'[j] = AfterWrite(j)
         /\ api'[c].desired = api[c].desired /\ api'[c].op = api[c].op
         /\ api'[c].job = api[c].job /\ api'[c].upgrade = api[c].upgrade
         /\ \/ jobs[j].pc = "jobfail"
            \/ jobs[j].pc = "final" /\ Step(j) = "done"
            => api'[c].cond = jobs[j].msg
         /\ \/ api'[c] = api[c] /\ watch'[c] = watch[c]
            \/ api'[c].rv = api[c].rv + 1 /\ watch'[c] = watch[c] \cup {api'[c]}
      \/ /\ UNCHANGED <<api, watch>>
         /\ Ends(jobs[j], jobs'[j]) \/ GivesUp(jobs[j], jobs'[j])
  BY UpdateEffect DEF PodStep
<1>3. CASE /\ UNCHANGED <<api, watch>>
           /\ Ends(jobs[j], jobs'[j]) \/ GivesUp(jobs[j], jobs'[j])
  <2>1. jobs[j].pc # "pending"
    BY <1>1 DEF StatusPCs
  <2> QED
    BY <1>1, <1>3, <2>1, LeavesCalm
<1>4. CASE /\ jobs'[j] = AfterWrite(j)
           /\ api'[c].desired = api[c].desired /\ api'[c].op = api[c].op
           /\ api'[c].job = api[c].job /\ api'[c].upgrade = api[c].upgrade
           /\ \/ jobs[j].pc = "jobfail"
              \/ jobs[j].pc = "final" /\ Step(j) = "done"
              => api'[c].cond = jobs[j].msg
           /\ \/ api'[c] = api[c] /\ watch'[c] = watch[c]
              \/ api'[c].rv = api[c].rv + 1 /\ watch'[c] = watch[c] \cup {api'[c]}
  <2>1. Handled(c) /\ Told(c, j) /\ jobs[j].cc = c /\ jobs[j].pc # "pending"
    BY <1>1 DEF PodStep, Calmly, Active, StatusPCs
  <2>2. /\ api'[c].desired = api[c].desired /\ api'[c].op = api[c].op
        /\ api'[c].job = api[c].job /\ api'[c].upgrade = api[c].upgrade
    BY <1>4
  <2>3. j \in Active(c)' => Told(c, j)' /\ (Released(j) => Released(j)')
    BY <1>1, <1>4, <2>1, AfterWriteTold, EndsInactive DEF PodStep
  <2>4. /\ \A i \in Active(c) : i = j
        /\ \/ api[c].job = j
           \/ api[c].job = NoJob /\ Released(j) /\ ~Launchable(c, api[c])
    BY <2>1, TheJob DEF PodStep
  <2>5. Active(c)' \subseteq {j}
    <3> SUFFICES ASSUME NEW i \in Active(c)', i # j PROVE FALSE
      OBVIOUS
    <3>1. i \in Active(c)
      BY DEF Active, PodStep
    <3> QED
      BY <2>4, <3>1
  <2>6. ASSUME api[c].job = NoJob PROVE Released(j) /\ ~Launchable(c, api'[c])
    <3>1. j # NoJob
      BY ActiveJobs DEF PodStep
    <3>2. Released(j) /\ ~Launchable(c, api[c])
      BY <2>4, <2>6, <3>1
    <3>3. jobs[j].pc \in {"jobfail", "final"} /\ Step(j) = "done"
      BY <1>1, <3>2 DEF Released, StatusPCs
    <3>4. ~PosthookOnly(api'[c])
      BY <2>2, <3>2 DEF Launchable, PosthookOnly
    <3>5. api[c].desired = "upgrade" => Repeats(api'[c].upgrade, api'[c].cond)
      <4>1. api'[c].cond = jobs[j].msg
        BY <1>4, <3>3
      <4>2. api[c].desired = "upgrade" => Repeats(api[c].upgrade, jobs[j].msg)
        BY <2>1, <3>3 DEF Told, Tells
      <4> QED
        BY <2>2, <4>1, <4>2
    <3>6. api'[c].desired \in {"", "upgrade"}
      BY <2>2, <2>6, <3>2 DEF Launchable
    <3> QED
      BY <2>2, <3>2, <3>4, <3>5, <3>6 DEF Launchable, Settled
  <2>7. Handled(c)'
    <3>1. \/ api'[c] = api[c] /\ watch'[c] = watch[c]
          \/ api'[c].rv = api[c].rv + 1 /\ watch'[c] = watch[c] \cup {api'[c]}
      BY <1>4
    <3>2. \/ ~Launchable(c, api'[c])
          \/ /\ api'[c].job = api[c].job /\ api'[c].op = api[c].op
             /\ PosthookOnly(api[c])
      <4>1. CASE api[c].job = NoJob
        BY <2>6, <4>1
      <4>2. CASE api[c].job # NoJob
        BY <2>2, <4>2 DEF Launchable, PosthookOnly
      <4> QED
        BY <4>1, <4>2
    <3>3. Active(c)' \subseteq Active(c)
      BY <2>5 DEF PodStep
    <3>4. \A i \in Active(c)' :
            \/ api'[c].job = i /\ api'[c].op = api[c].op
            \/ api'[c].job = NoJob /\ Released(i)' /\ ~Launchable(c, api'[c])
      BY <2>2, <2>3, <2>4, <2>5, <2>6
    <3> QED
      BY <1>1, <2>1, <2>2, <3>1, <3>2, <3>3, <3>4, PodWrite DEF PodStep
  <2> QED
    BY <2>3, <2>5, <2>7 DEF Calmly
<1> QED
  BY <1>2, <1>3, <1>4

\* A pod's step touches no other curator, and its Job stays what it was launched for.
LEMMA PodElsewhere ==
  ASSUME Calm, TypeOK, Shape, VersionsFaithful, NEW j \in JobIds, Pod(j)
  PROVE  /\ jobs'[j].cc = jobs[j].cc /\ jobs'[j].kind = jobs[j].kind
         /\ \A d \in Curators :
              d # Owner(j) => /\ api'[d] = api[d] /\ watch'[d] = watch[d]
                              /\ cluster'[d] = cluster[d] /\ mci'[d] = mci[d]
         /\ \/ UNCHANGED <<cluster, mci>>
            \/ mci'[Owner(j)] = {cluster'[Owner(j)]}
<1> DEFINE Apart == /\ jobs'[j].cc = jobs[j].cc /\ jobs'[j].kind = jobs[j].kind
                    /\ \A d \in Curators :
                         d # Owner(j) => /\ api'[d] = api[d] /\ watch'[d] = watch[d]
                                         /\ cluster'[d] = cluster[d] /\ mci'[d] = mci[d]
                    /\ \/ UNCHANGED <<cluster, mci>>
                       \/ mci'[Owner(j)] = {cluster'[Owner(j)]}
<1>1. Owner(j) \in Curators
  BY PodAlone
<1>2. ASSUME Keeps(jobs[j], jobs'[j]) \/ Ends(jobs[j], jobs'[j]) \/ GivesUp(jobs[j], jobs'[j])
      PROVE  jobs'[j].cc = jobs[j].cc /\ jobs'[j].kind = jobs[j].kind
  BY <1>2 DEF Keeps, Ends, GivesUp
<1>3. CASE StartPod(j)
  BY <1>2, <1>3, StartEffect
<1>4. CASE GetCurator(j)
  BY <1>2, <1>4, GetEffect
<1>5. CASE ReadForStatus(j)
  BY <1>2, <1>5, ReadEffect
<1>6. CASE UpdateStatus(j)
  <2>1. PICK c \in Curators : c = Owner(j)
    BY <1>1
  <2>2. /\ jobs[j].pc \in StatusPCs /\ UNCHANGED <<cluster, mci>>
        /\ \A d \in Curators : d # c => api'[d] = api[d] /\ watch'[d] = watch[d]
        /\ \/ jobs'[j] = AfterWrite(j)
           \/ Ends(jobs[j], jobs'[j])
           \/ GivesUp(jobs[j], jobs'[j])
    BY <1>6, <2>1, UpdateEffect
  <2>3. jobs'[j].cc = jobs[j].cc /\ jobs'[j].kind = jobs[j].kind
    <3>1. CASE jobs'[j] = AfterWrite(j)
      BY <1>2, <2>2, <3>1, AfterWriteEffect
    <3> QED
      BY <1>2, <2>2, <3>1
  <2> QED
    BY <2>1, <2>2, <2>3
<1>7. CASE WorkDone(j)
  <2>1. PICK c \in Curators : c = Owner(j)
    BY <1>1
  <2>2. /\ Keeps(jobs[j], jobs'[j]) /\ UNCHANGED <<api, watch>>
        /\ \A d \in Curators : d # c => cluster'[d] = cluster[d] /\ mci'[d] = mci[d]
        /\ mci'[c] = {cluster'[c]} \/ UNCHANGED <<cluster, mci>>
    BY <1>7, <2>1, WorkDoneEffect
  <2> QED
    BY <1>2, <2>1, <2>2
<1>8. CASE WorkFails(j) \/ WorkReports(j)
  BY <1>2, <1>8, WorkGoesOn
<1>9. CASE DonePatch(j)
  <2>1. PICK c \in Curators : c = Owner(j)
    BY <1>1
  <2>2. /\ UNCHANGED <<cluster, mci>>
        /\ \A d \in Curators : d # c => api'[d] = api[d] /\ watch'[d] = watch[d]
        /\ \/ jobs'[j].cc = jobs[j].cc /\ jobs'[j].kind = jobs[j].kind
           \/ GivesUp(jobs[j], jobs'[j])
    BY <1>9, <2>1, DonePatchEffect
  <2> QED
    BY <1>2, <2>1, <2>2
<1>10. CASE FailPatch(j)
  <2>1. PICK c \in Curators : c = Owner(j)
    BY <1>1
  <2>2. /\ UNCHANGED <<cluster, mci>> /\ Ends(jobs[j], jobs'[j])
        /\ \A d \in Curators : d # c => api'[d] = api[d] /\ watch'[d] = watch[d]
    BY <1>10, <2>1, FailPatchEffect
  <2> QED
    BY <1>2, <2>1, <2>2
<1> QED
  BY <1>3, <1>4, <1>5, <1>6, <1>7, <1>8, <1>9, <1>10 DEF Pod

\* Every step of every pod.
LEMMA PodCalm ==
  ASSUME Calm, TypeOK, Shape, VersionsFaithful, CalmInv, NEW j \in JobIds, Pod(j)
  PROVE  CalmInv'
<1>1. PICK c \in Curators : c = Owner(j)
  BY PodAlone
<1>2. /\ j \in Active(c) /\ jobs[j].cc = c
      /\ \A i \in JobIds : i # j => jobs'[i] = jobs[i]
      /\ UNCHANGED <<cache, queue, worker>>
  BY <1>1, PodAlone DEF Owner
<1>3. PodStep(c, j)
  BY <1>1, <1>2 DEF PodStep, CalmInv
<1>4. Calmly(c)'
  <2>1. CASE StartPod(j) \/ GetCurator(j)
    BY <1>3, <2>1, StartCalm, GetCalm
  <2>2. CASE ReadForStatus(j) \/ WorkFails(j) \/ WorkReports(j)
    BY <1>3, <2>2, RestCalm
  <2>3. CASE UpdateStatus(j)
    BY <1>3, <2>3, UpdateCalm
  <2>4. CASE WorkDone(j)
    BY <1>3, <2>4, WorkDoneCalm
  <2>5. CASE DonePatch(j)
    BY <1>3, <2>5, DonePatchCalm
  <2>6. CASE FailPatch(j)
    BY <1>3, <2>6, FailPatchCalm
  <2> QED
    BY <2>1, <2>2, <2>3, <2>4, <2>5, <2>6 DEF Pod
<1>5. /\ jobs'[j].cc = c
      /\ \A d \in Curators :
           d # c => /\ api'[d] = api[d] /\ watch'[d] = watch[d]
                    /\ cluster'[d] = cluster[d] /\ mci'[d] = mci[d]
      /\ UNCHANGED <<cluster, mci>> \/ mci'[c] = {cluster'[c]}
  BY <1>1, <1>2, PodElsewhere
<1>6. ASSUME NEW d \in Curators, d # c PROVE Calmly(d)'
  <2>1. Calmly(d)
    BY DEF CalmInv
  <2> QED
    BY <1>2, <1>5, <1>6, <2>1, Elsewhere
<1>7. InfoShown'
  BY <1>5 DEF CalmInv, InfoShown
<1>8. Resting'
  BY <1>2 DEF CalmInv, Resting
<1> QED
  BY <1>4, <1>6, <1>7, <1>8 DEF CalmInv

-----------------------------------------------------------------------------
(* Every other step, and the theorem.                                       *)

\* The worker's call at its curator; the others do not see it.
LEMMA WorkerStep ==
  ASSUME TypeOK, Shape, CalmInv, worker.pc \notin {"idle", "record"}, NEW pc,
         UNCHANGED <<api, cache, watch, jobs, cluster, mci>>,
         (queue' = queue /\ Goto(pc)) \/ Requeue,
         pc \notin {"record", "dropCRB"},
         pc = "decide" => worker.pc = "dropCRB" /\ worker.held.desired = "upgrade",
         pc \in LaunchPCs =>
            \/ worker.pc \in LaunchPCs
            \/ worker.pc \in {"dropCRB", "decide"} /\ Launchable(worker.cc, worker.held)
  PROVE  CalmInv'
<1>1. PICK c \in Curators : c = worker.cc
  BY DEF Shape
<1>2. \/ worker' = IdleWorker
      \/ /\ queue' = queue
         /\ worker'.pc = pc /\ worker'.cc = c /\ worker'.held = worker.held
         /\ pc # "idle"
  <2>1. CASE worker' = IdleWorker
    BY <2>1
  <2>2. CASE worker' # IdleWorker
    <3>1. queue' = queue /\ worker' = [worker EXCEPT !.pc = pc] /\ pc # "idle"
      BY <2>2 DEF Goto, Requeue
    <3> QED
      BY <1>1, <3>1 DEF TypeOK
  <2> QED
    BY <2>1, <2>2
<1>3. IdleWorker.cc = NoCurator /\ IdleWorker.pc = "idle"
  BY DEF IdleWorker
<1>4. queue' = queue \/ (queue' = queue \cup {c} /\ worker' = IdleWorker)
  BY <1>1 DEF Requeue
<1>5. Calmly(c)'
  <2>1. Calmly(c)
    BY DEF CalmInv
  <2>2. \/ worker'.cc # c
        \/ /\ worker'.cc = c /\ worker'.held = worker.held
           /\ worker'.pc \notin {"record", "dropCRB"}
           /\ worker'.pc = "decide" => worker.pc = "dropCRB" /\ worker.held.desired = "upgrade"
           /\ worker'.pc \in LaunchPCs =>
                \/ worker.pc \in LaunchPCs
                \/ worker.pc \in {"dropCRB", "decide"} /\ Launchable(c, worker.held)
    BY <1>1, <1>2, <1>3, CuratorAssumption
  <2>3. \/ queue' = queue
        \/ queue' = queue \cup {c} /\ worker'.cc # c
    BY <1>3, <1>4, CuratorAssumption
  <2> QED
    BY <1>1, <2>1, <2>2, <2>3, WorkerMoves
<1>6. ASSUME NEW d \in Curators, d # c PROVE Calmly(d)'
  <2>1. Calmly(d)
    BY DEF CalmInv
  <2>2. worker.cc # d /\ worker'.cc # d /\ (d \in queue' <=> d \in queue)
    BY <1>1, <1>2, <1>3, <1>4, <1>6, CuratorAssumption
  <2> QED
    BY <2>1, <2>2, Elsewhere
<1>7. InfoShown' /\ Resting'
  BY <1>2, <1>3 DEF CalmInv, InfoShown, Resting
<1> QED
  BY <1>5, <1>6, <1>7 DEF CalmInv

\* The calls on the access objects.
LEMMA GrantCalm ==
  ASSUME TypeOK, Shape, CalmInv,
         \/ DropCRB \/ DropServiceAccount \/ DropRoleBinding
         \/ DropClusterRoleBinding \/ DropOwnedCRB
         \/ ApplyServiceAccount \/ ApplyRoleBinding \/ IsHostedCluster
         \/ ApplyClusterRoleBinding \/ ApplyCRB
  PROVE  CalmInv'
<1>1. UNCHANGED <<api, cache, watch, jobs, cluster, mci>> /\ queue' = queue
  BY DEF DropCRB, DropServiceAccount, DropRoleBinding, DropClusterRoleBinding, DropOwnedCRB,
         ApplyServiceAccount, ApplyRoleBinding, IsHostedCluster,
         ApplyClusterRoleBinding, ApplyCRB, Grant
<1>2. CASE DropCRB
  <2>1. PICK pc : pc = Branch(worker.held)
    OBVIOUS
  <2>2. worker.pc = "dropCRB" /\ Goto(pc)
    BY <1>2, <2>1 DEF DropCRB, Grant
  <2>3. /\ pc \in {"idle", "dropSA", "decide", "applySA"}
        /\ pc = "applySA" => Launchable(worker.cc, worker.held)
        /\ pc = "decide" => worker.held.desired = "upgrade"
    BY <2>1, BranchLaunches
  <2> QED
    BY <1>1, <2>2, <2>3, WorkerStep DEF LaunchPCs
<1>3. CASE DropServiceAccount \/ DropRoleBinding \/ DropClusterRoleBinding \/ DropOwnedCRB
  <2>1. PICK pc \in {"dropRB", "dropClusterRB", "dropOwnedCRB", "idle"} : Goto(pc)
    BY <1>3 DEF DropServiceAccount, DropRoleBinding, DropClusterRoleBinding, DropOwnedCRB, Grant
  <2>2. worker.pc \in {"dropSA", "dropRB", "dropClusterRB", "dropOwnedCRB"}
    BY <1>3 DEF DropServiceAccount, DropRoleBinding, DropClusterRoleBinding, DropOwnedCRB, Grant
  <2> QED
    BY <1>1, <2>1, <2>2, WorkerStep DEF LaunchPCs
<1>4. CASE \/ ApplyServiceAccount \/ ApplyRoleBinding \/ IsHostedCluster
           \/ ApplyClusterRoleBinding \/ ApplyCRB
  <2>1. PICK pc \in {"applyRB", "isHosted", "applyClusterRB", "applyCRB", "create"} : Goto(pc)
    BY <1>4 DEF ApplyServiceAccount, ApplyRoleBinding, IsHostedCluster,
                ApplyClusterRoleBinding, ApplyCRB, Grant
  <2>2. worker.pc \in LaunchPCs
    BY <1>4 DEF ApplyServiceAccount, ApplyRoleBinding, IsHostedCluster,
                ApplyClusterRoleBinding, ApplyCRB, Grant, LaunchPCs
  <2>3. worker.pc \notin {"idle", "record"}
    BY <2>2 DEF LaunchPCs
  <2> QED
    BY <1>1, <2>1, <2>2, <2>3, WorkerStep
<1> QED
  BY <1>2, <1>3, <1>4

\* What is decided upon is launched only if it is not settled.
LEMMA DecideCalm ==
  ASSUME TypeOK, Shape, CalmInv, Decide
  PROVE  CalmInv'
<1>1. PICK answer :
        answer = NeedToUpgrade(worker.held.upgrade, worker.held.cond, mci[worker.cc])
  OBVIOUS
<1>2. /\ worker.pc = "decide" /\ UNCHANGED <<api, cache, watch, jobs, cluster, mci>>
      /\ \/ answer = "yes" /\ Goto("applySA") /\ UNCHANGED queue
         \/ answer = "no" /\ Goto("idle") /\ UNCHANGED queue
         \/ answer = "error" /\ Requeue
  BY <1>1 DEF Decide
<1>3. PICK c \in Curators : c = worker.cc
  BY <1>2 DEF Shape
<1>4. ASSUME answer = "yes" PROVE Launchable(c, worker.held)
  <2>1. worker.held.job = NoJob /\ worker.held.desired = "upgrade"
    BY <1>2, <1>3 DEF CalmInv, Calmly, Handled, Carried
  <2>2. worker.held.upgrade \in Request /\ worker.held.cond \in Condition
    BY DEF TypeOK, Object
  <2>3. mci[c] \in {{}, {cluster[c]}}
    BY DEF CalmInv, InfoShown
  <2>4. ~Settled(c, worker.held)
    BY <1>1, <1>3, <1>4, <2>2, <2>3, SettledNotNeeded
  <2> QED
    BY <2>1, <2>4 DEF Launchable
<1>5. CASE answer = "yes"
  <2>1. Goto("applySA") /\ queue' = queue
    BY <1>2, <1>5
  <2> QED
    BY <1>2, <1>3, <1>4, <1>5, <2>1, WorkerStep
<1>6. CASE answer # "yes"
  <2>1. (queue' = queue /\ Goto("idle")) \/ Requeue
    BY <1>2, <1>6
  <2>2. "idle" \notin LaunchPCs
    BY DEF LaunchPCs
  <2> QED
    BY <1>2, <2>1, <2>2, WorkerStep
<1> QED
  BY <1>5, <1>6

\* Without faults, the API server refuses a Job only when there is nothing in it, or
\* too many of them.
LEMMA RefusedCalm ==
  ASSUME TypeOK, Shape, CalmInv, CreateRefused
  PROVE  CalmInv'
<1>1. /\ worker.pc = "create" /\ Goto("idle") /\ queue' = queue
      /\ UNCHANGED <<api, cache, watch, jobs, cluster, mci>>
  BY DEF CreateRefused
<1>2. "idle" \notin LaunchPCs
  BY DEF LaunchPCs
<1> QED
  BY <1>1, <1>2, WorkerStep

\* A launch, for the other curators too.
LEMMA LaunchCalm ==
  ASSUME TypeOK, Shape, CalmInv, CreateJob
  PROVE  CalmInv'
<1>1. worker.pc = "create"
  BY DEF CreateJob
<1>2. PICK c \in Curators : c = worker.cc
  BY <1>1 DEF Shape
<1>3. PICK j \in JobIds : /\ jobs[j].pc = "none"
                          /\ jobs' = [jobs EXCEPT ![j] = Launched(c, worker.held)]
                          /\ worker' = [worker EXCEPT !.pc = "record", !.job = j]
                          /\ UNCHANGED <<api, cache, watch, queue, cluster, mci>>
  BY <1>2 DEF CreateJob
<1>4. /\ worker'.pc = "record" /\ worker'.cc = c
      /\ jobs'[j].cc = c
      /\ \A i \in JobIds : i # j => jobs'[i] = jobs[i]
  BY <1>2, <1>3 DEF TypeOK, Launched, UnusedJob
<1>5. Calmly(c)'
  BY <1>2, CreateCalm DEF CalmInv
<1>6. ASSUME NEW d \in Curators, d # c PROVE Calmly(d)'
  <2>1. Calmly(d)
    BY DEF CalmInv
  <2>2. \A i \in JobIds : \/ jobs[i].cc = d /\ jobs[i].pc # "none"
                          \/ jobs'[i].cc = d
                          => jobs'[i] = jobs[i]
    BY <1>3, <1>4, <1>6
  <2> QED
    BY <1>2, <1>3, <1>4, <1>6, <2>1, <2>2, Elsewhere
<1>7. InfoShown' /\ Resting'
  BY <1>3, <1>4 DEF CalmInv, InfoShown, Resting
<1> QED
  BY <1>5, <1>6, <1>7 DEF CalmInv

\* The record of the Job's name, likewise.
LEMMA RecordingCalm ==
  ASSUME TypeOK, Shape, CalmInv, RecordJobName
  PROVE  CalmInv'
<1>1. worker.pc = "record" /\ UNCHANGED <<cache, jobs, cluster, mci>>
  BY DEF RecordJobName
<1>2. PICK c \in Curators : c = worker.cc
  BY <1>1 DEF Shape
<1>3. PICK j \in Nat : j = worker.job
  BY BoundAssumption DEF TypeOK
<1>4. Calmly(c)'
  BY <1>2, RecordCalm DEF CalmInv
<1>5. /\ worker' = IdleWorker
      /\ queue' = queue \/ queue' = queue \cup {c}
      /\ UNCHANGED apiVars \/ Put(c, WithJob(cache[c], j))
  BY <1>2, <1>3 DEF RecordJobName, Goto, Requeue
<1>6. \A d \in Curators : d # c => api'[d] = api[d] /\ watch'[d] = watch[d]
  <2>1. WithJob(cache[c], j) \in Object
    BY StatusWrites DEF TypeOK
  <2> QED
    BY <1>5, <2>1, PutWrites DEF apiVars
<1>7. IdleWorker.cc = NoCurator
  BY DEF IdleWorker
<1>8. ASSUME NEW d \in Curators, d # c PROVE Calmly(d)'
  <2>1. Calmly(d)
    BY DEF CalmInv
  <2>2. worker.cc # d /\ worker'.cc # d /\ (d \in queue' <=> d \in queue)
    BY <1>2, <1>5, <1>7, <1>8, CuratorAssumption
  <2> QED
    BY <1>1, <1>6, <1>8, <2>1, <2>2, Elsewhere
<1>9. InfoShown' /\ Resting'
  BY <1>1, <1>5, <1>7 DEF CalmInv, InfoShown, Resting
<1> QED
  BY <1>4, <1>8, <1>9 DEF CalmInv

\* A key is taken from the queue, a version delivered, a request made.
LEMMA OutsideCalm ==
  ASSUME Calm, TypeOK, Shape, VersionsFaithful, CalmInv, NEW c \in Curators,
         Ask(c) \/ AskRetry(c) \/ Deliver(c) \/ Reconcile(c)
  PROVE  CalmInv'
<1>1. Calmly(c)'
  BY UserCalm, DeliverCalm, ReconcileCalm DEF CalmInv
<1>2. ASSUME NEW d \in Curators, d # c PROVE Calmly(d)'
  <2>1. Calmly(d)
    BY DEF CalmInv
  <2>2. CASE Ask(c) \/ AskRetry(c)
    <3>1. PICK o \in Object : UserWrite(c, o)
      BY <2>2, UserWrites
    <3>2. Put(c, o) /\ UNCHANGED <<cache, queue, worker, jobs, cluster>>
      BY <3>1 DEF UserWrite
    <3>3. api'[d] = api[d] /\ watch'[d] = watch[d]
      BY <1>2, <3>2, PutWrites
    <3> QED
      BY <2>1, <3>2, <3>3, Elsewhere
  <2>3. CASE Deliver(c)
    <3>1. /\ cache'[d] = cache[d] /\ watch'[d] = watch[d]
          /\ d \in queue' <=> d \in queue
          /\ UNCHANGED <<api, worker, jobs, cluster>>
      BY <1>2, <2>3 DEF Deliver, Wake, TypeOK
    <3> QED
      BY <2>1, <3>1, Elsewhere
  <2>4. CASE Reconcile(c)
    <3>1. /\ worker.pc = "idle" /\ queue' = queue \ {c}
          /\ worker' = IdleWorker \/ worker'.cc = c
          /\ UNCHANGED <<api, cache, watch, jobs, cluster>>
      BY <2>4 DEF Reconcile
    <3>2. worker.cc = NoCurator /\ IdleWorker.cc = NoCurator
      BY <3>1 DEF CalmInv, Resting, IdleWorker
    <3>3. worker.cc # d /\ worker'.cc # d
      BY <1>2, <3>1, <3>2, CuratorAssumption
    <3> QED
      BY <1>2, <2>1, <3>1, <3>3, Elsewhere
  <2> QED
    BY <2>2, <2>3, <2>4
<1>3. InfoShown'
  BY DEF CalmInv, InfoShown, Ask, AskRetry, UserWrite, Deliver, Reconcile
<1>4. Resting'
  <2>1. CASE Ask(c) \/ AskRetry(c) \/ Deliver(c)
    BY <2>1 DEF CalmInv, Resting, Ask, AskRetry, UserWrite, Deliver
  <2>2. CASE Reconcile(c)
    <3> DEFINE pc == IF NamedApart(c) /\ cache[c].job = NoJob THEN "dropCRB" ELSE Branch(cache[c])
    <3>1. worker' = IF pc = "idle" THEN IdleWorker
                    ELSE [pc |-> pc, cc |-> c, held |-> cache[c], job |-> NoJob]
      BY <2>2 DEF Reconcile
    <3> HIDE DEF pc
    <3> QED
      BY <3>1 DEF Resting, IdleWorker
  <2> QED
    BY <2>1, <2>2
<1> QED
  BY <1>1, <1>2, <1>3, <1>4 DEF CalmInv

\* Nothing is done to the curators, or their clusters report.
LEMMA StillCalm ==
  ASSUME CalmInv,
         UNCHANGED <<api, cache, watch, queue, worker, jobs, cluster>>,
         UNCHANGED mci \/ \E c \in Curators : mci' = [mci EXCEPT ![c] = {cluster[c]}],
         TypeOK
  PROVE  CalmInv'
<1>1. InfoShown'
  BY DEF CalmInv, InfoShown, TypeOK
<1>2. ASSUME NEW d \in Curators PROVE Calmly(d)'
  <2>1. Calmly(d)
    BY DEF CalmInv
  <2> QED
    BY <2>1, Elsewhere
<1> QED
  BY <1>1, <1>2 DEF CalmInv, Resting

LEMMA NextCalm ==
  ASSUME Calm, TypeOK, Shape, VersionsFaithful, CalmInv, [Next]_vars
  PROVE  CalmInv'
<1>1. ~(faults < MaxFaults)
  BY DEF Calm, TypeOK
<1>2. CASE \E c \in Curators : Ask(c) \/ AskRetry(c) \/ Informer(c)
  BY <1>2, OutsideCalm DEF Informer
<1>3. CASE \E c \in Curators : Relist(c)
  BY <1>1, <1>3 DEF Relist
<1>4. CASE \E c \in Curators : RefreshMCI(c)
  BY <1>4, StillCalm DEF RefreshMCI
<1>5. CASE Worker
  BY <1>5, GrantCalm, DecideCalm, LaunchCalm, RecordingCalm DEF Worker
<1>6. CASE CreateRefused
  BY <1>6, RefusedCalm
<1>7. CASE LookupFails \/ CallFails \/ Restart
  BY <1>1, <1>7 DEF LookupFails, CallFails, Restart
<1>8. CASE \E j \in JobIds : Pod(j)
  BY <1>8, PodCalm
<1>9. CASE \E j \in JobIds : KillPod(j)
  BY <1>1, <1>9 DEF KillPod
<1>10. CASE UNCHANGED vars
  BY <1>10, StillCalm DEF vars
<1> QED
  BY <1>2, <1>3, <1>4, <1>5, <1>6, <1>7, <1>8, <1>9, <1>10 DEF Next

LEMMA InitCalm == Init => CalmInv
<1> SUFFICES ASSUME Init PROVE CalmInv
  OBVIOUS
<1>1. InfoShown
  BY BoundAssumption DEF Init, InfoShown
<1>2. worker.pc = "idle" /\ worker.cc = NoCurator
  BY DEF Init, IdleWorker
<1>3. ASSUME NEW c \in Curators PROVE Calmly(c)
  <2>1. /\ api[c] = FirstVersion /\ cache[c] = FirstVersion /\ watch[c] = {}
        /\ worker.cc # c
    BY <1>2, CuratorAssumption DEF Init
  <2>2. /\ FirstVersion.desired = "" /\ FirstVersion.op = "nil" /\ FirstVersion.job = NoJob
    BY DEF FirstVersion, NoObject
  <2>3. Active(c) = {}
    <3>1. \A j \in JobIds : jobs[j].pc = "none"
      BY DEF Init, UnusedJob
    <3> QED
      BY <3>1 DEF Active, RunningPCs, StatusPCs
  <2>4. ~Launchable(c, cache[c])
    BY <2>1, <2>2 DEF Launchable, PosthookOnly, Retries
  <2>5. Ordered(c) /\ Admissible(c)
    BY <2>1, <2>2 DEF Ordered, Admissible, Seen
  <2>6. Working(c) /\ Retrying(c) /\ Queued(c) /\ Carried(c) /\ Watched(c)
    BY <2>1, <2>2, <2>3, <2>4 DEF Working, Retrying, Queued, Carried, Watched
  <2> QED
    BY <2>3, <2>5, <2>6 DEF Calmly, Handled
<1> QED
  BY <1>1, <1>2, <1>3 DEF CalmInv, Resting

\* No version of a curator that the controller has yet to see, or has in hand, can launch
\* a Job while another is at work, and what the containers hold and tell is the request
\* at work (clustercurator_controller.go:82-151 and 197-222, curator.go:519-565).
THEOREM CurationsCalm ==
  ASSUME Calm
  PROVE  Spec => []CalmInv
<1>1. CalmInv /\ TypeOK /\ Shape /\ VersionsFaithful /\ [Next]_vars => CalmInv'
  BY NextCalm
<1> QED
  BY <1>1, InitCalm, TypeCorrect, CopiesFaithful, PTL DEF Spec

\* At most one element, counted.
LEMMA AtMostOne ==
  ASSUME NEW S, \A x, y \in S : x = y
  PROVE  IsFiniteSet(S) /\ Cardinality(S) <= 1
<1>1. CASE S = {}
  BY <1>1, FS_EmptySet
<1>2. CASE S # {}
  <2>1. PICK x : x \in S
    BY <1>2
  <2>2. S = {x}
    BY <2>1
  <2>3. IsFiniteSet({x}) /\ Cardinality({x}) = 1
    BY FS_Singleton
  <2> QED
    BY <2>2, <2>3
<1> QED
  BY <1>1, <1>2

\* A curator has at most one Job at work: the name of the Job, which is cleared before
\* the Job is over, and the cache, which shows it only later, never let the controller
\* launch another (clustercurator_controller.go:82-151, helpers.go:148-161).
THEOREM OneAtATime ==
  ASSUME Calm
  PROVE  Spec => []AtMostOneActive
<1>1. CalmInv => AtMostOneActive
  <2> SUFFICES ASSUME CalmInv, NEW c \in Curators
               PROVE  Cardinality({j \in Active(c) : ~Released(j)}) <= 1
    BY DEF AtMostOneActive
  <2>1. \A i, j \in Active(c) : i = j
    BY DEF CalmInv, Calmly, Handled, Working
  <2> QED
    BY <2>1, AtMostOne
<1> QED
  BY <1>1, CurationsCalm, PTL

-----------------------------------------------------------------------------
(* Every install, destroy and retry is charged to an edit: those launched,   *)
(* and those a curator still asks for.                                       *)

Charged == {j \in JobIds : jobs[j].pc # "none" /\ jobs[j].kind # "upgrade"}

Wanted ==
    {c \in Curators :
        /\ api[c].job = NoJob
        /\ ~(worker.pc = "record" /\ worker.cc = c)
        /\ PosthookOnly(api[c]) \/ api[c].desired \notin {"", "upgrade"}}

Accounted == IsFiniteSet(Wanted) /\ Cardinality(Charged) + Cardinality(Wanted) <= edits

LEMMA ChargedFinite ==
  ASSUME NEW S, S \subseteq JobIds PROVE IsFiniteSet(S) /\ Cardinality(S) \in Nat
<1>1. IsFiniteSet(JobIds)
  <2>1. 1 \in Int /\ MaxJobs \in Int
    BY BoundAssumption
  <2> QED
    BY <2>1, FS_Interval DEF JobIds
<1>2. IsFiniteSet(S)
  BY <1>1, FS_Subset
<1> QED
  BY <1>2, FS_CardinalityType

\* A step by which nothing more is wanted.
LEMMA AccountedStays ==
  ASSUME TypeOK, Accounted, Wanted' \subseteq Wanted, Charged' \subseteq Charged, edits' = edits
  PROVE  Accounted'
<1>1. IsFiniteSet(Wanted) /\ Cardinality(Wanted) \in Nat
  BY FS_CardinalityType DEF Accounted
<1>2. /\ IsFiniteSet(Charged) /\ Cardinality(Charged) \in Nat
      /\ IsFiniteSet(Charged') /\ Cardinality(Charged') \in Nat
  <2>1. Charged \subseteq JobIds /\ Charged' \subseteq JobIds
    BY DEF Charged
  <2> QED
    BY <2>1, ChargedFinite
<1>3. IsFiniteSet(Wanted') /\ Cardinality(Wanted') <= Cardinality(Wanted)
  BY <1>1, FS_Subset
<1>4. Cardinality(Wanted') \in Nat
  BY <1>3, FS_CardinalityType
<1>5. Cardinality(Charged') <= Cardinality(Charged)
  BY <1>2, FS_Subset
<1>6. edits \in Nat
  BY BoundAssumption DEF TypeOK
<1> QED
  BY <1>1, <1>2, <1>3, <1>4, <1>5, <1>6 DEF Accounted

\* An edit: one more curator may want something.
LEMMA EditAccounted ==
  ASSUME TypeOK, Accounted, NEW c \in Curators, Wanted' \subseteq Wanted \cup {c},
         Charged' = Charged, edits' = edits + 1
  PROVE  Accounted'
<1>1. IsFiniteSet(Wanted) /\ Cardinality(Wanted) \in Nat
  BY FS_CardinalityType DEF Accounted
<1>2. /\ IsFiniteSet(Wanted \cup {c})
      /\ Cardinality(Wanted \cup {c}) <= Cardinality(Wanted) + 1
      /\ Cardinality(Wanted \cup {c}) \in Nat
  <2>1. /\ IsFiniteSet(Wanted \cup {c})
        /\ Cardinality(Wanted \cup {c}) =
             IF c \in Wanted THEN Cardinality(Wanted) ELSE Cardinality(Wanted) + 1
    BY <1>1, FS_AddElement
  <2> QED
    BY <1>1, <2>1
<1>3. IsFiniteSet(Wanted') /\ Cardinality(Wanted') <= Cardinality(Wanted \cup {c})
  BY <1>2, FS_Subset
<1>4. Cardinality(Wanted') \in Nat
  BY <1>3, FS_CardinalityType
<1>5. Cardinality(Charged) \in Nat
  <2>1. Charged \subseteq JobIds
    BY DEF Charged
  <2> QED
    BY <2>1, ChargedFinite
<1>6. edits \in Nat
  BY BoundAssumption DEF TypeOK
<1> QED
  BY <1>1, <1>2, <1>3, <1>4, <1>5, <1>6 DEF Accounted

\* A launch: what one curator wanted is charged.
LEMMA LaunchCharged ==
  ASSUME TypeOK, Accounted, NEW c \in Wanted, NEW j \in JobIds, Wanted' \subseteq Wanted \ {c},
         Charged' \subseteq Charged \cup {j}, edits' = edits
  PROVE  Accounted'
<1>1. IsFiniteSet(Wanted) /\ Cardinality(Wanted) \in Nat
  BY FS_CardinalityType DEF Accounted
<1>2. /\ IsFiniteSet(Wanted \ {c})
      /\ Cardinality(Wanted \ {c}) = Cardinality(Wanted) - 1
      /\ Cardinality(Wanted \ {c}) \in Nat
  <2>1. /\ IsFiniteSet(Wanted \ {c})
        /\ Cardinality(Wanted \ {c}) = Cardinality(Wanted) - 1
    BY <1>1, FS_RemoveElement
  <2> QED
    BY <2>1, FS_CardinalityType
<1>3. IsFiniteSet(Wanted') /\ Cardinality(Wanted') <= Cardinality(Wanted \ {c})
  BY <1>2, FS_Subset
<1>4. Cardinality(Wanted') \in Nat
  BY <1>3, FS_CardinalityType
<1>5. /\ IsFiniteSet(Charged) /\ Cardinality(Charged) \in Nat
      /\ IsFiniteSet(Charged') /\ Cardinality(Charged') \in Nat
  <2>1. Charged \subseteq JobIds /\ Charged' \subseteq JobIds
    BY DEF Charged
  <2> QED
    BY <2>1, ChargedFinite
<1>6. Cardinality(Charged') <= Cardinality(Charged) + 1
  <2>1. /\ IsFiniteSet(Charged \cup {j})
        /\ Cardinality(Charged \cup {j}) =
             IF j \in Charged THEN Cardinality(Charged) ELSE Cardinality(Charged) + 1
    BY <1>5, FS_AddElement
  <2>2. Cardinality(Charged') <= Cardinality(Charged \cup {j})
    BY <2>1, FS_Subset
  <2> QED
    BY <1>5, <2>1, <2>2
<1>7. edits \in Nat
  BY BoundAssumption DEF TypeOK
<1> QED
  BY <1>1, <1>2, <1>3, <1>4, <1>5, <1>6, <1>7 DEF Accounted

\* A pod launches nothing, and its closing patch leaves nothing wanted.
LEMMA PodAccounted ==
  ASSUME Calm, TypeOK, Shape, VersionsFaithful, CalmInv, Accounted, NEW j \in JobIds, Pod(j)
  PROVE  Accounted'
<1>1. PICK c \in Curators : c = Owner(j)
  BY PodAlone
<1>2. /\ j \in Active(c) /\ jobs[j].pc # "none"
      /\ \A i \in JobIds : i # j => jobs'[i] = jobs[i]
      /\ worker' = worker /\ edits' = edits
  BY <1>1, PodAlone
<1>3. /\ jobs'[j].kind = jobs[j].kind
      /\ \A d \in Curators : d # c => api'[d] = api[d]
  BY <1>1, PodElsewhere DEF Owner
<1>4. Charged' \subseteq Charged
  BY <1>2, <1>3 DEF Charged
<1>5. \/ /\ api'[c].job = api[c].job /\ api'[c].op = api[c].op
         /\ api'[c].desired = api[c].desired
      \/ api'[c].op = "nil" /\ api'[c].desired \in {"", "upgrade"}
  <2>1. CASE UpdateStatus(j)
    BY <1>1, <2>1, UpdateEffect
  <2>2. CASE DonePatch(j) \/ FailPatch(j)
    <3>1. /\ jobs[j].pc \in {"donepatch", "failpatch"}
          /\ \/ /\ api'[c].op = "nil"
                /\ api'[c].desired = IF jobs[j].held.desired = "upgrade"
                                     THEN api[c].desired ELSE ""
             \/ UNCHANGED api
      BY <1>1, <2>2, DonePatchEffect, FailPatchEffect
    <3>2. jobs[j].held.desired = api[c].desired
      BY <1>2, <3>1 DEF CalmInv, Calmly, Told, Tells
    <3> QED
      BY <3>1, <3>2
  <2>3. CASE ~(UpdateStatus(j) \/ DonePatch(j) \/ FailPatch(j))
    <3>1. UNCHANGED api
      BY <2>3 DEF Pod, StartPod, GetCurator, ReadForStatus, WorkDone, WorkFails, WorkReports,
                  apiVars
    <3> QED
      BY <3>1
  <2> QED
    BY <2>1, <2>2, <2>3
<1>6. Wanted' \subseteq Wanted
  <2> SUFFICES ASSUME NEW d \in Wanted' PROVE d \in Wanted
    OBVIOUS
  <2>1. CASE d = c
    BY <1>2, <1>5, <2>1 DEF Wanted, PosthookOnly, Retries
  <2>2. CASE d # c
    BY <1>2, <1>3, <2>2 DEF Wanted
  <2> QED
    BY <2>1, <2>2
<1> QED
  BY <1>2, <1>4, <1>6, AccountedStays

\* The launch and the record of the Job's name.
LEMMA LaunchAccounted ==
  ASSUME TypeOK, Shape, CalmInv, Accounted, CreateJob
  PROVE  Accounted'
<1>1. worker.pc = "create" /\ Containers(worker.held, Hooks) # <<>> /\ UNCHANGED <<api, edits>>
  BY DEF CreateJob
<1>2. PICK c \in Curators : c = worker.cc
  BY <1>1 DEF Shape
<1>3. PICK j \in JobIds : /\ jobs' = [jobs EXCEPT ![j] = Launched(c, worker.held)]
                          /\ worker' = [worker EXCEPT !.pc = "record", !.job = j]
  BY <1>2 DEF CreateJob
<1>4. worker'.pc = "record" /\ worker'.cc = c
  BY <1>2, <1>3 DEF TypeOK
<1>5. /\ jobs'[j].kind = JobKind(worker.held)
      /\ \A i \in JobIds : i # j => jobs'[i] = jobs[i]
  BY <1>3 DEF TypeOK, Launched, UnusedJob
<1>6. worker.held = api[c] /\ api[c].job = NoJob
  BY <1>1, <1>2 DEF CalmInv, Calmly, Handled, Carried, LaunchPCs
<1>7. c \notin Wanted' /\ Wanted' \subseteq Wanted
  BY <1>1, <1>4 DEF Wanted
<1>8. CASE JobKind(api[c]) = "upgrade"
  <2>1. Charged' \subseteq Charged
    BY <1>5, <1>6, <1>8 DEF Charged
  <2> QED
    BY <1>1, <1>7, <2>1, AccountedStays
<1>9. CASE JobKind(api[c]) # "upgrade"
  <2>1. c \in Wanted
    <3>1. JobKind(api[c]) \in {"install", "destroy"} \cup Retries
      BY <1>1, <1>6, <1>9 DEF Containers
    <3>2. PosthookOnly(api[c]) \/ api[c].desired \notin {"", "upgrade"}
      BY <3>1 DEF JobKind, PosthookOnly, Retries
    <3> QED
      BY <1>1, <1>6, <3>2 DEF Wanted
  <2>2. Charged' \subseteq Charged \cup {j}
    BY <1>5 DEF Charged
  <2> QED
    BY <1>1, <1>7, <2>1, <2>2, LaunchCharged
<1> QED
  BY <1>8, <1>9

LEMMA RecordAccounted ==
  ASSUME TypeOK, Shape, CalmInv, Accounted, RecordJobName
  PROVE  Accounted'
<1>1. worker.pc = "record" /\ UNCHANGED <<cache, jobs, edits>>
  BY DEF RecordJobName
<1>2. PICK c \in Curators : c = worker.cc
  BY <1>1 DEF Shape
<1>3. PICK j \in Nat : j = worker.job
  BY BoundAssumption DEF TypeOK
<1>4. api'[c].job = j /\ j # NoJob
  <2>1. api'[c].job = worker.job
    BY <1>2, RecordCalm DEF CalmInv
  <2>2. worker.job \in Active(c)
    BY <1>1, <1>2 DEF CalmInv, Calmly, Handled, Working
  <2> QED
    BY <1>3, <2>1, <2>2, ActiveJobs
<1>5. \A d \in Curators : d # c => api'[d] = api[d]
  <2>1. UNCHANGED apiVars \/ Put(c, WithJob(cache[c], j))
    BY <1>2, <1>3 DEF RecordJobName
  <2>2. WithJob(cache[c], j) \in Object
    BY StatusWrites DEF TypeOK
  <2> QED
    BY <2>1, <2>2, PutWrites DEF apiVars
<1>6. Wanted' \subseteq Wanted
  BY <1>1, <1>2, <1>4, <1>5 DEF Wanted
<1>7. Charged' = Charged
  BY <1>1 DEF Charged
<1> QED
  BY <1>1, <1>6, <1>7, AccountedStays

\* A request is an edit.
LEMMA AskAccounted ==
  ASSUME Calm, TypeOK, Accounted, NEW c \in Curators, Ask(c) \/ AskRetry(c)
  PROVE  Accounted'
<1>1. PICK o \in Object : UserWrite(c, o)
  BY UserWrites
<1>2. Put(c, o) /\ edits' = edits + 1 /\ UNCHANGED <<worker, jobs>>
  BY <1>1 DEF UserWrite
<1>3. \A d \in Curators : d # c => api'[d] = api[d]
  BY <1>2, PutWrites
<1>4. Wanted' \subseteq Wanted \cup {c} /\ Charged' = Charged
  BY <1>2, <1>3 DEF Wanted, Charged
<1> QED
  BY <1>2, <1>4, EditAccounted

LEMMA NextAccounted ==
  ASSUME Calm, TypeOK, Shape, VersionsFaithful, CalmInv, Accounted, [Next]_vars
  PROVE  Accounted'
<1>1. ~(faults < MaxFaults)
  BY DEF Calm, TypeOK
<1>2. ASSUME UNCHANGED <<api, jobs, edits>>, worker' = worker \/ worker.pc # "record"
      PROVE  Accounted'
  <2>1. Wanted' \subseteq Wanted /\ Charged' = Charged
    BY <1>2 DEF Wanted, Charged
  <2> QED
    BY <1>2, <2>1, AccountedStays
<1>3. CASE \E c \in Curators : Ask(c) \/ AskRetry(c)
  BY <1>3, AskAccounted
<1>4. CASE \E c \in Curators : Informer(c) \/ Relist(c) \/ RefreshMCI(c)
  BY <1>2, <1>4 DEF Informer, Deliver, Reconcile, Relist, RefreshMCI
<1>5. CASE Worker
  <2>1. CASE \/ DropCRB \/ DropServiceAccount \/ DropRoleBinding
             \/ DropClusterRoleBinding \/ DropOwnedCRB
             \/ ApplyServiceAccount \/ ApplyRoleBinding \/ IsHostedCluster
             \/ ApplyClusterRoleBinding \/ ApplyCRB
    BY <1>2, <2>1 DEF DropCRB, DropServiceAccount, DropRoleBinding, DropClusterRoleBinding,
         DropOwnedCRB, ApplyServiceAccount, ApplyRoleBinding, IsHostedCluster,
         ApplyClusterRoleBinding, ApplyCRB, Grant
  <2>2. CASE Decide
    BY <1>2, <2>2 DEF Decide
  <2> QED
    BY <1>5, <2>1, <2>2, LaunchAccounted, RecordAccounted DEF Worker
<1>6. CASE CreateRefused
  BY <1>2, <1>6 DEF CreateRefused
<1>7. CASE LookupFails \/ CallFails \/ Restart \/ \E j \in JobIds : KillPod(j)
  BY <1>1, <1>7 DEF LookupFails, CallFails, Restart, KillPod
<1>8. CASE \E j \in JobIds : Pod(j)
  BY <1>8, PodAccounted
<1>9. CASE UNCHANGED vars
  BY <1>2, <1>9 DEF vars
<1> QED
  BY <1>3, <1>4, <1>5, <1>6, <1>7, <1>8, <1>9 DEF Next

\* Every install, destroy and retry that runs was asked for by an edit of its own: not
\* launched again from the cache before it shows the first launch, nor by the status
\* writes of the Job itself, nor after it (clustercurator_controller.go:89-151 and
\* 197-222).
THEOREM NoneUnasked ==
  ASSUME Calm
  PROVE  Spec => []OnlyAskedFor
<1>1. Init => Accounted
  <2> SUFFICES ASSUME Init PROVE Accounted
    OBVIOUS
  <2>1. Wanted = {}
    BY DEF Init, Wanted, FirstVersion, NoObject, PosthookOnly, Retries
  <2>2. Charged = {}
    BY DEF Init, Charged, UnusedJob
  <2>3. IsFiniteSet({}) /\ Cardinality({}) = 0
    BY FS_EmptySet
  <2>4. edits = 0
    BY DEF Init
  <2> QED
    BY <2>1, <2>2, <2>3, <2>4 DEF Accounted
<1>2. /\ TypeOK /\ Shape /\ VersionsFaithful /\ CalmInv
      /\ Accounted /\ [Next]_vars
      => Accounted'
  BY NextAccounted
<1>3. TypeOK /\ Accounted => OnlyAskedFor
  <2> SUFFICES ASSUME TypeOK, Accounted PROVE Cardinality(Charged) <= edits
    BY DEF OnlyAskedFor, Charged
  <2>1. Cardinality(Wanted) \in Nat
    BY FS_CardinalityType DEF Accounted
  <2>2. Cardinality(Charged) \in Nat
    <3>1. Charged \subseteq JobIds
      BY DEF Charged
    <3> QED
      BY <3>1, ChargedFinite
  <2>3. edits \in Nat
    BY BoundAssumption DEF TypeOK
  <2> QED
    BY <2>1, <2>2, <2>3 DEF Accounted
<1> QED
  BY <1>1, <1>2, <1>3, TypeCorrect, CopiesFaithful, CurationsCalm, PTL DEF Spec

-----------------------------------------------------------------------------
(* A Job keeps its access until its own closing patch.                      *)

\* No two curators share a namespace, or the ServiceAccount and RoleBinding in it: the
\* cleanup after one is not the end of another's access.
OwnNamespaces ==
    \A c, d \in Curators : c # d => NS(c) # NS(d) /\ ClusterOf[c] # NS(d)

Kept == \A c \in Curators : \A j \in Active(c) : Bound(c, j) => Authorized(grants, NS(c))

\* A step that binds no further Job, and leaves the access of those that are bound.
LEMMA KeptStays ==
  ASSUME Kept,
         \A c \in Curators : \A j \in Active(c)' : Bound(c, j)' =>
            /\ j \in Active(c) /\ Bound(c, j)
            /\ Authorized(grants, NS(c)) => Authorized(grants', NS(c))
  PROVE  Kept'
  BY DEF Kept, Authorized

\* Granting takes no access away.
LEMMA GrantsGrow ==
  ASSUME NEW g \in Grants, NEW n \in Namespaces, NEW m \in Namespaces, NEW k \in Namespaces,
         Authorized(g, k)
  PROVE  /\ Authorized(CreateServiceAccount(g, n), k)
         /\ Authorized(CreateRoleBinding(g, n, m), k)
         /\ Authorized(UpsertCRB(g, n), k)
         /\ Authorized(CleanupCuratorCRBIfOwned(g, n), k)
  BY NamespaceAssumption DEF Authorized, Grants, CreateServiceAccount, CreateRoleBinding, UpsertCRB,
                             CleanupCuratorCRBIfOwned

\* Revoking leaves other namespaces alone.
LEMMA RevokedApart ==
  ASSUME NEW g \in Grants, NEW n \in Namespaces, NEW k \in Namespaces, n # k,
         Authorized(g, k)
  PROVE  Authorized(DeleteServiceAccount(g, n), k) /\ Authorized(DeleteRoleBinding(g, n), k)
  BY DEF Authorized, Grants, DeleteServiceAccount, DeleteRoleBinding

\* Access is granted at any time, and revoked only where no Job is bound.
LEMMA GrantKept ==
  ASSUME OwnNamespaces, TypeOK, Shape, CalmInv, Kept,
         \/ DropCRB \/ DropServiceAccount \/ DropRoleBinding
         \/ DropClusterRoleBinding \/ DropOwnedCRB
         \/ ApplyServiceAccount \/ ApplyRoleBinding \/ IsHostedCluster
         \/ ApplyClusterRoleBinding \/ ApplyCRB
  PROVE  Kept'
<1>1. /\ UNCHANGED <<api, jobs>> /\ worker.pc \notin {"idle", "record"}
      /\ \E pc \in WorkerPCs \ {"record"} : Goto(pc)
  <2>1. \A pc \in {"idle", "dropRB", "dropSA", "decide", "applySA", "dropClusterRB",
                   "dropOwnedCRB", "applyRB", "isHosted",
                   "applyClusterRB", "applyCRB", "create"} :
           pc \in WorkerPCs \ {"record"}
    BY DEF WorkerPCs
  <2>2. Branch(worker.held) \in {"idle", "dropSA", "decide", "applySA"}
    BY BranchLaunches
  <2>3. CASE DropCRB
    BY <2>1, <2>2, <2>3 DEF DropCRB, Grant
  <2>4. CASE ~DropCRB
    BY <2>1, <2>4 DEF DropServiceAccount, DropRoleBinding, DropClusterRoleBinding, DropOwnedCRB,
           ApplyServiceAccount, ApplyRoleBinding, IsHostedCluster,
           ApplyClusterRoleBinding, ApplyCRB, Grant
  <2> QED
    BY <2>3, <2>4
<1>2. PICK c \in Curators : c = worker.cc
  BY <1>1 DEF Shape
<1>3. grants \in Grants /\ NS(c) \in Namespaces /\ ClusterOf[c] \in Namespaces
  BY NamespaceTypes DEF TypeOK
<1>4. worker'.pc # "record"
  BY <1>1, WorkerTypes
<1>5. ASSUME NEW d \in Curators, NEW j \in Active(d)', Bound(d, j)'
      PROVE  /\ j \in Active(d) /\ Bound(d, j)
             /\ Authorized(grants, NS(d)) => Authorized(grants', NS(d))
  <2>1. j \in Active(d) /\ Bound(d, j)
    BY <1>1, <1>4, <1>5 DEF Active, Bound, Recording
  <2>2. d # c
    <3>1. Handled(c)
      BY DEF CalmInv, Calmly
    <3> QED
      BY <1>1, <1>2, <2>1, <3>1, NoneBound
  <2>3. NS(d) \in Namespaces /\ NS(c) # NS(d) /\ ClusterOf[c] # NS(d)
    BY <2>2, NamespaceTypes DEF OwnNamespaces
  <2>4. \/ grants' = CleanupCuratorCRBIfOwned(grants, NS(c))
        \/ grants' = DeleteServiceAccount(grants, NS(c))
        \/ grants' = DeleteRoleBinding(grants, NS(c))
        \/ grants' = DeleteRoleBinding(grants, ClusterOf[c])
        \/ grants' = CreateServiceAccount(grants, NS(c))
        \/ grants' = CreateRoleBinding(grants, NS(c), NS(c))
        \/ grants' = CreateRoleBinding(grants, ClusterOf[c], NS(c))
        \/ grants' = UpsertCRB(grants, NS(c))
        \/ grants' = grants
    BY <1>2 DEF DropCRB, DropServiceAccount, DropRoleBinding, DropClusterRoleBinding,
           DropOwnedCRB, ApplyServiceAccount, ApplyRoleBinding, IsHostedCluster,
           ApplyClusterRoleBinding, ApplyCRB, Grant
  <2> QED
    BY <1>3, <2>1, <2>3, <2>4, GrantsGrow, RevokedApart
<1> QED
  BY <1>5, KeptStays

\* A Job is launched with its access.
LEMMA LaunchKept ==
  ASSUME TypeOK, Shape, GrantedSoFar, Kept, CreateJob
  PROVE  Kept'
<1>1. worker.pc = "create" /\ UNCHANGED <<api, grants>>
  BY DEF CreateJob
<1>2. PICK c \in Curators : c = worker.cc
  BY <1>1 DEF Shape
<1>3. PICK j \in JobIds : /\ jobs' = [jobs EXCEPT ![j] = Launched(c, worker.held)]
                          /\ worker' = [worker EXCEPT !.pc = "record", !.job = j]
  BY <1>2 DEF CreateJob
<1>4. /\ worker'.pc = "record" /\ worker'.cc = c /\ worker'.job = j
      /\ jobs'[j].cc = c
      /\ \A i \in JobIds : i # j => jobs'[i] = jobs[i]
  BY <1>2, <1>3 DEF TypeOK, Launched, UnusedJob
<1>5. Authorized(grants, NS(c))
  BY <1>1, <1>2 DEF GrantedSoFar, GrantingPCs, Authorized
<1>6. ASSUME NEW d \in Curators, d # c, NEW i \in Active(d)', Bound(d, i)'
      PROVE  i \in Active(d) /\ Bound(d, i)
  BY <1>1, <1>4, <1>6 DEF Active, Bound, Recording
<1>7. Authorized(grants', NS(c))
  BY <1>1, <1>5
<1> QED
  BY <1>1, <1>6, <1>7 DEF Kept, Authorized

\* The name of the Job is written down: it was bound before.
LEMMA RecordKept ==
  ASSUME TypeOK, Shape, CalmInv, Kept, RecordJobName
  PROVE  Kept'
<1>1. worker.pc = "record" /\ UNCHANGED <<cache, jobs, grants>>
  BY DEF RecordJobName
<1>2. PICK c \in Curators : c = worker.cc
  BY <1>1 DEF Shape
<1>3. PICK j \in Nat : j = worker.job
  BY BoundAssumption DEF TypeOK
<1>4. api'[c].job = j
  BY <1>2, <1>3, RecordCalm DEF CalmInv
<1>5. /\ \A d \in Curators : d # c => api'[d] = api[d]
      /\ worker'.pc = "idle"
  <2>1. UNCHANGED apiVars \/ Put(c, WithJob(cache[c], j))
    BY <1>2, <1>3 DEF RecordJobName
  <2>2. WithJob(cache[c], j) \in Object
    BY StatusWrites DEF TypeOK
  <2>3. worker' = IdleWorker
    BY DEF RecordJobName, Goto, Requeue
  <2> QED
    BY <2>1, <2>2, <2>3, PutWrites DEF apiVars, IdleWorker
<1>6. ASSUME NEW d \in Curators, NEW i \in Active(d)', Bound(d, i)'
      PROVE  i \in Active(d) /\ Bound(d, i)
  <2>1. i \in Active(d)
    BY <1>1, <1>6 DEF Active
  <2>2. api'[d].job = i
    BY <1>5, <1>6 DEF Bound, Recording
  <2> QED
    BY <1>1, <1>2, <1>3, <1>4, <1>5, <2>1, <2>2 DEF Bound, Recording
<1> QED
  BY <1>1, <1>6, KeptStays

\* A pod binds nothing.
LEMMA PodKept ==
  ASSUME Calm, TypeOK, Shape, VersionsFaithful, CalmInv, Kept, NEW j \in JobIds, Pod(j)
  PROVE  Kept'
<1>1. PICK c \in Curators : c = Owner(j)
  BY PodAlone
<1>2. /\ j \in Active(c)
      /\ \A i \in JobIds : i # j => jobs'[i] = jobs[i]
      /\ UNCHANGED <<worker, grants>>
  BY <1>1, PodAlone
<1>3. /\ jobs'[j].cc = c
      /\ \A d \in Curators : d # c => api'[d] = api[d]
  BY <1>1, PodElsewhere DEF Owner
<1>4. api'[c].job \in {api[c].job, NoJob}
  <2>1. CASE UpdateStatus(j)
    BY <1>1, <2>1, UpdateEffect
  <2>2. CASE DonePatch(j) \/ FailPatch(j)
    BY <1>1, <2>2, DonePatchEffect, FailPatchEffect
  <2>3. CASE ~(UpdateStatus(j) \/ DonePatch(j) \/ FailPatch(j))
    BY <2>3 DEF Pod, StartPod, GetCurator, ReadForStatus, WorkDone, WorkFails, WorkReports,
                apiVars
  <2> QED
    BY <2>1, <2>2, <2>3
<1>5. ASSUME NEW d \in Curators, NEW i \in Active(d)', Bound(d, i)'
      PROVE  i \in Active(d) /\ Bound(d, i)
  <2>1. i \in JobIds /\ i # NoJob
    BY ActiveJobs, <1>5, BoundAssumption DEF Active, JobIds, NoJob
  <2>2. i \in Active(d)
    BY <1>2, <1>3, <1>5, <2>1 DEF Active
  <2>3. Bound(d, i)
    BY <1>2, <1>3, <1>4, <1>5, <2>1 DEF Bound, Recording
  <2> QED
    BY <2>2, <2>3
<1> QED
  BY <1>2, <1>5, KeptStays

LEMMA NextKept ==
  ASSUME Calm, OwnNamespaces, TypeOK, Shape, VersionsFaithful, CalmInv, GrantedSoFar, Kept,
         [Next]_vars
  PROVE  Kept'
<1>1. ~(faults < MaxFaults)
  BY DEF Calm, TypeOK
<1>2. ASSUME UNCHANGED <<jobs, grants>>, \A c \in Curators : api'[c].job = api[c].job,
             worker' = worker \/ worker'.pc # "record"
      PROVE  Kept'
  <2>1. \A d \in Curators : \A i \in Active(d)' :
          Bound(d, i)' => i \in Active(d) /\ Bound(d, i)
    BY <1>2 DEF Active, Bound, Recording
  <2> QED
    BY <1>2, <2>1, KeptStays
<1>3. ASSUME NEW c \in Curators, Ask(c) \/ AskRetry(c) PROVE Kept'
  <2>1. PICK o \in Object : UserWrite(c, o) /\ o.job = api[c].job
    BY <1>3, UserWrites
  <2>2. Put(c, o) /\ UNCHANGED <<worker, jobs, grants>>
    BY <2>1 DEF UserWrite
  <2>3. \A d \in Curators : api'[d].job = api[d].job
    BY <2>1, <2>2, PutWrites
  <2> QED
    BY <1>2, <2>2, <2>3
<1>4. CASE \E c \in Curators : Deliver(c) \/ Relist(c) \/ RefreshMCI(c)
  BY <1>2, <1>4 DEF Deliver, Relist, RefreshMCI
<1>5. ASSUME NEW c \in Curators, Reconcile(c) PROVE Kept'
  <2> DEFINE pc == IF NamedApart(c) /\ cache[c].job = NoJob THEN "dropCRB" ELSE Branch(cache[c])
  <2>1. pc \in {"idle", "dropCRB", "dropSA", "decide", "applySA"}
    BY BranchLaunches
  <2>2. /\ UNCHANGED <<api, jobs, grants>>
        /\ worker' = IF pc = "idle" THEN IdleWorker
                     ELSE [pc |-> pc, cc |-> c, held |-> cache[c], job |-> NoJob]
    BY <1>5 DEF Reconcile
  <2> HIDE DEF pc
  <2>3. worker'.pc # "record"
    BY <2>1, <2>2 DEF IdleWorker
  <2> QED
    BY <1>2, <2>2, <2>3
<1>6. CASE Decide \/ CreateRefused
  <2>1. UNCHANGED <<api, jobs, grants>>
    BY <1>6 DEF Decide, CreateRefused
  <2>2. worker' = IdleWorker \/ Goto("idle") \/ Goto("applySA")
    BY <1>6 DEF Decide, CreateRefused, Requeue
  <2>3. worker'.pc # "record"
    <3>1. "applySA" \in WorkerPCs
      BY DEF WorkerPCs
    <3> QED
      BY <2>2, <3>1, WorkerTypes DEF Goto, IdleWorker
  <2> QED
    BY <1>2, <2>1, <2>3
<1>7. CASE Worker
  BY <1>6, <1>7, GrantKept, LaunchKept, RecordKept DEF Worker
<1>8. CASE LookupFails \/ CallFails \/ Restart \/ \E j \in JobIds : KillPod(j)
  BY <1>1, <1>8 DEF LookupFails, CallFails, Restart, KillPod
<1>9. CASE \E j \in JobIds : Pod(j)
  BY <1>9, PodKept
<1>10. CASE UNCHANGED vars
  BY <1>2, <1>10 DEF vars
<1> QED
  BY <1>3, <1>4, <1>5, <1>6, <1>7, <1>8, <1>9, <1>10 DEF Next, Informer

\* Until its closing patch a Job at work is bound, and so it has its access.
LEMMA StillAuthorized ==
  ASSUME CalmInv, Kept, NEW c \in Curators, NEW j \in Active(c), ~Released(j)
  PROVE  MayCall(j)
<1>1. Bound(c, j)
  BY DEF CalmInv, Calmly, Handled, Working
<1>2. jobs[j].cc = c
  BY DEF Active
<1> QED
  BY <1>1, <1>2 DEF Kept, MayCall, Owner

LEMMA AccessKept ==
  ASSUME Calm, OwnNamespaces
  PROVE  Spec => [](GrantedSoFar /\ Kept)
<1>1. NamespacesApart
  BY CuratorAssumption DEF OwnNamespaces, NamespacesApart
<1>2. Init => GrantedSoFar /\ Kept
  <2> SUFFICES ASSUME Init PROVE GrantedSoFar /\ Kept
    OBVIOUS
  <2>1. GrantedSoFar
    BY NamespaceTypes DEF Init, GrantedSoFar, GrantingPCs, NoGrants, IdleWorker
  <2>2. \A j \in JobIds : jobs[j].pc = "none"
    BY DEF Init, UnusedJob
  <2> QED
    BY <2>1, <2>2 DEF Kept, Active, RunningPCs, StatusPCs
<1>3. TypeOK /\ Shape /\ VersionsFaithful /\ CalmInv /\ GrantedSoFar /\ Kept /\ [Next]_vars
        => (GrantedSoFar /\ Kept)'
  BY <1>1, NextGranted, NextKept
<1> QED
  BY <1>2, <1>3, TypeCorrect, CopiesFaithful, CurationsCalm, PTL DEF Spec

\* A pod keeps its access until its own closing patch gives it up: no cleanup of the
\* controller, which reads a cache that lags behind, takes it away while the Job is at
\* work (clustercurator_controller.go:82-116).
THEOREM AccessWhileAtWork ==
  ASSUME Calm, OwnNamespaces
  PROVE  Spec => []PodsKeepAccess
<1>1. TypeOK /\ Shape /\ CalmInv /\ Kept => PodsKeepAccess
  <2> SUFFICES ASSUME Shape, CalmInv, Kept, NEW j \in Pods, ~Released(j) PROVE MayCall(j)
    BY DEF PodsKeepAccess
  <2>1. j \in JobIds /\ jobs[j].pc \in RunningPCs
    BY DEF Pods
  <2>2. PICK c \in Curators : c = jobs[j].cc
    BY <2>1 DEF Shape, RunningPCs, StatusPCs
  <2>3. j \in Active(c)
    BY <2>1, <2>2 DEF Active
  <2> QED
    BY <2>3, StillAuthorized
<1> QED
  BY <1>1, TypeCorrect, CurationsCalm, AccessKept, PTL

-----------------------------------------------------------------------------
(* A Job that fails says so.                                                *)

\* Jobs are numbered as they come, and the one at work is the curator's last.
Latest ==
    /\ \A i, j \in JobIds : i < j /\ jobs[j].pc # "none" => jobs[i].pc # "none"
    /\ \A j \in JobIds : jobs[j].pc = "none" => jobs[j].cc = NoCurator
    /\ \A c \in Curators : \A j \in Active(c) :
         \A i \in JobIds : jobs[i].cc = c => i <= j

Reported(c) == api[c].cond.failed \/ api[c].cond = NoCondition

\* What a container has read is live, so that its update is taken, and a Job on its
\* way to its end has told it or is about to.
Spoken(c, j) ==
    /\ jobs[j].buf # NoObject => jobs[j].pc \in StatusPCs /\ jobs[j].buf = api[c]
    /\ jobs[j].pc = "jobfail" => jobs[j].msg.failed
    /\ jobs[j].pc = "failpatch" \/ Released(j) => Reported(c)

Telling ==
    /\ Latest
    /\ \A c \in Curators : \A j \in Active(c) : Spoken(c, j)
    /\ FailureReported

\* The messages say what they are.
LEMMA EndedTells ==
  ASSUME NEW j, NEW d, NEW req
  PROVE  Ended(j, d, req, TRUE).failed
  BY DEF Ended

\* A call of a container fails only after done's closing patch, when there is nothing
\* left to tell.
LEMMA FailedCall ==
  ASSUME CalmInv, Kept, Telling, NEW c \in Curators, NEW j \in Active(c),
         ~MayCall(j) \/ jobs[j].buf \notin {NoObject, api[c]}
  PROVE  Released(j) /\ Reported(c)
<1>1. Spoken(c, j)
  BY DEF Telling
<1>2. ~MayCall(j)
  BY <1>1 DEF Spoken
<1>3. Released(j)
  BY <1>2, StillAuthorized
<1> QED
  BY <1>1, <1>3 DEF Spoken

\* A container that gives up is about to tell; whether it has been released does not
\* change.
LEMMA GivingUpTells ==
  ASSUME NEW c \in Curators, NEW j \in Active(c), GivesUp(jobs[j], jobs'[j]),
         Step(j) # "done" \/ Reported(c)'
  PROVE  Spoken(c, j)'
<1>1. /\ jobs'[j].pc = "jobfail" /\ jobs'[j].buf = NoObject /\ jobs'[j].todo = jobs[j].todo
      /\ jobs'[j].msg = Ended(jobs[j].held.job, jobs[j].local, jobs[j].held.upgrade, TRUE)
  BY DEF GivesUp, Keeps
<1>2. jobs'[j].msg.failed
  BY <1>1, EndedTells
<1>3. Step(j)' = Step(j)
  BY <1>1 DEF Step
<1> QED
  BY <1>1, <1>2, <1>3 DEF Spoken, Released

\* A container that goes on to pc, not at an end.
LEMMA OnTells ==
  ASSUME NEW c \in Curators, NEW j \in Active(c), jobs'[j].buf = NoObject,
         jobs'[j].pc \notin {"jobfail", "failpatch"},
         jobs'[j].pc # "final" \/ Head(jobs'[j].todo) # "done"
  PROVE  Spoken(c, j)'
  BY DEF Spoken, Released, Step

\* Where a container that is not at its end writes no condition, it holds no copy.
LEMMA NoCopy ==
  ASSUME NEW c \in Curators, NEW j \in Active(c), Spoken(c, j),
         jobs[j].pc \in {"pending", "get", "work", "donepatch", "failpatch"}
  PROVE  jobs[j].buf = NoObject
  BY DEF Spoken, StatusPCs

\* The pod's own steps.  It is over with the failure told, or still has it to tell.
PodTells(c, j) ==
    \/ jobs'[j].pc = "succeeded"
    \/ jobs'[j].pc = "failed" /\ Reported(c)'
    \/ jobs'[j].pc \notin {"none", "succeeded", "failed"} /\ Spoken(c, j)'

LEMMA GivenUp ==
  ASSUME NEW c \in Curators, NEW j \in Active(c), Reported(c)',
         Ends(jobs[j], jobs'[j]) \/ GivesUp(jobs[j], jobs'[j])
  PROVE  PodTells(c, j)
<1>1. CASE Ends(jobs[j], jobs'[j])
  BY <1>1 DEF Ends, PodTells
<1>2. CASE GivesUp(jobs[j], jobs'[j])
  <2>1. Spoken(c, j)' /\ jobs'[j].pc = "jobfail"
    BY <1>2, GivingUpTells DEF GivesUp
  <2> QED
    BY <2>1 DEF PodTells
<1> QED
  BY <1>1, <1>2

LEMMA StartTells ==
  ASSUME Calm, TypeOK, NEW c \in Curators, NEW j \in Active(c), c = Owner(j), CalmInv, Kept,
         Telling, StartPod(j) \/ GetCurator(j)
  PROVE  PodTells(c, j)
<1>1. j \in JobIds /\ Spoken(c, j)
  BY DEF Active, Telling
<1>2. /\ jobs[j].pc \in {"pending", "get"}
      /\ \/ jobs'[j].pc \in {"get", "jobcond"} /\ jobs'[j].buf = jobs[j].buf
         \/ ~MayCall(j)
  BY <1>1, StartEffect, GetEffect DEF Keeps
<1>3. MayCall(j)
  BY <1>2, FailedCall DEF Released
<1>4. jobs'[j].pc \in {"get", "jobcond"} /\ jobs'[j].buf = NoObject
  BY <1>1, <1>2, <1>3, NoCopy
<1> QED
  BY <1>4, OnTells DEF PodTells

LEMMA ReadTells ==
  ASSUME TypeOK, NEW c \in Curators, NEW j \in Active(c), c = Owner(j), CalmInv, Kept,
         Telling, ReadForStatus(j)
  PROVE  PodTells(c, j)
<1>1. j \in JobIds /\ Spoken(c, j)
  BY DEF Active, Telling
<1>2. UNCHANGED api /\ jobs[j].pc \in StatusPCs
  BY <1>1, ReadEffect
<1>3. CASE MayCall(j)
  <2>1. /\ jobs'[j].pc = jobs[j].pc /\ jobs'[j].msg = jobs[j].msg
        /\ jobs'[j].todo = jobs[j].todo /\ jobs'[j].buf = api[c]
    BY <1>1, <1>3, ReadEffect DEF Keeps
  <2>2. Released(j)' <=> Released(j)
    BY <2>1 DEF Released, Step
  <2>3. Spoken(c, j)'
    BY <1>1, <1>2, <2>1, <2>2 DEF Spoken, Reported
  <2>4. jobs[j].pc \notin {"none", "succeeded", "failed"}
    BY <1>2 DEF StatusPCs
  <2> QED
    BY <2>1, <2>3, <2>4 DEF PodTells
<1>4. CASE ~MayCall(j)
  <2>1. Reported(c)'
    BY <1>2, <1>4, FailedCall DEF Reported
  <2>2. Ends(jobs[j], jobs'[j]) \/ GivesUp(jobs[j], jobs'[j])
    BY <1>1, <1>4, ReadEffect
  <2> QED
    BY <2>1, <2>2, GivenUp
<1> QED
  BY <1>3, <1>4

LEMMA UpdateTells ==
  ASSUME TypeOK, Shape, VersionsFaithful, NEW c \in Curators, NEW j \in Active(c),
         c = Owner(j), CalmInv, Kept, Telling, UpdateStatus(j)
  PROVE  PodTells(c, j)
<1>1. j \in JobIds /\ Spoken(c, j) /\ Placed(j)
  BY DEF Active, Telling, CalmInv, Calmly, Told
<1>2. jobs[j].pc \in StatusPCs
  BY <1>1, UpdateEffect
<1>3. CASE MayCall(j) /\ jobs[j].buf \in {NoObject, api[c]}
  <2>1. /\ jobs'[j] = AfterWrite(j)
        /\ api'[c].cond = IF \/ jobs[j].pc \in {"jobcond", "jobfail"}
                             \/ jobs[j].pc = "final" /\ Step(j) = "done"
                          THEN jobs[j].msg ELSE api[c].cond
    BY <1>1, <1>3, UpdateEffect
  <2>2. CASE jobs[j].pc \in {"jobcond", "stepcond", "progress"}
    <3>1. /\ jobs'[j].pc \in {"donepatch", "stepcond", "work"}
          /\ jobs'[j].buf = NoObject
      BY <1>1, <1>2, <2>1, <2>2, AfterWriteEffect
    <3>2. Spoken(c, j)'
      BY <3>1, OnTells
    <3> QED
      BY <3>1, <3>2 DEF PodTells
  <2>3. CASE jobs[j].pc = "stepfail"
    <3>1. GivesUp(jobs[j], jobs'[j])
      BY <1>1, <1>2, <2>1, <2>3, AfterWriteEffect
    <3>2. Step(j) # "done"
      BY <1>1, <2>3 DEF Placed
    <3>3. Spoken(c, j)' /\ jobs'[j].pc = "jobfail"
      BY <3>1, <3>2, GivingUpTells DEF GivesUp
    <3> QED
      BY <3>3 DEF PodTells
  <2>4. CASE jobs[j].pc = "jobfail"
    <3>1. jobs'[j].pc = "failpatch" /\ jobs'[j].buf = NoObject
      BY <1>1, <1>2, <2>1, <2>4, AfterWriteEffect
    <3>2. api'[c].cond.failed
      BY <1>1, <2>1, <2>4 DEF Spoken
    <3>3. Spoken(c, j)'
      BY <3>1, <3>2 DEF Spoken, Reported
    <3> QED
      BY <3>1, <3>3 DEF PodTells
  <2>5. CASE jobs[j].pc = "final"
    <3>1. \/ jobs'[j].pc = "succeeded"
          \/ jobs'[j].pc = "get" /\ jobs'[j].buf = NoObject
      BY <1>1, <1>2, <2>1, <2>5, AfterWriteEffect
    <3>2. CASE jobs'[j].pc = "succeeded"
      BY <3>2 DEF PodTells
    <3>3. CASE jobs'[j].pc = "get" /\ jobs'[j].buf = NoObject
      BY <3>3, OnTells DEF PodTells
    <3> QED
      BY <3>1, <3>2, <3>3
  <2> QED
    BY <1>2, <2>2, <2>3, <2>4, <2>5 DEF StatusPCs
<1>4. CASE ~MayCall(j) \/ jobs[j].buf \notin {NoObject, api[c]}
  <2>1. Reported(c) /\ ~MayCall(j)
    BY <1>1, <1>4, FailedCall DEF Spoken
  <2>2. /\ UNCHANGED api
        /\ Ends(jobs[j], jobs'[j]) \/ GivesUp(jobs[j], jobs'[j])
    BY <1>1, <2>1, UpdateEffect
  <2>3. Reported(c)'
    BY <2>1, <2>2 DEF Reported
  <2> QED
    BY <2>2, <2>3, GivenUp
<1> QED
  BY <1>3, <1>4

LEMMA WorkTells ==
  ASSUME Calm, TypeOK, NEW c \in Curators, NEW j \in Active(c), c = Owner(j), CalmInv,
         Telling, WorkDone(j) \/ WorkFails(j) \/ WorkReports(j)
  PROVE  PodTells(c, j)
<1>1. j \in JobIds /\ Spoken(c, j) /\ Placed(j)
  BY DEF Active, Telling, CalmInv, Calmly, Told
<1>2. jobs[j].pc = "work"
  BY DEF WorkDone, WorkFails, WorkReports
<1>3. jobs[j].buf = NoObject /\ Step(j) # "done"
  BY <1>1, <1>2, NoCopy DEF Placed
<1>4. CASE GivesUp(jobs[j], jobs'[j])
  BY <1>3, <1>4, GivingUpTells DEF GivesUp, PodTells
<1>5. CASE ~GivesUp(jobs[j], jobs'[j])
  <2>1. /\ jobs'[j].pc \in {"final", "stepfail", "progress"}
        /\ jobs'[j].buf = NoObject /\ jobs'[j].todo = jobs[j].todo
    BY <1>1, <1>3, <1>5, WorkDoneEffect, WorkGoesOn DEF Keeps
  <2>2. Spoken(c, j)'
    BY <1>3, <2>1, OnTells DEF Step
  <2> QED
    BY <2>1, <2>2 DEF PodTells
<1> QED
  BY <1>4, <1>5

LEMMA ClosingTells ==
  ASSUME TypeOK, NEW c \in Curators, NEW j \in Active(c), c = Owner(j), CalmInv, Kept,
         Telling, DonePatch(j) \/ FailPatch(j)
  PROVE  PodTells(c, j)
<1>1. j \in JobIds /\ Spoken(c, j)
  BY DEF Active, Telling
<1>2. CASE DonePatch(j)
  <2>1. jobs[j].pc = "donepatch"
    BY <1>2 DEF DonePatch
  <2>2. MayCall(j) /\ jobs[j].buf = NoObject
    BY <1>1, <2>1, FailedCall, NoCopy DEF Released
  <2>3. /\ jobs'[j].pc = "final" /\ jobs'[j].buf = NoObject
        /\ api'[c].cond = NoCondition
    BY <1>1, <1>2, <2>2, DonePatchEffect
  <2>4. Spoken(c, j)'
    BY <2>3 DEF Spoken, Reported
  <2> QED
    BY <2>3, <2>4 DEF PodTells
<1>3. CASE FailPatch(j)
  <2>1. /\ jobs[j].pc = "failpatch" /\ Ends(jobs[j], jobs'[j])
        /\ api'[c].cond = api[c].cond
    BY <1>1, <1>3, FailPatchEffect
  <2>2. Reported(c)'
    BY <1>1, <2>1 DEF Spoken, Reported
  <2> QED
    BY <2>1, <2>2, GivenUp
<1> QED
  BY <1>2, <1>3

\* A pod's step: its curator's Job is the last, and the only one at work.
LEMMA PodTelling ==
  ASSUME Calm, TypeOK, Shape, VersionsFaithful, CalmInv, Kept, Telling,
         NEW j \in JobIds, Pod(j)
  PROVE  Telling'
<1>1. PICK c \in Curators : c = Owner(j)
  BY PodAlone
<1>2. /\ j \in Active(c) /\ jobs[j].pc # "none" /\ jobs[j].cc = c
      /\ \A i \in JobIds : i # j => jobs'[i] = jobs[i]
  BY <1>1, PodAlone DEF Owner
<1>3. /\ jobs'[j].cc = c
      /\ \A d \in Curators : d # c => api'[d] = api[d]
  BY <1>1, PodElsewhere DEF Owner
<1>4. PodTells(c, j)
  BY <1>1, <1>2, StartTells, ReadTells, UpdateTells, WorkTells, ClosingTells DEF Pod
<1>5. jobs'[j].pc # "none" /\ (jobs'[j].pc = "failed" => Reported(c)')
  BY <1>4 DEF PodTells
<1>6. \A d \in Curators : d # c => Active(d)' = Active(d)
  BY <1>2, <1>3 DEF Active
<1>7. Active(c)' \subseteq Active(c)
  BY <1>2, <1>3 DEF Active
<1>8. Latest'
  BY <1>2, <1>3, <1>5, <1>6, <1>7 DEF Telling, Latest
<1>9. ASSUME NEW d \in Curators, NEW i \in Active(d)' PROVE Spoken(d, i)'
  <2>1. CASE d = c
    <3>1. i = j
      BY <1>2, <1>7, <1>9, <2>1 DEF CalmInv, Calmly, Handled, Working
    <3>2. jobs'[j].pc \notin {"none", "succeeded", "failed"}
      BY <1>9, <3>1 DEF Active, RunningPCs, StatusPCs
    <3> QED
      BY <1>4, <2>1, <3>1, <3>2 DEF PodTells
  <2>2. CASE d # c
    <3>1. Spoken(d, i) /\ i # j /\ i \in JobIds
      BY <1>2, <1>6, <1>9, <2>2 DEF Telling, Active
    <3>2. jobs'[i] = jobs[i] /\ api'[d] = api[d]
      BY <1>2, <1>3, <2>2, <3>1
    <3> QED
      BY <3>1, <3>2 DEF Spoken, Reported, Released, Step
  <2> QED
    BY <2>1, <2>2
<1>10. ASSUME NEW i \in JobIds, jobs'[i].pc = "failed",
              \A k \in JobIds : jobs'[k].cc = jobs'[i].cc => k <= i
       PROVE  api'[Owner(i)'].cond.failed \/ api'[Owner(i)'].cond = NoCondition
  <2>1. CASE i = j
    BY <1>3, <1>5, <1>10, <2>1 DEF Owner, Reported
  <2>2. CASE i # j
    <3>1. jobs'[i] = jobs[i]
      BY <1>2, <2>2
    <3>2. jobs[i].cc # c
      <4>1. SUFFICES ASSUME jobs[i].cc = c PROVE FALSE
        OBVIOUS
      <4>2. i <= j
        BY <1>2, <4>1 DEF Telling, Latest
      <4>3. j <= i
        BY <1>3, <1>10, <3>1, <4>1
      <4> QED
        BY <2>2, <4>2, <4>3 DEF JobIds
    <3>3. jobs[i].cc \in Curators
      BY <1>10, <3>1 DEF Shape
    <3>4. \A k \in JobIds : jobs[k].cc = jobs[i].cc => k <= i
      BY <1>2, <1>10, <3>1, <3>2
    <3>5. Reported(jobs[i].cc)
      BY <1>10, <3>1, <3>4 DEF Telling, FailureReported, Owner, Reported
    <3> QED
      BY <1>3, <3>1, <3>2, <3>3, <3>5 DEF Owner, Reported
  <2> QED
    BY <2>1, <2>2
<1> QED
  BY <1>8, <1>9, <1>10 DEF Telling, FailureReported

\* A step that leaves the Jobs and, while one is at work, its curator.
LEMMA TellingStays ==
  ASSUME Shape, Telling, UNCHANGED jobs,
         \A c \in Curators : /\ api'[c].cond = api[c].cond
                             /\ \A j \in Active(c) : jobs[j].buf # NoObject => api'[c] = api[c]
  PROVE  Telling'
<1>1. \A c : Active(c)' = Active(c)
  BY DEF Active
<1>2. Latest'
  BY <1>1 DEF Telling, Latest
<1>3. ASSUME NEW c \in Curators, NEW j \in Active(c)' PROVE Spoken(c, j)'
  BY <1>1, <1>3 DEF Telling, Spoken, Reported, Released, Step
<1>4. ASSUME NEW j \in JobIds, jobs[j].pc = "failed" PROVE Owner(j) \in Curators /\ Owner(j)' = Owner(j)
  BY <1>4 DEF Shape, Owner
<1>5. FailureReported'
  BY <1>4 DEF Telling, FailureReported
<1> QED
  BY <1>2, <1>3, <1>5 DEF Telling

\* Users write at rest, and leave the condition alone.
LEMMA AskTelling ==
  ASSUME Calm, TypeOK, Shape, Telling, NEW c \in Curators, Ask(c) \/ AskRetry(c)
  PROVE  Telling'
<1>1. PICK o \in Object : UserWrite(c, o) /\ o.cond = api[c].cond
  BY UserWrites
<1>2. Put(c, o) /\ UNCHANGED jobs /\ Active(c) = {}
  BY <1>1 DEF UserWrite, Calm, AtRest
<1>3. api'[c].cond = api[c].cond /\ \A d \in Curators : d # c => api'[d] = api[d]
  BY <1>1, <1>2, PutWrites
<1> QED
  BY <1>2, <1>3, TellingStays

\* The Job's name is written down before its pod runs.
LEMMA RecordTelling ==
  ASSUME TypeOK, Shape, CalmInv, Telling, RecordJobName
  PROVE  Telling'
<1>1. worker.pc = "record" /\ UNCHANGED jobs
  BY DEF RecordJobName
<1>2. PICK c \in Curators : c = worker.cc
  BY <1>1 DEF Shape
<1>3. PICK j \in Nat : j = worker.job
  BY BoundAssumption DEF TypeOK
<1>4. /\ cache[c] = api[c] /\ j \in Active(c) /\ jobs[j].pc = "pending"
      /\ \A i \in Active(c) : i = j
  BY <1>1, <1>2, <1>3 DEF CalmInv, Calmly, Handled, Working
<1>5. UNCHANGED apiVars \/ Put(c, WithJob(api[c], j))
  BY <1>2, <1>3, <1>4 DEF RecordJobName
<1>6. WithJob(api[c], j) \in Object /\ WithJob(api[c], j).cond = api[c].cond
  <2>1. api[c] \in Object
    BY DEF TypeOK
  <2> QED
    BY <2>1, StatusWrites DEF WithJob, Object
<1>7. api'[c].cond = api[c].cond /\ \A d \in Curators : d # c => api'[d] = api[d]
  BY <1>5, <1>6, PutWrites DEF apiVars
<1>8. jobs[j].buf = NoObject
  BY <1>4, NoCopy DEF Telling
<1> QED
  BY <1>1, <1>4, <1>7, <1>8, TellingStays

\* A new Job is its curator's last.
LEMMA LaunchTelling ==
  ASSUME TypeOK, Shape, CalmInv, Telling, CreateJob
  PROVE  Telling'
<1>1. worker.pc = "create" /\ UNCHANGED api
  BY DEF CreateJob
<1>2. PICK c \in Curators : c = worker.cc
  BY <1>1 DEF Shape
<1>3. PICK j \in JobIds : /\ jobs[j].pc = "none"
                          /\ \A i \in JobIds : i < j => jobs[i].pc # "none"
                          /\ jobs' = [jobs EXCEPT ![j] = Launched(c, worker.held)]
  BY <1>2 DEF CreateJob
<1>4. /\ jobs'[j].cc = c /\ jobs'[j].pc = "pending" /\ jobs'[j].buf = NoObject
      /\ \A i \in JobIds : i # j => jobs'[i] = jobs[i]
  BY <1>3 DEF TypeOK, Launched, UnusedJob
<1>5. \A i \in JobIds : i # j /\ ~(i < j) => jobs[i].pc = "none" /\ jobs[i].cc = NoCurator
  BY <1>3 DEF Telling, Latest, JobIds
<1>6. Active(c) = {}
  BY <1>1, <1>2 DEF CalmInv, Calmly, Handled, Carried, LaunchPCs, Quiet
<1>7. Active(c)' \subseteq {j}
  BY <1>4, <1>6 DEF Active
<1>8. \A d \in Curators : d # c => Active(d)' \subseteq Active(d) /\ j \notin Active(d)'
  BY <1>4 DEF Active
<1>9. \A i \in JobIds : jobs'[i].cc = c => i <= j
  <2>1. \A i \in JobIds : i <= j \/ (i # j /\ ~(i < j))
    BY DEF JobIds
  <2>2. c # NoCurator
    BY CuratorAssumption
  <2> QED
    BY <1>4, <1>5, <2>1, <2>2
<1>10. Latest'
  <2>1. \A i, k \in JobIds : i < k /\ jobs'[k].pc # "none" => jobs'[i].pc # "none"
    BY <1>3, <1>4 DEF Telling, Latest
  <2>2. \A i \in JobIds : jobs'[i].pc = "none" => jobs'[i].cc = NoCurator
    BY <1>4 DEF Telling, Latest
  <2>3. \A d \in Curators : \A k \in Active(d)' : \A i \in JobIds : jobs'[i].cc = d => i <= k
    BY <1>4, <1>7, <1>8, <1>9 DEF Telling, Latest
  <2> QED
    BY <2>1, <2>2, <2>3 DEF Latest
<1>11. ASSUME NEW d \in Curators, NEW i \in Active(d)' PROVE Spoken(d, i)'
  <2>1. CASE d = c
    BY <1>4, <1>7, <1>11, <2>1 DEF Spoken, Released
  <2>2. CASE d # c
    <3>1. Spoken(d, i) /\ i # j /\ i \in JobIds
      BY <1>8, <1>11, <2>2 DEF Telling, Active
    <3>2. jobs'[i] = jobs[i]
      BY <1>4, <3>1
    <3> QED
      BY <1>1, <3>1, <3>2 DEF Spoken, Reported, Released, Step
  <2> QED
    BY <2>1, <2>2
<1>12. FailureReported'
  <2> SUFFICES ASSUME NEW i \in JobIds, jobs'[i].pc = "failed",
                      \A k \in JobIds : jobs'[k].cc = jobs'[i].cc => k <= i
               PROVE  Reported(Owner(i))'
    BY DEF FailureReported, Reported
  <2>1. i # j /\ jobs'[i] = jobs[i]
    BY <1>4
  <2>2. jobs[j].cc = NoCurator /\ jobs[i].cc # NoCurator
    BY <1>3, <2>1, CuratorAssumption DEF Telling, Latest, Shape
  <2>3. \A k \in JobIds : jobs[k].cc = jobs[i].cc => k <= i
    BY <1>4, <2>1, <2>2
  <2>4. Reported(Owner(i))
    BY <2>1, <2>3 DEF Telling, FailureReported, Owner, Reported
  <2> QED
    BY <1>1, <2>1, <2>4 DEF Owner, Reported
<1> QED
  BY <1>10, <1>11, <1>12 DEF Telling

LEMMA NextTelling ==
  ASSUME Calm, TypeOK, Shape, VersionsFaithful, CalmInv, Kept, Telling, [Next]_vars
  PROVE  Telling'
<1>1. ~(faults < MaxFaults)
  BY DEF Calm, TypeOK
<1>2. ASSUME UNCHANGED <<api, jobs>> PROVE Telling'
  BY <1>2, TellingStays
<1>3. CASE \E c \in Curators : Ask(c) \/ AskRetry(c)
  BY <1>3, AskTelling
<1>4. CASE \E c \in Curators : Informer(c) \/ Relist(c) \/ RefreshMCI(c)
  BY <1>2, <1>4 DEF Informer, Deliver, Reconcile, Relist, RefreshMCI
<1>5. CASE Worker
  <2>1. CASE \/ DropCRB \/ DropServiceAccount \/ DropRoleBinding
             \/ DropClusterRoleBinding \/ DropOwnedCRB
             \/ ApplyServiceAccount \/ ApplyRoleBinding \/ IsHostedCluster
             \/ ApplyClusterRoleBinding \/ ApplyCRB
    BY <1>2, <2>1 DEF DropCRB, DropServiceAccount, DropRoleBinding, DropClusterRoleBinding,
         DropOwnedCRB, ApplyServiceAccount, ApplyRoleBinding, IsHostedCluster,
         ApplyClusterRoleBinding, ApplyCRB, Grant
  <2>2. CASE Decide
    BY <1>2, <2>2 DEF Decide
  <2> QED
    BY <1>5, <2>1, <2>2, LaunchTelling, RecordTelling DEF Worker
<1>6. CASE CreateRefused
  BY <1>2, <1>6 DEF CreateRefused
<1>7. CASE LookupFails \/ CallFails \/ Restart \/ \E j \in JobIds : KillPod(j)
  BY <1>1, <1>7 DEF LookupFails, CallFails, Restart, KillPod
<1>8. CASE \E j \in JobIds : Pod(j)
  BY <1>8, PodTelling
<1>9. CASE UNCHANGED vars
  BY <1>2, <1>9 DEF vars
<1> QED
  BY <1>3, <1>4, <1>5, <1>6, <1>7, <1>8, <1>9 DEF Next

\* What is told stays told.
LEMMA TellingKept ==
  ASSUME Calm, OwnNamespaces
  PROVE  Spec => []Telling
<1>1. Init => Telling
  <2> SUFFICES ASSUME Init PROVE Telling
    OBVIOUS
  <2>1. \A j \in JobIds : jobs[j].pc = "none" /\ jobs[j].cc = NoCurator
    BY DEF Init, UnusedJob
  <2>2. \A c : Active(c) = {}
    BY <2>1 DEF Active, RunningPCs, StatusPCs
  <2> QED
    BY <2>1, <2>2 DEF Telling, Latest, FailureReported
<1>2. TypeOK /\ Shape /\ VersionsFaithful /\ CalmInv /\ Kept /\ Telling /\ [Next]_vars
        => Telling'
  BY NextTelling
<1> QED
  BY <1>1, <1>2, TypeCorrect, CopiesFaithful, CurationsCalm, AccessKept, PTL DEF Spec

\* A Job that failed and was not followed by another is reported as failed, unless done
\* had cleared the status: its container reads the curator for the report before any
\* other writer can come between, and keeps its access until then (curator.go:132-151,
\* helpers.go:257-285).
THEOREM FailuresTold ==
  ASSUME Calm, OwnNamespaces
  PROVE  Spec => []FailureReported
<1>1. Telling => FailureReported
  BY DEF Telling
<1> QED
  BY <1>1, TellingKept, PTL
=============================================================================
