----------------------- MODULE CuratorPromise_proofs -----------------------
(***************************************************************************)
(* Controller and pods carry out Curation, in the circumstances of          *)
(* CuratorCalm_proofs: what the live objects and the Jobs show of a         *)
(* curation steps as Curation does, and all that the controller reads,      *)
(* caches, grants and queues in between is stuttering.                      *)
(*                                                                          *)
(* CalmInv says which versions could launch a Job.  Two more facts are      *)
(* needed: what the worker is about to launch is still called for, and a    *)
(* curator names its Job until that Job, and no one else, gives it back.    *)
(* With them every step of a pod is one of five moves (PodMoves), which are *)
(* Curation's, and the invariant follows from the same moves.               *)
(***************************************************************************)
EXTENDS CuratorCalm_proofs

\* The worker on its way to a launch holds a request that calls for one.
Called == worker.pc \in LaunchPCs => Launchable(worker.cc, worker.held)

\* The Job a curator names is at work, and one that has released its curator is
\* neither named nor about to be; one that closes for a failure has reported it.
GivenBack ==
    \A c \in Curators :
        /\ api[c].job # NoJob => api[c].job \in Active(c)
        /\ \A j \in Active(c) :
             /\ Released(j) => ~Bound(c, j) /\ api[c].op = "nil"
             /\ jobs[j].pc = "failpatch" => api[c].cond.failed

PromiseInv == CalmInv /\ Kept /\ Telling /\ Called /\ GivenBack

-----------------------------------------------------------------------------
(* The worker.                                                              *)

\* A worker that goes on with what it holds.
LEMMA CalledStays ==
  ASSUME Called,
         worker'.pc \in LaunchPCs =>
            /\ worker.pc \in LaunchPCs
            /\ worker'.cc = worker.cc /\ worker'.held = worker.held
            /\ cluster'[worker.cc] = cluster[worker.cc]
  PROVE  Called'
  BY DEF Called, Launchable, Settled

\* On its way to a launch, nobody is at work for its curator.
LEMMA NobodyAtWork ==
  ASSUME Shape, CalmInv, worker.pc \in LaunchPCs
  PROVE  /\ worker.cc \in Curators /\ Active(worker.cc) = {}
         /\ worker.held = api[worker.cc]
<1>1. worker.cc \in Curators /\ worker.pc # "record"
  BY DEF Shape, LaunchPCs
<1> QED
  BY <1>1 DEF CalmInv, Calmly, Handled, Carried, Quiet

LEMMA DecideCalled ==
  ASSUME TypeOK, Shape, CalmInv, Decide
  PROVE  Called'
<1>1. PICK answer :
        answer = NeedToUpgrade(worker.held.upgrade, worker.held.cond, mci[worker.cc])
  OBVIOUS
<1>2. /\ worker.pc = "decide" /\ UNCHANGED cluster
      /\ \/ answer = "yes" /\ Goto("applySA")
         \/ answer # "yes" /\ worker' = IdleWorker
  BY <1>1 DEF Decide, Goto, Requeue
<1>3. PICK c \in Curators : c = worker.cc
  BY <1>2 DEF Shape
<1>4. CASE answer # "yes" /\ worker' = IdleWorker
  BY <1>4 DEF Called, IdleWorker, LaunchPCs
<1>5. CASE answer = "yes" /\ Goto("applySA")
  <2>1. worker.held.job = NoJob /\ worker.held.desired = "upgrade"
    BY <1>2, <1>3 DEF CalmInv, Calmly, Handled, Carried
  <2>2. worker.held.upgrade \in Request /\ worker.held.cond \in Condition
    BY DEF TypeOK, Object
  <2>3. mci[c] \in {{}, {cluster[c]}}
    BY DEF CalmInv, InfoShown
  <2>4. ~Settled(c, worker.held)
    BY <1>1, <1>3, <1>5, <2>2, <2>3, SettledNotNeeded
  <2>5. worker'.cc = c /\ worker'.held = worker.held
    BY <1>3, <1>5 DEF Goto, TypeOK
  <2> QED
    BY <1>2, <1>3, <2>1, <2>4, <2>5 DEF Called, Launchable, Settled
<1> QED
  BY <1>2, <1>4, <1>5

LEMMA GrantCalled ==
  ASSUME TypeOK, CalmInv, Called,
         \/ DropCRB \/ DropServiceAccount \/ DropRoleBinding
         \/ DropClusterRoleBinding \/ DropOwnedCRB
         \/ ApplyServiceAccount \/ ApplyRoleBinding \/ IsHostedCluster
         \/ ApplyClusterRoleBinding \/ ApplyCRB
  PROVE  Called'
<1>1. UNCHANGED cluster
  BY DEF DropCRB, DropServiceAccount, DropRoleBinding, DropClusterRoleBinding, DropOwnedCRB,
         ApplyServiceAccount, ApplyRoleBinding, IsHostedCluster,
         ApplyClusterRoleBinding, ApplyCRB, Grant
<1>2. ASSUME NEW pc, Goto(pc)
      PROVE  \/ worker'.pc = "idle"
             \/ worker'.pc = pc /\ worker'.cc = worker.cc /\ worker'.held = worker.held
  BY <1>2 DEF Goto, TypeOK, IdleWorker
<1>3. CASE DropCRB
  <2>1. PICK pc : pc = Branch(worker.held)
    OBVIOUS
  <2>2. Goto(pc)
    BY <1>3, <2>1 DEF DropCRB, Grant
  <2>3. pc \in LaunchPCs => Launchable(worker.cc, worker.held)
    BY <2>1, BranchLaunches DEF LaunchPCs
  <2>4. worker'.pc \in LaunchPCs =>
          /\ pc \in LaunchPCs /\ worker'.cc = worker.cc /\ worker'.held = worker.held
    BY <1>2, <2>2 DEF LaunchPCs
  <2> QED
    BY <1>1, <2>3, <2>4 DEF Called, Launchable, Settled
<1>4. CASE DropServiceAccount \/ DropRoleBinding \/ DropClusterRoleBinding \/ DropOwnedCRB
  <2>1. PICK pc \in {"dropRB", "dropClusterRB", "dropOwnedCRB", "idle"} : Goto(pc)
    BY <1>4 DEF DropServiceAccount, DropRoleBinding, DropClusterRoleBinding, DropOwnedCRB, Grant
  <2> QED
    BY <1>2, <2>1 DEF Called, LaunchPCs
<1>5. CASE \/ ApplyServiceAccount \/ ApplyRoleBinding \/ IsHostedCluster
           \/ ApplyClusterRoleBinding \/ ApplyCRB
  <2>1. PICK pc \in {"applyRB", "isHosted", "applyClusterRB", "applyCRB", "create"} : Goto(pc)
    BY <1>5 DEF ApplyServiceAccount, ApplyRoleBinding, IsHostedCluster,
                ApplyClusterRoleBinding, ApplyCRB, Grant
  <2>2. worker.pc \in LaunchPCs
    BY <1>5 DEF ApplyServiceAccount, ApplyRoleBinding, IsHostedCluster,
                ApplyClusterRoleBinding, ApplyCRB, Grant, LaunchPCs
  <2>3. worker'.pc \in LaunchPCs => worker'.cc = worker.cc /\ worker'.held = worker.held
    BY <1>2, <2>1 DEF LaunchPCs
  <2> QED
    BY <1>1, <2>2, <2>3, CalledStays
<1> QED
  BY <1>3, <1>4, <1>5

\* Reconcile goes to a launch with what it has just read.
LEMMA ReconcileCalled ==
  ASSUME NEW c \in Curators, Reconcile(c)
  PROVE  Called'
<1> DEFINE pc == IF NamedApart(c) /\ cache[c].job = NoJob THEN "dropCRB" ELSE Branch(cache[c])
<1>1. /\ UNCHANGED cluster
      /\ worker' = IF pc = "idle" THEN IdleWorker
                   ELSE [pc |-> pc, cc |-> c, held |-> cache[c], job |-> NoJob]
  BY DEF Reconcile
<1>2. pc \in LaunchPCs => Launchable(c, cache[c])
  BY BranchLaunches DEF LaunchPCs
<1> HIDE DEF pc
<1>3. worker'.pc \in LaunchPCs =>
        pc \in LaunchPCs /\ worker'.cc = c /\ worker'.held = cache[c]
  BY <1>1 DEF IdleWorker, LaunchPCs
<1> QED
  BY <1>1, <1>2, <1>3 DEF Called, Launchable, Settled

LEMMA NextCalled ==
  ASSUME Calm, TypeOK, Shape, VersionsFaithful, CalmInv, Called, [Next]_vars
  PROVE  Called'
<1>1. ~(faults < MaxFaults)
  BY DEF Calm, TypeOK
<1>2. CASE \E c \in Curators : Ask(c) \/ AskRetry(c) \/ Deliver(c) \/ Relist(c) \/ RefreshMCI(c)
  <2>1. UNCHANGED <<worker, cluster>>
    BY <1>2 DEF Ask, AskRetry, UserWrite, Deliver, Relist, RefreshMCI
  <2> QED
    BY <2>1, CalledStays
<1>3. CASE \E c \in Curators : Reconcile(c)
  BY <1>3, ReconcileCalled
<1>4. CASE CreateJob \/ RecordJobName \/ CreateRefused
  <2>1. CASE CreateJob
    <3>1. worker'.pc = "record"
      BY <2>1 DEF CreateJob, TypeOK
    <3> QED
      BY <3>1 DEF Called, LaunchPCs
  <2>2. CASE RecordJobName \/ CreateRefused
    <3>1. worker' = IdleWorker
      BY <2>2 DEF RecordJobName, CreateRefused, Goto, Requeue
    <3> QED
      BY <3>1 DEF Called, IdleWorker, LaunchPCs
  <2> QED
    BY <1>4, <2>1, <2>2
<1>5. CASE Worker
  BY <1>4, <1>5, GrantCalled, DecideCalled DEF Worker
<1>6. CASE LookupFails \/ CallFails \/ Restart \/ \E j \in JobIds : KillPod(j)
  BY <1>1, <1>6 DEF LookupFails, CallFails, Restart, KillPod
<1>7. ASSUME NEW j \in JobIds, Pod(j) PROVE Called'
  <2>1. /\ j \in Active(Owner(j)) /\ worker' = worker
        /\ \A d \in Curators : d # Owner(j) => cluster'[d] = cluster[d]
    BY <1>7, PodAlone, PodElsewhere
  <2>2. worker.pc \in LaunchPCs => worker.cc \in Curators /\ worker.cc # Owner(j)
    BY <2>1, NobodyAtWork
  <2> QED
    BY <2>1, <2>2, CalledStays
<1>8. CASE UNCHANGED vars
  BY <1>8, CalledStays DEF vars
<1> QED
  BY <1>2, <1>3, <1>4, <1>5, <1>6, <1>7, <1>8 DEF Next, Informer

-----------------------------------------------------------------------------
(* What a step of c's Job j does, as Curation sees it.                      *)

SameRequest(c) ==
    /\ api'[c].desired = api[c].desired
    /\ api'[c].op = api[c].op
    /\ api'[c].upgrade = api[c].upgrade
    /\ api'[c].job = api[c].job

Returned(c) ==
    /\ api'[c].desired = IF api[c].desired = "upgrade" THEN api[c].desired ELSE ""
    /\ api'[c].op = "nil"
    /\ api'[c].upgrade = api[c].upgrade
    /\ api'[c].job = NoJob

\* Nothing.
GoesOn(c, j) ==
    /\ SameRequest(c)
    /\ j \in Active(c)' /\ jobs'[j].todo = jobs[j].todo
    /\ Released(j)' <=> Released(j)
    /\ jobs'[j].pc = "failpatch" => api'[c].cond.failed

\* The next container.
TakesNext(c, j) ==
    /\ SameRequest(c)
    /\ j \in Active(c)' /\ jobs'[j].todo = Tail(jobs[j].todo)
    /\ ~Released(j) /\ ~Released(j)' /\ Step(j) # "done"
    /\ jobs'[j].pc # "failpatch"

\* done gives the curator back.
Releases(c, j) ==
    /\ Returned(c)
    /\ j \in Active(c)' /\ jobs'[j].todo = jobs[j].todo
    /\ ~Released(j) /\ Released(j)' /\ Step(j) = "done"
    /\ jobs'[j].pc # "failpatch"

\* The Job ends after that ...
Finishes(c, j) ==
    /\ SameRequest(c)
    /\ j \notin Active(c)' /\ Released(j)
    /\ ~Launchable(c, api[c])'

\* ... or fails.
Breaks(c, j) ==
    /\ Returned(c)
    /\ j \notin Active(c)' /\ ~Released(j)
    /\ ~Launchable(c, api[c])' /\ api'[c].cond.failed

PodMoves(c, j) ==
    \/ GoesOn(c, j) \/ TakesNext(c, j) \/ Releases(c, j)
    \/ Finishes(c, j) \/ Breaks(c, j)

\* A Job that has released its curator leaves nothing to launch.
LEMMA ReleasedAtRest ==
  ASSUME NEW c \in Curators, NEW j \in Active(c), PodStep(c, j), GivenBack, Released(j)
  PROVE  /\ api[c].job = NoJob /\ api[c].op = "nil" /\ api[c].desired \in {"", "upgrade"}
         /\ ~Launchable(c, api[c])
<1>1. jobs[j].pc # "pending" /\ ~Bound(c, j) /\ api[c].op = "nil"
  BY DEF Released, GivenBack
<1>2. api[c].job = NoJob /\ ~Launchable(c, api[c])
  BY <1>1, TheJob DEF PodStep, Calmly
<1> QED
  BY <1>1, <1>2 DEF Launchable

\* A failed call comes after the release.
LEMMA FailedCallMoves ==
  ASSUME NEW c \in Curators, NEW j \in JobIds, PodStep(c, j), GivenBack, Released(j),
         UNCHANGED <<api, cluster>>,
         Ends(jobs[j], jobs'[j]) \/ GivesUp(jobs[j], jobs'[j])
  PROVE  PodMoves(c, j)
<1>1. /\ j \in Active(c) /\ SameRequest(c)
      /\ ~Launchable(c, api[c])'
  <2>1. ~Launchable(c, api[c])
    BY ReleasedAtRest DEF PodStep
  <2> QED
    BY <2>1 DEF PodStep, SameRequest, Launchable, Settled
<1>2. CASE Ends(jobs[j], jobs'[j])
  BY <1>1, <1>2, EndsInactive DEF PodMoves, Finishes
<1>3. CASE GivesUp(jobs[j], jobs'[j])
  <2>1. jobs'[j].pc = "jobfail" /\ jobs'[j].todo = jobs[j].todo /\ jobs'[j].cc = jobs[j].cc
    BY <1>3 DEF GivesUp, Keeps
  <2>2. Released(j)'
    BY <2>1 DEF Released, Step
  <2>3. j \in Active(c)'
    BY <1>1, <2>1 DEF Active, RunningPCs, StatusPCs
  <2> QED
    BY <1>1, <2>1, <2>2, <2>3 DEF PodMoves, GoesOn
<1> QED
  BY <1>2, <1>3

\* A step at which the Job neither was released nor is.
LEMMA WorkingMoves ==
  ASSUME NEW c \in Curators, NEW j \in JobIds, PodStep(c, j), SameRequest(c),
         jobs'[j].pc \in RunningPCs, jobs'[j].pc # "failpatch",
         jobs'[j].todo = jobs[j].todo, jobs'[j].cc = jobs[j].cc,
         ~Released(j), ~Released(j)'
  PROVE  PodMoves(c, j)
<1>1. j \in Active(c)'
  BY DEF Active, PodStep
<1> QED
  BY <1>1 DEF PodMoves, GoesOn

LEMMA StartMoves ==
  ASSUME Calm, PromiseInv, NEW c \in Curators, NEW j \in JobIds, PodStep(c, j),
         StartPod(j) \/ GetCurator(j)
  PROVE  PodMoves(c, j)
<1>1. jobs[j].pc \in {"pending", "get"} /\ UNCHANGED api
  BY StartEffect, GetEffect DEF PodStep
<1>2. MayCall(j)
  BY <1>1, FailedCall DEF PromiseInv, PodStep, Released
<1>3. /\ jobs'[j].pc \in {"get", "jobcond"}
      /\ jobs'[j].todo = jobs[j].todo /\ jobs'[j].cc = jobs[j].cc
  BY <1>2, StartEffect, GetEffect DEF PodStep, Keeps
<1>4. /\ ~Released(j) /\ ~Released(j)'
      /\ jobs'[j].pc \in RunningPCs
  BY <1>1, <1>3 DEF Released, RunningPCs, StatusPCs
<1> QED
  BY <1>1, <1>3, <1>4, WorkingMoves DEF SameRequest

LEMMA ReadMoves ==
  ASSUME PromiseInv, NEW c \in Curators, NEW j \in JobIds, PodStep(c, j),
         ReadForStatus(j)
  PROVE  PodMoves(c, j)
<1>1. jobs[j].pc \in StatusPCs /\ UNCHANGED <<api, cluster>>
  BY ReadEffect DEF PodStep
<1>2. CASE MayCall(j)
  <2>1. /\ jobs'[j].pc = jobs[j].pc
        /\ jobs'[j].todo = jobs[j].todo /\ jobs'[j].cc = jobs[j].cc
    BY <1>2, ReadEffect DEF PodStep, Keeps
  <2>2. Released(j)' <=> Released(j)
    BY <2>1 DEF Released, Step
  <2>3. j \in Active(c)' /\ SameRequest(c)
    BY <1>1, <2>1 DEF Active, PodStep, SameRequest
  <2>4. jobs'[j].pc # "failpatch"
    BY <1>1, <2>1 DEF StatusPCs
  <2> QED
    BY <2>1, <2>2, <2>3, <2>4 DEF PodMoves, GoesOn
<1>3. CASE ~MayCall(j)
  <2>1. Ends(jobs[j], jobs'[j]) \/ GivesUp(jobs[j], jobs'[j])
    BY <1>3, ReadEffect DEF PodStep
  <2>2. Released(j)
    BY <1>3, FailedCall DEF PromiseInv, PodStep
  <2> QED
    BY <1>1, <2>1, <2>2, FailedCallMoves DEF PromiseInv
<1> QED
  BY <1>2, <1>3

LEMMA WorkMoves ==
  ASSUME Calm, PromiseInv, NEW c \in Curators, NEW j \in JobIds, PodStep(c, j),
         WorkDone(j) \/ WorkFails(j) \/ WorkReports(j)
  PROVE  PodMoves(c, j)
<1>1. /\ jobs[j].pc = "work" /\ UNCHANGED api
      /\ jobs'[j].pc \in {"final", "stepfail", "progress", "jobfail"}
      /\ jobs'[j].todo = jobs[j].todo /\ jobs'[j].cc = jobs[j].cc
  BY WorkDoneEffect, WorkGoesOn DEF PodStep, Keeps, GivesUp
<1>2. Step(j) # "done" /\ Step(j)' = Step(j)
  BY <1>1 DEF PodStep, Calmly, Told, Placed, Step
<1>3. ~Released(j) /\ ~Released(j)'
  BY <1>1, <1>2 DEF Released
<1>4. jobs'[j].pc \in RunningPCs
  BY <1>1 DEF RunningPCs, StatusPCs
<1> QED
  BY <1>1, <1>3, <1>4, WorkingMoves DEF SameRequest

\* The end signal of a Job that has released its curator launches nothing either.
LEMMA SignalMoves ==
  ASSUME PromiseInv, NEW c \in Curators, NEW j \in JobIds, PodStep(c, j), SameRequest(c),
         jobs[j].pc = "final", Step(j) = "done", api'[c].cond = jobs[j].msg,
         Ends(jobs[j], jobs'[j])
  PROVE  PodMoves(c, j)
<1>1. j \in Active(c) /\ Told(c, j)
  BY DEF PodStep, Calmly
<1>2. Released(j)
  BY DEF Released
<1>3. api[c].op = "nil" /\ api[c].desired \in {"", "upgrade"}
  BY <1>1, <1>2, ReleasedAtRest DEF PromiseInv
<1>4. api[c].desired = "upgrade" => Repeats(api[c].upgrade, jobs[j].msg)
  BY <1>1 DEF Told, Tells
<1>5. ~PosthookOnly(api'[c])
  BY <1>3 DEF SameRequest, PosthookOnly, Retries
<1>6. ~Launchable(c, api[c])'
  BY <1>3, <1>4, <1>5 DEF SameRequest, Launchable, Settled
<1> QED
  BY <1>2, <1>6, EndsInactive DEF PodMoves, Finishes

LEMMA UpdateMoves ==
  ASSUME PromiseInv, NEW c \in Curators, NEW j \in JobIds, PodStep(c, j),
         UpdateStatus(j)
  PROVE  PodMoves(c, j)
<1>1. /\ jobs[j].pc \in StatusPCs /\ UNCHANGED cluster
      /\ j \in Active(c) /\ Spoken(c, j) /\ Placed(j)
  BY UpdateEffect DEF PodStep, PromiseInv, Telling, Calmly, Told
<1>2. CASE MayCall(j) /\ jobs[j].buf \in {NoObject, api[c]}
  <2>1. /\ jobs'[j] = AfterWrite(j) /\ SameRequest(c)
        /\ api'[c].cond = IF \/ jobs[j].pc \in {"jobcond", "jobfail"}
                             \/ jobs[j].pc = "final" /\ Step(j) = "done"
                          THEN jobs[j].msg ELSE api[c].cond
    BY <1>2, UpdateEffect DEF PodStep, SameRequest
  <2>2. CASE jobs[j].pc \in {"jobcond", "stepcond", "progress"}
    <3>1. /\ jobs'[j].pc \in {"donepatch", "stepcond", "work"}
          /\ jobs'[j].todo = jobs[j].todo /\ jobs'[j].cc = jobs[j].cc
      BY <1>1, <2>1, <2>2, AfterWriteEffect DEF Keeps, PodStep
    <3>2. ~Released(j) /\ ~Released(j)' /\ jobs'[j].pc \in RunningPCs
      BY <2>2, <3>1 DEF Released, RunningPCs, StatusPCs
    <3> QED
      BY <2>1, <3>1, <3>2, WorkingMoves
  <2>3. CASE jobs[j].pc = "stepfail"
    <3>1. /\ jobs'[j].pc = "jobfail"
          /\ jobs'[j].todo = jobs[j].todo /\ jobs'[j].cc = jobs[j].cc
      BY <1>1, <2>1, <2>3, AfterWriteEffect DEF GivesUp, Keeps, PodStep
    <3>2. ~Released(j) /\ ~Released(j)' /\ jobs'[j].pc \in RunningPCs
      BY <1>1, <2>3, <3>1 DEF Placed, Released, Step, RunningPCs, StatusPCs
    <3> QED
      BY <2>1, <3>1, <3>2, WorkingMoves
  <2>4. CASE jobs[j].pc = "jobfail"
    <3>1. /\ jobs'[j].pc = "failpatch"
          /\ jobs'[j].todo = jobs[j].todo /\ jobs'[j].cc = jobs[j].cc
      BY <1>1, <2>1, <2>4, AfterWriteEffect DEF Keeps, PodStep
    <3>2. Released(j)' <=> Released(j)
      BY <2>4, <3>1 DEF Released, Step
    <3>3. j \in Active(c)'
      BY <1>1, <3>1 DEF Active, RunningPCs
    <3>4. api'[c].cond.failed
      BY <1>1, <2>1, <2>4 DEF Spoken
    <3> QED
      BY <2>1, <3>1, <3>2, <3>3, <3>4 DEF PodMoves, GoesOn
  <2>5. CASE jobs[j].pc = "final" /\ Step(j) = "done"
    <3>1. Ends(jobs[j], jobs'[j])
      BY <1>1, <2>1, <2>5, AfterWriteEffect DEF PodStep
    <3> QED
      BY <2>1, <2>5, <3>1, SignalMoves
  <2>6. CASE jobs[j].pc = "final" /\ Step(j) # "done"
    <3>1. /\ jobs'[j].pc = "get"
          /\ jobs'[j].todo = Tail(jobs[j].todo) /\ jobs'[j].cc = jobs[j].cc
      BY <1>1, <2>1, <2>6, AfterWriteEffect DEF PodStep
    <3>2. ~Released(j) /\ ~Released(j)'
      BY <2>6, <3>1 DEF Released
    <3>3. j \in Active(c)'
      BY <1>1, <3>1 DEF Active, RunningPCs
    <3> QED
      BY <2>1, <2>6, <3>1, <3>2, <3>3 DEF PodMoves, TakesNext
  <2> QED
    BY <1>1, <2>2, <2>3, <2>4, <2>5, <2>6 DEF StatusPCs
<1>3. CASE ~MayCall(j) \/ jobs[j].buf \notin {NoObject, api[c]}
  <2>1. Released(j)
    BY <1>1, <1>3, FailedCall DEF PromiseInv
  <2>2. ~MayCall(j)
    BY <1>1, <1>3 DEF Spoken
  <2>3. /\ UNCHANGED api
        /\ Ends(jobs[j], jobs'[j]) \/ GivesUp(jobs[j], jobs'[j])
    BY <2>2, UpdateEffect DEF PodStep
  <2> QED
    BY <1>1, <2>1, <2>3, FailedCallMoves DEF PromiseInv
<1> QED
  BY <1>2, <1>3

LEMMA DoneMoves ==
  ASSUME PromiseInv, NEW c \in Curators, NEW j \in JobIds, PodStep(c, j), DonePatch(j)
  PROVE  PodMoves(c, j)
<1>1. j \in Active(c) /\ jobs[j].pc = "donepatch" /\ ~Released(j)
  BY DonePatchEffect DEF PodStep, Released
<1>2. MayCall(j)
  BY <1>1, FailedCall DEF PromiseInv
<1>3. /\ Step(j) = "done" /\ jobs[j].held.desired = api[c].desired
  BY <1>1 DEF PodStep, Calmly, Told, Placed, Tells
<1>4. /\ api'[c].desired = IF jobs[j].held.desired = "upgrade" THEN api[c].desired ELSE ""
      /\ api'[c].op = "nil" /\ api'[c].job = NoJob /\ api'[c].upgrade = api[c].upgrade
      /\ jobs'[j].pc = "final"
      /\ jobs'[j].todo = jobs[j].todo /\ jobs'[j].cc = jobs[j].cc
  BY <1>2, DonePatchEffect DEF PodStep
<1>5. Returned(c)
  BY <1>3, <1>4 DEF Returned
<1>6. Released(j)'
  BY <1>3, <1>4 DEF Released, Step
<1>7. j \in Active(c)'
  BY <1>1, <1>4 DEF Active, RunningPCs, StatusPCs
<1> QED
  BY <1>1, <1>3, <1>4, <1>5, <1>6, <1>7 DEF PodMoves, Releases

LEMMA FailMoves ==
  ASSUME PromiseInv, NEW c \in Curators, NEW j \in JobIds, PodStep(c, j), FailPatch(j)
  PROVE  PodMoves(c, j)
<1>1. /\ j \in Active(c) /\ jobs[j].pc = "failpatch" /\ Ends(jobs[j], jobs'[j])
      /\ UNCHANGED cluster
  BY FailPatchEffect DEF PodStep
<1>2. /\ jobs[j].held.desired = api[c].desired
      /\ api[c].desired = "upgrade" => Repeats(api[c].upgrade, api[c].cond)
      /\ api[c].cond.failed
  BY <1>1 DEF PodStep, Calmly, Told, Tells, PromiseInv, GivenBack
<1>3. CASE ~MayCall(j)
  <2>1. Released(j)
    BY <1>1, <1>3, FailedCall DEF PromiseInv
  <2>2. UNCHANGED api
    BY <1>3, FailPatchEffect DEF PodStep
  <2> QED
    BY <1>1, <2>1, <2>2, FailedCallMoves DEF PromiseInv
<1>4. CASE MayCall(j)
  <2>1. /\ api'[c].desired = IF jobs[j].held.desired = "upgrade" THEN api[c].desired ELSE ""
        /\ api'[c].op = "nil" /\ api'[c].job = NoJob /\ api'[c].upgrade = api[c].upgrade
        /\ api'[c].cond = api[c].cond
    BY <1>4, FailPatchEffect DEF PodStep
  <2>2. ~Launchable(c, api[c])'
    <3>1. ~PosthookOnly(api'[c])
      BY <2>1 DEF PosthookOnly, Retries
    <3>2. api'[c].desired = "upgrade" => Repeats(api'[c].upgrade, api'[c].cond)
      BY <1>2, <2>1
    <3>3. api'[c].desired \in {"", "upgrade"}
      BY <1>2, <2>1
    <3> QED
      BY <3>1, <3>2, <3>3 DEF Launchable, Settled
  <2>3. j \notin Active(c)'
    BY <1>1, EndsInactive
  <2>4. CASE Released(j)
    <3>1. api[c].job = NoJob /\ api[c].op = "nil" /\ api[c].desired \in {"", "upgrade"}
      BY <1>1, <2>4, ReleasedAtRest DEF PromiseInv
    <3>2. SameRequest(c)
      BY <1>2, <2>1, <3>1 DEF SameRequest
    <3> QED
      BY <2>2, <2>3, <2>4, <3>2 DEF PodMoves, Finishes
  <2>5. CASE ~Released(j)
    <3>1. Returned(c) /\ api'[c].cond.failed
      BY <1>2, <2>1 DEF Returned
    <3> QED
      BY <2>2, <2>3, <2>5, <3>1 DEF PodMoves, Breaks
  <2> QED
    BY <2>4, <2>5
<1> QED
  BY <1>3, <1>4

\* Every step of every pod: it moves its own Job, and nothing of another curator.
LEMMA EveryPodMoves ==
  ASSUME Calm, TypeOK, Shape, VersionsFaithful, PromiseInv, NEW j \in JobIds, Pod(j)
  PROVE  \E c \in Curators :
            /\ j \in Active(c) /\ Active(c) = {j} /\ Active(c)' \subseteq {j}
            /\ worker' = worker /\ PodMoves(c, j) /\ ~Recording(c, j)
            /\ \A d \in Curators : d # c =>
                 /\ api'[d] = api[d] /\ cluster'[d] = cluster[d]
                 /\ Active(d)' = Active(d)
                 /\ \A i \in Active(d) : jobs'[i] = jobs[i]
<1>1. PICK c \in Curators : c = Owner(j)
  BY PodAlone
<1>2. /\ j \in Active(c) /\ jobs[j].cc = c
      /\ \A i \in JobIds : i # j => jobs'[i] = jobs[i]
      /\ UNCHANGED <<cache, queue, worker>>
  BY <1>1, PodAlone DEF Owner
<1>3. PodStep(c, j) /\ Handled(c)
  BY <1>1, <1>2 DEF PodStep, PromiseInv, CalmInv, Calmly
<1>4. PodMoves(c, j)
  BY <1>3, StartMoves, ReadMoves, UpdateMoves, WorkMoves, DoneMoves, FailMoves DEF Pod
<1>5. /\ jobs'[j].cc = c
      /\ \A d \in Curators : d # c => api'[d] = api[d] /\ cluster'[d] = cluster[d]
  BY <1>1, <1>2, PodElsewhere
<1>6. ASSUME NEW d \in Curators, d # c
      PROVE  Active(d)' = Active(d) /\ \A i \in Active(d) : jobs'[i] = jobs[i]
  <2>1. \A i \in JobIds : i \in Active(d) \/ i \in Active(d)' => i # j
    BY <1>2, <1>5, <1>6 DEF Active
  <2> QED
    BY <1>2, <2>1 DEF Active
<1>7. Active(c) = {j} /\ Active(c)' \subseteq {j}
  <2>1. \A i \in Active(c) : i = j
    BY <1>2, <1>3 DEF Handled, Working
  <2>2. \A i \in Active(c)' : i # j => i \in Active(c)
    BY <1>2 DEF Active
  <2> QED
    BY <1>2, <2>1, <2>2
<1>8. ~Recording(c, j)
  <2>1. CASE jobs[j].pc = "pending"
    <3>1. StartPod(j)
      BY <2>1 DEF Pod, GetCurator, ReadForStatus, UpdateStatus, WorkDone, WorkFails,
                  WorkReports, DonePatch, FailPatch, StatusPCs
    <3> QED
      BY <3>1, StartEffect DEF Recording
  <2>2. CASE jobs[j].pc # "pending"
    BY <1>2, <1>3, <2>2, TheJob DEF Recording
  <2> QED
    BY <2>1, <2>2
<1> QED
  BY <1>2, <1>4, <1>5, <1>6, <1>7, <1>8

-----------------------------------------------------------------------------
(* GivenBack is inductive.                                                  *)

\* A step that leaves the Jobs, and what their curators say while they are at work.
LEMMA GivenBackStays ==
  ASSUME GivenBack, UNCHANGED jobs,
         worker' = worker \/ worker'.pc # "record",
         \A c \in Curators :
            /\ api'[c].job = api[c].job
            /\ Active(c) # {} => api'[c].op = api[c].op /\ api'[c].cond = api[c].cond
  PROVE  GivenBack'
<1>1. \A c : Active(c)' = Active(c)
  BY DEF Active
<1>2. \A j : Released(j)' <=> Released(j)
  BY DEF Released, Step
<1>3. \A c \in Curators : \A j : Bound(c, j)' => Bound(c, j)
  BY DEF Bound, Recording
<1> QED
  BY <1>1, <1>2, <1>3 DEF GivenBack

LEMMA RecordGivenBack ==
  ASSUME TypeOK, Shape, CalmInv, GivenBack, RecordJobName
  PROVE  GivenBack'
<1>1. worker.pc = "record" /\ UNCHANGED jobs
  BY DEF RecordJobName
<1>2. PICK c \in Curators : c = worker.cc
  BY <1>1 DEF Shape
<1>3. PICK j \in Nat : j = worker.job
  BY BoundAssumption DEF TypeOK
<1>4. /\ cache[c] = api[c] /\ j \in Active(c) /\ jobs[j].pc = "pending"
      /\ \A i \in Active(c) : i = j
  BY <1>1, <1>2, <1>3 DEF CalmInv, Calmly, Handled, Working
<1>5. Put(c, WithJob(api[c], j)) /\ worker' = IdleWorker
  BY <1>2, <1>3, <1>4 DEF RecordJobName, Current, Goto
<1>6. WithJob(api[c], j) \in Object /\ WithJob(api[c], j).job = j
  <2>1. api[c] \in Object
    BY DEF TypeOK
  <2>2. WithJob(api[c], j) \in Object
    BY <2>1, StatusWrites
  <2>3. WithJob(api[c], j).job = j
    BY <2>1 DEF WithJob, Object
  <2> QED
    BY <2>2, <2>3
<1>7. api'[c].job = j /\ \A d \in Curators : d # c => api'[d] = api[d]
  BY <1>5, <1>6, PutWrites
<1>8. /\ \A d : Active(d)' = Active(d)
      /\ \A i : Released(i)' <=> Released(i)
  BY <1>1 DEF Active, Released, Step
<1>9. worker'.pc # "record"
  BY <1>5 DEF IdleWorker
<1>10. ~Released(j) /\ jobs[j].pc # "failpatch"
  BY <1>4 DEF Released
<1>11. \A d \in Curators : d # c => \A i : Bound(d, i)' => Bound(d, i)
  BY <1>7, <1>9 DEF Bound, Recording
<1> QED
  BY <1>1, <1>4, <1>7, <1>8, <1>10, <1>11 DEF GivenBack

LEMMA LaunchGivenBack ==
  ASSUME TypeOK, Shape, CalmInv, GivenBack, CreateJob
  PROVE  GivenBack'
<1>1. worker.pc = "create" /\ UNCHANGED api
  BY DEF CreateJob
<1>2. PICK c \in Curators : c = worker.cc
  BY <1>1 DEF Shape
<1>3. PICK j \in JobIds : /\ jobs[j].pc = "none"
                          /\ jobs' = [jobs EXCEPT ![j] = Launched(c, worker.held)]
                          /\ worker' = [worker EXCEPT !.pc = "record", !.job = j]
  BY <1>2 DEF CreateJob
<1>4. /\ jobs'[j].cc = c /\ jobs'[j].pc = "pending"
      /\ \A i \in JobIds : i # j => jobs'[i] = jobs[i]
      /\ worker'.cc = c
  BY <1>2, <1>3 DEF TypeOK, Launched, UnusedJob
<1>5. Active(c) = {} /\ api[c].job = NoJob
  BY <1>1, <1>2 DEF CalmInv, Calmly, Handled, Carried, LaunchPCs, Quiet
<1>6. Active(c)' \subseteq {j} /\ ~Released(j)'
  BY <1>4, <1>5 DEF Active, Released
<1>7. ASSUME NEW d \in Curators, d # c
      PROVE  Active(d)' = Active(d) /\ \A i \in Active(d) : jobs'[i] = jobs[i]
  <2>1. \A i \in JobIds : i \in Active(d) \/ i \in Active(d)' => i # j
    BY <1>3, <1>4, <1>7 DEF Active, RunningPCs, StatusPCs
  <2> QED
    BY <1>4, <2>1 DEF Active
<1>8. ASSUME NEW d \in Curators, d # c, NEW i \in Active(d)
      PROVE  (Released(i)' <=> Released(i)) /\ (Bound(d, i)' => Bound(d, i))
  BY <1>1, <1>4, <1>7, <1>8 DEF Released, Step, Bound, Recording
<1> QED
  BY <1>1, <1>4, <1>5, <1>6, <1>7, <1>8 DEF GivenBack

LEMMA PodGivenBack ==
  ASSUME Calm, TypeOK, Shape, VersionsFaithful, PromiseInv, NEW j \in JobIds, Pod(j)
  PROVE  GivenBack'
<1>1. PICK c \in Curators :
            /\ j \in Active(c) /\ Active(c) = {j} /\ Active(c)' \subseteq {j}
            /\ worker' = worker /\ PodMoves(c, j) /\ ~Recording(c, j)
            /\ \A d \in Curators : d # c =>
                 /\ api'[d] = api[d] /\ cluster'[d] = cluster[d]
                 /\ Active(d)' = Active(d)
                 /\ \A i \in Active(d) : jobs'[i] = jobs[i]
  BY EveryPodMoves
<1>2. /\ api[c].job \in {NoJob, j} /\ j # NoJob
      /\ Released(j) => api[c].job = NoJob /\ api[c].op = "nil"
  BY <1>1, ActiveJobs DEF PromiseInv, GivenBack, Bound
<1>3. /\ api'[c].job # NoJob => api'[c].job \in Active(c)'
      /\ j \in Active(c)' /\ Released(j)' => api'[c].job = NoJob /\ api'[c].op = "nil"
      /\ j \in Active(c)' /\ jobs'[j].pc = "failpatch" => api'[c].cond.failed
  <2>1. CASE GoesOn(c, j) \/ TakesNext(c, j) \/ Finishes(c, j)
    BY <1>1, <1>2, <2>1 DEF GoesOn, TakesNext, Finishes, SameRequest
  <2>2. CASE Releases(c, j) \/ Breaks(c, j)
    BY <2>2 DEF Releases, Breaks, Returned
  <2> QED
    BY <1>1, <2>1, <2>2 DEF PodMoves
<1>4. api'[c].job = NoJob => ~Bound(c, j)'
  BY <1>1, <1>2 DEF Bound, Recording
<1>5. ASSUME NEW d \in Curators, d # c, NEW i \in Active(d)
      PROVE  (Released(i)' <=> Released(i)) /\ (Bound(d, i)' => Bound(d, i))
  BY <1>1, <1>5 DEF Released, Step, Bound, Recording
<1> QED
  BY <1>1, <1>3, <1>4, <1>5 DEF PromiseInv, GivenBack

LEMMA NextGivenBack ==
  ASSUME Calm, TypeOK, Shape, VersionsFaithful, PromiseInv, [Next]_vars
  PROVE  GivenBack'
<1> USE DEF PromiseInv
<1>1. ~(faults < MaxFaults)
  BY DEF Calm, TypeOK
<1>2. ASSUME UNCHANGED <<api, jobs>>, worker' = worker \/ worker'.pc # "record"
      PROVE  GivenBack'
  BY <1>2, GivenBackStays
<1>3. ASSUME NEW c \in Curators, Ask(c) \/ AskRetry(c) PROVE GivenBack'
  <2>1. PICK o \in Object : UserWrite(c, o) /\ o.job = api[c].job
    BY <1>3, UserWrites
  <2>2. Put(c, o) /\ UNCHANGED <<worker, jobs>> /\ Active(c) = {}
    BY <2>1 DEF UserWrite, Calm, AtRest
  <2>3. api'[c].job = api[c].job /\ \A d \in Curators : d # c => api'[d] = api[d]
    BY <2>1, <2>2, PutWrites
  <2> QED
    BY <2>2, <2>3, GivenBackStays
<1>4. CASE \E c \in Curators : Deliver(c) \/ Relist(c) \/ RefreshMCI(c)
  BY <1>2, <1>4 DEF Deliver, Relist, RefreshMCI
<1>5. ASSUME NEW c \in Curators, Reconcile(c) PROVE GivenBack'
  <2> DEFINE pc == IF NamedApart(c) /\ cache[c].job = NoJob THEN "dropCRB" ELSE Branch(cache[c])
  <2>1. pc # "record"
    BY BranchLaunches
  <2>2. /\ UNCHANGED <<api, jobs>>
        /\ worker' = IF pc = "idle" THEN IdleWorker
                     ELSE [pc |-> pc, cc |-> c, held |-> cache[c], job |-> NoJob]
    BY <1>5 DEF Reconcile
  <2> HIDE DEF pc
  <2>3. worker'.pc # "record"
    BY <2>1, <2>2 DEF IdleWorker
  <2> QED
    BY <1>2, <2>2, <2>3
<1>6. CASE Worker \/ CreateRefused
  <2>1. CASE CreateJob \/ RecordJobName
    BY <2>1, LaunchGivenBack, RecordGivenBack
  <2>2. CASE ~(CreateJob \/ RecordJobName)
    <3>1. UNCHANGED <<api, jobs>>
      BY <1>6, <2>2 DEF Worker, Decide, CreateRefused, DropCRB, DropServiceAccount,
           DropRoleBinding, DropClusterRoleBinding, DropOwnedCRB, ApplyServiceAccount,
           ApplyRoleBinding, IsHostedCluster, ApplyClusterRoleBinding, ApplyCRB, Grant
    <3>2. Requeue \/ \E pc \in WorkerPCs \ {"record"} : Goto(pc)
      <4>1. Branch(worker.held) \in WorkerPCs \ {"record"}
        BY BranchLaunches DEF WorkerPCs
      <4> QED
        BY <1>6, <2>2, <4>1 DEF Worker, Decide, CreateRefused, DropCRB, DropServiceAccount,
             DropRoleBinding, DropClusterRoleBinding, DropOwnedCRB, ApplyServiceAccount,
             ApplyRoleBinding, IsHostedCluster,
             ApplyClusterRoleBinding, ApplyCRB, Grant, WorkerPCs
    <3>3. worker'.pc # "record"
      BY <3>2 DEF Requeue, Goto, IdleWorker, TypeOK
    <3> QED
      BY <1>2, <3>1, <3>3
  <2> QED
    BY <2>1, <2>2
<1>7. CASE LookupFails \/ CallFails \/ Restart \/ \E j \in JobIds : KillPod(j)
  BY <1>1, <1>7 DEF LookupFails, CallFails, Restart, KillPod
<1>8. CASE \E j \in JobIds : Pod(j)
  BY <1>8, PodGivenBack
<1>9. CASE UNCHANGED vars
  BY <1>2, <1>9 DEF vars
<1> QED
  BY <1>3, <1>4, <1>5, <1>6, <1>7, <1>8, <1>9 DEF Next, Informer

LEMMA PromiseInitially == Init => Called /\ GivenBack
<1> SUFFICES ASSUME Init PROVE Called /\ GivenBack
  OBVIOUS
<1>1. \A c \in Curators : Active(c) = {}
  BY DEF Init, Active, UnusedJob, RunningPCs, StatusPCs
<1>2. \A c \in Curators : api[c].job = NoJob
  BY DEF Init, FirstVersion, NoObject
<1> QED
  BY <1>1, <1>2 DEF Called, GivenBack, Init, IdleWorker, LaunchPCs

\* All of it holds, whatever the steps.
LEMMA PromiseKept ==
  ASSUME Calm, OwnNamespaces
  PROVE  Spec => []PromiseInv
<1>1. TypeOK /\ Shape /\ VersionsFaithful /\ CalmInv /\ Kept /\ Telling /\ Called
        /\ GivenBack /\ [Next]_vars => Called' /\ GivenBack'
  BY NextCalled, NextGivenBack DEF PromiseInv
<1>2. CalmInv /\ Kept /\ Telling /\ Called /\ GivenBack => PromiseInv
  BY DEF PromiseInv
<1> QED
  BY <1>1, <1>2, PromiseInitially, TypeCorrect, CopiesFaithful, CurationsCalm, AccessKept,
     TellingKept, PTL DEF Spec

\* The curator of a failed Job does not name it: without failed calls, the container
\* that fails still has the access for its closing patch, and no update of a stale
\* object brings the name back (curator.go:132-151, 541-565).
THEOREM FailedGivenBack ==
  ASSUME Calm, OwnNamespaces
  PROVE  Spec => []FailedJobReleased
<1>1. TypeOK /\ Shape /\ PromiseInv => FailedJobReleased
  <2> SUFFICES ASSUME TypeOK, Shape, PromiseInv, NEW j \in JobIds, jobs[j].pc = "failed",
                      api[Owner(j)].job = j
               PROVE  FALSE
    BY DEF FailedJobReleased
  <2>1. PICK c \in Curators : c = Owner(j)
    BY DEF Shape, Owner
  <2>2. j \in Active(c)
    BY <2>1, BoundAssumption DEF PromiseInv, GivenBack, JobIds, NoJob
  <2> QED
    BY <2>2 DEF Active, RunningPCs, StatusPCs
<1> QED
  BY <1>1, TypeCorrect, PromiseKept, PTL
-----------------------------------------------------------------------------
(* What Curation sees of a state.                                           *)

\* Of a curator without a Job at work ...
LEMMA NoneAtWork ==
  ASSUME NEW c \in Curators
  PROVE  /\ Active(c) = {} =>
              /\ Phase(c) = "rest" /\ Todo(c) = <<>>
              /\ Waiting(c) <=> Launchable(c, api[c])
              /\ Blamed(c) <=> api[c].cond.failed
         /\ Active(c)' = {} =>
              /\ Phase(c)' = "rest" /\ Todo(c)' = <<>>
              /\ Waiting(c)' <=> Launchable(c, api[c])'
              /\ Blamed(c)' <=> api'[c].cond.failed
  BY DEF Phase, Todo, Waiting, Blamed

\* ... and of one with a Job at work, before a step and after it.
LEMMA OneAtWork ==
  ASSUME NEW c \in Curators, NEW j, Active(c) = {j}
  PROVE  /\ Phase(c) = IF Released(j) THEN "released" ELSE "running"
         /\ Todo(c) = jobs[j].todo /\ ~Waiting(c) /\ ~Blamed(c)
<1>1. JobOf(c) = j
  <2>1. \E i \in JobIds : i \in Active(c)
    BY DEF Active
  <2>2. JobOf(c) \in Active(c)
    BY <2>1 DEF JobOf
  <2> QED
    BY <2>2
<1> QED
  BY <1>1 DEF Phase, Todo, Waiting, Blamed

LEMMA OneThen ==
  ASSUME NEW c \in Curators, NEW j, Active(c)' = {j}
  PROVE  /\ Phase(c)' = IF Released(j)' THEN "released" ELSE "running"
         /\ Todo(c)' = jobs'[j].todo /\ ~Waiting(c)' /\ ~Blamed(c)'
<1>1. JobOf(c)' = j
  <2>1. \E i \in JobIds : i \in Active(c)'
    BY DEF Active
  <2>2. JobOf(c)' \in Active(c)'
    BY <2>1 DEF JobOf
  <2> QED
    BY <2>2
<1> QED
  BY <1>1 DEF Phase, Todo, Waiting, Blamed

\* To Curation, nothing has happened to c.
AsBefore(c) ==
    /\ Desired(c)' = Desired(c) /\ Phase(c)' = Phase(c) /\ Todo(c)' = Todo(c)
    /\ Waiting(c)' <=> Waiting(c)
    /\ Blamed(c)' <=> Blamed(c)

LEMMA Stutters ==
  ASSUME \A c \in Curators : AsBefore(c)
  PROVE  UNCHANGED Promise!vars
  BY DEF AsBefore, Promise!vars

LEMMA SameLaunchable ==
  ASSUME NEW c, api'[c] = api[c], cluster'[c] = cluster[c]
  PROVE  Launchable(c, api[c])' <=> Launchable(c, api[c])
  BY DEF Launchable, Settled

\* A step that leaves what is asked for, the Job at work and, without one, the object.
LEMMA StaysBefore ==
  ASSUME CalmInv, NEW c \in Curators, Active(c)' = Active(c),
         \A j \in Active(c) :
            jobs'[j].todo = jobs[j].todo /\ (Released(j)' <=> Released(j)),
         api'[c].desired = api[c].desired, api'[c].op = api[c].op,
         api'[c].upgrade = api[c].upgrade,
         Active(c) = {} => api'[c] = api[c] /\ cluster'[c] = cluster[c]
  PROVE  AsBefore(c)
<1>1. Desired(c)' = Desired(c)
  BY DEF Desired
<1>2. CASE Active(c) = {}
  <2>1. Launchable(c, api[c])' <=> Launchable(c, api[c])
    BY <1>2, SameLaunchable
  <2> QED
    BY <1>1, <1>2, <2>1, NoneAtWork DEF AsBefore
<1>3. CASE Active(c) # {}
  <2>1. PICK j \in Active(c) : Active(c) = {j}
    <3>1. \A i, j \in Active(c) : i = j
      BY DEF CalmInv, Calmly, Handled, Working
    <3> QED
      BY <1>3, <3>1
  <2> QED
    BY <1>1, <2>1, OneAtWork, OneThen DEF AsBefore
<1> QED
  BY <1>2, <1>3

\* The controller's reads, its grants and its queue are not seen.
LEMMA NothingSeen ==
  ASSUME CalmInv, UNCHANGED <<api, jobs, cluster>>
  PROVE  UNCHANGED Promise!vars
<1>1. ASSUME NEW c \in Curators PROVE AsBefore(c)
  <2>1. Active(c)' = Active(c) /\ \A j : Released(j)' <=> Released(j)
    BY DEF Active, Released, Step
  <2> QED
    BY <2>1, StaysBefore
<1> QED
  BY <1>1, Stutters

-----------------------------------------------------------------------------
(* The steps of Curation, by what they change at c.                         *)

OthersAsBefore(c) == \A d \in Curators : d # c => AsBefore(d)

\* Curation's operators on requests are the controller's.
LEMMA SameOperators ==
  ASSUME NEW r, NEW old, NEW new
  PROVE  /\ Promise!JobKind(r) = JobKind(r)
         /\ Promise!NoRequest = NoRequest
         /\ Promise!Containers(r, Hooks) = Containers(r, Hooks)
         /\ Promise!Admitted(old, new) <=> Admitted(old, new)
<1>1. Promise!JobKind(r) = JobKind(r) /\ Promise!Retries = Retries
  BY DEF JobKind, PosthookOnly, Retries, Promise!JobKind, Promise!PosthookOnly, Promise!Retries
<1>2. Promise!IsEUS(r) <=> IsEUS(r)
  BY DEF IsEUS, NoVersion, Promise!IsEUS, Promise!NoVersion
<1>3. Promise!MainSteps(r) = MainSteps(r)
  BY <1>1, <1>2 DEF MainSteps, Promise!MainSteps
<1>4. \A hook : Promise!RunsHook(r, Hooks, hook) <=> RunsHook(r, Hooks, hook)
  BY <1>1 DEF RunsHook, NoVersion, Promise!RunsHook, Promise!NoVersion
<1>5. Promise!Containers(r, Hooks) = Containers(r, Hooks)
  BY <1>1, <1>3, <1>4 DEF Containers, Promise!Containers
<1>6. Promise!NoRequest = NoRequest
  BY DEF NoRequest, NoVersion, Promise!NoRequest, Promise!NoVersion
<1>7. Promise!Admitted(old, new) <=> Admitted(old, new)
  BY DEF Admitted, NoVersion, Promise!Admitted, Promise!NoVersion
<1> QED
  BY <1>1, <1>5, <1>6, <1>7

\* The Job depends on the request alone.
LEMMA SameContainers ==
  ASSUME NEW r, NEW o, r.desired = o.desired, r.op = o.op, r.upgrade = o.upgrade
  PROVE  Containers(r, Hooks) = Containers(o, Hooks)
<1>1. JobKind(r) = JobKind(o) /\ (IsEUS(r) <=> IsEUS(o))
  BY DEF JobKind, PosthookOnly, IsEUS
<1>2. MainSteps(r) = MainSteps(o)
  BY <1>1 DEF MainSteps
<1>3. \A hook : RunsHook(r, Hooks, hook) <=> RunsHook(o, Hooks, hook)
  BY <1>1 DEF RunsHook
<1> QED
  BY <1>1, <1>2, <1>3 DEF Containers

\* The steps.
LEMMA ContainerStep ==
  ASSUME NEW c \in Curators, OthersAsBefore(c),
         Phase(c) = "running", Head(Todo(c)) # "done", Todo(c)' = Tail(Todo(c)),
         Desired(c)' = Desired(c), Phase(c)' = Phase(c),
         Waiting(c)' <=> Waiting(c), Blamed(c)' <=> Blamed(c)
  PROVE  Promise!NextContainer(c)
  BY DEF Promise!NextContainer, OthersAsBefore, AsBefore

\* The request as a Job leaves it.
GivesBack(c) ==
  Desired(c)' = [Desired(c) EXCEPT !.op = "nil",
                                   !.desired = IF @ = "upgrade" THEN @ ELSE ""]

LEMMA GiveBackStep ==
  ASSUME NEW c \in Curators, OthersAsBefore(c), GivesBack(c)
  PROVE  Promise!GiveBack(c)
  BY DEF Promise!GiveBack, GivesBack, OthersAsBefore, AsBefore

LEMMA ReleaseStep ==
  ASSUME NEW c \in Curators, OthersAsBefore(c), GivesBack(c),
         Phase(c) = "running", Head(Todo(c)) = "done", Todo(c)' = Todo(c),
         Phase(c)' = "released",
         Waiting(c)' <=> Waiting(c), Blamed(c)' <=> Blamed(c)
  PROVE  Promise!Release(c)
  BY GiveBackStep DEF Promise!Release, OthersAsBefore, AsBefore

LEMMA EndStep ==
  ASSUME NEW c \in Curators, OthersAsBefore(c), Desired(c)' = Desired(c),
         Phase(c) = "released", Phase(c)' = "rest", Todo(c)' = <<>>,
         Waiting(c)' <=> Waiting(c), ~Blamed(c)
  PROVE  Promise!End(c)
<1>1. CASE Blamed(c)'
  BY <1>1 DEF Promise!End, OthersAsBefore, AsBefore
<1>2. CASE ~Blamed(c)'
  BY <1>2 DEF Promise!End, OthersAsBefore, AsBefore
<1> QED
  BY <1>1, <1>2

LEMMA FailStep ==
  ASSUME NEW c \in Curators, OthersAsBefore(c), GivesBack(c),
         Phase(c) = "running", Phase(c)' = "rest", Todo(c)' = <<>>,
         Waiting(c)' <=> Waiting(c), Blamed(c)'
  PROVE  Promise!Fail(c)
  BY GiveBackStep DEF Promise!Fail, OthersAsBefore, AsBefore

LEMMA LaunchStep ==
  ASSUME NEW c \in Curators, OthersAsBefore(c), Desired(c)' = Desired(c),
         Phase(c) = "rest", Waiting(c), Containers(Desired(c), Hooks) # <<>>,
         ~Waiting(c)', Phase(c)' = "running", ~Blamed(c)',
         Todo(c)' = Containers(Desired(c), Hooks)
  PROVE  Promise!Launch(c)
  BY SameOperators DEF Promise!Launch, OthersAsBefore, AsBefore

\* What an edit may leave: a request that calls for a Job, or one that need not.
MayCallFor(r) == JobKind(r) # ""

MayRest(r) == JobKind(r) \in {"", "upgrade"}

LEMMA AskStep ==
  ASSUME NEW c \in Curators, OthersAsBefore(c), Phase(c) = "rest",
         NEW r \in Promise!Edited(Desired(c)), Desired(c)' = r,
         Admitted(Desired(c).upgrade, r.upgrade),
         Phase(c)' = Phase(c), Todo(c)' = Todo(c), Blamed(c)' <=> Blamed(c),
         Waiting(c)' => MayCallFor(r), ~Waiting(c)' => MayRest(r)
  PROVE  Promise!Ask(c)
<1> DEFINE request == [d \in Curators |-> Desired(d)]
           wanted == {d \in Curators : Waiting(d)}
           phase == [d \in Curators |-> Phase(d)]
           todo == [d \in Curators |-> Todo(d)]
           failed == {d \in Curators : Blamed(d)}
<1>1. request' = [request EXCEPT ![c] = r] /\ request[c] = Desired(c) /\ phase[c] = Phase(c)
  BY DEF OthersAsBefore, AsBefore
<1>2. UNCHANGED <<phase, todo, failed>>
  BY DEF OthersAsBefore, AsBefore
<1>3. /\ Waiting(c)' => wanted' = wanted \cup {c}
      /\ ~Waiting(c)' => wanted' = wanted \ {c}
  BY DEF OthersAsBefore, AsBefore
<1>4. /\ Promise!Admitted(Desired(c).upgrade, r.upgrade)
      /\ Promise!JobKind(r) = JobKind(r)
  BY SameOperators
<1> HIDE DEF wanted
<1>5. MayCallFor(r) => Promise!JobKind(r) # ""
  BY <1>4, Zenon DEF MayCallFor
<1>6. MayRest(r) => Promise!JobKind(r) \in {"", "upgrade"}
  BY <1>4, Zenon DEF MayRest
<1>7. \/ wanted' = wanted \cup {c} /\ Promise!JobKind(r) # ""
      \/ wanted' = wanted \ {c} /\ Promise!JobKind(r) \in {"", "upgrade"}
  BY <1>3, <1>5, <1>6, Zenon
<1> HIDE DEF request, phase, todo, failed
<1>8. /\ phase[c] = "rest" /\ r \in Promise!Edited(request[c])
      /\ Promise!Admitted(request[c].upgrade, r.upgrade)
  BY <1>1, <1>4
<1>9. \E s \in Promise!Edited(request[c]) :
        /\ Promise!Admitted(request[c].upgrade, s.upgrade)
        /\ request' = [request EXCEPT ![c] = s]
        /\ \/ wanted' = wanted \cup {c} /\ Promise!JobKind(s) # ""
           \/ wanted' = wanted \ {c} /\ Promise!JobKind(s) \in {"", "upgrade"}
  BY <1>1, <1>7, <1>8, Zenon
<1> QED
  BY <1>2, <1>8, <1>9, Zenon DEF Promise!Ask, request, wanted, phase, todo, failed

-----------------------------------------------------------------------------
(* Each step of controller, pods and users is a step of Curation, or none.  *)

\* What an object asks for.
Asked(o) == [desired |-> o.desired, op |-> o.op, upgrade |-> o.upgrade]

\* A request that may launch a Job, and one that does not.
LEMMA AskedToLaunch ==
  ASSUME NEW c, NEW o, o.job = NoJob
  PROVE  /\ Launchable(c, o) => MayCallFor(Asked(o))
         /\ ~Launchable(c, o) => MayRest(Asked(o))
<1>1. Asked(o).desired = o.desired /\ Asked(o).op = o.op
  BY DEF Asked
<1>2. PICK r : r = Asked(o)
  OBVIOUS
<1>3. PosthookOnly(r) <=> PosthookOnly(o)
  BY <1>1, <1>2 DEF PosthookOnly
<1>4. CASE PosthookOnly(o)
  <2>1. JobKind(r) \in Retries /\ Launchable(c, o)
    BY <1>3, <1>4 DEF JobKind, PosthookOnly, Launchable
  <2> QED
    BY <1>2, <2>1 DEF Retries, MayCallFor
<1>5. CASE ~PosthookOnly(o)
  <2>1. JobKind(r) = o.desired
    BY <1>1, <1>2, <1>3, <1>5 DEF JobKind
  <2> QED
    BY <1>2, <1>5, <2>1 DEF Launchable, MayCallFor, MayRest
<1> QED
  BY <1>4, <1>5

LEMMA AskedEdited ==
  ASSUME NEW o, NEW d, NEW u
  PROVE  [Asked(o) EXCEPT !.desired = d, !.upgrade = u]
           = [desired |-> d, op |-> o.op, upgrade |-> u]
<1>1. PICK p : p = [desired |-> d, op |-> o.op, upgrade |-> o.upgrade]
  OBVIOUS
<1>2. [Asked(o) EXCEPT !.desired = d] = p
  BY <1>1 DEF Asked
<1>3. [p EXCEPT !.upgrade = u] = [desired |-> d, op |-> o.op, upgrade |-> u]
  BY <1>1
<1> QED
  BY <1>2, <1>3

\* What a user writes is an edit of the request.
LEMMA EditWrites ==
  ASSUME TypeOK, NEW c \in Curators, Ask(c) \/ AskRetry(c)
  PROVE  \E o \in Object :
            /\ UserWrite(c, o)
            /\ o.job = api[c].job /\ o.cond = api[c].cond
            /\ Asked(o) \in Promise!Edited(Asked(api[c]))
<1>1. api[c] \in Object
  BY DEF TypeOK
<1>2. CASE Ask(c)
  <2>1. PICK a \in Asks :
          UserWrite(c, [api[c] EXCEPT !.desired = a.desired,
                          !.upgrade = IF a.desired = "upgrade" THEN a.upgrade ELSE @])
    BY <1>2 DEF Ask
  <2>2. a.desired \in Curations /\ a.upgrade \in Request
    BY AsksAssumption
  <2> DEFINE o == [api[c] EXCEPT !.desired = a.desired,
                     !.upgrade = IF a.desired = "upgrade" THEN a.upgrade ELSE @]
  <2>3. /\ o \in Object /\ o.job = api[c].job /\ o.cond = api[c].cond
        /\ o.desired = a.desired /\ o.op = api[c].op
        /\ o.upgrade = IF a.desired = "upgrade" THEN a.upgrade ELSE api[c].upgrade
    BY <1>1, <2>2 DEF Object
  <2> HIDE DEF o
  <2>4. Asked(o) = [Asked(api[c]) EXCEPT !.desired = a.desired,
                      !.upgrade = IF a.desired = "upgrade" THEN a.upgrade ELSE @]
    <3>1. o.desired = a.desired /\ o.op = api[c].op
      BY <2>3
    <3>2. CASE a.desired = "upgrade"
      <4>1. o.upgrade = a.upgrade
        BY <2>3, <3>2
      <4>2. Asked(o) = [desired |-> a.desired, op |-> api[c].op, upgrade |-> a.upgrade]
        BY <3>1, <4>1 DEF Asked
      <4>3. Asked(o) = [Asked(api[c]) EXCEPT !.desired = a.desired, !.upgrade = a.upgrade]
        BY <4>2, AskedEdited
      <4> QED
        BY <3>2, <4>3
    <3>3. CASE a.desired # "upgrade"
      <4>1. o.upgrade = api[c].upgrade
        BY <2>3, <3>3
      <4>2. /\ Asked(o) = [desired |-> a.desired, op |-> api[c].op, upgrade |-> api[c].upgrade]
            /\ Asked(api[c]).upgrade = api[c].upgrade
        BY <3>1, <4>1 DEF Asked
      <4>3. Asked(o) = [Asked(api[c]) EXCEPT !.desired = a.desired, !.upgrade = api[c].upgrade]
        BY <4>2, AskedEdited
      <4> QED
        BY <3>3, <4>2, <4>3
    <3> QED
      BY <3>2, <3>3
  <2>5. Asked(o) \in Promise!Edited(Asked(api[c]))
    BY <2>4 DEF Promise!Edited
  <2> QED
    BY <2>1, <2>3, <2>5 DEF o
<1>3. CASE AskRetry(c)
  <2>1. PICK x \in RetryAsks : /\ x[1] = api[c].desired
                               /\ UserWrite(c, [api[c] EXCEPT !.op = x[2]])
    BY <1>3 DEF AskRetry
  <2>2. x[2] \in Operations
    BY AsksAssumption DEF Operations
  <2> DEFINE o == [api[c] EXCEPT !.op = x[2]]
  <2>3. /\ o \in Object /\ o.job = api[c].job /\ o.cond = api[c].cond
        /\ o.desired = api[c].desired /\ o.op = x[2] /\ o.upgrade = api[c].upgrade
    BY <1>1, <2>2 DEF Object
  <2> HIDE DEF o
  <2>4. /\ Asked(o) = [Asked(api[c]) EXCEPT !.op = x[2]]
        /\ x[1] = Asked(api[c]).desired
    BY <2>1, <2>3 DEF Asked
  <2>5. Asked(o) \in Promise!Edited(Asked(api[c]))
    BY <2>4 DEF Promise!Edited
  <2> QED
    BY <2>1, <2>3, <2>5 DEF o
<1> QED
  BY <1>2, <1>3

\* A user's edit.
LEMMA AskPromised ==
  ASSUME Calm, TypeOK, CalmInv, NEW c \in Curators, Ask(c) \/ AskRetry(c)
  PROVE  Promise!Ask(c)
<1>1. PICK o \in Object : /\ UserWrite(c, o)
                          /\ o.job = api[c].job /\ o.cond = api[c].cond
                          /\ Asked(o) \in Promise!Edited(Asked(api[c]))
  BY EditWrites
<1>2. /\ Active(c) = {} /\ api[c].job = NoJob /\ Put(c, o)
      /\ Admitted(api[c].upgrade, o.upgrade) /\ UNCHANGED <<jobs, cluster>>
  BY <1>1 DEF UserWrite, AtRest, Calm
<1>3. /\ api'[c].desired = o.desired /\ api'[c].op = o.op /\ api'[c].upgrade = o.upgrade
      /\ api'[c].job = NoJob /\ api'[c].cond = api[c].cond
      /\ \A d \in Curators : d # c => api'[d] = api[d]
  BY <1>1, <1>2, PutWrites
<1>4. /\ \A d : Active(d)' = Active(d)
      /\ \A j : jobs'[j].todo = jobs[j].todo /\ (Released(j)' <=> Released(j))
  BY <1>2 DEF Active, Released, Step
<1>5. OthersAsBefore(c)
  BY <1>2, <1>3, <1>4, StaysBefore DEF OthersAsBefore
<1>6. PICK r : r = Asked(o)
  OBVIOUS
<1>7. Desired(c)' = r /\ Asked(api'[c]) = r /\ Desired(c) = Asked(api[c])
  BY <1>3, <1>6 DEF Desired, Asked
<1>8. r \in Promise!Edited(Desired(c))
  BY <1>1, <1>6, <1>7
<1>9. /\ Phase(c) = "rest" /\ Phase(c)' = "rest" /\ Todo(c)' = Todo(c)
      /\ Blamed(c)' <=> Blamed(c)
      /\ Waiting(c)' <=> Launchable(c, api[c])'
  <2>1. Active(c)' = {}
    BY <1>2, <1>4
  <2> QED
    BY <1>2, <1>3, <2>1, NoneAtWork
<1>10. (Waiting(c)' => MayCallFor(r)) /\ (~Waiting(c)' => MayRest(r))
  <2>1. PICK p : p = api'[c]
    OBVIOUS
  <2>2. Launchable(c, api[c])' <=> Launchable(c, p)
    BY <1>2, <2>1 DEF Launchable, Settled
  <2>3. /\ Launchable(c, p) => MayCallFor(r)
        /\ ~Launchable(c, p) => MayRest(r)
    BY <1>3, <1>7, <2>1, AskedToLaunch
  <2> QED
    BY <1>9, <2>2, <2>3
<1>11. Admitted(Desired(c).upgrade, r.upgrade)
  BY <1>2, <1>6 DEF Desired, Asked
<1> QED
  BY <1>5, <1>7, <1>8, <1>9, <1>10, <1>11, AskStep

\* The launch.
LEMMA CreatePromised ==
  ASSUME TypeOK, Shape, CalmInv, Called, CreateJob
  PROVE  Promise!Launch(worker.cc)
<1>1. worker.pc = "create" /\ Containers(worker.held, Hooks) # <<>>
      /\ UNCHANGED <<api, cluster>>
  BY DEF CreateJob
<1>2. PICK c \in Curators : c = worker.cc /\ Active(c) = {} /\ worker.held = api[c]
  BY <1>1, NobodyAtWork DEF LaunchPCs
<1>3. PICK j \in JobIds : /\ jobs[j].pc = "none"
                          /\ jobs' = [jobs EXCEPT ![j] = Launched(c, api[c])]
  BY <1>2 DEF CreateJob
<1>4. /\ jobs'[j] = Launched(c, api[c])
      /\ \A i \in JobIds : i # j => jobs'[i] = jobs[i]
  BY <1>3 DEF TypeOK
<1>5. /\ jobs'[j].cc = c /\ jobs'[j].pc = "pending"
      /\ jobs'[j].todo = Containers(api[c], Hooks)
  BY <1>4 DEF Launched, UnusedJob
<1>6. Active(c)' = {j} /\ ~Released(j)'
  BY <1>2, <1>4, <1>5 DEF Active, Released
<1>7. ASSUME NEW d \in Curators, d # c PROVE AsBefore(d)
  <2>1. \A i \in JobIds : i \in Active(d) \/ i \in Active(d)' => i # j
    BY <1>3, <1>5, <1>7 DEF Active, RunningPCs, StatusPCs
  <2>2. Active(d)' = Active(d)
    BY <1>4, <2>1 DEF Active
  <2>3. \A i \in Active(d) : jobs'[i] = jobs[i]
    BY <1>4, <2>1 DEF Active
  <2>4. \A i \in Active(d) : jobs'[i].todo = jobs[i].todo /\ (Released(i)' <=> Released(i))
    BY <2>3 DEF Released, Step
  <2> QED
    BY <1>1, <2>2, <2>4, StaysBefore
<1>8. Desired(c)' = Desired(c)
  BY <1>1 DEF Desired
<1>9. Containers(Desired(c), Hooks) = Containers(api[c], Hooks)
  <2>1. PICK o, r : o = api[c] /\ r = Desired(c)
    OBVIOUS
  <2>2. r.desired = o.desired /\ r.op = o.op /\ r.upgrade = o.upgrade
    BY <2>1 DEF Desired
  <2>3. Containers(r, Hooks) = Containers(o, Hooks)
    BY <2>2, SameContainers
  <2> QED
    BY <2>1, <2>3
<1>10. /\ Phase(c) = "rest" /\ Waiting(c)
       /\ Phase(c)' = "running" /\ ~Waiting(c)' /\ ~Blamed(c)'
       /\ Todo(c)' = Containers(Desired(c), Hooks)
  <2>1. Launchable(c, api[c])
    BY <1>1, <1>2 DEF Called, LaunchPCs
  <2> QED
    BY <1>2, <1>5, <1>6, <1>9, <2>1, NoneAtWork, OneThen
<1> QED
  BY <1>1, <1>2, <1>7, <1>8, <1>9, <1>10, LaunchStep DEF OthersAsBefore

\* The Job's name is no part of the request.
LEMMA RecordPromised ==
  ASSUME TypeOK, Shape, CalmInv, RecordJobName
  PROVE  UNCHANGED Promise!vars
<1>1. worker.pc = "record" /\ UNCHANGED <<jobs, cluster>>
  BY DEF RecordJobName
<1>2. PICK c \in Curators : c = worker.cc
  BY <1>1 DEF Shape
<1>3. PICK j \in Nat : j = worker.job
  BY BoundAssumption DEF TypeOK
<1>4. cache[c] = api[c] /\ j \in Active(c)
  BY <1>1, <1>2, <1>3 DEF CalmInv, Calmly, Handled, Working
<1>5. Put(c, WithJob(api[c], j))
  BY <1>2, <1>3, <1>4 DEF RecordJobName, Current
<1>6. PICK o \in Object : o = WithJob(api[c], j) /\ o.desired = api[c].desired
                          /\ o.op = api[c].op /\ o.upgrade = api[c].upgrade
  BY StatusWrites DEF TypeOK
<1>7. /\ api'[c].desired = api[c].desired /\ api'[c].op = api[c].op
      /\ api'[c].upgrade = api[c].upgrade
      /\ \A d \in Curators : d # c => api'[d] = api[d]
  BY <1>5, <1>6, PutWrites
<1>8. ASSUME NEW d \in Curators PROVE AsBefore(d)
  <2>1. /\ Active(d)' = Active(d)
        /\ \A i : jobs'[i].todo = jobs[i].todo /\ (Released(i)' <=> Released(i))
    BY <1>1 DEF Active, Released, Step
  <2> QED
    BY <1>1, <1>4, <1>7, <2>1, StaysBefore
<1> QED
  BY <1>8, Stutters

\* A pod's write, as an edit of the request.
LEMMA SameDesired ==
  ASSUME NEW c
  PROVE  /\ SameRequest(c) => Desired(c)' = Desired(c)
         /\ Returned(c) => GivesBack(c)
<1>1. SameRequest(c) => Desired(c)' = Desired(c)
  BY DEF SameRequest, Desired
<1>2. ASSUME Returned(c) PROVE GivesBack(c)
  <2>1. PICK o, d : /\ o = api[c] /\ d = IF o.desired = "upgrade" THEN o.desired ELSE ""
    OBVIOUS
  <2>2. Desired(c)' = [desired |-> d, op |-> "nil", upgrade |-> o.upgrade]
    BY <1>2, <2>1 DEF Returned, Desired
  <2>3. Desired(c) = [desired |-> o.desired, op |-> o.op, upgrade |-> o.upgrade]
    BY <2>1 DEF Desired
  <2>4. PICK p : p = [desired |-> o.desired, op |-> "nil", upgrade |-> o.upgrade]
    OBVIOUS
  <2>5. [Desired(c) EXCEPT !.op = "nil"] = p
    <3>1. PICK q : q = Desired(c)
      OBVIOUS
    <3>2. [q EXCEPT !.op = "nil"] = p
      BY <2>3, <2>4, <3>1
    <3> QED
      BY <3>1, <3>2
  <2>6. [p EXCEPT !.desired = d] = [desired |-> d, op |-> "nil", upgrade |-> o.upgrade]
    BY <2>4
  <2>7. d = IF Desired(c).desired = "upgrade" THEN Desired(c).desired ELSE ""
    <3>1. Desired(c).desired = o.desired
      BY <2>3
    <3> QED
      BY <2>1, <3>1, Zenon
  <2> QED
    BY <2>2, <2>5, <2>6, <2>7, Zenon DEF GivesBack
<1> QED
  BY <1>1, <1>2

\* A pod's step.
LEMMA PodPromised ==
  ASSUME Calm, TypeOK, Shape, VersionsFaithful, PromiseInv, NEW j \in JobIds, Pod(j)
  PROVE  \/ UNCHANGED Promise!vars
         \/ \E c \in Curators : \/ Promise!NextContainer(c) \/ Promise!Release(c)
                                \/ Promise!End(c) \/ Promise!Fail(c)
<1>1. PICK c \in Curators :
            /\ j \in Active(c) /\ Active(c) = {j} /\ Active(c)' \subseteq {j}
            /\ PodMoves(c, j)
            /\ \A d \in Curators : d # c =>
                 /\ api'[d] = api[d] /\ cluster'[d] = cluster[d]
                 /\ Active(d)' = Active(d)
                 /\ \A i \in Active(d) : jobs'[i] = jobs[i]
  BY EveryPodMoves
<1>2. OthersAsBefore(c)
  <2>1. ASSUME NEW d \in Curators, d # c PROVE AsBefore(d)
    <3>1. \A i \in Active(d) : jobs'[i].todo = jobs[i].todo /\ (Released(i)' <=> Released(i))
      BY <1>1, <2>1 DEF Released, Step
    <3> QED
      BY <1>1, <2>1, <3>1, StaysBefore DEF PromiseInv
  <2> QED
    BY <2>1 DEF OthersAsBefore
<1>3. /\ Phase(c) = IF Released(j) THEN "released" ELSE "running"
      /\ Todo(c) = jobs[j].todo /\ ~Waiting(c) /\ ~Blamed(c)
  BY <1>1, OneAtWork
<1>4. j \in Active(c)' =>
        /\ Phase(c)' = IF Released(j)' THEN "released" ELSE "running"
        /\ Todo(c)' = jobs'[j].todo /\ ~Waiting(c)' /\ ~Blamed(c)'
  <2>1. j \in Active(c)' => Active(c)' = {j}
    BY <1>1
  <2> QED
    BY <2>1, OneThen
<1>5. j \notin Active(c)' =>
        /\ Phase(c)' = "rest" /\ Todo(c)' = <<>>
        /\ Waiting(c)' <=> Launchable(c, api[c])'
        /\ Blamed(c)' <=> api'[c].cond.failed
  <2>1. j \notin Active(c)' => Active(c)' = {}
    BY <1>1
  <2> QED
    BY <2>1, NoneAtWork
<1>6. CASE GoesOn(c, j)
  <2>1. AsBefore(c)
    BY <1>3, <1>4, <1>6, SameDesired DEF GoesOn, AsBefore
  <2> QED
    BY <1>2, <2>1, Stutters DEF OthersAsBefore
<1>7. CASE TakesNext(c, j)
  <2>1. /\ Desired(c)' = Desired(c) /\ Phase(c) = "running" /\ Phase(c)' = "running"
        /\ Head(Todo(c)) # "done" /\ Todo(c)' = Tail(Todo(c))
        /\ ~Waiting(c)' /\ ~Blamed(c)'
    BY <1>3, <1>4, <1>7, SameDesired DEF TakesNext, Step
  <2> QED
    BY <1>2, <1>3, <2>1, ContainerStep
<1>8. CASE Releases(c, j)
  <2>1. /\ GivesBack(c) /\ Phase(c) = "running" /\ Phase(c)' = "released"
        /\ Head(Todo(c)) = "done" /\ Todo(c)' = Todo(c)
        /\ ~Waiting(c)' /\ ~Blamed(c)'
    BY <1>3, <1>4, <1>8, SameDesired DEF Releases, Step
  <2> QED
    BY <1>2, <1>3, <2>1, ReleaseStep
<1>9. CASE Finishes(c, j)
  <2>1. /\ Desired(c)' = Desired(c) /\ Phase(c) = "released" /\ Phase(c)' = "rest"
        /\ Todo(c)' = <<>> /\ ~Waiting(c)'
    BY <1>3, <1>5, <1>9, SameDesired DEF Finishes
  <2> QED
    BY <1>2, <1>3, <2>1, EndStep
<1>10. CASE Breaks(c, j)
  <2>1. /\ GivesBack(c) /\ Phase(c) = "running" /\ Phase(c)' = "rest"
        /\ Todo(c)' = <<>> /\ ~Waiting(c)' /\ Blamed(c)'
    BY <1>3, <1>5, <1>10, SameDesired DEF Breaks
  <2> QED
    BY <1>2, <1>3, <2>1, FailStep
<1> QED
  BY <1>1, <1>6, <1>7, <1>8, <1>9, <1>10 DEF PodMoves

\* Every step.
LEMMA NextPromised ==
  ASSUME Calm, TypeOK, Shape, VersionsFaithful, PromiseInv, [Next]_vars
  PROVE  [Promise!Next]_(Promise!vars)
<1> USE DEF PromiseInv
<1>1. ~(faults < MaxFaults)
  BY DEF Calm, TypeOK
<1>2. CASE \E c \in Curators : Ask(c) \/ AskRetry(c)
  BY <1>2, AskPromised DEF Promise!Next
<1>3. CASE \E c \in Curators : Deliver(c) \/ Reconcile(c) \/ Relist(c) \/ RefreshMCI(c)
  BY <1>3, NothingSeen DEF Deliver, Reconcile, Relist, RefreshMCI
<1>4. CASE Worker \/ CreateRefused
  <2>1. CASE CreateJob
    <3>1. worker.cc \in Curators
      BY <2>1 DEF CreateJob, Shape
    <3> QED
      BY <2>1, <3>1, CreatePromised DEF Promise!Next
  <2>2. CASE RecordJobName
    BY <2>2, RecordPromised
  <2>3. CASE ~(CreateJob \/ RecordJobName)
    <3>1. UNCHANGED <<api, jobs, cluster>>
      BY <1>4, <2>3 DEF Worker, Decide, CreateRefused, DropCRB, DropServiceAccount,
           DropRoleBinding, DropClusterRoleBinding, DropOwnedCRB, ApplyServiceAccount,
           ApplyRoleBinding, IsHostedCluster, ApplyClusterRoleBinding, ApplyCRB, Grant
    <3> QED
      BY <3>1, NothingSeen
  <2> QED
    BY <2>1, <2>2, <2>3
<1>5. CASE LookupFails \/ CallFails \/ Restart \/ \E j \in JobIds : KillPod(j)
  BY <1>1, <1>5 DEF LookupFails, CallFails, Restart, KillPod
<1>6. CASE \E j \in JobIds : Pod(j)
  BY <1>6, PodPromised DEF Promise!Next
<1>7. CASE UNCHANGED vars
  BY <1>7, NothingSeen DEF vars
<1> QED
  BY <1>2, <1>3, <1>4, <1>5, <1>6, <1>7 DEF Next, Informer

\* In the beginning nothing is asked for.
LEMMA InitPromised == Init => Promise!Init
<1> SUFFICES ASSUME Init PROVE Promise!Init
  OBVIOUS
<1>1. ASSUME NEW c \in Curators
      PROVE  /\ Desired(c) = [desired |-> "", op |-> "nil", upgrade |-> NoRequest]
             /\ Phase(c) = "rest" /\ Todo(c) = <<>> /\ ~Waiting(c) /\ ~Blamed(c)
  <2>1. api[c] = FirstVersion /\ Active(c) = {}
    BY DEF Init, Active, UnusedJob, RunningPCs, StatusPCs
  <2>2. /\ FirstVersion.desired = "" /\ FirstVersion.op = "nil"
        /\ FirstVersion.upgrade = NoRequest /\ FirstVersion.job = NoJob
        /\ FirstVersion.cond = NoCondition
    BY DEF FirstVersion, NoObject
  <2>3. Desired(c) = [desired |-> "", op |-> "nil", upgrade |-> NoRequest]
    BY <2>1, <2>2 DEF Desired
  <2>4. ~PosthookOnly(api[c])
    BY <2>1, <2>2 DEF PosthookOnly, Retries
  <2>5. ~Launchable(c, api[c])
    <3>1. PICK o : o = api[c] /\ o.desired = ""
      BY <2>1, <2>2, Zenon
    <3>2. ~Launchable(c, o)
      BY <2>4, <3>1, Zenon DEF Launchable
    <3> QED
      BY <3>1, <3>2
  <2>6. ~api[c].cond.failed
    <3>1. NoCondition.failed = FALSE
      <4>1. PICK none : none = ""
        OBVIOUS
      <4>2. NoCondition = [status |-> "absent", job |-> NoJob, desired |-> none,
                           upgrade |-> FALSE, failed |-> FALSE, info |-> NoInfo]
        BY <4>1, Zenon DEF NoCondition
      <4> QED
        BY <4>2
    <3> QED
      BY <2>1, <2>2, <3>1, Zenon
  <2> QED
    BY <2>1, <2>3, <2>5, <2>6, NoneAtWork
<1>2. \A r, old, new : Promise!NoRequest = NoRequest
  BY SameOperators
<1> QED
  BY <1>1, <1>2 DEF Promise!Init

\* Controller and pods, that share nothing but objects read at different times, carry
\* out Curation: every edit is taken up at most once and as it is, nothing changes
\* it under the Job, and every Job gives its curator back
\* (clustercurator_controller.go:52-222, curator.go:79-536).
THEOREM CurationsCarriedOut ==
  ASSUME Calm, OwnNamespaces
  PROVE  Spec => ImplementsCuration
<1>1. TypeOK /\ Shape /\ VersionsFaithful /\ PromiseInv /\ [Next]_vars
        => [Promise!Next]_(Promise!vars)
  BY NextPromised
<1> QED
  BY <1>1, InitPromised, TypeCorrect, CopiesFaithful, PromiseKept, PTL
     DEF Spec, ImplementsCuration, Promise!Spec
=============================================================================
