---------------------- MODULE CuratorLifecycle_proofs ----------------------
(***************************************************************************)
(* Proofs about CuratorLifecycle, for every set of curators, namespaces,    *)
(* hooks and requests and any number of Jobs, edits and faults.             *)
(***************************************************************************)
EXTENDS CuratorLifecycle, CuratorObject_proofs, SequenceTheorems, TLAPS

-----------------------------------------------------------------------------
(* What the operators of CuratorObject and Launcher return.                 *)

\* A retry of a posthook works for a curation there is.
LEMMA LocalCurationType ==
  ASSUME NEW o \in Object PROVE LocalCuration(o) \in Curations
  BY DEF LocalCuration, Curations, Object

\* The name, condition and step writes make objects of objects, and leave what the
\* user asked for alone.
LEMMA StatusWrites ==
  ASSUME NEW o \in Object
  PROVE  /\ \A j \in Nat : WithJob(o, j) \in Object
         /\ \A q \in Condition : WithCondition(o, q) \in Object
         /\ \A s, t : t \in StepStates => WithStep(o, s, t) \in Object
         /\ \A j : /\ WithJob(o, j).desired = o.desired
                   /\ WithJob(o, j).op = o.op
                   /\ WithJob(o, j).upgrade = o.upgrade
         /\ \A q : /\ WithCondition(o, q).desired = o.desired
                   /\ WithCondition(o, q).op = o.op
                   /\ WithCondition(o, q).upgrade = o.upgrade
         /\ \A s, t : /\ WithStep(o, s, t).desired = o.desired
                      /\ WithStep(o, s, t).op = o.op
                      /\ WithStep(o, s, t).upgrade = o.upgrade
<1>1. \A s, t : t \in StepStates => [o.steps EXCEPT ![s] = t] \in [Steps -> StepStates]
  BY DEF Object
<1> QED
  BY <1>1 DEF Object, WithJob, WithCondition, WithStep

\* The closing patches make objects of objects, and only clear what the user asked for.
LEMMA ClosingWrites ==
  ASSUME NEW o \in Object, NEW held
  PROVE  \A n \in {updateFailingClusterCurator(held, o), updateDoneClusterCurator(held, o)} :
            /\ n \in Object
            /\ n.desired \in {o.desired, ""}
            /\ n.op = "nil"
            /\ n.upgrade = o.upgrade
<1>1. ClearSpec(held, o) \in Object
  BY DEF ClearSpec, Object, NoJob, Curations, Operations
<1>2. /\ ClearSpec(held, o).desired \in {o.desired, ""}
      /\ ClearSpec(held, o).op = "nil"
      /\ ClearSpec(held, o).upgrade = o.upgrade
  BY DEF ClearSpec, Object
<1>3. [ClearSpec(held, o) EXCEPT !.cond = NoCondition, !.steps = NoSteps] \in Object
  BY <1>1, BlankTypes DEF Object
<1> QED
  BY <1>1, <1>2, <1>3 DEF updateFailingClusterCurator, updateDoneClusterCurator, Object

-----------------------------------------------------------------------------
(* Type correctness.                                                        *)

\* What the types do not say: a busy worker has a curator, and a Job that exists
\* belongs to one and, until it is over, ends in "done".
Shape ==
    /\ worker.pc # "idle" => worker.cc \in Curators
    /\ \A j \in JobIds :
         /\ jobs[j].pc # "none" => jobs[j].cc \in Curators
         /\ jobs[j].pc \in RunningPCs \cup {"pending"} => EndsInDone(jobs[j].todo)

\* A write of an object leaves objects in the API server and on the watch.
LEMMA PutType ==
  ASSUME TypeOK, NEW c \in Curators, NEW o \in Object, Put(c, o)
  PROVE  api' \in [Curators -> Object] /\ watch' \in [Curators -> SUBSET Object]
<1> DEFINE new == [o EXCEPT !.rv = api[c].rv + 1]
<1>1. api[c] \in Object /\ api[c].rv \in Nat
  BY DEF TypeOK, Object
<1>2. new \in Object
  BY <1>1 DEF Object
<1>3. CASE UNCHANGED apiVars
  BY <1>3 DEF apiVars, TypeOK
<1>4. CASE /\ api' = [api EXCEPT ![c] = new]
           /\ watch' = [watch EXCEPT ![c] = @ \cup {new}]
  BY <1>2, <1>4 DEF TypeOK
<1> QED
  BY <1>3, <1>4 DEF Put

\* The two ways a pod leaves its course keep its owner, and end well or at a call.
LEMMA LeavingTypes ==
  ASSUME TypeOK, NEW j \in JobIds
  PROVE  /\ \A out \in {"succeeded", "failed"} :
               Over(j, out) \in Job /\ Over(j, out).cc = jobs[j].cc /\ Over(j, out).pc = out
         /\ \A pc \in {"failed", "jobfail", "failpatch"} :
               /\ Failing(j, pc) \in Job
               /\ Failing(j, pc).cc = jobs[j].cc
               /\ Failing(j, pc).pc = pc
               /\ pc # "failed" => Failing(j, pc).todo = jobs[j].todo
<1>1. jobs[j] \in Job
  BY DEF TypeOK
<1>2. \A out \in {"succeeded", "failed"} :
        Over(j, out) \in Job /\ Over(j, out).cc = jobs[j].cc /\ Over(j, out).pc = out
  <2>1. <<>> \in Seq(Steps) /\ "" \in Curations
    BY DEF Curations
  <2>2. ASSUME NEW out \in {"succeeded", "failed"}
        PROVE  /\ Over(j, out) \in Job
               /\ Over(j, out).cc = jobs[j].cc
               /\ Over(j, out).pc = out
    BY <1>1, <2>1, BlankTypes DEF Over, Job
  <2> QED
    BY <2>2
<1>3. ASSUME NEW pc \in {"jobfail", "failpatch"}
      PROVE  /\ Failing(j, pc) \in Job
             /\ Failing(j, pc).cc = jobs[j].cc
             /\ Failing(j, pc).pc = pc
             /\ Failing(j, pc).todo = jobs[j].todo
  <2> DEFINE m == Ended(jobs[j].held.job, jobs[j].local, jobs[j].held.upgrade, TRUE)
  <2>1. m \in Condition
    BY <1>1, ConditionTypes DEF Job, Object
  <2>2. pc \in RunningPCs
    BY DEF RunningPCs, StatusPCs
  <2> HIDE DEF m
  <2>3. Failing(j, pc) = [jobs[j] EXCEPT !.pc = pc, !.buf = NoObject, !.msg = m]
    BY DEF Failing, m
  <2> QED
    BY <1>1, <2>1, <2>2, <2>3, BlankTypes DEF Job
<1> QED
  BY <1>2, <1>3 DEF Failing

\* A pod's own step keeps the types and the shape if its new state does.
LEMMA PodStepTypes ==
  ASSUME TypeOK, Shape, NEW j \in JobIds, NEW job \in Job,
         jobs[j].pc # "none", job.cc = jobs[j].cc,
         job.pc \in RunningPCs \cup {"pending"} => EndsInDone(job.todo),
         jobs' = [jobs EXCEPT ![j] = job],
         UNCHANGED <<cache, queue, worker, grants, edits>>,
         api' \in [Curators -> Object], watch' \in [Curators -> SUBSET Object],
         cluster' \in [Curators -> Nat], mci' \in [Curators -> SUBSET Nat],
         faults' \in 0 .. MaxFaults
  PROVE  TypeOK' /\ Shape'
<1>1. jobs' \in [JobIds -> Job]
  BY DEF TypeOK
<1>2. TypeOK'
  BY <1>1 DEF TypeOK, JobIds
<1>3. \A i \in JobIds : jobs'[i] = IF i = j THEN job ELSE jobs[i]
  BY DEF TypeOK
<1>4. Shape'
  BY <1>3 DEF Shape, JobIds
<1> QED
  BY <1>2, <1>4

\* The calls on the access objects make access objects of access objects.
LEMMA GrantTypes ==
  ASSUME NEW g \in Grants, NEW n \in Namespaces, NEW m \in Namespaces
  PROVE  /\ CreateServiceAccount(g, n) \in Grants
         /\ CreateRoleBinding(g, n, m) \in Grants
         /\ UpsertCRB(g, n) \in Grants
         /\ DeleteServiceAccount(g, n) \in Grants
         /\ DeleteRoleBinding(g, n) \in Grants
         /\ CleanupCuratorCRBIfOwned(g, n) \in Grants
  BY DEF Grants, Subject, CreateServiceAccount, CreateRoleBinding, UpsertCRB,
         DeleteServiceAccount, DeleteRoleBinding, CleanupCuratorCRBIfOwned

\* The worker at rest, and the worker gone on to another call.
LEMMA WorkerTypes ==
  ASSUME TypeOK, NEW pc \in WorkerPCs, Goto(pc)
  PROVE  /\ worker' \in [pc : WorkerPCs, cc : Curators \cup {NoCurator},
                         held : Object, job : 0 .. MaxJobs]
         /\ worker'.pc = pc
         /\ pc # "idle" => worker' = [worker EXCEPT !.pc = pc]
<1>1. IdleWorker \in [pc : WorkerPCs, cc : Curators \cup {NoCurator},
                     held : Object, job : 0 .. MaxJobs]
  BY BlankTypes, BoundAssumption DEF IdleWorker, WorkerPCs, NoJob
<1> QED
  BY <1>1 DEF Goto, TypeOK, IdleWorker

\* A step that only moves the worker, requeues its key or changes the access granted.
LEMMA WorkerStepTypes ==
  ASSUME TypeOK, Shape, worker.pc # "idle",
         (\E pc \in WorkerPCs : Goto(pc)) \/ worker' = IdleWorker,
         UNCHANGED <<cache, jobs, cluster, mci, edits>>,
         api' \in [Curators -> Object], watch' \in [Curators -> SUBSET Object],
         queue' \subseteq Curators, grants' \in Grants, faults' \in 0 .. MaxFaults
  PROVE  TypeOK' /\ Shape'
<1>1. \E pc \in WorkerPCs : Goto(pc)
  BY DEF Goto, WorkerPCs
<1>2. PICK pc \in WorkerPCs : Goto(pc)
  BY <1>1
<1>3. worker' \in [pc : WorkerPCs, cc : Curators \cup {NoCurator},
                  held : Object, job : 0 .. MaxJobs]
  BY <1>2, WorkerTypes
<1>4. worker'.pc # "idle" => worker'.cc = worker.cc
  BY <1>2, WorkerTypes DEF TypeOK
<1>5. TypeOK'
  BY <1>3 DEF TypeOK, JobIds, Job
<1>6. Shape'
  BY <1>4 DEF Shape, JobIds
<1> QED
  BY <1>5, <1>6

\* Every namespace the worker deals with is one.
LEMMA NamespaceTypes ==
  \A c \in Curators : NS(c) \in Namespaces /\ ClusterOf[c] \in Namespaces
  BY CuratorAssumption DEF NS

\* A call on the access objects keeps the types and the shape.
LEMMA GrantStepTypes ==
  ASSUME TypeOK, Shape, NEW at \in WorkerPCs \ {"idle"}, NEW g, NEW pc \in WorkerPCs,
         worker.cc \in Curators => g \in Grants,
         Grant(at, g, pc)
  PROVE  TypeOK' /\ Shape'
<1>1. worker.pc # "idle" /\ worker.cc \in Curators
  BY DEF Grant, Shape
<1>2. grants' \in Grants /\ Goto(pc)
  BY <1>1 DEF Grant
<1> QED
  BY <1>1, <1>2, WorkerStepTypes DEF Grant, TypeOK

\* Every write of a condition makes an object of the object read.
LEMMA WrittenType ==
  ASSUME TypeOK, NEW j \in JobIds, jobs[j].pc \in StatusPCs
  PROVE  Written(j) \in Object
<1>1. jobs[j].buf \in Object /\ jobs[j].msg \in Condition
  BY DEF TypeOK, Job
<1>2. \A s : /\ WithStep(jobs[j].buf, s, "Completed") \in Object
             /\ WithStep(jobs[j].buf, s, "Executing") \in Object
             /\ WithStep(jobs[j].buf, s, "Reporting") \in Object
             /\ WithStep(jobs[j].buf, s, "Failed") \in Object
  BY <1>1, StatusWrites DEF StepStates
<1>3. WithCondition(jobs[j].buf, jobs[j].msg) \in Object
  BY <1>1, StatusWrites
<1> QED
  BY <1>2, <1>3 DEF Written, StatusPCs

\* A container that is not "done" leaves containers that end in "done".
LEMMA TailEndsInDone ==
  ASSUME NEW todo \in Seq(Steps), EndsInDone(todo), Head(todo) # "done"
  PROVE  Tail(todo) \in Seq(Steps) /\ EndsInDone(Tail(todo))
<1>1. /\ Tail(todo) \in Seq(Steps)
      /\ Len(Tail(todo)) = Len(todo) - 1
      /\ \A i \in 1 .. Len(Tail(todo)) : Tail(todo)[i] = todo[i + 1]
  BY HeadTailProperties DEF EndsInDone
<1>2. Len(todo) \in Nat \ {0}
  BY EmptySeq DEF EndsInDone
<1>3. Len(todo) # 1
  <2>1. Head(todo) = todo[1]
    OBVIOUS
  <2> QED
    BY <2>1 DEF EndsInDone
<1>4. Len(todo) - 1 \in 1 .. Len(Tail(todo))
  BY <1>1, <1>2, <1>3
<1>5. Tail(todo)[Len(Tail(todo))] = "done"
  BY <1>1, <1>2, <1>4 DEF EndsInDone
<1>6. Tail(todo) # <<>>
  <2>1. Len(Tail(todo)) # 0
    BY <1>1, <1>2, <1>3
  <2>2. Len(<<>>) = 0
    OBVIOUS
  <2> QED
    BY <2>1, <2>2
<1> QED
  BY <1>1, <1>5, <1>6 DEF EndsInDone

\* What a pod goes on with is a pod of the same owner that still ends in "done".
LEMMA AfterWriteType ==
  ASSUME TypeOK, Shape, NEW j \in JobIds, jobs[j].pc \in StatusPCs
  PROVE  /\ AfterWrite(j) \in Job
         /\ AfterWrite(j).cc = jobs[j].cc
         /\ AfterWrite(j).pc \in RunningPCs \cup {"pending"} => EndsInDone(AfterWrite(j).todo)
<1> DEFINE job == [jobs[j] EXCEPT !.buf = NoObject]
<1>1. jobs[j] \in Job /\ EndsInDone(jobs[j].todo)
  BY DEF TypeOK, Shape, RunningPCs
<1>2. job \in Job /\ job.cc = jobs[j].cc /\ job.todo = jobs[j].todo /\ job.pc = jobs[j].pc
  BY <1>1, BlankTypes DEF Job
<1>3. "" \in Curations
  BY DEF Curations
<1> HIDE DEF job
<1>4. \A pc \in {"donepatch", "stepcond", "work", "failpatch"} :
        /\ [job EXCEPT !.pc = pc] \in Job
        /\ [job EXCEPT !.pc = pc].cc = jobs[j].cc
        /\ [job EXCEPT !.pc = pc].todo = jobs[j].todo
  <2>1. ASSUME NEW pc \in {"donepatch", "stepcond", "work", "failpatch"}
        PROVE  pc \in RunningPCs
    BY DEF RunningPCs, StatusPCs
  <2> QED
    BY <1>2, <2>1 DEF Job
<1>5. CASE job.pc = "jobcond"
  <2>1. AfterWrite(j) = [job EXCEPT !.pc = IF Step(j) = "done" THEN "donepatch" ELSE "stepcond"]
    BY <1>5 DEF AfterWrite, job
  <2> QED
    BY <1>1, <1>4, <2>1
<1>6. CASE job.pc = "stepcond"
  <2>1. AfterWrite(j) = [job EXCEPT !.pc = "work"]
    BY <1>6 DEF AfterWrite, job
  <2> QED
    BY <1>1, <1>4, <2>1
<1>7. CASE job.pc = "progress"
  <2>1. AfterWrite(j) = [job EXCEPT !.pc = "work", !.reported = TRUE]
    BY <1>7 DEF AfterWrite, job
  <2>2. "work" \in RunningPCs
    BY DEF RunningPCs
  <2>3. AfterWrite(j) \in Job
    BY <1>2, <2>1, <2>2 DEF Job
  <2> QED
    BY <1>1, <1>2, <2>1, <2>3 DEF Job
<1>8. CASE job.pc = "stepfail"
  <2>1. AfterWrite(j) = Failing(j, "jobfail")
    BY <1>8 DEF AfterWrite, job
  <2> QED
    BY <1>1, <2>1, LeavingTypes
<1>9. CASE job.pc = "jobfail"
  <2>1. AfterWrite(j) = [job EXCEPT !.pc = "failpatch"]
    BY <1>9 DEF AfterWrite, job
  <2> QED
    BY <1>1, <1>4, <2>1
<1>10. CASE job.pc = "final" /\ Step(j) = "done"
  <2>1. AfterWrite(j) = Over(j, "succeeded")
    BY <1>10 DEF AfterWrite, job
  <2> QED
    BY <2>1, LeavingTypes DEF RunningPCs, StatusPCs
<1>11. CASE job.pc = "final" /\ Step(j) # "done"
  <2>1. AfterWrite(j) = [job EXCEPT !.pc = "get", !.todo = Tail(@), !.held = NoObject,
                                    !.local = "", !.msg = NoCondition, !.reported = FALSE]
    BY <1>11 DEF AfterWrite, job
  <2>2. Tail(jobs[j].todo) \in Seq(Steps) /\ EndsInDone(Tail(jobs[j].todo))
    BY <1>1, <1>11, TailEndsInDone DEF Job, Step
  <2>3. "get" \in RunningPCs
    BY DEF RunningPCs
  <2>4. AfterWrite(j) = [job EXCEPT !.pc = "get", !.todo = Tail(jobs[j].todo),
                           !.held = NoObject, !.local = "", !.msg = NoCondition,
                           !.reported = FALSE]
    BY <1>2, <2>1 DEF Job
  <2>5. AfterWrite(j) \in Job
    BY <1>2, <1>3, <2>2, <2>3, <2>4, BlankTypes DEF Job
  <2> QED
    BY <1>2, <2>2, <2>4, <2>5 DEF Job
<1> QED
  BY <1>2, <1>5, <1>6, <1>7, <1>8, <1>9, <1>10, <1>11 DEF StatusPCs

\* A failed call leads to the end of the pod or to its deferred function.
LEMMA AfterErrorType == \A pc : AfterError(pc) \in {"failed", "jobfail"}
  BY DEF AfterError

\* Leaving its course, a pod keeps its owner and, while it runs, its last container.
LEMMA FailingShape ==
  ASSUME TypeOK, Shape, NEW j \in JobIds, NEW pc \in {"failed", "jobfail"},
         jobs[j].pc \in RunningPCs
  PROVE  /\ Failing(j, pc) \in Job
         /\ Failing(j, pc).cc = jobs[j].cc
         /\ Failing(j, pc).pc \in RunningPCs \cup {"pending"}
              => EndsInDone(Failing(j, pc).todo)
  BY LeavingTypes DEF Shape, RunningPCs, StatusPCs

\* The initial state has the types and the shape.
LEMMA InitTypes == Init => TypeOK /\ Shape
<1> SUFFICES ASSUME Init PROVE TypeOK /\ Shape
  OBVIOUS
<1>1. FirstVersion \in Object
  BY BlankTypes DEF FirstVersion, Object
<1>2. UnusedJob \in Job
  <2>1. <<>> \in Seq(Steps) /\ "" \in Curations
    BY DEF Curations
  <2> QED
    BY <2>1, BlankTypes DEF UnusedJob, Job
<1>3. IdleWorker \in [pc : WorkerPCs, cc : Curators \cup {NoCurator},
                     held : Object, job : 0 .. MaxJobs]
  BY BlankTypes, BoundAssumption DEF IdleWorker, WorkerPCs, NoJob
<1>4. NoGrants \in Grants
  BY DEF NoGrants, Grants, Subject
<1>5. api \in [Curators -> Object] /\ cache \in [Curators -> Object]
  BY <1>1 DEF Init
<1>6. /\ watch \in [Curators -> SUBSET Object]
      /\ queue \subseteq Curators
      /\ jobs \in [JobIds -> Job]
      /\ cluster \in [Curators -> Nat]
      /\ mci \in [Curators -> SUBSET Nat]
      /\ edits \in 0 .. MaxEdits
      /\ faults \in 0 .. MaxFaults
  BY <1>2, BoundAssumption DEF Init
<1>7. TypeOK
  BY <1>3, <1>4, <1>5, <1>6 DEF Init, TypeOK
<1>8. Shape
  BY DEF Init, Shape, IdleWorker, UnusedJob, RunningPCs, StatusPCs
<1> QED
  BY <1>7, <1>8

\* Users, the informer and the faults of the environment keep the types and the shape.
LEMMA EnvironmentTypes ==
  ASSUME TypeOK, Shape,
         \/ \E c \in Curators : \/ Ask(c) \/ AskRetry(c) \/ Deliver(c) \/ Relist(c)
                               \/ RefreshMCI(c)
         \/ Restart
  PROVE  TypeOK' /\ Shape'
<1>1. ASSUME NEW c \in Curators, NEW o \in Object, UserWrite(c, o)
      PROVE  TypeOK' /\ Shape'
  <2>1. api' \in [Curators -> Object] /\ watch' \in [Curators -> SUBSET Object]
    BY <1>1, PutType DEF UserWrite
  <2>2. edits' \in 0 .. MaxEdits
    BY <1>1, BoundAssumption DEF UserWrite, TypeOK
  <2> QED
    BY <1>1, <2>1, <2>2 DEF UserWrite, TypeOK, Shape
<1>2. ASSUME NEW c \in Curators, Ask(c) PROVE TypeOK' /\ Shape'
  <2>1. PICK a \in Asks :
          UserWrite(c, [api[c] EXCEPT !.desired = a.desired,
                          !.upgrade = IF a.desired = "upgrade" THEN a.upgrade ELSE @])
    BY <1>2 DEF Ask
  <2>2. a.desired \in Curations /\ a.upgrade \in Request
    BY AsksAssumption
  <2>3. [api[c] EXCEPT !.desired = a.desired,
           !.upgrade = IF a.desired = "upgrade" THEN a.upgrade ELSE @] \in Object
    BY <2>2 DEF TypeOK, Object
  <2> QED
    BY <1>1, <2>1, <2>3
<1>3. ASSUME NEW c \in Curators, AskRetry(c) PROVE TypeOK' /\ Shape'
  <2>1. PICK r \in RetryAsks : UserWrite(c, [api[c] EXCEPT !.op = r[2]])
    BY <1>3 DEF AskRetry
  <2>2. r[2] \in Operations
    BY AsksAssumption DEF Operations
  <2>3. [api[c] EXCEPT !.op = r[2]] \in Object
    BY <2>2 DEF TypeOK, Object
  <2> QED
    BY <1>1, <2>1, <2>3
<1>4. ASSUME NEW c \in Curators, Deliver(c) PROVE TypeOK' /\ Shape'
  BY <1>4 DEF Deliver, Wake, TypeOK, Shape
<1>5. ASSUME NEW c \in Curators, Relist(c) PROVE TypeOK' /\ Shape'
  BY <1>5, BoundAssumption DEF Relist, Wake, TypeOK, Shape
<1>6. ASSUME NEW c \in Curators, RefreshMCI(c) PROVE TypeOK' /\ Shape'
  BY <1>6 DEF RefreshMCI, TypeOK, Shape
<1>7. ASSUME Restart PROVE TypeOK' /\ Shape'
  <2>1. IdleWorker \in [pc : WorkerPCs, cc : Curators \cup {NoCurator},
                       held : Object, job : 0 .. MaxJobs]
    BY BlankTypes, BoundAssumption DEF IdleWorker, WorkerPCs, NoJob
  <2> QED
    BY <1>7, <2>1, BoundAssumption DEF Restart, TypeOK, Shape, IdleWorker
<1> QED
  BY <1>2, <1>3, <1>4, <1>5, <1>6, <1>7

\* Where Reconcile may lead.
LEMMA BranchTypes == \A o : Branch(o) \in WorkerPCs
  BY DEF Branch, WorkerPCs

\* Reconcile and the calls it makes keep the types and the shape.
LEMMA ControllerTypes ==
  ASSUME TypeOK, Shape,
         \/ \E c \in Curators : Reconcile(c)
         \/ Worker \/ CreateRefused \/ LookupFails \/ CallFails
  PROVE  TypeOK' /\ Shape'
<1>1. ASSUME NEW c \in Curators, Reconcile(c) PROVE TypeOK' /\ Shape'
  <2> DEFINE pc == IF NamedApart(c) /\ cache[c].job = NoJob THEN "dropCRB" ELSE Branch(cache[c])
  <2>1. pc \in WorkerPCs
    BY BranchTypes DEF WorkerPCs
  <2>2. IdleWorker \in [pc : WorkerPCs, cc : Curators \cup {NoCurator},
                       held : Object, job : 0 .. MaxJobs]
    BY BlankTypes, BoundAssumption DEF IdleWorker, WorkerPCs, NoJob
  <2>3. worker' = IF pc = "idle" THEN IdleWorker
                  ELSE [pc |-> pc, cc |-> c, held |-> cache[c], job |-> NoJob]
    BY <1>1 DEF Reconcile
  <2> HIDE DEF pc
  <2>4. worker' \in [pc : WorkerPCs, cc : Curators \cup {NoCurator},
                    held : Object, job : 0 .. MaxJobs]
    BY <2>1, <2>2, <2>3, BoundAssumption DEF TypeOK, NoJob
  <2>5. worker'.pc # "idle" => worker'.cc \in Curators
    BY <2>3 DEF IdleWorker
  <2> QED
    BY <1>1, <2>4, <2>5 DEF Reconcile, TypeOK, Shape
<1>2. ASSUME \/ DropCRB \/ DropServiceAccount \/ DropRoleBinding
             \/ DropClusterRoleBinding \/ DropOwnedCRB
             \/ ApplyServiceAccount \/ ApplyRoleBinding \/ IsHostedCluster
             \/ ApplyClusterRoleBinding \/ ApplyCRB
      PROVE  TypeOK' /\ Shape'
  <2>1. {"idle", "dropCRB", "dropSA", "dropRB", "dropClusterRB", "dropOwnedCRB", "applySA",
         "applyRB", "isHosted", "applyClusterRB", "applyCRB", "create"} \subseteq WorkerPCs
    BY DEF WorkerPCs
  <2>2. grants \in Grants
    BY DEF TypeOK
  <2>3. CASE DropCRB
    BY <2>1, <2>2, <2>3, GrantTypes, GrantStepTypes, NamespaceTypes, BranchTypes DEF DropCRB
  <2>4. CASE DropServiceAccount
    BY <2>1, <2>2, <2>4, GrantTypes, GrantStepTypes, NamespaceTypes DEF DropServiceAccount
  <2>5. CASE DropRoleBinding
    BY <2>1, <2>2, <2>5, GrantTypes, GrantStepTypes, NamespaceTypes DEF DropRoleBinding
  <2>6. CASE DropClusterRoleBinding
    BY <2>1, <2>2, <2>6, GrantTypes, GrantStepTypes, NamespaceTypes
       DEF DropClusterRoleBinding
  <2>7. CASE DropOwnedCRB
    BY <2>1, <2>2, <2>7, GrantTypes, GrantStepTypes, NamespaceTypes DEF DropOwnedCRB
  <2>8. CASE ApplyServiceAccount
    BY <2>1, <2>2, <2>8, GrantTypes, GrantStepTypes, NamespaceTypes DEF ApplyServiceAccount
  <2>9. CASE ApplyRoleBinding
    BY <2>1, <2>2, <2>9, GrantTypes, GrantStepTypes, NamespaceTypes DEF ApplyRoleBinding
  <2>10. CASE ApplyClusterRoleBinding
    BY <2>1, <2>2, <2>10, GrantTypes, GrantStepTypes, NamespaceTypes
       DEF ApplyClusterRoleBinding
  <2>11. CASE ApplyCRB
    BY <2>1, <2>2, <2>11, GrantTypes, GrantStepTypes, NamespaceTypes DEF ApplyCRB
  <2>12. CASE IsHostedCluster
    BY <2>1, <2>2, <2>12, GrantStepTypes DEF IsHostedCluster
  <2> QED
    BY <1>2, <2>3, <2>4, <2>5, <2>6, <2>7, <2>8, <2>9, <2>10, <2>11, <2>12
<1>3. /\ "idle" \in WorkerPCs
      /\ "applySA" \in WorkerPCs
      /\ worker.pc # "idle" => queue \cup {worker.cc} \subseteq Curators
  BY DEF TypeOK, Shape, WorkerPCs
<1>4. ASSUME Decide PROVE TypeOK' /\ Shape'
  <2>1. worker.pc # "idle"
    BY <1>4 DEF Decide
  <2>2. (\E pc \in WorkerPCs : Goto(pc)) \/ worker' = IdleWorker
    BY <1>3, <1>4 DEF Decide, Requeue
  <2>3. queue' \subseteq Curators
    BY <1>3, <1>4, <2>1 DEF Decide, Requeue, TypeOK
  <2>4. UNCHANGED <<api, cache, watch, jobs, grants, cluster, mci, edits, faults>>
    BY <1>4 DEF Decide
  <2> QED
    BY <2>1, <2>2, <2>3, <2>4, WorkerStepTypes DEF TypeOK
<1>5. ASSUME CreateJob PROVE TypeOK' /\ Shape'
  <2> DEFINE job == Launched(worker.cc, worker.held)
  <2>1. PICK j \in JobIds : /\ jobs' = [jobs EXCEPT ![j] = job]
                           /\ worker' = [worker EXCEPT !.pc = "record", !.job = j]
    BY <1>5 DEF CreateJob
  <2>2. worker.cc \in Curators /\ worker.held \in Object
    BY <1>5 DEF CreateJob, TypeOK, Shape
  <2>3. Containers(worker.held, Hooks) \in Seq(Steps)
        /\ EndsInDone(Containers(worker.held, Hooks))
    BY <1>5, ContainersShape DEF CreateJob
  <2>4. JobKind(worker.held) \in Curations \cup Retries
    BY <2>2 DEF JobKind, PosthookOnly, Object
  <2>5. "" \in Curations
    BY DEF Curations
  <2>6. job = [pc |-> "pending", cc |-> worker.cc, kind |-> JobKind(worker.held),
               todo |-> Containers(worker.held, Hooks), held |-> NoObject, local |-> "",
               msg |-> NoCondition, buf |-> NoObject, reported |-> FALSE]
    <3> DEFINE kind == JobKind(worker.held)
               todo == Containers(worker.held, Hooks)
    <3>1. job = [UnusedJob EXCEPT !.pc = "pending", !.cc = worker.cc, !.kind = kind,
                                  !.todo = todo]
      BY DEF Launched
    <3> HIDE DEF kind, todo
    <3> QED
      BY <3>1 DEF UnusedJob, kind, todo
  <2> HIDE DEF job
  <2>7. job \in Job
    BY <2>2, <2>3, <2>4, <2>5, <2>6, BlankTypes DEF Job
  <2>8. job.cc \in Curators /\ EndsInDone(job.todo)
    BY <2>2, <2>3, <2>6
  <2>9. jobs' \in [JobIds -> Job]
    BY <2>1, <2>7 DEF TypeOK
  <2>10. worker' \in [pc : WorkerPCs, cc : Curators \cup {NoCurator},
                     held : Object, job : 0 .. MaxJobs]
    <3>1. "record" \in WorkerPCs /\ j \in 0 .. MaxJobs
      BY BoundAssumption DEF WorkerPCs, JobIds
    <3>2. worker \in [pc : WorkerPCs, cc : Curators \cup {NoCurator},
                     held : Object, job : 0 .. MaxJobs]
      BY DEF TypeOK
    <3> QED
      BY <2>1, <3>1, <3>2
  <2>11. worker'.cc \in Curators
    BY <2>1, <2>2 DEF TypeOK
  <2>12. TypeOK'
    BY <1>5, <2>9, <2>10 DEF CreateJob, TypeOK
  <2>13. \A i \in JobIds : jobs'[i] = IF i = j THEN job ELSE jobs[i]
    BY <2>1 DEF TypeOK
  <2>14. Shape'
    BY <2>8, <2>11, <2>13 DEF Shape
  <2> QED
    BY <2>12, <2>14
<1>6. ASSUME CreateRefused PROVE TypeOK' /\ Shape'
  <2>1. worker.pc # "idle" /\ Goto("idle")
    BY <1>6 DEF CreateRefused
  <2>2. faults' \in 0 .. MaxFaults
    BY <1>6, BoundAssumption DEF CreateRefused, TypeOK
  <2>3. UNCHANGED <<api, cache, watch, queue, jobs, grants, cluster, mci, edits>>
    BY <1>6 DEF CreateRefused
  <2> QED
    BY <1>3, <2>1, <2>2, <2>3, WorkerStepTypes DEF TypeOK
<1>7. ASSUME RecordJobName PROVE TypeOK' /\ Shape'
  <2>1. worker.pc # "idle" /\ worker.cc \in Curators
    BY <1>7 DEF RecordJobName, Shape
  <2>2. WithJob(cache[worker.cc], worker.job) \in Object
    BY <2>1, StatusWrites, BoundAssumption DEF TypeOK
  <2>3. api' \in [Curators -> Object] /\ watch' \in [Curators -> SUBSET Object]
    BY <1>7, <2>1, <2>2, PutType DEF RecordJobName, apiVars, TypeOK
  <2>4. (\E pc \in WorkerPCs : Goto(pc)) \/ worker' = IdleWorker
    BY <1>3, <1>7 DEF RecordJobName, Requeue
  <2>5. queue' \subseteq Curators
    BY <1>3, <1>7, <2>1 DEF RecordJobName, Requeue, TypeOK
  <2>6. UNCHANGED <<cache, jobs, grants, cluster, mci, edits, faults>>
    BY <1>7 DEF RecordJobName
  <2> QED
    BY <2>1, <2>3, <2>4, <2>5, <2>6, WorkerStepTypes DEF TypeOK
<1>8. ASSUME CallFails PROVE TypeOK' /\ Shape'
  <2>1. worker.pc # "idle" /\ worker' = IdleWorker /\ queue' = queue \cup {worker.cc}
    BY <1>8 DEF CallFails, Requeue
  <2>2. faults' \in 0 .. MaxFaults
    BY <1>8, BoundAssumption DEF CallFails, TypeOK
  <2>3. UNCHANGED <<api, cache, watch, jobs, grants, cluster, mci, edits>>
    BY <1>8 DEF CallFails
  <2> QED
    BY <1>3, <2>1, <2>2, <2>3, WorkerStepTypes DEF TypeOK
<1>9. ASSUME LookupFails PROVE TypeOK' /\ Shape'
  <2>1. worker.pc # "idle" /\ \E pc \in {"create", "idle"} : Goto(pc)
    BY <1>9 DEF LookupFails
  <2>2. "create" \in WorkerPCs
    BY DEF WorkerPCs
  <2>3. faults' \in 0 .. MaxFaults
    BY <1>9, BoundAssumption DEF LookupFails, TypeOK
  <2>4. UNCHANGED <<api, cache, watch, queue, jobs, grants, cluster, mci, edits>>
    BY <1>9 DEF LookupFails
  <2> QED
    BY <1>3, <2>1, <2>2, <2>3, <2>4, WorkerStepTypes DEF TypeOK
<1> QED
  BY <1>1, <1>2, <1>4, <1>5, <1>6, <1>7, <1>8, <1>9 DEF Worker

\* A pod's step that touches only its own state, the live object and the budget.
LEMMA PodOnlyTypes ==
  ASSUME TypeOK, Shape, NEW j \in JobIds, NEW job \in Job, jobs[j].pc # "none",
         job.cc = jobs[j].cc,
         job.pc \in RunningPCs \cup {"pending"} => EndsInDone(job.todo),
         PodOnly(j, job),
         api' \in [Curators -> Object], watch' \in [Curators -> SUBSET Object]
  PROVE  TypeOK' /\ Shape'
  BY PodStepTypes DEF PodOnly, TypeOK

\* A move of the program counter alone.
LEMMA MoveTypes ==
  ASSUME TypeOK, Shape, NEW j \in JobIds, NEW pc \in RunningPCs,
         jobs[j].pc \in RunningPCs \cup {"pending"}
  PROVE  /\ [jobs[j] EXCEPT !.pc = pc] \in Job
         /\ [jobs[j] EXCEPT !.pc = pc].cc = jobs[j].cc
         /\ EndsInDone([jobs[j] EXCEPT !.pc = pc].todo)
<1>1. jobs[j] \in Job /\ EndsInDone(jobs[j].todo)
  BY DEF TypeOK, Shape
<1> QED
  BY <1>1 DEF Job

\* Every step of a pod keeps the types and the shape.
LEMMA PodTypes ==
  ASSUME TypeOK, Shape, NEW j \in JobIds, Pod(j) \/ KillPod(j)
  PROVE  TypeOK' /\ Shape'
<1>1. /\ jobs[j] \in Job
      /\ api \in [Curators -> Object]
      /\ watch \in [Curators -> SUBSET Object]
      /\ jobs[j].pc # "none" => Owner(j) \in Curators
  BY DEF TypeOK, Shape, Owner
<1>2. /\ \A pc \in RunningPCs : pc \notin {"none", "pending", "succeeded", "failed"}
      /\ StatusPCs \subseteq RunningPCs
      /\ {"get", "jobcond", "stepcond", "work", "progress", "stepfail", "final",
          "donepatch", "failpatch", "jobfail"} = RunningPCs
  BY DEF RunningPCs, StatusPCs
<1>3. ASSUME StartPod(j) PROVE TypeOK' /\ Shape'
  <2>1. jobs[j].pc = "pending" /\ PodOnly(j, [jobs[j] EXCEPT !.pc = "get"]) /\ UNCHANGED apiVars
    BY <1>3 DEF StartPod
  <2> QED
    BY <1>1, <1>2, <2>1, MoveTypes, PodOnlyTypes DEF apiVars
<1>4. ASSUME GetCurator(j) PROVE TypeOK' /\ Shape'
  <2> DEFINE o == api[Owner(j)]
             job == [jobs[j] EXCEPT !.pc = "jobcond", !.held = o, !.local = LocalCuration(o),
                                    !.msg = InProgress(o.job, LocalCuration(o))]
  <2>1. jobs[j].pc = "get" /\ o \in Object /\ EndsInDone(jobs[j].todo)
    BY <1>1, <1>2, <1>4 DEF GetCurator, Shape
  <2>2. LocalCuration(o) \in Curations
    BY <2>1, LocalCurationType
  <2>3. InProgress(o.job, LocalCuration(o)) \in Condition
    BY <2>1, <2>2, BlankTypes, ConditionTypes DEF Object
  <2>4. PodOnly(j, IF MayCall(j) THEN job ELSE Over(j, "failed")) /\ UNCHANGED apiVars
    BY <1>4 DEF GetCurator
  <2> HIDE DEF o
  <2>5. job \in Job /\ job.cc = jobs[j].cc /\ job.todo = jobs[j].todo
    BY <1>1, <1>2, <2>1, <2>2, <2>3 DEF Job
  <2> HIDE DEF job
  <2>6. CASE MayCall(j)
    BY <1>1, <2>1, <2>4, <2>5, <2>6, PodOnlyTypes DEF apiVars
  <2>7. CASE ~MayCall(j)
    BY <1>1, <1>2, <2>1, <2>4, <2>7, LeavingTypes, PodOnlyTypes DEF apiVars
  <2> QED
    BY <2>6, <2>7
<1>5. ASSUME ReadForStatus(j) PROVE TypeOK' /\ Shape'
  <2> DEFINE job == [jobs[j] EXCEPT !.buf = api[Owner(j)]]
             pc == AfterError(jobs[j].pc)
  <2>1. /\ jobs[j].pc \in StatusPCs
        /\ PodOnly(j, IF MayCall(j) THEN job ELSE Failing(j, pc))
        /\ UNCHANGED apiVars
    BY <1>5 DEF ReadForStatus
  <2>2. jobs[j].pc \in RunningPCs /\ EndsInDone(jobs[j].todo) /\ api[Owner(j)] \in Object
    BY <1>1, <1>2, <2>1 DEF Shape
  <2>3. job \in Job /\ job.cc = jobs[j].cc /\ job.todo = jobs[j].todo
    BY <1>1, <2>2 DEF Job
  <2>4. pc \in {"failed", "jobfail"}
    BY AfterErrorType
  <2> HIDE DEF job, pc
  <2>5. CASE MayCall(j)
    BY <1>1, <1>2, <2>1, <2>2, <2>3, <2>5, PodOnlyTypes DEF apiVars
  <2>6. CASE ~MayCall(j)
    BY <1>1, <1>2, <2>1, <2>2, <2>4, <2>6, FailingShape, PodOnlyTypes DEF apiVars
  <2> QED
    BY <2>5, <2>6
<1>6. ASSUME UpdateStatus(j) PROVE TypeOK' /\ Shape'
  <2>1. jobs[j].pc \in StatusPCs
    BY <1>6 DEF UpdateStatus
  <2>2. CASE MayCall(j) /\ Current(Owner(j), jobs[j].buf)
    <3>1. Put(Owner(j), Written(j)) /\ PodOnly(j, AfterWrite(j))
      BY <1>6, <2>2 DEF UpdateStatus
    <3>2. api' \in [Curators -> Object] /\ watch' \in [Curators -> SUBSET Object]
      BY <1>1, <1>2, <2>1, <3>1, WrittenType, PutType
    <3> QED
      BY <1>2, <2>1, <3>1, <3>2, AfterWriteType, PodOnlyTypes
  <2>3. CASE ~(MayCall(j) /\ Current(Owner(j), jobs[j].buf))
    <3> DEFINE pc == AfterError(jobs[j].pc)
    <3>1. PodOnly(j, Failing(j, pc)) /\ UNCHANGED apiVars
      BY <1>6, <2>3 DEF UpdateStatus
    <3>2. pc \in {"failed", "jobfail"}
      BY AfterErrorType
    <3> HIDE DEF pc
    <3> QED
      BY <1>1, <1>2, <2>1, <3>1, <3>2, FailingShape, PodOnlyTypes DEF apiVars
  <2> QED
    BY <2>2, <2>3
<1>7. ASSUME WorkDone(j) PROVE TypeOK' /\ Shape'
  <2> DEFINE v == jobs[j].held.upgrade.version
  <2>1. jobs[j].pc = "work" /\ v \in Nat
    BY <1>1, <1>7 DEF WorkDone, Job, Object, Request
  <2>2. jobs' = [jobs EXCEPT ![j] = [jobs[j] EXCEPT !.pc = "final"]]
    <3>1. jobs' = [jobs EXCEPT ![j].pc = "final"]
      BY <1>7 DEF WorkDone
    <3> QED
      BY <3>1 DEF TypeOK
  <2>3. UNCHANGED <<api, cache, watch, queue, worker, grants, edits, faults>>
    BY <1>7 DEF WorkDone
  <2>4. \/ cluster' = cluster
        \/ cluster' = [cluster EXCEPT ![Owner(j)] = v]
    BY <1>7 DEF WorkDone
  <2>5. \/ mci' = mci
        \/ mci' = [mci EXCEPT ![Owner(j)] = {v}]
    BY <1>7 DEF WorkDone
  <2> HIDE DEF v
  <2>6. cluster' \in [Curators -> Nat] /\ mci' \in [Curators -> SUBSET Nat]
    BY <2>1, <2>4, <2>5 DEF TypeOK
  <2> QED
    BY <1>1, <1>2, <2>1, <2>2, <2>3, <2>6, MoveTypes, PodStepTypes DEF TypeOK
<1>8. ASSUME WorkFails(j) PROVE TypeOK' /\ Shape'
  <2>1. jobs[j].pc = "work" /\ UNCHANGED apiVars
    BY <1>8 DEF WorkFails
  <2>2. \/ PodOnly(j, [jobs[j] EXCEPT !.pc = "stepfail"])
        \/ PodOnly(j, Failing(j, "jobfail"))
    BY <1>8 DEF WorkFails
  <2> QED
    BY <1>1, <1>2, <2>1, <2>2, MoveTypes, FailingShape, PodOnlyTypes DEF apiVars
<1>9. ASSUME WorkReports(j) PROVE TypeOK' /\ Shape'
  <2>1. /\ jobs[j].pc = "work" /\ UNCHANGED apiVars
        /\ PodOnly(j, [jobs[j] EXCEPT !.pc = "progress"])
    BY <1>9 DEF WorkReports
  <2> QED
    BY <1>1, <1>2, <2>1, MoveTypes, PodOnlyTypes DEF apiVars
<1>10. ASSUME DonePatch(j) PROVE TypeOK' /\ Shape'
  <2> DEFINE held == jobs[j].held
             new == updateDoneClusterCurator(held.desired, api[Owner(j)])
             m == Ended(held.job, jobs[j].local, held.upgrade, FALSE)
             job == [jobs[j] EXCEPT !.pc = "final", !.held = new, !.msg = m]
  <2>1. jobs[j].pc = "donepatch" /\ EndsInDone(jobs[j].todo) /\ api[Owner(j)] \in Object
    BY <1>1, <1>2, <1>10 DEF DonePatch, Shape
  <2>2. new \in Object
    BY <2>1, ClosingWrites
  <2>3. m \in Condition
    BY <1>1, ConditionTypes DEF Job, Object
  <2>4. CASE MayCall(j)
    <3>1. Put(Owner(j), new) /\ PodOnly(j, job)
      BY <1>10, <2>4 DEF DonePatch
    <3> HIDE DEF new, m
    <3>2. job \in Job /\ job.cc = jobs[j].cc /\ job.todo = jobs[j].todo
      BY <1>1, <1>2, <2>2, <2>3 DEF Job
    <3> HIDE DEF job
    <3>3. api' \in [Curators -> Object] /\ watch' \in [Curators -> SUBSET Object]
      BY <1>1, <2>1, <2>2, <3>1, PutType
    <3> QED
      BY <2>1, <3>1, <3>2, <3>3, PodOnlyTypes
  <2>5. CASE ~MayCall(j)
    <3>1. PodOnly(j, Failing(j, AfterError("donepatch"))) /\ UNCHANGED apiVars
      BY <1>10, <2>5 DEF DonePatch
    <3> QED
      BY <1>1, <1>2, <2>1, <3>1, AfterErrorType, FailingShape, PodOnlyTypes DEF apiVars
  <2> QED
    BY <2>4, <2>5
<1>11. ASSUME FailPatch(j) PROVE TypeOK' /\ Shape'
  <2> DEFINE new == updateFailingClusterCurator(jobs[j].held.desired, api[Owner(j)])
  <2>1. jobs[j].pc = "failpatch" /\ PodOnly(j, Over(j, "failed"))
    BY <1>11 DEF FailPatch
  <2>2. Put(Owner(j), new) \/ UNCHANGED apiVars
    BY <1>11 DEF FailPatch
  <2>3. new \in Object
    BY <1>1, <2>1, ClosingWrites
  <2> HIDE DEF new
  <2>4. api' \in [Curators -> Object] /\ watch' \in [Curators -> SUBSET Object]
    BY <1>1, <2>1, <2>2, <2>3, PutType DEF apiVars
  <2> QED
    BY <1>2, <2>1, <2>4, LeavingTypes, PodOnlyTypes
<1>12. ASSUME KillPod(j) PROVE TypeOK' /\ Shape'
  <2>1. faults' \in 0 .. MaxFaults
    BY <1>12, BoundAssumption DEF KillPod, TypeOK
  <2> QED
    BY <1>2, <1>12, <2>1, LeavingTypes, PodStepTypes DEF KillPod, TypeOK
<1> QED
  BY <1>3, <1>4, <1>5, <1>6, <1>7, <1>8, <1>9, <1>10, <1>11, <1>12 DEF Pod

\* Every step keeps the types and the shape.
LEMMA NextTypes == TypeOK /\ Shape /\ [Next]_vars => TypeOK' /\ Shape'
<1> SUFFICES ASSUME TypeOK, Shape, [Next]_vars PROVE TypeOK' /\ Shape'
  OBVIOUS
<1>1. CASE Next
  BY <1>1, EnvironmentTypes, ControllerTypes, PodTypes DEF Next, Informer
<1>2. CASE UNCHANGED vars
  BY <1>2 DEF vars, TypeOK, Shape
<1> QED
  BY <1>1, <1>2

\* Type correctness of the curation's life, together with its shape.
THEOREM TypeCorrect == Spec => []TypeOK /\ []Shape
  BY InitTypes, NextTypes, PTL DEF Spec

-----------------------------------------------------------------------------
(* Why a Job never starts without its access: the one worker both grants      *)
(* and revokes, so what it has granted on its way to CreateJob is still there *)
(* when it arrives, whatever a cleanup, a failed call or a restart did before. *)

\* The namespace of a hosted cluster is not one where curations of another namespace
\* run: there, the RoleBinding "curator" of one curator would stand in for another's.
NamespacesApart ==
    \A c \in HostedClusters, d \in Curators : ClusterOf[c] = NS(d) => NS(c) = NS(d)

\* The calls that follow the first grant.
GrantingPCs == {"applyRB", "isHosted", "applyClusterRB", "applyCRB", "create"}

\* What the worker has granted by the time it makes each call, and that the binding
\* "curator" of a curator's namespace, if there is one, is that namespace's own.
GrantedSoFar ==
    /\ \A c \in Curators : grants.rb[NS(c)] \in {NoNamespace, NS(c)}
    /\ worker.pc \in GrantingPCs => NS(worker.cc) \in grants.sa
    /\ worker.pc \in GrantingPCs \ {"applyRB"} => grants.rb[NS(worker.cc)] = NS(worker.cc)
    /\ worker.pc \in {"applyClusterRB", "applyCRB"} => worker.cc \in HostedClusters
    /\ worker.pc = "create" /\ worker.cc \in HostedClusters /\ faults = 0
         => grants.crb = NS(worker.cc)

\* The calls of the worker on its way through the access objects.
AccessCall ==
    \/ DropCRB \/ DropServiceAccount \/ DropRoleBinding
    \/ DropClusterRoleBinding \/ DropOwnedCRB
    \/ ApplyServiceAccount \/ ApplyRoleBinding \/ IsHostedCluster
    \/ ApplyClusterRoleBinding \/ ApplyCRB

\* They find a worker that is at a curator, and where they lead.
LEMMA AccessCallTypes ==
  ASSUME TypeOK, Shape, AccessCall
  PROVE  /\ worker.cc \in Curators
         /\ \A d \in Curators : NS(d) \in Namespaces
         /\ grants.sa \subseteq Namespaces
         /\ grants.rb \in [Namespaces -> Subject]
         /\ grants \in [sa : SUBSET Namespaces, rb : [Namespaces -> Subject], crb : Subject]
         /\ \A pc \in {"idle", "dropSA", "dropRB", "dropClusterRB", "dropOwnedCRB", "decide",
                       "applySA", "applyRB", "isHosted", "applyClusterRB", "applyCRB",
                       "create"} :
              Goto(pc) => worker'.pc = pc /\ (pc # "idle" => worker'.cc = worker.cc)
<1>1. worker.pc # "idle"
  BY DEF AccessCall, DropCRB, DropServiceAccount, DropRoleBinding, DropClusterRoleBinding,
         DropOwnedCRB, ApplyServiceAccount, ApplyRoleBinding, IsHostedCluster,
         ApplyClusterRoleBinding, ApplyCRB, Grant
<1>2. worker.cc \in Curators /\ grants \in Grants
  BY <1>1 DEF Shape, TypeOK
<1>3. {"idle", "dropSA", "dropRB", "dropClusterRB", "dropOwnedCRB", "decide", "applySA",
       "applyRB", "isHosted", "applyClusterRB", "applyCRB", "create"} \subseteq WorkerPCs
  BY DEF WorkerPCs
<1>4. ASSUME NEW pc \in WorkerPCs, Goto(pc)
      PROVE  worker'.pc = pc /\ (pc # "idle" => worker'.cc = worker.cc)
  BY <1>4, WorkerTypes DEF TypeOK
<1> QED
  BY <1>2, <1>3, <1>4, NamespaceTypes DEF Grants

\* Each of them keeps what has been granted so far.
LEMMA GrantCalls ==
  ASSUME NamespacesApart, TypeOK, Shape, GrantedSoFar, AccessCall
  PROVE  GrantedSoFar'
<1> DEFINE c == worker.cc
<1>1. c \in Curators
      /\ grants \in [sa : SUBSET Namespaces, rb : [Namespaces -> Subject], crb : Subject]
  BY AccessCallTypes
<1>2. NS(c) \in Namespaces /\ \A d \in Curators : NS(d) \in Namespaces
  BY <1>1, AccessCallTypes
<1>3. /\ grants.sa \subseteq Namespaces
      /\ grants.rb \in [Namespaces -> Subject]
  BY AccessCallTypes
<1>4. \A pc \in {"idle", "dropSA", "dropRB", "dropClusterRB", "dropOwnedCRB", "decide",
                "applySA", "applyRB", "isHosted", "applyClusterRB", "applyCRB", "create"} :
        Goto(pc) => worker'.pc = pc /\ (pc # "idle" => worker'.cc = c)
  BY AccessCallTypes
\* A revoked binding, and a worker that has yet to grant anything.
<1>5. ASSUME \A d \in Curators : grants'.rb[NS(d)] \in {NoNamespace, NS(d)},
             worker'.pc \notin GrantingPCs
      PROVE  GrantedSoFar'
  BY <1>5 DEF GrantedSoFar, GrantingPCs
<1>6. CASE DropCRB \/ DropServiceAccount \/ DropOwnedCRB
  <2>1. PICK pc \in {"idle", "dropSA", "dropRB", "decide", "applySA"} : Goto(pc)
    BY <1>6 DEF DropCRB, DropServiceAccount, DropOwnedCRB, Grant, Branch
  <2>2. grants'.rb = grants.rb
    BY <1>1, <1>6 DEF DropCRB, DropServiceAccount, DropOwnedCRB, Grant,
                      CleanupCuratorCRBIfOwned, DeleteServiceAccount
  <2> QED
    BY <1>4, <1>5, <2>1, <2>2 DEF GrantedSoFar, GrantingPCs
<1>7. CASE DropRoleBinding \/ DropClusterRoleBinding
  <2>1. PICK pc \in {"idle", "dropClusterRB", "dropOwnedCRB"} : Goto(pc)
    BY <1>7 DEF DropRoleBinding, DropClusterRoleBinding, Grant
  <2>2. PICK n \in Namespaces : grants' = DeleteRoleBinding(grants, n)
    BY <1>1, <1>2, <1>7, NamespaceTypes DEF DropRoleBinding, DropClusterRoleBinding, Grant
  <2>3. \A m \in Namespaces : grants'.rb[m] = IF m = n THEN NoNamespace ELSE grants.rb[m]
    BY <1>1, <1>3, <2>2 DEF DeleteRoleBinding
  <2> QED
    BY <1>2, <1>4, <1>5, <2>1, <2>3 DEF GrantedSoFar, GrantingPCs
<1>8. CASE ApplyServiceAccount
  <2>1. Goto("applyRB") /\ grants' = CreateServiceAccount(grants, NS(c))
    BY <1>8 DEF ApplyServiceAccount, Grant
  <2>2. grants'.rb = grants.rb /\ NS(c) \in grants'.sa
    BY <1>1, <2>1 DEF CreateServiceAccount
  <2> QED
    BY <1>4, <2>1, <2>2 DEF GrantedSoFar, GrantingPCs
<1>9. CASE ApplyRoleBinding
  <2>1. /\ worker.pc = "applyRB"
        /\ grants' = CreateRoleBinding(grants, NS(c), NS(c))
        /\ Goto("isHosted")
    BY <1>9 DEF ApplyRoleBinding, Grant
  <2>2. \A m \in Namespaces :
          grants'.rb[m] = IF m = NS(c) /\ grants.rb[m] = NoNamespace THEN NS(c)
                          ELSE grants.rb[m]
    BY <1>1, <1>2, <1>3, <2>1 DEF CreateRoleBinding
  <2>3. grants'.sa = grants.sa
    BY <1>1, <2>1 DEF CreateRoleBinding
  <2>4. NS(c) \in grants.sa /\ grants.rb[NS(c)] \in {NoNamespace, NS(c)}
    BY <1>1, <2>1 DEF GrantedSoFar, GrantingPCs
  <2>5. \A d \in Curators : grants'.rb[NS(d)] \in {NoNamespace, NS(d)}
    BY <1>2, <2>2 DEF GrantedSoFar
  <2>6. grants'.rb[NS(c)] = NS(c) /\ NS(c) \in grants'.sa
    BY <1>2, <2>2, <2>3, <2>4
  <2> QED
    BY <1>4, <2>1, <2>5, <2>6 DEF GrantedSoFar
<1>10. CASE ApplyClusterRoleBinding
  <2>1. /\ worker.pc = "applyClusterRB"
        /\ grants' = CreateRoleBinding(grants, ClusterOf[c], NS(c))
        /\ Goto("applyCRB")
    BY <1>10 DEF ApplyClusterRoleBinding, Grant
  <2>2. /\ NS(c) \in grants.sa /\ grants.rb[NS(c)] = NS(c)
        /\ c \in HostedClusters
    BY <2>1 DEF GrantedSoFar, GrantingPCs
  <2>3. \A m \in Namespaces :
          grants'.rb[m] = IF m = ClusterOf[c] /\ grants.rb[m] = NoNamespace THEN NS(c)
                          ELSE grants.rb[m]
    BY <1>1, <1>2, <1>3, <2>1, NamespaceTypes DEF CreateRoleBinding
  <2>4. grants'.sa = grants.sa
    BY <1>1, <2>1 DEF CreateRoleBinding
  <2>5. \A d \in Curators : grants'.rb[NS(d)] \in {NoNamespace, NS(d)}
    BY <1>2, <2>2, <2>3 DEF GrantedSoFar, NamespacesApart
  <2>6. NS(c) \in grants'.sa /\ grants'.rb[NS(c)] = NS(c)
    BY <1>2, <2>2, <2>3, <2>4, NamespaceAssumption
  <2> QED
    BY <1>4, <2>1, <2>2, <2>5, <2>6 DEF GrantedSoFar
<1>11. CASE ApplyCRB
  <2>1. worker.pc = "applyCRB" /\ grants' = UpsertCRB(grants, NS(c)) /\ Goto("create")
    BY <1>11 DEF ApplyCRB, Grant
  <2>2. grants'.sa = grants.sa /\ grants'.rb = grants.rb /\ grants'.crb = NS(c)
    BY <1>1, <2>1 DEF UpsertCRB
  <2> QED
    BY <1>4, <2>1, <2>2 DEF GrantedSoFar, GrantingPCs
<1>12. CASE IsHostedCluster
  <2>1. /\ worker.pc = "isHosted" /\ grants' = grants
        /\ Goto(IF c \in HostedClusters THEN "applyClusterRB" ELSE "create")
    BY <1>12 DEF IsHostedCluster, Grant
  <2>2. NS(c) \in grants.sa /\ grants.rb[NS(c)] = NS(c)
    BY <2>1 DEF GrantedSoFar, GrantingPCs
  <2>3. CASE c \in HostedClusters
    BY <1>4, <2>1, <2>2, <2>3 DEF GrantedSoFar
  <2>4. CASE c \notin HostedClusters
    BY <1>4, <2>1, <2>2, <2>4 DEF GrantedSoFar
  <2> QED
    BY <2>3, <2>4
<1> QED
  BY <1>6, <1>7, <1>8, <1>9, <1>10, <1>11, <1>12 DEF AccessCall

\* The other steps leave the access alone, and the worker where it is, or away from
\* the granting; or the lookup of the HostedCluster fails and it goes to CreateJob.
LEMMA OtherSteps ==
  ASSUME TypeOK, Shape, [Next]_vars, ~AccessCall
  PROVE  /\ UNCHANGED grants
         /\ \/ UNCHANGED worker
            \/ worker'.pc \in {"idle", "dropCRB", "decide", "applySA", "record"}
            \/ worker'.pc = "dropSA" /\ ~NamedApart(worker'.cc)
            \/ /\ worker.pc = "isHosted"
               /\ worker'.pc = "create"
               /\ worker'.cc = worker.cc
               /\ faults' # 0
<1>1. ASSUME NEW c \in Curators,
             \/ Ask(c) \/ AskRetry(c) \/ Deliver(c) \/ Relist(c) \/ RefreshMCI(c)
      PROVE  UNCHANGED <<grants, worker>>
  BY <1>1 DEF Ask, AskRetry, UserWrite, Deliver, Relist, RefreshMCI
<1>2. ASSUME NEW j \in JobIds, Pod(j) \/ KillPod(j)
      PROVE  UNCHANGED <<grants, worker>>
  <2>1. CASE WorkDone(j) \/ KillPod(j)
    BY <2>1 DEF WorkDone, KillPod
  <2>2. CASE ~(WorkDone(j) \/ KillPod(j))
    BY <1>2, <2>2 DEF Pod, StartPod, GetCurator, ReadForStatus, UpdateStatus, WorkFails,
                      WorkReports, DonePatch, FailPatch, PodOnly
  <2> QED
    BY <2>1, <2>2
<1>3. ASSUME NEW c \in Curators, Reconcile(c)
      PROVE  /\ UNCHANGED grants
             /\ \/ worker'.pc \in {"idle", "dropCRB", "decide", "applySA"}
                \/ worker'.pc = "dropSA" /\ ~NamedApart(worker'.cc)
  <2> DEFINE pc == IF NamedApart(c) /\ cache[c].job = NoJob THEN "dropCRB" ELSE Branch(cache[c])
  <2>1. \/ pc \in {"idle", "dropCRB", "decide", "applySA"}
        \/ pc = "dropSA" /\ ~NamedApart(c)
    BY DEF Branch
  <2>2. UNCHANGED grants
        /\ worker' = IF pc = "idle" THEN IdleWorker
                     ELSE [pc |-> pc, cc |-> c, held |-> cache[c], job |-> NoJob]
    BY <1>3 DEF Reconcile
  <2> HIDE DEF pc
  <2> QED
    BY <2>1, <2>2 DEF IdleWorker
<1>4. ASSUME Decide \/ CreateRefused \/ CallFails \/ RecordJobName \/ Restart
      PROVE  UNCHANGED grants /\ worker'.pc \in {"idle", "applySA"}
  <2>1. \/ worker' = IdleWorker
        \/ Decide /\ Goto("applySA")
    BY <1>4 DEF Decide, CreateRefused, CallFails, RecordJobName, Restart, Requeue, Goto
  <2>2. UNCHANGED grants
    BY <1>4 DEF Decide, CreateRefused, CallFails, RecordJobName, Restart
  <2>3. "applySA" \in WorkerPCs
    BY DEF WorkerPCs
  <2> QED
    BY <2>1, <2>2, <2>3, WorkerTypes DEF IdleWorker
<1>5. ASSUME CreateJob
      PROVE  UNCHANGED grants /\ worker'.pc = "record"
  <2>1. /\ UNCHANGED grants
        /\ \E j \in JobIds : worker' = [worker EXCEPT !.pc = "record", !.job = j]
    BY <1>5 DEF CreateJob
  <2> QED
    BY <2>1 DEF TypeOK
<1>6. ASSUME LookupFails
      PROVE  /\ UNCHANGED grants
             /\ \/ worker'.pc = "idle"
                \/ /\ worker.pc = "isHosted"
                   /\ worker'.pc = "create"
                   /\ worker'.cc = worker.cc
                   /\ faults' # 0
  <2>1. /\ UNCHANGED grants /\ faults' = faults + 1
        /\ Goto("idle") \/ (worker.pc = "isHosted" /\ Goto("create"))
    BY <1>6 DEF LookupFails
  <2>2. faults' # 0
    BY <2>1, BoundAssumption DEF TypeOK
  <2>3. {"idle", "create"} \subseteq WorkerPCs
    BY DEF WorkerPCs
  <2> QED
    BY <2>1, <2>2, <2>3, WorkerTypes DEF TypeOK
<1>7. CASE UNCHANGED vars
  BY <1>7 DEF vars
<1> QED
  BY <1>1, <1>2, <1>3, <1>4, <1>5, <1>6, <1>7 DEF Next, Informer, Worker, AccessCall

\* What has failed stays counted.
LEMMA FailuresCount ==
  ASSUME TypeOK, [Next]_vars, faults # 0 PROVE faults' # 0
<1>1. faults \in Nat
  BY BoundAssumption DEF TypeOK
<1>2. ASSUME NEW c \in Curators,
             \/ Ask(c) \/ AskRetry(c) \/ Deliver(c) \/ Reconcile(c) \/ RefreshMCI(c)
      PROVE  faults' = faults
  BY <1>2 DEF Ask, AskRetry, UserWrite, Deliver, Reconcile, RefreshMCI
<1>3. ASSUME NEW j \in JobIds, Pod(j) PROVE faults' = faults
  BY <1>3 DEF Pod, StartPod, GetCurator, ReadForStatus, UpdateStatus, WorkDone, WorkFails,
              WorkReports, DonePatch, FailPatch, PodOnly
<1>4. CASE Worker
  BY <1>4 DEF Worker, DropCRB, DropServiceAccount, DropRoleBinding, DropClusterRoleBinding,
              DropOwnedCRB, ApplyServiceAccount, ApplyRoleBinding, IsHostedCluster,
              ApplyClusterRoleBinding, ApplyCRB, Decide, CreateJob, RecordJobName, Grant
<1>5. CASE \/ CreateRefused \/ LookupFails \/ CallFails \/ Restart
           \/ \E c \in Curators : Relist(c)
           \/ \E j \in JobIds : KillPod(j)
  <2>1. faults' \in {faults, faults + 1}
    BY <1>5 DEF CreateRefused, LookupFails, CallFails, Restart, Relist, KillPod
  <2> QED
    BY <1>1, <2>1
<1>6. CASE UNCHANGED vars
  BY <1>6 DEF vars
<1> QED
  BY <1>2, <1>3, <1>4, <1>5, <1>6 DEF Next, Informer

\* Every step keeps what has been granted so far.
LEMMA NextGranted ==
  ASSUME NamespacesApart, TypeOK, Shape, GrantedSoFar, [Next]_vars
  PROVE  GrantedSoFar'
<1>1. CASE AccessCall
  BY <1>1, GrantCalls
<1>2. CASE ~AccessCall
  <2>1. UNCHANGED grants
    BY <1>2, OtherSteps
  <2>2. CASE UNCHANGED worker
    BY <2>1, <2>2, FailuresCount DEF GrantedSoFar
  <2>3. CASE /\ worker.pc = "isHosted"
             /\ worker'.pc = "create"
             /\ worker'.cc = worker.cc
             /\ faults' # 0
    BY <2>1, <2>3 DEF GrantedSoFar, GrantingPCs
  <2>4. CASE worker'.pc \notin GrantingPCs
    BY <2>1, <2>4 DEF GrantedSoFar, GrantingPCs
  <2>5. \/ UNCHANGED worker
        \/ /\ worker.pc = "isHosted"
           /\ worker'.pc = "create"
           /\ worker'.cc = worker.cc
           /\ faults' # 0
        \/ worker'.pc \notin GrantingPCs
    BY <1>2, OtherSteps DEF GrantingPCs
  <2> QED
    BY <2>2, <2>3, <2>4, <2>5
<1> QED
  BY <1>1, <1>2

\* Only CreateJob brings a Job into being, for the curator the worker is at.
LEMMA LaunchedByWorker ==
  ASSUME TypeOK, Shape, [Next]_vars, NEW j \in JobIds,
         jobs[j].pc = "none", jobs'[j].pc = "pending"
  PROVE  worker.pc = "create" /\ jobs'[j].cc = worker.cc
<1>1. jobs' # jobs
  OBVIOUS
<1>2. ASSUME NEW i \in JobIds, Pod(i) \/ KillPod(i) PROVE FALSE
  <2>1. jobs[i].pc # "none"
    BY <1>2 DEF Pod, StartPod, GetCurator, ReadForStatus, UpdateStatus, WorkDone, WorkFails,
                WorkReports, DonePatch, FailPatch, KillPod, RunningPCs, StatusPCs
  <2>2. PICK job : jobs' = [jobs EXCEPT ![i] = job]
    <3>1. CASE WorkDone(i)
      <4>1. jobs' = [jobs EXCEPT ![i].pc = "final"]
        BY <3>1 DEF WorkDone
      <4> QED
        BY <4>1
    <3>2. CASE KillPod(i)
      BY <3>2 DEF KillPod
    <3>3. CASE ~(WorkDone(i) \/ KillPod(i))
      BY <1>2, <3>3 DEF Pod, StartPod, GetCurator, ReadForStatus, UpdateStatus, WorkFails,
                        WorkReports, DonePatch, FailPatch, PodOnly
    <3> QED
      BY <3>1, <3>2, <3>3
  <2> QED
    BY <2>1, <2>2 DEF TypeOK
<1>3. CASE CreateJob
  <2>1. PICK i \in JobIds : jobs' = [jobs EXCEPT ![i] = Launched(worker.cc, worker.held)]
    BY <1>3 DEF CreateJob
  <2>2. jobs'[j] = Launched(worker.cc, worker.held)
    BY <2>1 DEF TypeOK
  <2> QED
    BY <1>3, <2>2 DEF CreateJob, Launched, UnusedJob
<1>4. CASE AccessCall \/ Decide \/ CreateRefused \/ LookupFails \/ CallFails
           \/ RecordJobName \/ Restart
  BY <1>1, <1>4 DEF AccessCall, DropCRB, DropServiceAccount, DropRoleBinding,
              DropClusterRoleBinding, DropOwnedCRB, ApplyServiceAccount, ApplyRoleBinding,
              IsHostedCluster, ApplyClusterRoleBinding, ApplyCRB, Decide, CreateRefused,
              LookupFails, CallFails, RecordJobName, Restart, Grant
<1>5. ASSUME NEW c \in Curators,
             \/ Ask(c) \/ AskRetry(c) \/ Deliver(c) \/ Relist(c) \/ RefreshMCI(c) \/ Reconcile(c)
      PROVE  jobs' = jobs
  BY <1>5 DEF Ask, AskRetry, UserWrite, Deliver, Relist, RefreshMCI, Reconcile
<1>6. CASE UNCHANGED vars
  BY <1>1, <1>6 DEF vars
<1> QED
  BY <1>1, <1>2, <1>3, <1>4, <1>5, <1>6 DEF Next, Informer, Worker, AccessCall

\* No Job comes into being without its ServiceAccount and the RoleBinding of its
\* namespace, in any interleaving of reconciles, cleanups, failures and restarts, nor
\* that of a hosted cluster without curator-crb as long as nothing has failed, if hosted
\* clusters' namespaces are apart.
THEOREM AccessGranted ==
  ASSUME NamespacesApart
  PROVE  Spec => GrantsBeforeLaunch
<1>1. Init => GrantedSoFar
  BY NamespaceTypes DEF Init, GrantedSoFar, GrantingPCs, NoGrants, IdleWorker
<1>2. TypeOK /\ Shape /\ GrantedSoFar /\ [Next]_vars => GrantedSoFar'
  BY NextGranted, NamespacesApart
<1>3. TypeOK /\ Shape /\ GrantedSoFar /\ [Next]_vars
        => [\A j \in JobIds :
              jobs[j].pc = "none" /\ jobs'[j].pc = "pending" =>
                 /\ Authorized(grants, NS(jobs'[j].cc))
                 /\ jobs'[j].cc \in HostedClusters /\ faults = 0
                      => grants.crb = NS(jobs'[j].cc)]_vars
  BY LaunchedByWorker DEF GrantedSoFar, GrantingPCs, Authorized
<1> QED
  BY <1>1, <1>2, <1>3, TypeCorrect, PTL DEF Spec, GrantsBeforeLaunch

-----------------------------------------------------------------------------
(* curator-crb names a ServiceAccount that is there: it comes after it in a   *)
(* launch, and the worker that is about to delete the account has just        *)
(* deleted the binding.  That cleanup is for curators whose name is not that  *)
(* of their namespace, so the others must not share one with a hosted cluster. *)

HostedApart ==
    \A c \in HostedClusters, d \in Curators : NS(c) = NS(d) => NamedApart(d)

\* Whose curator-crb is, and what the worker knows of it on its way.
CRBOwned ==
    /\ grants.crb # NoNamespace
         => grants.crb \in grants.sa /\ \E c \in HostedClusters : NS(c) = grants.crb
    /\ worker.pc \in GrantingPCs \ {"create"} => NS(worker.cc) \in grants.sa
    /\ worker.pc \in {"applyClusterRB", "applyCRB"} => worker.cc \in HostedClusters
    /\ worker.pc = "dropSA" => grants.crb # NS(worker.cc)

\* Each call of the worker keeps it.
LEMMA CRBCalls ==
  ASSUME TypeOK, Shape, CRBOwned, AccessCall
  PROVE  CRBOwned'
<1> DEFINE c == worker.cc
<1>1. c \in Curators
      /\ grants \in [sa : SUBSET Namespaces, rb : [Namespaces -> Subject], crb : Subject]
  BY AccessCallTypes
<1>2. NS(c) \in Namespaces /\ NS(c) # NoNamespace
  BY <1>1, AccessCallTypes, NamespaceAssumption
<1>3. \A pc \in {"idle", "dropSA", "dropRB", "dropClusterRB", "dropOwnedCRB", "decide",
                "applySA", "applyRB", "isHosted", "applyClusterRB", "applyCRB", "create"} :
        Goto(pc) => worker'.pc = pc /\ (pc # "idle" => worker'.cc = c)
  BY AccessCallTypes
<1>4. CASE DropCRB \/ DropOwnedCRB
  <2>1. PICK pc \in {"idle", "dropSA", "decide", "applySA"} : Goto(pc)
    BY <1>4 DEF DropCRB, DropOwnedCRB, Grant, Branch
  <2>2. grants' = CleanupCuratorCRBIfOwned(grants, NS(c))
    BY <1>4 DEF DropCRB, DropOwnedCRB, Grant
  <2>3. /\ grants'.sa = grants.sa
        /\ grants'.crb = IF grants.crb = NS(c) THEN NoNamespace ELSE grants.crb
    BY <1>1, <2>2 DEF CleanupCuratorCRBIfOwned
  <2>4. worker'.pc = pc /\ (pc # "idle" => worker'.cc = c)
    BY <1>3, <2>1
  <2> QED
    BY <1>2, <2>1, <2>3, <2>4 DEF CRBOwned, GrantingPCs
<1>5. CASE DropServiceAccount
  <2>1. worker.pc = "dropSA" /\ Goto("dropRB")
        /\ grants' = DeleteServiceAccount(grants, NS(c))
    BY <1>5 DEF DropServiceAccount, Grant
  <2>2. grants'.sa = grants.sa \ {NS(c)} /\ grants'.crb = grants.crb
    BY <1>1, <2>1 DEF DeleteServiceAccount
  <2>3. worker'.pc = "dropRB"
    BY <1>3, <2>1
  <2> QED
    BY <2>1, <2>2, <2>3 DEF CRBOwned, GrantingPCs
<1>6. CASE DropRoleBinding \/ DropClusterRoleBinding
  <2>1. PICK pc \in {"idle", "dropClusterRB", "dropOwnedCRB"} : Goto(pc)
    BY <1>6 DEF DropRoleBinding, DropClusterRoleBinding, Grant
  <2>2. grants'.sa = grants.sa /\ grants'.crb = grants.crb
    BY <1>1, <1>6 DEF DropRoleBinding, DropClusterRoleBinding, Grant, DeleteRoleBinding
  <2>3. worker'.pc = pc
    BY <1>3, <2>1
  <2> QED
    BY <2>1, <2>2, <2>3 DEF CRBOwned, GrantingPCs
<1>7. CASE ApplyServiceAccount
  <2>1. Goto("applyRB") /\ grants' = CreateServiceAccount(grants, NS(c))
    BY <1>7 DEF ApplyServiceAccount, Grant
  <2>2. grants'.sa = grants.sa \cup {NS(c)} /\ grants'.crb = grants.crb
    BY <1>1, <2>1 DEF CreateServiceAccount
  <2>3. worker'.pc = "applyRB" /\ worker'.cc = c
    BY <1>3, <2>1
  <2> QED
    BY <2>2, <2>3 DEF CRBOwned, GrantingPCs
<1>8. CASE ApplyRoleBinding \/ IsHostedCluster \/ ApplyClusterRoleBinding
  <2>1. worker.pc \in {"applyRB", "isHosted", "applyClusterRB"}
    BY <1>8 DEF ApplyRoleBinding, IsHostedCluster, ApplyClusterRoleBinding, Grant
  <2>2. PICK pc \in {"isHosted", "applyClusterRB", "applyCRB", "create"} :
          Goto(pc) /\ (pc \in {"applyClusterRB", "applyCRB"} => c \in HostedClusters)
    BY <1>8 DEF ApplyRoleBinding, IsHostedCluster, ApplyClusterRoleBinding, Grant, CRBOwned
  <2>3. grants'.sa = grants.sa /\ grants'.crb = grants.crb
    BY <1>1, <1>8 DEF ApplyRoleBinding, IsHostedCluster, ApplyClusterRoleBinding, Grant,
                      CreateRoleBinding
  <2>4. worker'.pc = pc /\ worker'.cc = c
    BY <1>3, <2>2
  <2>5. NS(c) \in grants.sa
    BY <2>1 DEF CRBOwned, GrantingPCs
  <2> QED
    BY <2>2, <2>3, <2>4, <2>5 DEF CRBOwned, GrantingPCs
<1>9. CASE ApplyCRB
  <2>1. worker.pc = "applyCRB" /\ grants' = UpsertCRB(grants, NS(c)) /\ Goto("create")
    BY <1>9 DEF ApplyCRB, Grant
  <2>2. grants'.sa = grants.sa /\ grants'.crb = NS(c)
    BY <1>1, <2>1 DEF UpsertCRB
  <2>3. NS(c) \in grants.sa /\ c \in HostedClusters
    BY <2>1 DEF CRBOwned, GrantingPCs
  <2>4. worker'.pc = "create"
    BY <1>3, <2>1
  <2> QED
    BY <2>2, <2>3, <2>4 DEF CRBOwned, GrantingPCs
<1> QED
  BY <1>4, <1>5, <1>6, <1>7, <1>8, <1>9 DEF AccessCall

\* Every step keeps it.
LEMMA NextCRBOwned ==
  ASSUME HostedApart, TypeOK, Shape, CRBOwned, [Next]_vars
  PROVE  CRBOwned'
<1>1. CASE AccessCall
  BY <1>1, CRBCalls
<1>2. CASE ~AccessCall
  <2>1. UNCHANGED grants
    BY <1>2, OtherSteps
  <2>2. CASE UNCHANGED worker
    BY <2>1, <2>2 DEF CRBOwned
  <2>3. CASE worker'.pc \in {"idle", "dropCRB", "decide", "applySA", "record", "create"}
    BY <2>1, <2>3 DEF CRBOwned, GrantingPCs
  <2>4. CASE worker'.pc = "dropSA" /\ ~NamedApart(worker'.cc)
    <3>1. worker'.cc \in Curators
      BY <2>4, NextTypes DEF Shape
    <3>2. NS(worker'.cc) # NoNamespace
      BY <3>1, NamespaceTypes, NamespaceAssumption
    <3>3. grants.crb # NS(worker'.cc)
      BY <2>4, <3>1, <3>2 DEF CRBOwned, HostedApart
    <3> QED
      BY <2>1, <2>4, <3>3 DEF CRBOwned, GrantingPCs
  <2> QED
    BY <1>2, <2>2, <2>3, <2>4, OtherSteps
<1> QED
  BY <1>1, <1>2

\* curator-crb never names a ServiceAccount that is gone, in any interleaving of
\* launches and cleanups of any number of curators, with failed calls and restarts, if
\* a curator named after its namespace does not share it with a hosted cluster.
THEOREM CRBRevokedFirst ==
  ASSUME HostedApart
  PROVE  Spec => []CRBNotInherited
<1>1. Init => CRBOwned
  BY DEF Init, CRBOwned, GrantingPCs, NoGrants, IdleWorker
<1>2. TypeOK /\ Shape /\ CRBOwned /\ [Next]_vars => CRBOwned'
  BY NextCRBOwned, HostedApart
<1>3. CRBOwned => CRBNotInherited
  BY DEF CRBOwned, CRBNotInherited
<1> QED
  BY <1>1, <1>2, <1>3, TypeCorrect, PTL DEF Spec
=============================================================================
