------------------------ MODULE CuratorWrites_proofs ------------------------
(***************************************************************************)
(* Why whole-object updates of possibly stale copies are safe: a copy with  *)
(* the live object's resourceVersion IS the live object, so an Update that  *)
(* the server takes changes only what its writer meant to change.           *)
(***************************************************************************)
EXTENDS CuratorLifecycle_proofs

-----------------------------------------------------------------------------
(* Copies of the objects.                                                   *)

\* A write leaves the live object, or makes a later version of it, which is put on
\* the watch.
LEMMA PutEffect ==
  ASSUME TypeOK, NEW c \in Curators, NEW o \in Object, Put(c, o)
  PROVE  \A d \in Curators :
            /\ (api'[d] = api[d] \/ api'[d].rv > api[d].rv)
            /\ watch'[d] \subseteq watch[d] \cup {api'[d]}
            /\ api'[d] # api[d] =>
                  /\ d = c
                  /\ api'[d].desired = o.desired
                  /\ api'[d].op = o.op
                  /\ api'[d].upgrade = o.upgrade
<1> DEFINE new == [o EXCEPT !.rv = api[c].rv + 1]
<1>1. api[c].rv \in Nat
  BY DEF TypeOK, Object
<1>2. /\ new.rv = api[c].rv + 1
      /\ new.desired = o.desired /\ new.op = o.op /\ new.upgrade = o.upgrade
  BY DEF Object
<1>3. CASE UNCHANGED apiVars
  BY <1>3 DEF apiVars
<1>4. CASE /\ api' = [api EXCEPT ![c] = new]
           /\ watch' = [watch EXCEPT ![c] = @ \cup {new}]
  <2> HIDE DEF new
  <2>1. \A d \in Curators : /\ api'[d] = IF d = c THEN new ELSE api[d]
                            /\ watch'[d] = IF d = c THEN watch[c] \cup {new} ELSE watch[d]
    BY <1>4 DEF TypeOK
  <2> QED
    BY <1>1, <1>2, <2>1
<1> QED
  BY <1>3, <1>4 DEF Put

\* Copies stay faithful in a step that makes objects only newer and copies only the
\* live ones or copies there were.
LEMMA FaithfulStep ==
  ASSUME TypeOK, TypeOK', VersionsFaithful,
         \A c \in Curators :
            /\ (api'[c] = api[c] \/ api'[c].rv > api[c].rv)
            /\ cache'[c] \in Copies(c) \cup {api'[c]}
            /\ watch'[c] \subseteq Copies(c) \cup {api'[c]},
         \A j \in JobIds :
            \/ jobs'[j].buf = NoObject
            \/ jobs'[j].buf = jobs[j].buf /\ jobs'[j].cc = jobs[j].cc
            \/ jobs'[j].cc \in Curators => jobs'[j].buf = api'[jobs'[j].cc]
  PROVE  VersionsFaithful'
<1> SUFFICES ASSUME NEW c \in Curators, NEW o \in Copies(c)'
             PROVE  /\ o.rv <= api'[c].rv
                    /\ o.rv = api'[c].rv => o = api'[c]
  BY DEF VersionsFaithful
<1>1. o \in Copies(c) \cup {api'[c]}
  <2>1. CASE o = cache'[c] \/ o \in watch'[c]
    BY <2>1
  <2>2. ASSUME NEW j \in JobIds, jobs'[j].cc = c, jobs'[j].buf # NoObject, o = jobs'[j].buf
        PROVE  o \in Copies(c) \cup {api'[c]}
    BY <2>2 DEF Copies
  <2>3. o \in Copies(c)' =>
          \/ o = cache'[c] \/ o \in watch'[c]
          \/ \E j \in JobIds : jobs'[j].cc = c /\ jobs'[j].buf # NoObject /\ o = jobs'[j].buf
    BY DEF Copies, JobIds
  <2> QED
    BY <2>1, <2>2, <2>3
<1>2. api[c].rv \in Nat /\ api'[c].rv \in Nat
  BY DEF TypeOK, Object
<1>3. CASE o = api'[c]
  BY <1>2, <1>3
<1>4. CASE o \in Copies(c)
  <2>1. o.rv <= api[c].rv /\ (o.rv = api[c].rv => o = api[c])
    BY <1>4 DEF VersionsFaithful
  <2>2. o \in Object
    <3>1. cache[c] \in Object /\ watch[c] \subseteq Object
      BY DEF TypeOK
    <3>2. \A j \in JobIds : jobs[j].buf \in Object
      BY DEF TypeOK, Job
    <3> QED
      BY <1>4, <3>1, <3>2 DEF Copies
  <2>3. o.rv \in Nat
    BY <2>2 DEF Object
  <2> QED
    BY <1>2, <2>1, <2>3
<1> QED
  BY <1>1, <1>3, <1>4

-----------------------------------------------------------------------------
(* What each writer writes.                                                 *)

\* The user's request in c's live object is as it was, or cleared.
RequestKept(c) ==
    /\ api'[c].desired \in {api[c].desired, ""}
    /\ api'[c].op \in {api[c].op, "nil"}
    /\ api'[c].upgrade = api[c].upgrade

\* A write of the live object, or of a faithful copy of it, with its request kept or
\* cleared, keeps every request.
LEMMA PutKeeps ==
  ASSUME TypeOK, NEW c \in Curators, NEW o \in Object, Put(c, o),
         o.desired \in {api[c].desired, ""}, o.op \in {api[c].op, "nil"},
         o.upgrade = api[c].upgrade
  PROVE  \A d \in Curators : RequestKept(d)
<1> SUFFICES ASSUME NEW d \in Curators PROVE RequestKept(d)
  OBVIOUS
<1>1. CASE api'[d] = api[d]
  BY <1>1 DEF RequestKept
<1>2. CASE api'[d] # api[d]
  <2>1. /\ d = c
        /\ api'[d].desired = o.desired /\ api'[d].op = o.op
        /\ api'[d].upgrade = o.upgrade
    BY <1>2, PutEffect
  <2> QED
    BY <2>1 DEF RequestKept
<1> QED
  BY <1>1, <1>2

\* An Update the server takes was made from the live object.
LEMMA CurrentCopy ==
  ASSUME VersionsFaithful, NEW c \in Curators, NEW o \in Copies(c), Current(c, o)
  PROVE  o = api[c]
  BY DEF VersionsFaithful, Current

\* The Update that records the Job's name.
LEMMA RecordKeeps ==
  ASSUME TypeOK, Shape, VersionsFaithful, RecordJobName
  PROVE  /\ \A d \in Curators : RequestKept(d)
         /\ \A d \in Curators : /\ (api'[d] = api[d] \/ api'[d].rv > api[d].rv)
                                 /\ watch'[d] \subseteq watch[d] \cup {api'[d]}
<1> DEFINE c == worker.cc
<1>1. c \in Curators /\ cache[c] \in Object /\ worker.job \in Nat
  BY BoundAssumption DEF RecordJobName, Shape, TypeOK
<1>2. CASE Current(c, cache[c])
  <2>1. cache[c] = api[c]
    BY <1>1, <1>2, CurrentCopy DEF Copies
  <2>2. Put(c, WithJob(cache[c], worker.job))
    BY <1>2 DEF RecordJobName
  <2>3. /\ WithJob(cache[c], worker.job) \in Object
        /\ WithJob(cache[c], worker.job).desired = api[c].desired
        /\ WithJob(cache[c], worker.job).op = api[c].op
        /\ WithJob(cache[c], worker.job).upgrade = api[c].upgrade
    BY <1>1, <2>1, StatusWrites
  <2> HIDE DEF c
  <2>4. \A d \in Curators : RequestKept(d)
    BY <1>1, <2>2, <2>3, PutKeeps
  <2> QED
    BY <1>1, <2>2, <2>3, <2>4, PutEffect
<1>3. CASE ~Current(c, cache[c])
  BY <1>3 DEF RecordJobName, apiVars, RequestKept
<1> QED
  BY <1>2, <1>3

\* The writes of a pod: of its conditions, and its closing patches.
LEMMA PodKeeps ==
  ASSUME TypeOK, Shape, VersionsFaithful, NEW j \in JobIds, Pod(j)
  PROVE  /\ \A d \in Curators : RequestKept(d)
         /\ \A d \in Curators : /\ (api'[d] = api[d] \/ api'[d].rv > api[d].rv)
                                 /\ watch'[d] \subseteq watch[d] \cup {api'[d]}
<1> DEFINE c == Owner(j)
<1>1. CASE UNCHANGED apiVars
  BY <1>1 DEF apiVars, RequestKept
<1>2. ASSUME NEW o \in Object, c \in Curators, Put(c, o),
             o.desired \in {api[c].desired, ""}, o.op \in {api[c].op, "nil"},
             o.upgrade = api[c].upgrade
      PROVE  /\ \A d \in Curators : RequestKept(d)
             /\ \A d \in Curators : /\ (api'[d] = api[d] \/ api'[d].rv > api[d].rv)
                                     /\ watch'[d] \subseteq watch[d] \cup {api'[d]}
  <2>1. \A d \in Curators : RequestKept(d)
    BY <1>2, PutKeeps
  <2> QED
    BY <1>2, <2>1, PutEffect
<1>3. jobs[j].pc # "none" => c \in Curators /\ api[c] \in Object
  BY DEF Shape, Owner, TypeOK
<1> HIDE DEF c
<1>4. CASE UpdateStatus(j)
  <2>1. jobs[j].pc \in StatusPCs /\ jobs[j].buf # NoObject
    BY <1>4 DEF UpdateStatus
  <2>2. c \in Curators /\ jobs[j].buf \in Copies(c)
    <3>1. jobs[j].pc # "none"
      BY <2>1 DEF StatusPCs
    <3> QED
      BY <1>3, <2>1, <3>1 DEF Copies, Owner, c
  <2>3. CASE MayCall(j) /\ Current(c, jobs[j].buf)
    <3>1. jobs[j].buf = api[c]
      BY <2>2, <2>3, CurrentCopy
    <3>2. Put(c, Written(j))
      BY <1>4, <2>3 DEF UpdateStatus, c
    <3>3. /\ Written(j).desired = api[c].desired
          /\ Written(j).op = api[c].op
          /\ Written(j).upgrade = api[c].upgrade
      <4> DEFINE o == jobs[j].buf
      <4>1. \/ \E q : Written(j) = WithCondition(o, q)
            \/ \E s, t : Written(j) = WithStep(o, s, t)
        BY <2>1 DEF Written, StatusPCs
      <4>2. o \in Object
        BY DEF TypeOK, Job
      <4> QED
        BY <3>1, <4>1, <4>2, StatusWrites
    <3> QED
      BY <1>2, <2>1, <2>2, <3>2, <3>3, WrittenType
  <2>4. CASE ~(MayCall(j) /\ Current(c, jobs[j].buf))
    BY <1>1, <1>4, <2>4 DEF UpdateStatus, c
  <2> QED
    BY <2>3, <2>4
<1>5. CASE DonePatch(j)
  <2>1. jobs[j].pc # "none"
    BY <1>5 DEF DonePatch
  <2>2. \/ Put(c, updateDoneClusterCurator(jobs[j].held.desired, api[c]))
        \/ UNCHANGED apiVars
    BY <1>5 DEF DonePatch, c
  <2> QED
    BY <1>1, <1>2, <1>3, <2>1, <2>2, ClosingWrites
<1>6. CASE FailPatch(j)
  <2>1. jobs[j].pc # "none"
    BY <1>6 DEF FailPatch
  <2>2. \/ Put(c, updateFailingClusterCurator(jobs[j].held.desired, api[c]))
        \/ UNCHANGED apiVars
    BY <1>6 DEF FailPatch, c
  <2> QED
    BY <1>1, <1>2, <1>3, <2>1, <2>2, ClosingWrites
<1>7. CASE StartPod(j) \/ GetCurator(j) \/ ReadForStatus(j) \/ WorkFails(j) \/ WorkReports(j)
  BY <1>1, <1>7 DEF StartPod, GetCurator, ReadForStatus, WorkFails, WorkReports
<1>8. CASE WorkDone(j)
  BY <1>1, <1>8 DEF WorkDone, apiVars
<1> QED
  BY <1>4, <1>5, <1>6, <1>7, <1>8 DEF Pod

\* What a container holds to write back is the live object, or what it held.
LEMMA PodBuffers ==
  ASSUME TypeOK, Shape, NEW j \in JobIds, Pod(j) \/ KillPod(j)
  PROVE  /\ UNCHANGED cache
         /\ \A i \in JobIds :
               \/ jobs'[i].buf = NoObject
               \/ jobs'[i].buf = jobs[i].buf /\ jobs'[i].cc = jobs[i].cc
               \/ jobs'[i].cc \in Curators => jobs'[i].buf = api'[jobs'[i].cc]
<1>1. jobs[j] \in Job
  BY DEF TypeOK
<1>2. ASSUME NEW job, jobs' = [jobs EXCEPT ![j] = job],
             \/ job.buf = NoObject
             \/ job.buf = jobs[j].buf /\ job.cc = jobs[j].cc
             \/ job.cc \in Curators => job.buf = api'[job.cc]
      PROVE  \A i \in JobIds :
               \/ jobs'[i].buf = NoObject
               \/ jobs'[i].buf = jobs[i].buf /\ jobs'[i].cc = jobs[i].cc
               \/ jobs'[i].cc \in Curators => jobs'[i].buf = api'[jobs'[i].cc]
  <2>1. \A i \in JobIds : jobs'[i] = IF i = j THEN job ELSE jobs[i]
    BY <1>2 DEF TypeOK
  <2> QED
    BY <1>2, <2>1
<1>3. \A out : Over(j, out).buf = NoObject
  BY <1>1 DEF Over, Job
<1>4. \A pc : Failing(j, pc).buf = NoObject
  <2>1. ASSUME NEW pc, pc # "failed" PROVE Failing(j, pc).buf = NoObject
    <3> DEFINE m == Ended(jobs[j].held.job, jobs[j].local, jobs[j].held.upgrade, TRUE)
    <3>1. Failing(j, pc) = [jobs[j] EXCEPT !.pc = pc, !.buf = NoObject, !.msg = m]
      BY <2>1 DEF Failing
    <3> HIDE DEF m
    <3> QED
      BY <1>1, <3>1 DEF Job
  <2> QED
    BY <1>3, <2>1 DEF Failing
<1>5. \A pc : /\ [jobs[j] EXCEPT !.pc = pc].buf = jobs[j].buf
              /\ [jobs[j] EXCEPT !.pc = pc].cc = jobs[j].cc
  BY <1>1 DEF Job
<1>6. CASE StartPod(j) \/ WorkReports(j) \/ WorkFails(j)
  <2>1. PICK pc : \/ PodOnly(j, [jobs[j] EXCEPT !.pc = pc])
                  \/ PodOnly(j, Failing(j, pc))
    BY <1>6 DEF StartPod, WorkReports, WorkFails
  <2> QED
    BY <1>2, <1>4, <1>5, <2>1 DEF PodOnly
<1>7. CASE GetCurator(j)
  <2> DEFINE o == api[Owner(j)]
             job == [jobs[j] EXCEPT !.pc = "jobcond", !.held = o, !.local = LocalCuration(o),
                                    !.msg = InProgress(o.job, LocalCuration(o))]
  <2>1. PodOnly(j, job) \/ PodOnly(j, Over(j, "failed"))
    BY <1>7 DEF GetCurator
  <2>2. job.buf = jobs[j].buf /\ job.cc = jobs[j].cc
    BY <1>1 DEF Job
  <2> HIDE DEF job
  <2> QED
    BY <1>2, <1>3, <2>1, <2>2 DEF PodOnly
<1>8. CASE ReadForStatus(j)
  <2> DEFINE job == [jobs[j] EXCEPT !.buf = api[Owner(j)]]
  <2>1. /\ (PodOnly(j, job) \/ PodOnly(j, Failing(j, AfterError(jobs[j].pc))))
        /\ api' = api
    BY <1>8 DEF ReadForStatus, apiVars
  <2>2. job.cc \in Curators => job.buf = api'[job.cc]
    BY <1>1, <2>1 DEF Job, Owner
  <2> HIDE DEF job
  <2> QED
    BY <1>2, <1>4, <2>1, <2>2 DEF PodOnly
<1>9. CASE UpdateStatus(j)
  <2>1. PodOnly(j, AfterWrite(j)) \/ PodOnly(j, Failing(j, AfterError(jobs[j].pc)))
    BY <1>9 DEF UpdateStatus
  <2>2. AfterWrite(j).buf = NoObject
    <3> DEFINE job == [jobs[j] EXCEPT !.buf = NoObject]
    <3>1. job \in Job /\ job.buf = NoObject /\ job.pc = jobs[j].pc
      BY <1>1, BlankTypes DEF Job
    <3>2. \A pc : [job EXCEPT !.pc = pc].buf = NoObject
      BY <3>1 DEF Job
    <3>3. [job EXCEPT !.pc = "work", !.reported = TRUE].buf = NoObject
      BY <3>1 DEF Job
    <3>4. [job EXCEPT !.pc = "get", !.todo = Tail(@), !.held = NoObject, !.local = "",
                      !.msg = NoCondition, !.reported = FALSE].buf = NoObject
      BY <3>1 DEF Job
    <3>5. jobs[j].pc \in StatusPCs
      BY <1>9 DEF UpdateStatus
    <3> QED
      BY <1>3, <1>4, <3>1, <3>2, <3>3, <3>4, <3>5 DEF AfterWrite, StatusPCs
  <2> QED
    BY <1>2, <1>4, <2>1, <2>2 DEF PodOnly
<1>10. CASE WorkDone(j)
  <2>1. jobs' = [jobs EXCEPT ![j].pc = "final"] /\ UNCHANGED cache
    BY <1>10 DEF WorkDone
  <2>2. jobs' = [jobs EXCEPT ![j] = [jobs[j] EXCEPT !.pc = "final"]]
    BY <2>1 DEF TypeOK
  <2> QED
    BY <1>2, <1>5, <2>1, <2>2
<1>11. CASE DonePatch(j)
  <2> DEFINE new == updateDoneClusterCurator(jobs[j].held.desired, api[Owner(j)])
             m == Ended(jobs[j].held.job, jobs[j].local, jobs[j].held.upgrade, FALSE)
             job == [jobs[j] EXCEPT !.pc = "final", !.held = new, !.msg = m]
  <2>1. PodOnly(j, job) \/ PodOnly(j, Failing(j, AfterError("donepatch")))
    BY <1>11 DEF DonePatch
  <2> HIDE DEF new, m
  <2>2. job.buf = jobs[j].buf /\ job.cc = jobs[j].cc
    BY <1>1 DEF Job
  <2> HIDE DEF job
  <2> QED
    BY <1>2, <1>4, <2>1, <2>2 DEF PodOnly
<1>12. CASE FailPatch(j)
  BY <1>2, <1>3, <1>12 DEF FailPatch, PodOnly
<1>13. CASE KillPod(j)
  BY <1>2, <1>3, <1>13 DEF KillPod
<1> QED
  BY <1>6, <1>7, <1>8, <1>9, <1>10, <1>11, <1>12, <1>13 DEF Pod

-----------------------------------------------------------------------------
(* The two results.                                                         *)

\* Every step keeps the copies faithful.
LEMMA NextFaithful ==
  ASSUME TypeOK, Shape, VersionsFaithful, [Next]_vars
  PROVE  VersionsFaithful'
<1>1. TypeOK'
  BY NextTypes
<1>2. \A c \in Curators : cache[c] \in Copies(c) /\ watch[c] \subseteq Copies(c)
  BY DEF Copies
<1>3. ASSUME \A c \in Curators : /\ (api'[c] = api[c] \/ api'[c].rv > api[c].rv)
                                 /\ watch'[c] \subseteq watch[c] \cup {api'[c]},
             UNCHANGED <<cache, jobs>>
      PROVE  VersionsFaithful'
  BY <1>1, <1>2, <1>3, FaithfulStep
<1>4. ASSUME NEW c \in Curators, Ask(c) \/ AskRetry(c) PROVE VersionsFaithful'
  <2>1. PICK o \in Object : Put(c, o) /\ UNCHANGED <<cache, jobs>>
    <3>1. CASE Ask(c)
      <4>1. PICK a \in Asks :
              UserWrite(c, [api[c] EXCEPT !.desired = a.desired,
                              !.upgrade = IF a.desired = "upgrade" THEN a.upgrade ELSE @])
        BY <3>1 DEF Ask
      <4>2. a.desired \in Curations /\ a.upgrade \in Request
        BY AsksAssumption
      <4>3. [api[c] EXCEPT !.desired = a.desired,
               !.upgrade = IF a.desired = "upgrade" THEN a.upgrade ELSE @] \in Object
        BY <4>2 DEF TypeOK, Object
      <4> QED
        BY <4>1, <4>3 DEF UserWrite
    <3>2. CASE AskRetry(c)
      <4>1. PICK r \in RetryAsks : UserWrite(c, [api[c] EXCEPT !.op = r[2]])
        BY <3>2 DEF AskRetry
      <4>2. r[2] \in Operations
        BY AsksAssumption DEF Operations
      <4>3. [api[c] EXCEPT !.op = r[2]] \in Object
        BY <4>2 DEF TypeOK, Object
      <4> QED
        BY <4>1, <4>3 DEF UserWrite
    <3> QED
      BY <1>4, <3>1, <3>2
  <2> QED
    BY <1>3, <2>1, PutEffect
<1>5. ASSUME NEW c \in Curators, Deliver(c) PROVE VersionsFaithful'
  <2>1. PICK o \in watch[c] : /\ watch' = [watch EXCEPT ![c] = @ \ {o}]
                             /\ cache' = [cache EXCEPT ![c] = o]
                             /\ UNCHANGED <<api, jobs>>
    BY <1>5 DEF Deliver
  <2>2. \A d \in Curators : /\ cache'[d] \in Copies(d) \cup {api'[d]}
                            /\ watch'[d] \subseteq Copies(d) \cup {api'[d]}
    BY <1>2, <2>1 DEF TypeOK
  <2> QED
    BY <1>1, <2>1, <2>2, FaithfulStep
<1>6. ASSUME NEW c \in Curators, Relist(c) PROVE VersionsFaithful'
  <2>1. /\ watch' = [watch EXCEPT ![c] = {}]
        /\ cache' = [cache EXCEPT ![c] = api[c]]
        /\ UNCHANGED <<api, jobs>>
    BY <1>6 DEF Relist
  <2>2. \A d \in Curators : /\ cache'[d] \in Copies(d) \cup {api'[d]}
                            /\ watch'[d] \subseteq Copies(d) \cup {api'[d]}
    BY <1>2, <2>1 DEF TypeOK
  <2> QED
    BY <1>1, <2>1, <2>2, FaithfulStep
<1>7. CASE Restart
  <2>1. /\ watch' = [c \in Curators |-> {}]
        /\ cache' = api
        /\ UNCHANGED <<api, jobs>>
    BY <1>7 DEF Restart
  <2>2. \A d \in Curators : /\ cache'[d] \in Copies(d) \cup {api'[d]}
                            /\ watch'[d] \subseteq Copies(d) \cup {api'[d]}
    BY <2>1
  <2> QED
    BY <1>1, <2>1, <2>2, FaithfulStep
<1>8. ASSUME NEW c \in Curators, Reconcile(c) \/ RefreshMCI(c) PROVE VersionsFaithful'
  BY <1>3, <1>8 DEF Reconcile, RefreshMCI
<1>9. CASE \/ DropCRB \/ DropServiceAccount \/ DropRoleBinding
           \/ DropClusterRoleBinding \/ DropOwnedCRB
           \/ ApplyServiceAccount \/ ApplyRoleBinding \/ IsHostedCluster
           \/ ApplyClusterRoleBinding \/ ApplyCRB
           \/ Decide \/ CreateRefused \/ LookupFails \/ CallFails
  <2>1. UNCHANGED <<api, watch, cache, jobs>>
    BY <1>9 DEF DropCRB, DropServiceAccount, DropRoleBinding, DropClusterRoleBinding,
                DropOwnedCRB, ApplyServiceAccount, ApplyRoleBinding, IsHostedCluster,
                ApplyClusterRoleBinding, ApplyCRB, Decide, CreateRefused,
                LookupFails, CallFails, Grant
  <2> QED
    BY <1>3, <2>1
<1>10. CASE CreateJob
  <2>1. PICK j \in JobIds : jobs' = [jobs EXCEPT ![j] = Launched(worker.cc, worker.held)]
    BY <1>10 DEF CreateJob
  <2>2. UNCHANGED <<api, cache, watch>>
    BY <1>10 DEF CreateJob
  <2>3. Launched(worker.cc, worker.held).buf = NoObject
    BY DEF Launched, UnusedJob
  <2>4. \A i \in JobIds : jobs'[i].buf = NoObject \/ jobs'[i] = jobs[i]
    BY <2>1, <2>3 DEF TypeOK
  <2> QED
    BY <1>1, <1>2, <2>2, <2>4, FaithfulStep
<1>11. CASE RecordJobName
  BY <1>3, <1>11, RecordKeeps DEF RecordJobName
<1>12. ASSUME NEW j \in JobIds, Pod(j) PROVE VersionsFaithful'
  BY <1>1, <1>2, <1>12, PodKeeps, PodBuffers, FaithfulStep
<1>13. ASSUME NEW j \in JobIds, KillPod(j) PROVE VersionsFaithful'
  <2>1. UNCHANGED <<api, watch>>
    BY <1>13 DEF KillPod
  <2> QED
    BY <1>1, <1>2, <1>13, <2>1, PodBuffers, FaithfulStep
<1>14. CASE UNCHANGED vars
  BY <1>3, <1>14 DEF vars
<1> QED
  BY <1>4, <1>5, <1>6, <1>7, <1>8, <1>9, <1>10, <1>11, <1>12, <1>13, <1>14
     DEF Next, Informer, Worker

\* A step that is not a user's keeps or clears every request.
LEMMA NextKeeps ==
  ASSUME TypeOK, Shape, VersionsFaithful, [Next]_vars, edits' = edits
  PROVE  \A c \in Curators : RequestKept(c)
<1>1. CASE api' = api
  BY <1>1 DEF RequestKept
<1>2. CASE RecordJobName
  BY <1>2, RecordKeeps
<1>3. ASSUME NEW j \in JobIds, Pod(j) PROVE \A c \in Curators : RequestKept(c)
  BY <1>3, PodKeeps
<1>4. ASSUME NEW c \in Curators, Ask(c) \/ AskRetry(c) PROVE FALSE
  <2>1. edits' = edits + 1
    BY <1>4 DEF Ask, AskRetry, UserWrite
  <2>2. edits \in Nat
    BY BoundAssumption DEF TypeOK
  <2> QED
    BY <2>1, <2>2
<1>5. ASSUME NEW c \in Curators, \/ Deliver(c) \/ Reconcile(c) \/ Relist(c) \/ RefreshMCI(c)
      PROVE  api' = api
  BY <1>5 DEF Deliver, Reconcile, Relist, RefreshMCI
<1>6. CASE \/ DropCRB \/ DropServiceAccount \/ DropRoleBinding
           \/ DropClusterRoleBinding \/ DropOwnedCRB
           \/ ApplyServiceAccount \/ ApplyRoleBinding \/ IsHostedCluster
           \/ ApplyClusterRoleBinding \/ ApplyCRB
  BY <1>1, <1>6 DEF DropCRB, DropServiceAccount, DropRoleBinding, DropClusterRoleBinding,
                    DropOwnedCRB, ApplyServiceAccount, ApplyRoleBinding, IsHostedCluster,
                    ApplyClusterRoleBinding, ApplyCRB, Grant
<1>7. CASE Decide \/ CreateJob \/ CreateRefused \/ LookupFails \/ CallFails \/ Restart
  BY <1>1, <1>7 DEF Decide, CreateJob, CreateRefused, LookupFails, CallFails, Restart
<1>8. ASSUME NEW j \in JobIds, KillPod(j) PROVE api' = api
  BY <1>8 DEF KillPod
<1>9. CASE UNCHANGED vars
  BY <1>1, <1>9 DEF vars
<1> QED
  BY <1>1, <1>2, <1>3, <1>4, <1>5, <1>6, <1>7, <1>8, <1>9 DEF Next, Informer, Worker

\* Every copy that the controller or a pod may write back, with the version of the
\* live object, is the live object.
THEOREM CopiesFaithful == Spec => []VersionsFaithful
<1>1. Init => VersionsFaithful
  <2> SUFFICES ASSUME Init, NEW c \in Curators, NEW o \in Copies(c)
               PROVE  o.rv <= api[c].rv /\ (o.rv = api[c].rv => o = api[c])
    BY DEF VersionsFaithful
  <2>1. \A j \in JobIds : jobs[j].buf = NoObject
    BY DEF Init, UnusedJob
  <2>2. o = api[c]
    BY <2>1 DEF Copies, Init
  <2>3. api[c].rv \in Nat
    BY InitTypes DEF TypeOK, Object
  <2> QED
    BY <2>2, <2>3
<1>2. TypeOK /\ Shape /\ VersionsFaithful /\ [Next]_vars => VersionsFaithful'
  BY NextFaithful
<1> QED
  BY <1>1, <1>2, TypeCorrect, PTL DEF Spec

\* Only a user says what is desired: no write of the controller or of a pod, however
\* stale what it was made from, brings back or changes a request.
THEOREM NothingResurrected == Spec => NoResurrection
<1>1. TypeOK /\ Shape /\ VersionsFaithful /\ [Next]_vars
        => [edits' = edits =>
              \A c \in Curators :
                 /\ api'[c].desired \in {api[c].desired, ""}
                 /\ api'[c].op \in {api[c].op, "nil"}
                 /\ api'[c].upgrade = api[c].upgrade]_vars
  BY NextKeeps DEF RequestKept
<1> QED
  BY <1>1, TypeCorrect, CopiesFaithful, PTL DEF Spec, NoResurrection
=============================================================================
