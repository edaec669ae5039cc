---------------------------- MODULE CuratorObject ----------------------------
(***************************************************************************)
(* The ClusterCurator resource as the API server keeps it: one object with  *)
(* spec, operation and status under one resourceVersion (there is no status *)
(* subresource).  The operators here are what its writers do to it, and the *)
(* event filter that decides which of its changes wake the controller.      *)
(***************************************************************************)
EXTENDS Launcher

NoJob == 0      \* spec.curatorJob unset; Jobs are numbered from 1

Curations == {"", "install", "upgrade", "destroy", "scale", "delete-cluster-namespace"}

Operations == {"nil", ""} \cup Retries

\* The message of a condition, by the parts the controller or a reader acts on:
\* the Job and curation it names, whether it says "upgrade" and "Failed", and the
\* version info it prints.
Condition == [status : {"absent", "False", "True"}, job : Nat, desired : Curations,
              upgrade : BOOLEAN, failed : BOOLEAN, info : Info]

NoCondition == [status |-> "absent", job |-> NoJob, desired |-> "",
                upgrade |-> FALSE, failed |-> FALSE, info |-> NoInfo]

StepStates == {"", "Executing", "Reporting", "Completed", "Failed"}

Object == [rv : Nat, desired : Curations, job : Nat, op : Operations,
           upgrade : Request, cond : Condition, steps : [Steps -> StepStates]]

NoSteps == [s \in Steps |-> ""]

\* rv 0 is no version of any object: "nothing read yet".
NoObject == [rv |-> 0, desired |-> "", job |-> NoJob, op |-> "nil",
             upgrade |-> NoRequest, cond |-> NoCondition, steps |-> NoSteps]

\* What reflect.DeepEqual compares when the filter looks at Status.
Status(o) == <<o.cond, o.steps>>

\* The validation rules of spec.upgrade: an EUS to EUS request is not changed, and is
\* made at once.
Admitted(old, new) ==
    /\ old.intermediate # NoVersion =>
          /\ new.intermediate = old.intermediate
          /\ old.version # NoVersion => new.version = old.version
    /\ new.intermediate # NoVersion =>
          /\ new.version # NoVersion
          /\ old.intermediate = NoVersion => old.version = NoVersion

-----------------------------------------------------------------------------
\* MUTANT: the status comparison stands first, so the closing patch, which also
\* clears the status, is dropped.
StatusFirst(old, new) ==
    /\ Status(old) = Status(new)
    /\ old.upgrade.intermediate = NoVersion

\* UpdateFunc of newClusterCuratorPredicate; creations always pass.
Passes(old, new) ==
    \/ new.desired = "delete-cluster-namespace"
    \/ /\ ~(new.op # "nil" /\ old.op # "nil" /\ new.op = old.op)
       /\ \/ PosthookOnly(new)
          \/ new.desired # old.desired /\ new.desired = ""
          \/ new.job # old.job /\ new.job = NoJob
          \/ /\ Status(old) = Status(new)
             /\ old.upgrade.intermediate = NoVersion

-----------------------------------------------------------------------------
\* curatorRun works for the curation whose posthook it retries.
LocalCuration(o) ==
    CASE o.op = "installPosthook" -> "install"
      [] o.op = "upgradePosthook" -> "upgrade"
      [] OTHER -> o.desired

\* The "clustercurator-job" message of a Job in progress, of a finished one, and
\* of a failed one.  Only an upgrade prints its version info.
InProgress(j, d) ==
    [status |-> "False", job |-> j, desired |-> d, upgrade |-> d = "upgrade",
     failed |-> FALSE, info |-> NoInfo]

\* MUTANT: the message of a failed Job reads like that of a finished one.
EndedWell(j, d, req, failed) ==
    [status |-> "True", job |-> j, desired |-> d, upgrade |-> d = "upgrade",
     failed |-> FALSE,
     info |-> IF d = "upgrade" THEN GetCurrentVersionInfo(req) ELSE NoInfo]

Ended(j, d, req, failed) ==
    [status |-> "True", job |-> j, desired |-> d, upgrade |-> d = "upgrade",
     failed |-> failed,
     info |-> IF d = "upgrade" THEN GetCurrentVersionInfo(req) ELSE NoInfo]

WithJob(o, j) == [o EXCEPT !.job = j]

WithCondition(o, cond) == [o EXCEPT !.cond = cond]

WithStep(o, step, s) == [o EXCEPT !.steps[step] = s]

-----------------------------------------------------------------------------
\* MUTANT: a closing patch writes a desiredCuration the API does not know.
ClearsToNone(held, o) ==
    [o EXCEPT !.job = NoJob, !.op = "nil",
              !.desired = IF held = "upgrade" THEN o.desired ELSE "none"]

\* A closing patch clears the Job's name and the operation, and desiredCuration
\* too unless the curator the container holds says "upgrade".
ClearSpec(held, o) ==
    [o EXCEPT !.job = NoJob, !.op = "nil",
              !.desired = IF held = "upgrade" THEN o.desired ELSE ""]

\* MUTANT: the failing Job leaves its name on the curator.
KeepsJobName(held, o) == [ClearSpec(held, o) EXCEPT !.job = o.job]

\* updateFailingClusterCurator, by a merge patch without a resourceVersion.
updateFailingClusterCurator(held, o) == ClearSpec(held, o)

\* updateDoneClusterCurator clears the status as well.
updateDoneClusterCurator(held, o) ==
    [ClearSpec(held, o) EXCEPT !.cond = NoCondition, !.steps = NoSteps]
=============================================================================
