------------------------------- MODULE JobPod -------------------------------
(***************************************************************************)
(* The Jobs of one curator, one after the other, as far as the work of      *)
(* their containers needs them: which container runs, which API call it     *)
(* makes next, and how the Job ends.  The modules that EXTEND this one say  *)
(* what the containers do.  How a Job is launched and what the controller   *)
(* does meanwhile is CuratorLifecycle's.                                    *)
(***************************************************************************)
EXTENDS Integers, FiniteSets, CuratorObject

CONSTANTS
    Curators,   \* what users ask for: records with desired, op and upgrade
    Templates,  \* the number of AnsibleJob templates of a hook
    Pools,      \* the NodePools of a hosted cluster
    Attempts,   \* the polls of the install, import and destroy monitors
                \* (jobMonitorTimeout)
    MonitorPolls, \* the polls of monitor-upgrade (monitorTimeout)
    MaxJobs,    \* bound: Jobs
    MaxFaults   \* bound: failed API calls

ASSUME CuratorsAssumption ==
    Curators \subseteq [desired : Curations, op : Operations, upgrade : Request]
ASSUME TemplatesAssumption ==
    /\ DOMAIN Templates \subseteq {"install", "upgrade", "destroy"} \X {"prehook", "posthook"}
    /\ \A hook \in DOMAIN Templates : Templates[hook] \in Nat
ASSUME PodBoundAssumption ==
    /\ IsFiniteSet(Pools)
    /\ Attempts \in Nat \ {0}
    /\ MonitorPolls \in Nat \ {0}
    /\ MaxJobs \in Nat
    /\ MaxFaults \in Nat

VARIABLES
    curator,    \* what the Job, or the last one, was launched for
    cond,       \* the clustercurator-job condition
    jobs,       \* the Jobs launched so far
    todo,       \* the containers left of the Job, the current one first
    at,         \* where that container is
    faults

podVars == <<curator, cond, jobs, todo, at, faults>>

ClusterTypes == {"none", "standalone", "hosted"}

Calls == {"start", "again", "work", "channel", "image", "pools", "monitor", "find", "job",
          "ready", "list", "detach", "delete", "await"}

\* type: what GetClusterType answered; item: the AnsibleJobs created, or the provision
\* watched; left: the NodePools still to patch.
Place == [call : Calls, type : ClusterTypes, item : Nat,
          polls : 0 .. Attempts + MonitorPolls, left : SUBSET Pools]

Begin == [call |-> "start", type |-> "none", item |-> 0, polls |-> 0, left |-> {}]

PodTypeOK ==
    /\ curator \in [desired : Curations, op : Operations, upgrade : Request]
    /\ cond \in Condition
    /\ jobs \in 0 .. MaxJobs
    /\ todo \in Seq(Steps)
    /\ at \in Place
    /\ faults \in 0 .. MaxFaults

PodInit ==
    /\ curator = [desired |-> "", op |-> "nil", upgrade |-> NoRequest]
    /\ cond = NoCondition
    /\ jobs = 0
    /\ todo = <<>>
    /\ at = Begin
    /\ faults = 0

-----------------------------------------------------------------------------
\* The container that runs is step's, and its next call is call.
In(step, call) == todo # <<>> /\ Head(todo) = step /\ at.call = call

\* A user asks for c and the controller launches its Job; an upgrade only when
\* NeedToUpgrade says so.
LaunchJob(c, mci) ==
    /\ todo = <<>>
    /\ jobs < MaxJobs
    /\ JobKind(c) = "upgrade" => NeedToUpgrade(c.upgrade, cond, mci) = "yes"
    /\ curator' = c
    /\ jobs' = jobs + 1
    /\ todo' = Containers(c, DOMAIN Templates)
    /\ at' = Begin
    /\ cond' = InProgress(jobs + 1, LocalCuration(c))
    /\ UNCHANGED faults

\* The container goes on.
GoOn(place) ==
    /\ at' = place
    /\ UNCHANGED <<curator, cond, jobs, todo, faults>>

\* The container ends well and the next begins.
Succeed ==
    /\ todo' = Tail(todo)
    /\ at' = Begin
    /\ UNCHANGED <<curator, cond, jobs, faults>>

\* The container returns an error or panics, and the Job fails with it.
FailJob ==
    /\ todo' = <<>>
    /\ at' = Begin
    /\ cond' = Ended(jobs, LocalCuration(curator), curator.upgrade, TRUE)
    /\ UNCHANGED <<curator, jobs>>

Fail == FailJob /\ UNCHANGED faults

\* MUTANT: the attempts are not counted.
NeverGivesUp(place) == GoOn(place)

\* MUTANT: the attempts are counted, and never used up.
CountsOn(place) == GoOn([place EXCEPT !.polls = at.polls + 1])

\* The next attempt of a monitor, at the given place, or its timeout.
NextAttempt(place) ==
    IF at.polls + 1 < (IF Head(todo) = "monitor-upgrade" THEN MonitorPolls ELSE Attempts)
    THEN GoOn([place EXCEPT !.polls = at.polls + 1])
    ELSE Fail

\* The main container: done reports that the Job ended well.
Done ==
    /\ In("done", "start")
    /\ todo' = <<>>
    /\ at' = Begin
    /\ cond' = Ended(jobs, LocalCuration(curator), curator.upgrade, FALSE)
    /\ UNCHANGED <<curator, jobs, faults>>

\* Any API call of the container fails, the record of its progress too, and the
\* failure is reported.  What it did before stays.  (A killed pod reports nothing and
\* leaves its Job's name behind: CuratorLifecycle!KillPod.)
CallFails ==
    /\ todo # <<>>
    /\ faults < MaxFaults
    /\ faults' = faults + 1
    /\ FailJob
=============================================================================
