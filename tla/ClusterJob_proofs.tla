------------------------- MODULE ClusterJob_proofs -------------------------
(***************************************************************************)
(* Proofs about ClusterJob, for every set of curators, templates, NodePools *)
(* and versions and any number of Jobs, attempts, provisions and faults.    *)
(***************************************************************************)
EXTENDS ClusterJob, CuratorObject_proofs, SequenceTheorems, FiniteSetTheorems

-----------------------------------------------------------------------------
(* Type correctness of the Job and its containers.                          *)

LEMMA CuratorTypes ==
  ASSUME PodTypeOK
  PROVE  /\ LocalCuration(curator) \in Curations
         /\ curator.upgrade \in Request
         /\ \A f \in BOOLEAN :
              Ended(jobs, LocalCuration(curator), curator.upgrade, f) \in Condition
<1>1. LocalCuration(curator) \in Curations /\ curator.upgrade \in Request
  BY DEF PodTypeOK, LocalCuration, Curations
<1>2. jobs \in Nat
  BY PodBoundAssumption DEF PodTypeOK
<1> QED
  BY <1>1, <1>2, ConditionTypes

LEMMA BeginType == Begin \in Place
  BY PodBoundAssumption DEF Begin, Place, Calls, ClusterTypes

\* What can become of the container that runs keeps the types.
LEMMA GoOnTypes ==
  ASSUME PodTypeOK, NEW place \in Place, GoOn(place) PROVE PodTypeOK'
  BY DEF PodTypeOK, GoOn

LEMMA SucceedTypes ==
  ASSUME PodTypeOK, todo # <<>>, Succeed PROVE PodTypeOK'
<1>1. Tail(todo) \in Seq(Steps)
  BY DEF PodTypeOK
<1> QED
  BY <1>1, BeginType DEF PodTypeOK, Succeed

LEMMA FailJobTypes ==
  ASSUME PodTypeOK, FailJob, faults' \in 0 .. MaxFaults PROVE PodTypeOK'
<1>1. cond' \in Condition
  BY CuratorTypes DEF FailJob
<1>2. todo' \in Seq(Steps)
  BY DEF FailJob
<1> QED
  BY <1>1, <1>2, BeginType DEF PodTypeOK, FailJob

LEMMA FailTypes ==
  ASSUME PodTypeOK, Fail PROVE PodTypeOK'
<1>1. faults' \in 0 .. MaxFaults
  BY DEF PodTypeOK, Fail
<1> QED
  BY <1>1, FailJobTypes DEF Fail

LEMMA NextAttemptTypes ==
  ASSUME PodTypeOK, NEW place \in Place, NextAttempt(place) PROVE PodTypeOK'
<1> DEFINE bound == IF Head(todo) = "monitor-upgrade" THEN MonitorPolls ELSE Attempts
<1>1. bound \in Nat /\ bound <= Attempts + MonitorPolls
  BY PodBoundAssumption
<1>2. at.polls \in Nat
  BY PodBoundAssumption DEF PodTypeOK, Place
<1>3. CASE at.polls + 1 < bound
  <2>1. at.polls + 1 \in 0 .. Attempts + MonitorPolls
    BY <1>1, <1>2, <1>3, PodBoundAssumption
  <2>2. [place EXCEPT !.polls = at.polls + 1] \in Place
    BY <2>1 DEF Place
  <2> QED
    BY <1>3, <2>2, GoOnTypes DEF NextAttempt
<1>4. CASE ~(at.polls + 1 < bound)
  BY <1>4, FailTypes DEF NextAttempt
<1> QED
  BY <1>3, <1>4

LEMMA DoneTypes ==
  ASSUME PodTypeOK, Done PROVE PodTypeOK'
<1>1. cond' \in Condition
  BY CuratorTypes DEF Done
<1>2. todo' \in Seq(Steps)
  BY DEF Done
<1> QED
  BY <1>1, <1>2, BeginType DEF PodTypeOK, Done

LEMMA CallFailsTypes ==
  ASSUME PodTypeOK, CallFails PROVE PodTypeOK'
<1>1. faults' \in 0 .. MaxFaults
  BY PodBoundAssumption DEF PodTypeOK, CallFails
<1> QED
  BY <1>1, FailJobTypes DEF CallFails

LEMMA LaunchTypes ==
  ASSUME PodTypeOK, NEW c \in Curators, NEW m, LaunchJob(c, m) PROVE PodTypeOK'
<1>1. c \in [desired : Curations, op : Operations, upgrade : Request]
  BY CuratorsAssumption
<1>2. jobs + 1 \in 0 .. MaxJobs
  BY PodBoundAssumption DEF PodTypeOK, LaunchJob
<1>3. LocalCuration(c) \in Curations
  BY <1>1 DEF LocalCuration, Curations
<1>4. InProgress(jobs + 1, LocalCuration(c)) \in Condition
  <2>1. jobs + 1 \in Nat
    BY <1>2, PodBoundAssumption
  <2> QED
    BY <2>1, <1>3, BlankTypes, ConditionTypes
<1>5. Containers(c, DOMAIN Templates) \in Seq(Steps)
  BY ContainersShape
<1> QED
  BY <1>1, <1>2, <1>4, <1>5, BeginType DEF PodTypeOK, LaunchJob

\* Changes of place are places.
LEMMA PlaceEdits ==
  ASSUME NEW p \in Place
  PROVE  /\ \A c \in Calls : [p EXCEPT !.call = c] \in Place
         /\ \A c \in Calls, n \in Nat : [p EXCEPT !.call = c, !.item = n] \in Place
         /\ \A c \in Calls, l \in SUBSET Pools : [p EXCEPT !.call = c, !.left = l] \in Place
         /\ \A l \in SUBSET Pools : [p EXCEPT !.left = l] \in Place
         /\ \A t \in ClusterTypes, c \in Calls : [p EXCEPT !.type = t, !.call = c] \in Place
         /\ \A c \in Calls, n \in 0 .. Attempts + MonitorPolls :
              [p EXCEPT !.call = c, !.polls = n] \in Place
  BY DEF Place

LEMMA AtType == PodTypeOK => at \in Place /\ at.item \in Nat
  BY DEF PodTypeOK, Place

-----------------------------------------------------------------------------
(* Type correctness of the hooks.                                           *)

LEMMA HookTypes ==
  ASSUME PodTypeOK, AnsibleTypeOK, Hooks
  PROVE  PodTypeOK' /\ AnsibleTypeOK'
<1> PICK step \in HookSteps : RunAnsibleJob(step) \/ MonitorAnsibleJob(step)
  BY DEF Hooks
<1>0. todo # <<>>
  BY DEF RunAnsibleJob, MonitorAnsibleJob, In
<1>1. CASE RunAnsibleJob(step)
  <2>1. CASE at.item = TemplatesOf(step)
    BY <1>0, <1>1, <2>1, SucceedTypes DEF RunAnsibleJob, AnsibleTypeOK
  <2>2. CASE at.item # TemplatesOf(step)
    <3>1. [job |-> jobs, hook |-> step, status |-> "none"] \in AnsibleJob
      BY PodBoundAssumption DEF PodTypeOK, AnsibleJob, Statuses
    <3>2. AnsibleTypeOK'
      BY <1>1, <2>2, <3>1 DEF RunAnsibleJob, AnsibleTypeOK
    <3>3. [at EXCEPT !.call = "await", !.item = at.item + 1] \in Place
      <4>1. at.item + 1 \in Nat
        BY AtType
      <4> QED
        BY <4>1, AtType, PlaceEdits DEF Calls
    <3> QED
      BY <1>1, <2>2, <3>2, <3>3, GoOnTypes DEF RunAnsibleJob
  <2> QED
    BY <2>1, <2>2
<1>2. CASE MonitorAnsibleJob(step)
  <2>1. [at EXCEPT !.call = "start"] \in Place
    BY AtType, PlaceEdits DEF Calls
  <2> QED
    BY <1>2, <2>1, GoOnTypes, FailTypes DEF MonitorAnsibleJob, AnsibleTypeOK
<1> QED
  BY <1>1, <1>2

LEMMA OperatorTypes ==
  ASSUME PodTypeOK, AnsibleTypeOK, AnsibleOperator
  PROVE  PodTypeOK' /\ AnsibleTypeOK'
<1> PICK i \in DOMAIN ansible : RunTemplate(i)
  BY DEF AnsibleOperator
<1>1. PodTypeOK'
  BY DEF RunTemplate, podVars, PodTypeOK
<1>2. PICK s \in Statuses : ansible' = [ansible EXCEPT ![i].status = s]
  BY DEF RunTemplate, Statuses
<1>3. ansible[i] \in AnsibleJob
  BY DEF AnsibleTypeOK
<1>4. [ansible[i] EXCEPT !.status = s] \in AnsibleJob
  BY <1>3 DEF AnsibleJob
<1>5. ansible' = [ansible EXCEPT ![i] = [ansible[i] EXCEPT !.status = s]]
  BY <1>2
<1>6. AnsibleTypeOK'
  BY <1>4, <1>5 DEF AnsibleTypeOK
<1> QED
  BY <1>1, <1>6

-----------------------------------------------------------------------------
(* Type correctness of the containers that work on the cluster.             *)

\* What an action of such a container may do to it.
Moves == Succeed \/ Fail \/ \E place \in Place : GoOn(place) \/ NextAttempt(place)

LEMMA MovesTypes ==
  ASSUME PodTypeOK, todo # <<>>, Moves PROVE PodTypeOK'
  BY SucceedTypes, FailTypes, GoOnTypes, NextAttemptTypes DEF Moves

LEMMA ProvisioningMoves ==
  ASSUME PodTypeOK, ProvisionTypeOK, Provisioning
  PROVE  todo # <<>> /\ Head(todo) \notin HookSteps /\ Moves
<1>0. at \in Place /\ at.call \in Calls
  BY AtType DEF Place
<1>1. CASE AskType
  <2>1. ClusterType \in ClusterTypes
    BY DEF ClusterType, ClusterTypes
  <2>2. [at EXCEPT !.type = ClusterType,
                   !.call = IF at.call = "again" \/ Head(todo) \in {"monitor-destroy", "monitor-upgrade"}
                            THEN "monitor" ELSE "work"] \in Place
    BY <1>0, <2>1, PlaceEdits DEF Calls
  <2>3. todo # <<>> /\ Head(todo) \notin HookSteps
    BY <1>1 DEF AskType, TypedSteps, HookSteps
  <2> QED
    BY <1>1, <2>2, <2>3 DEF AskType, Moves
<1>2. CASE ActivateDeploy
  <2>1. [at EXCEPT !.call = "again"] \in Place
    BY <1>0, PlaceEdits DEF Calls
  <2> QED
    BY <1>2, <2>1 DEF ActivateDeploy, AtWork, In, Moves, HookSteps
<1>3. CASE UnpauseHostedCluster
  <2>1. [at EXCEPT !.call = "pools", !.left = Pools] \in Place
    BY <1>0, PlaceEdits DEF Calls
  <2> QED
    BY <1>3, <2>1 DEF UnpauseHostedCluster, AtWork, In, Moves, HookSteps
<1>4. CASE UnpauseNodePool
  <2>1. [at EXCEPT !.call = "again"] \in Place
    BY <1>0, PlaceEdits DEF Calls
  <2>2. \A p \in at.left : [at EXCEPT !.left = at.left \ {p}] \in Place
    BY <1>0, PlaceEdits DEF Place
  <2> QED
    BY <1>4, <2>1, <2>2 DEF UnpauseNodePool, AtWork, In, Moves, HookSteps
<1>5. [at EXCEPT !.call = "monitor"] \in Place
  BY <1>0, PlaceEdits DEF Calls
<1>6. CASE PollDeployment
  <2>1. [at EXCEPT !.call = "find", !.item = cd.ref] \in Place
    <3>1. cd.ref \in Nat
      BY ProvisionAssumption DEF ProvisionTypeOK, ClusterDeployment
    <3> QED
      BY <1>0, <3>1, PlaceEdits DEF Calls
  <2> QED
    BY <1>0, <1>6, <2>1
    DEF PollDeployment, Monitors, MonitorSteps, AtWork, In, Moves, HookSteps
<1>7. CASE FindJob
  <2>1. [at EXCEPT !.call = "job"] \in Place
    BY <1>0, PlaceEdits DEF Calls
  <2> QED
    BY <1>5, <1>7, <2>1
    DEF FindJob, JudgeJob, Monitors, MonitorSteps, AtWork, In, Moves, HookSteps
<1>8. CASE AwaitJob
  BY <1>5, <1>8 DEF AwaitJob, JudgeJob, Monitors, MonitorSteps, AtWork, In, Moves, HookSteps
<1>9. CASE PollHostedCluster
  <2>1. [at EXCEPT !.call = "ready"] \in Place
    BY <1>0, PlaceEdits DEF Calls
  <2> QED
    BY <1>9, <2>1
    DEF PollHostedCluster, Monitors, MonitorSteps, AtWork, In, Moves, HookSteps
<1>10. CASE AwaitHostedCluster
  BY <1>5, <1>10 DEF AwaitHostedCluster, Monitors, MonitorSteps, AtWork, In, Moves, HookSteps
<1>11. CASE MonitorImport
  BY <1>0, <1>11 DEF MonitorImport, In, Moves, HookSteps
<1>12. CASE DestroyDeployment
  BY <1>12 DEF DestroyDeployment, AtWork, In, Moves, HookSteps
<1>13. CASE Detach
  <2>1. /\ [at EXCEPT !.call = "delete"] \in Place
        /\ [at EXCEPT !.call = "detach"] \in Place
    BY <1>0, PlaceEdits DEF Calls
  <2> QED
    BY <1>13, <2>1 DEF Detach, AtWork, In, Moves, HookSteps
<1>14. CASE AwaitDetach
  <2>1. [at EXCEPT !.call = "delete"] \in Place
    BY <1>0, PlaceEdits DEF Calls
  <2> QED
    BY <1>0, <1>14, <2>1 DEF AwaitDetach, AtWork, In, Moves, HookSteps
<1>15. CASE DestroyHostedCluster
  BY <1>15 DEF DestroyHostedCluster, AtWork, In, Moves, HookSteps
<1> QED
  BY <1>1, <1>2, <1>3, <1>4, <1>6, <1>7, <1>8, <1>9, <1>10, <1>11, <1>12, <1>13, <1>14, <1>15
  DEF Provisioning

LEMMA MatchingTypes ==
  ASSUME PodTypeOK PROVE MatchingPools \in SUBSET Pools
  BY PoolsOfAssumption DEF MatchingPools, PodTypeOK, request, Request

LEMMA UpgradingMoves ==
  ASSUME PodTypeOK, HostedUpgrading
  PROVE  todo # <<>> /\ Head(todo) \notin HookSteps /\ Moves
<1>0. at \in Place /\ at.call \in Calls
  BY AtType DEF Place
<1>1. [at EXCEPT !.call = "monitor"] \in Place
  BY <1>0, PlaceEdits DEF Calls
<1>2. AfterImage => Moves
  <2>1. MatchingPools \in SUBSET Pools
    BY MatchingTypes
  <2>2. [at EXCEPT !.call = "pools", !.left = MatchingPools] \in Place
    BY <1>0, <2>1, PlaceEdits DEF Calls
  <2> QED
    BY <2>2 DEF AfterImage, Moves
<1>3. AfterChannel => Moves
  <2>1. [at EXCEPT !.call = "image"] \in Place
    BY <1>0, PlaceEdits DEF Calls
  <2> QED
    BY <1>2, <2>1 DEF AfterChannel, Moves
<1>4. CASE ValidateUpgrade
  <2>1. [at EXCEPT !.call = "channel"] \in Place
    BY <1>0, PlaceEdits DEF Calls
  <2> QED
    BY <1>3, <1>4, <2>1 DEF ValidateUpgrade, AtWork, In, Moves, HookSteps
<1>5. CASE PatchChannel
  BY <1>3, <1>5 DEF PatchChannel, AtWork, In, HookSteps
<1>6. CASE PatchImage
  BY <1>2, <1>6 DEF PatchImage, AtWork, In, HookSteps
<1>7. CASE PatchNodePool
  <2>1. \A p \in at.left : [at EXCEPT !.left = at.left \ {p}] \in Place
    BY <1>0, PlaceEdits DEF Place
  <2> QED
    BY <1>7, <2>1 DEF PatchNodePool, AtWork, In, Moves, HookSteps
<1>8. CASE MonitorTurn
  <2>1. todo # <<>> /\ Head(todo) \notin HookSteps
    BY <1>8 DEF MonitorTurn, AtWork, In, HookSteps
  <2>2. Succeed \/ NextAttempt([at EXCEPT !.call = "monitor"])
    BY <1>8 DEF MonitorTurn
  <2> QED
    BY <1>1, <2>1, <2>2 DEF Moves
<1>9. ASSUME NEW n \in 0 .. Attempts + MonitorPolls, AfterReady(n) PROVE Moves
  <2>1. [at EXCEPT !.call = "list", !.polls = n] \in Place
    BY <1>0, PlaceEdits DEF Calls
  <2> QED
    BY <1>9, <2>1 DEF AfterReady, Moves
<1>10. CASE MonitorControlPlane
  <2>1. [at EXCEPT !.call = "ready"] \in Place
    BY <1>0, PlaceEdits DEF Calls
  <2>2. at.polls \in 0 .. Attempts + MonitorPolls
    BY <1>0 DEF Place
  <2> QED
    BY <1>9, <1>10, <2>1, <2>2 DEF MonitorControlPlane, AtWork, In, Moves, HookSteps
<1>11. CASE AwaitControlPlane
  <2>1. at.polls \in Nat
    BY <1>0, PodBoundAssumption DEF Place
  <2>2. at.polls + 1 < MonitorPolls => at.polls + 1 \in 0 .. Attempts + MonitorPolls
    BY <2>1, PodBoundAssumption
  <2> QED
    BY <1>9, <1>11, <2>2 DEF AwaitControlPlane, AtWork, In, Moves, HookSteps
<1> QED
  BY <1>4, <1>5, <1>6, <1>7, <1>8, <1>10, <1>11 DEF HostedUpgrading
-----------------------------------------------------------------------------
(* Type correctness of the cluster's resources.                             *)

LEMMA BlankCluster == NoCD \in ClusterDeployment /\ NoHC \in HostedCluster
<1>1. NoCD \in ClusterDeployment
  BY ProvisionAssumption DEF NoCD, ClusterDeployment, Pauses
<1>2. (CHOOSE p \in Platforms : TRUE) \in Platforms
  BY ProvisionAssumption
<1> QED
  BY <1>1, <1>2, NamesAssumption DEF NoHC, HostedCluster, Pauses, NoVersion

LEMMA SameCluster ==
  ASSUME ProvisionTypeOK, shared' = shared, Unchanged PROVE ProvisionTypeOK'
  BY DEF ProvisionTypeOK, Unchanged, clusterVars

LEMMA ProvisioningTypes ==
  ASSUME ProvisionTypeOK, Provisioning, shared' = shared PROVE ProvisionTypeOK'
<1>1. CASE ActivateDeploy
  <2>1. cd' \in ClusterDeployment
    BY <1>1 DEF ActivateDeploy, ProvisionTypeOK, ClusterDeployment, Pauses
  <2> QED
    BY <1>1, <2>1 DEF ActivateDeploy, ProvisionTypeOK
<1>2. CASE UnpauseHostedCluster
  <2>1. hc' \in HostedCluster
    BY <1>2 DEF UnpauseHostedCluster, Unpaused, ProvisionTypeOK, HostedCluster, Pauses
  <2> QED
    BY <1>2, <2>1 DEF UnpauseHostedCluster, ProvisionTypeOK
<1>3. CASE UnpauseNodePool
  <2>1. \A p \in Pools : [pool[p] EXCEPT !.paused = Unpaused(pool[p].paused)] \in NodePool
    BY DEF ProvisionTypeOK, NodePool, Unpaused, Pauses
  <2>2. \A p \in Pools :
          [pool EXCEPT ![p].paused = Unpaused(@)]
            = [pool EXCEPT ![p] = [pool[p] EXCEPT !.paused = Unpaused(pool[p].paused)]]
    BY DEF ProvisionTypeOK
  <2>3. pool' = pool \/ \E p \in at.left : pool' = [pool EXCEPT ![p].paused = Unpaused(@)]
    BY <1>3 DEF UnpauseNodePool
  <2>4. pool' \in [Pools -> NodePool]
    BY <2>1, <2>2, <2>3 DEF ProvisionTypeOK
  <2> QED
    BY <1>3, <2>4 DEF UnpauseNodePool, ProvisionTypeOK
<1>4. CASE DestroyDeployment
  <2>1. cd' \in ClusterDeployment
    BY <1>4 DEF DestroyDeployment, ProvisionTypeOK, ClusterDeployment
  <2> QED
    BY <1>4, <2>1 DEF DestroyDeployment, ProvisionTypeOK
<1>5. CASE Detach
  <2>1. managed' \in ManagedStates
    BY <1>5 DEF Detach, ProvisionTypeOK, ManagedStates
  <2> QED
    BY <1>5, <2>1 DEF Detach, ProvisionTypeOK
<1>6. CASE DestroyHostedCluster
  <2>1. hc' \in HostedCluster
    BY <1>6 DEF DestroyHostedCluster, ProvisionTypeOK, HostedCluster
  <2> QED
    BY <1>6, <2>1 DEF DestroyHostedCluster, ProvisionTypeOK
<1>7. CASE \/ AskType \/ PollDeployment \/ FindJob \/ AwaitJob \/ PollHostedCluster
           \/ AwaitHostedCluster \/ MonitorImport \/ AwaitDetach
  <2>1. Unchanged
    BY <1>7 DEF AskType, PollDeployment, FindJob, AwaitJob, PollHostedCluster,
                AwaitHostedCluster, MonitorImport, AwaitDetach, Unchanged
  <2> QED
    BY <2>1, SameCluster
<1> QED
  BY <1>1, <1>2, <1>3, <1>4, <1>5, <1>6, <1>7 DEF Provisioning

LEMMA UpgradingTypes ==
  ASSUME PodTypeOK, ProvisionTypeOK, HostedUpgrading, shared' = shared
  PROVE  ProvisionTypeOK'
<1>1. request.version \in Nat /\ request.channel \in Names
  BY DEF PodTypeOK, request, Request
<1>2. CASE PatchChannel
  <2>1. hc' \in HostedCluster
    BY <1>1, <1>2 DEF PatchChannel, ProvisionTypeOK, HostedCluster
  <2> QED
    BY <1>2, <2>1 DEF PatchChannel, ProvisionTypeOK
<1>3. CASE PatchImage
  <2>1. hc' \in HostedCluster
    BY <1>1, <1>3 DEF PatchImage, ProvisionTypeOK, HostedCluster
  <2>2. asked' \in SUBSET Nat
    BY <1>1, <1>3 DEF PatchImage, ProvisionTypeOK
  <2> QED
    BY <1>3, <2>1, <2>2 DEF PatchImage, ProvisionTypeOK
<1>4. CASE PatchNodePool
  <2>1. \A p \in Pools : [pool[p] EXCEPT !.image = request.version] \in NodePool
    BY <1>1 DEF ProvisionTypeOK, NodePool
  <2>2. \A p \in Pools :
          [pool EXCEPT ![p].image = request.version]
            = [pool EXCEPT ![p] = [pool[p] EXCEPT !.image = request.version]]
    BY DEF ProvisionTypeOK
  <2>3. pool' = pool \/ \E p \in at.left : pool' = [pool EXCEPT ![p].image = request.version]
    BY <1>4 DEF PatchNodePool
  <2>4. pool' \in [Pools -> NodePool]
    BY <2>1, <2>2, <2>3 DEF ProvisionTypeOK
  <2> QED
    BY <1>4, <2>4 DEF PatchNodePool, ProvisionTypeOK
<1>5. CASE ValidateUpgrade \/ MonitorTurn \/ MonitorControlPlane \/ AwaitControlPlane
  <2>1. Unchanged
    BY <1>5 DEF ValidateUpgrade, MonitorTurn, MonitorControlPlane, AwaitControlPlane
  <2> QED
    BY <2>1, SameCluster
<1> QED
  BY <1>2, <1>3, <1>4, <1>5 DEF HostedUpgrading
LEMMA HiveTypes ==
  ASSUME ProvisionTypeOK, Hive, shared' = shared PROVE ProvisionTypeOK'
<1>1. cd.ref \in Nat
  BY ProvisionAssumption DEF ProvisionTypeOK, ClusterDeployment
<1>2. CASE StartProvision
  <2>1. cd.ref + 1 \in 0 .. Provisions
    BY <1>1, <1>2, ProvisionAssumption DEF StartProvision
  <2>2. cd' = [cd EXCEPT !.ref = cd.ref + 1]
    BY <1>2 DEF StartProvision
  <2>3. cd' \in ClusterDeployment
    BY <2>1, <2>2 DEF ProvisionTypeOK, ClusterDeployment
  <2> QED
    BY <1>2, <2>3 DEF StartProvision, ProvisionTypeOK
<1>3. CASE StopProvision
  <2>1. cd' \in ClusterDeployment
    BY <1>3 DEF StopProvision, ProvisionTypeOK, ClusterDeployment
  <2> QED
    BY <1>3, <2>1 DEF StopProvision, ProvisionTypeOK
<1>4. \A state : NextStates(state) \subseteq JobStates
  BY DEF NextStates, JobStates
<1>5. CASE RunInstaller
  <2>1. PICK s \in JobStates : provision' = [provision EXCEPT ![cd.ref] = s]
    BY <1>4, <1>5 DEF RunInstaller
  <2>2. provision' \in [1 .. Provisions -> JobStates]
    BY <2>1 DEF ProvisionTypeOK
  <2> QED
    BY <1>5, <2>2 DEF RunInstaller, ProvisionTypeOK
<1>6. CASE FinishProvision
  <2>1. cd' \in ClusterDeployment
    BY <1>6 DEF FinishProvision, ProvisionTypeOK, ClusterDeployment
  <2> QED
    BY <1>6, <2>1 DEF FinishProvision, ProvisionTypeOK
<1>7. CASE RunUninstaller
  <2>1. uninstall' \in JobStates
    BY <1>4, <1>7 DEF RunUninstaller, JobStates
  <2> QED
    BY <1>7, <2>1 DEF RunUninstaller, ProvisionTypeOK
<1>8. CASE RemoveDeployment
  <2>1. uninstall' \in JobStates /\ provision' \in [1 .. Provisions -> JobStates]
    BY <1>8 DEF RemoveDeployment, JobStates
  <2> QED
    BY <1>8, <2>1, BlankCluster DEF RemoveDeployment, ProvisionTypeOK
<1> QED
  BY <1>2, <1>3, <1>5, <1>6, <1>7, <1>8 DEF Hive

LEMMA HypershiftTypes ==
  ASSUME ProvisionTypeOK, Hypershift, shared' = shared PROVE ProvisionTypeOK'
<1>1. CASE Unsettle
  <2>1. hc' \in HostedCluster
    BY <1>1 DEF Unsettle, ProvisionTypeOK, HostedCluster
  <2> QED
    BY <1>1, <2>1 DEF Unsettle, ProvisionTypeOK
<1>2. CASE Settle
  <2>1. hc' \in HostedCluster
    BY <1>2 DEF Settle, ProvisionTypeOK, HostedCluster
  <2> QED
    BY <1>2, <2>1 DEF Settle, ProvisionTypeOK
<1>3. CASE RemoveHostedCluster
  <2>1. [hc EXCEPT !.ready = FALSE] \in HostedCluster
    BY DEF ProvisionTypeOK, HostedCluster
  <2>2. hc' \in HostedCluster
    BY <1>3, <2>1, BlankCluster DEF RemoveHostedCluster
  <2> QED
    BY <1>3, <2>2 DEF RemoveHostedCluster, ProvisionTypeOK
<1>4. CASE \E p \in Pools : RunNodePool(p)
  <2>1. PICK p \in Pools : RunNodePool(p)
    BY <1>4
  <2>2. /\ [pool[p] EXCEPT !.ready = FALSE] \in NodePool
        /\ [pool[p] EXCEPT !.ready = TRUE, !.version = pool[p].image] \in NodePool
    BY DEF ProvisionTypeOK, NodePool
  <2>3. \/ pool' = [pool EXCEPT ![p] = [pool[p] EXCEPT !.ready = FALSE]]
        \/ pool' = [pool EXCEPT ![p] = [pool[p] EXCEPT !.ready = TRUE, !.version = pool[p].image]]
    BY <2>1 DEF RunNodePool, ProvisionTypeOK
  <2>4. pool' \in [Pools -> NodePool]
    BY <2>2, <2>3 DEF ProvisionTypeOK
  <2> QED
    BY <2>1, <2>4 DEF RunNodePool, ProvisionTypeOK
<1> QED
  BY <1>1, <1>2, <1>3, <1>4 DEF Hypershift

LEMMA AgentTypes ==
  ASSUME ProvisionTypeOK, Join \/ ReportVersion, shared' = shared PROVE ProvisionTypeOK'
<1>1. CASE Join
  <2>1. managed' \in ManagedStates /\ mci' \in SUBSET Nat
    BY <1>1 DEF Join, ProvisionTypeOK, ManagedStates
  <2> QED
    BY <1>1, <2>1 DEF Join, ProvisionTypeOK
<1>2. CASE ReportVersion
  <2>1. hc.version \in Nat
    BY DEF ProvisionTypeOK, HostedCluster
  <2> QED
    BY <1>2, <2>1 DEF ReportVersion, ProvisionTypeOK
<1> QED
  BY <1>1, <1>2

LEMMA OutsideLeavesPod ==
  ASSUME PodTypeOK, Hive \/ Hypershift \/ Join \/ ReportVersion
  PROVE  UNCHANGED podVars
<1>1. Hive => UNCHANGED podVars
  BY DEF Hive, StartProvision, StopProvision, RunInstaller, FinishProvision, RunUninstaller,
         RemoveDeployment
<1>2. Hypershift => UNCHANGED podVars
  BY DEF Hypershift, Unsettle, Settle, RemoveHostedCluster, RunNodePool
<1> QED
  BY <1>1, <1>2 DEF Join, ReportVersion

-----------------------------------------------------------------------------
(* Type correctness of the whole.                                           *)

LEMMA InitTypes == Init => TypeOK
<1> SUFFICES ASSUME Init PROVE TypeOK
  OBVIOUS
<1>1. PodTypeOK
  <2>0. PodInit
    BY DEF Init
  <2>1. curator \in [desired : Curations, op : Operations, upgrade : Request]
    <3>1. "" \in Curations /\ "nil" \in Operations
      BY DEF Curations, Operations
    <3> QED
      BY <2>0, <3>1, BlankTypes DEF PodInit
  <2>2. jobs = 0 /\ faults = 0 /\ todo = <<>>
    BY <2>0, Zenon DEF PodInit
  <2>3. todo \in Seq(Steps)
    BY <2>2
  <2>4. jobs \in 0 .. MaxJobs /\ faults \in 0 .. MaxFaults
    BY <2>2, PodBoundAssumption
  <2> QED
    BY <2>0, <2>1, <2>3, <2>4, BeginType, BlankTypes DEF PodInit, PodTypeOK
<1>2. AnsibleTypeOK
  BY DEF Init, AnsibleInit, AnsibleTypeOK
<1>3. provision \in [1 .. Provisions -> JobStates] /\ uninstall \in JobStates
  BY DEF Init, JobStates
<1>4. CASE NewStandalone
  <2>1. cd \in ClusterDeployment
    BY <1>4, BlankCluster DEF NewStandalone, ClusterDeployment
  <2>2. pool \in [Pools -> NodePool]
    BY <1>4 DEF NewStandalone, NodePool, Pauses, NoVersion
  <2>3. hc \in HostedCluster /\ hc.image \in Nat
    BY <1>4, BlankCluster DEF NewStandalone, HostedCluster
  <2> QED
    BY <1>1, <1>2, <1>3, <1>4, <2>1, <2>2, <2>3
    DEF Init, NewStandalone, TypeOK, ProvisionTypeOK, ManagedStates
<1>5. ASSUME NEW v \in Nat, NEW image \in Nat, NEW platform \in Platforms, NEW p \in {"no", "true"},
             Hosted(v, platform, image, p)
      PROVE  /\ shared \in BOOLEAN /\ cd \in ClusterDeployment
             /\ hc \in HostedCluster /\ hc.image \in Nat
             /\ pool \in [Pools -> NodePool]
  <2>1. hc \in HostedCluster
    BY <1>5, BlankCluster DEF Hosted, HostedCluster, Pauses
  <2>2. PICK paused \in SUBSET Pools :
          pool = [q \in Pools |-> [paused |-> IF q \in paused THEN p ELSE "no",
                                   ready |-> v # NoVersion, image |-> image, version |-> v]]
    BY <1>5 DEF Hosted
  <2>3. pool \in [Pools -> NodePool]
    BY <2>2 DEF NodePool, Pauses
  <2> QED
    BY <1>5, <2>1, <2>3, BlankCluster DEF Hosted, HostedCluster
<1>6. ASSUME NEW v \in InstalledVersions, NEW platform \in Platforms,
             \/ /\ Hosted(NoVersion, platform, v, "true")
                /\ managed = "pending" /\ mci = {}
             \/ /\ Hosted(v, platform, v, "no")
                /\ managed = "available" /\ mci \in {{}, {v}}
      PROVE  TypeOK
  <2>1. v \in Nat /\ NoVersion \in Nat
    BY InstalledAssumption DEF NoVersion
  <2>2. /\ shared \in BOOLEAN /\ cd \in ClusterDeployment
        /\ hc \in HostedCluster /\ hc.image \in Nat
        /\ pool \in [Pools -> NodePool]
    BY <1>5, <1>6, <2>1
  <2>3. managed \in ManagedStates /\ mci \in SUBSET Nat
    BY <1>6, <2>1 DEF ManagedStates
  <2>4. asked \in SUBSET Nat
    BY <2>2 DEF Init
  <2> QED
    BY <1>1, <1>2, <1>3, <2>2, <2>3, <2>4 DEF TypeOK, ProvisionTypeOK
<1> QED
  BY <1>4, <1>6 DEF Init

LEMMA NextTypes == TypeOK /\ [Next]_vars => TypeOK'
<1> SUFFICES ASSUME TypeOK, [Next]_vars PROVE TypeOK'
  OBVIOUS
<1>0. PodTypeOK /\ AnsibleTypeOK /\ ProvisionTypeOK
  BY DEF TypeOK
<1>1. UNCHANGED ansible => AnsibleTypeOK'
  BY <1>0 DEF AnsibleTypeOK
<1>2. UNCHANGED <<shared, clusterVars>> => ProvisionTypeOK'
  BY <1>0, SameCluster DEF Unchanged
<1>3. UNCHANGED podVars => PodTypeOK'
  BY <1>0 DEF PodTypeOK, podVars
<1>4. ASSUME NEW c \in Curators, Launch(c) PROVE TypeOK'
  BY <1>0, <1>1, <1>2, <1>4, LaunchTypes DEF Launch, TypeOK
<1>5. CASE Container
  <2>1. CASE Hooks /\ UNCHANGED <<shared, clusterVars>>
    BY <1>0, <1>2, <2>1, HookTypes DEF TypeOK
  <2>2. CASE (Provisioning \/ HostedUpgrading) /\ UNCHANGED <<ansible, shared>>
    <3>1. PodTypeOK'
      BY <1>0, <2>2, ProvisioningMoves, UpgradingMoves, MovesTypes
    <3>2. ProvisionTypeOK'
      BY <1>0, <2>2, ProvisioningTypes, UpgradingTypes
    <3> QED
      BY <1>1, <2>2, <3>1, <3>2 DEF TypeOK
  <2>3. CASE Done /\ UNCHANGED <<ansible, shared, clusterVars>>
    BY <1>0, <1>1, <1>2, <2>3, DoneTypes DEF TypeOK
  <2> QED
    BY <1>5, <2>1, <2>2, <2>3 DEF Container
<1>6. CASE CallFails /\ UNCHANGED <<ansible, shared, clusterVars>>
  BY <1>0, <1>1, <1>2, <1>6, CallFailsTypes DEF TypeOK
<1>7. CASE Outside
  <2>1. CASE AnsibleOperator /\ UNCHANGED <<shared, clusterVars>>
    BY <1>0, <1>2, <2>1, OperatorTypes DEF TypeOK
  <2>2. CASE (Hive \/ Hypershift \/ Join \/ ReportVersion) /\ UNCHANGED <<ansible, shared>>
    <3>1. PodTypeOK'
      BY <1>0, <1>3, <2>2, OutsideLeavesPod
    <3>2. ProvisionTypeOK'
      BY <1>0, <2>2, HiveTypes, HypershiftTypes, AgentTypes
    <3> QED
      BY <1>1, <2>2, <3>1, <3>2 DEF TypeOK
  <2> QED
    BY <1>7, <2>1, <2>2 DEF Outside
<1>8. CASE UNCHANGED vars
  BY <1>1, <1>2, <1>3, <1>8 DEF vars, TypeOK
<1> QED
  BY <1>4, <1>5, <1>6, <1>7, <1>8 DEF Next

\* The Job, its AnsibleJobs and the cluster's resources always are what their types say:
\* no container counts past its attempts or to a provision there is not, or writes a
\* condition, version or channel of another shape (hive.go:113-272,
\* hypershift.go:443-688, ansible job.go:77-121).
THEOREM TypeCorrect == Spec => []TypeOK
<1> QED
  BY InitTypes, NextTypes, PTL DEF Spec

-----------------------------------------------------------------------------
(* Hooks take turns.                                                        *)

\* The container waits for the last AnsibleJob.
Waits == todo # <<>> /\ Head(todo) \in HookSteps /\ at.call = "await"

\* Jobs are numbered in their order, so that no AnsibleJob is of a Job to come; while a
\* Job runs all of its AnsibleJobs were successful, but for the one it waits for.
Numbered == \A i \in DOMAIN ansible : ansible[i].job <= jobs

SuccessfulSoFar ==
    todo # <<>> =>
      \A i \in DOMAIN ansible :
         ansible[i].job = jobs =>
           ansible[i].status = "successful" \/ (Waits /\ i = Len(ansible))

HooksIInv == TypeOK /\ OneHookAtATime /\ Numbered /\ SuccessfulSoFar

LEMMA HooksInit == Init => HooksIInv
<1> SUFFICES ASSUME Init PROVE HooksIInv
  OBVIOUS
<1>1. ansible = <<>>
  BY DEF Init, AnsibleInit
<1>2. DOMAIN ansible = {}
  BY <1>1
<1> QED
  BY <1>2, InitTypes DEF HooksIInv, OneHookAtATime, Numbered, SuccessfulSoFar

\* Steps that end the Job, or of a container that awaits no AnsibleJob.
LEMMA NoHookChange ==
  ASSUME HooksIInv, TypeOK', UNCHANGED <<ansible, jobs>>,
         todo' = <<>> \/ (todo # <<>> /\ ~Waits)
  PROVE  HooksIInv'
<1>1. OneHookAtATime' /\ Numbered'
  BY DEF HooksIInv, OneHookAtATime, Numbered
<1>2. SuccessfulSoFar'
  BY DEF HooksIInv, SuccessfulSoFar
<1> QED
  BY <1>1, <1>2 DEF HooksIInv

\* What the steps of the other containers do to the hooks: nothing.
LEMMA MovesKeepJobs == Moves => UNCHANGED jobs
  BY DEF Moves, Succeed, Fail, FailJob, GoOn, NextAttempt

LEMMA HooksKept ==
  ASSUME HooksIInv, TypeOK', Hooks PROVE HooksIInv'
<1>0. /\ ansible \in Seq(AnsibleJob) /\ jobs \in Nat
      /\ todo # <<>> /\ PodTypeOK
  BY PodBoundAssumption
  DEF HooksIInv, TypeOK, AnsibleTypeOK, PodTypeOK, Hooks, RunAnsibleJob, MonitorAnsibleJob, In
<1> PICK step \in HookSteps : RunAnsibleJob(step) \/ MonitorAnsibleJob(step)
  BY DEF Hooks
<1>1. CASE RunAnsibleJob(step)
  <2>1. ~Waits
    BY <1>1 DEF RunAnsibleJob, In, Waits
  <2>2. CASE at.item = TemplatesOf(step)
    BY <1>0, <1>1, <2>1, <2>2, NoHookChange DEF RunAnsibleJob, Succeed
  <2>3. CASE at.item # TemplatesOf(step)
    <3> DEFINE new == [job |-> jobs, hook |-> step, status |-> "none"]
    <3>1. /\ ansible' = Append(ansible, new)
          /\ UNCHANGED <<jobs, todo>>
          /\ at' = [at EXCEPT !.call = "await", !.item = at.item + 1]
      BY <1>1, <2>3 DEF RunAnsibleJob, GoOn
    <3>2. at'.call = "await"
      BY <1>0, <3>1 DEF PodTypeOK, Place
    <3>3. Waits'
      BY <1>0, <1>1, <3>1, <3>2 DEF Waits, RunAnsibleJob, In
    <3> HIDE DEF new
    <3>4. /\ Len(ansible') = Len(ansible) + 1
          /\ DOMAIN ansible = 1 .. Len(ansible)
          /\ DOMAIN ansible' = 1 .. Len(ansible) + 1
          /\ \A i \in 1 .. Len(ansible) : ansible'[i] = ansible[i]
          /\ ansible'[Len(ansible) + 1] = new
      BY <1>0, <3>1
    <3>5. \A i \in DOMAIN ansible : ansible[i].job = jobs => ansible[i].status = "successful"
      BY <1>0, <2>1 DEF HooksIInv, SuccessfulSoFar
    <3>6. new.job = jobs
      BY DEF new
    <3>7. Numbered'
      BY <1>0, <3>1, <3>4, <3>6 DEF HooksIInv, Numbered
    <3>8. OneHookAtATime'
      <4> SUFFICES ASSUME NEW i \in DOMAIN ansible', NEW j \in DOMAIN ansible',
                          i < j, ansible'[i].job = ansible'[j].job
                   PROVE  ansible'[i].status = "successful"
        BY DEF OneHookAtATime
      <4>1. i \in DOMAIN ansible /\ ansible'[i] = ansible[i]
        BY <1>0, <3>4
      <4>2. CASE j \in DOMAIN ansible
        BY <3>4, <4>1, <4>2 DEF HooksIInv, OneHookAtATime
      <4>3. CASE j = Len(ansible) + 1
        BY <3>4, <3>5, <3>6, <4>1, <4>3
      <4> QED
        BY <1>0, <3>4, <4>2, <4>3
    <3>9. SuccessfulSoFar'
      BY <1>0, <3>1, <3>3, <3>4, <3>5 DEF SuccessfulSoFar
    <3> QED
      BY <3>7, <3>8, <3>9 DEF HooksIInv
  <2> QED
    BY <2>2, <2>3
<1>2. CASE MonitorAnsibleJob(step)
  <2>1. CASE ansible[Len(ansible)].status = "successful" /\ GoOn([at EXCEPT !.call = "start"])
    <3>1. UNCHANGED <<ansible, jobs, todo>>
      BY <1>2, <2>1 DEF MonitorAnsibleJob, GoOn
    <3>2. \A i \in DOMAIN ansible : ansible[i].job = jobs => ansible[i].status = "successful"
      BY <1>0, <2>1 DEF HooksIInv, SuccessfulSoFar
    <3>3. OneHookAtATime' /\ Numbered'
      BY <3>1 DEF HooksIInv, OneHookAtATime, Numbered
    <3>4. SuccessfulSoFar'
      BY <3>1, <3>2 DEF SuccessfulSoFar
    <3> QED
      BY <3>3, <3>4 DEF HooksIInv
  <2>2. CASE Fail
    BY <1>2, <2>2, NoHookChange DEF MonitorAnsibleJob, Fail, FailJob
  <2> QED
    BY <1>2, <2>1, <2>2 DEF MonitorAnsibleJob
<1> QED
  BY <1>1, <1>2

\* The Ansible operator never takes a success back.
LEMMA OperatorKeeps ==
  ASSUME HooksIInv, TypeOK', AnsibleOperator PROVE HooksIInv'
<1>0. ansible \in Seq(AnsibleJob) /\ ansible' \in Seq(AnsibleJob)
  BY DEF HooksIInv, TypeOK, AnsibleTypeOK
<1> PICK k \in DOMAIN ansible : RunTemplate(k)
  BY DEF AnsibleOperator
<1>1. UNCHANGED <<jobs, todo, at>>
  BY DEF RunTemplate, podVars
<1>2. PICK s \in Statuses : ansible' = [ansible EXCEPT ![k].status = s]
  BY DEF RunTemplate, Statuses
<1>3. ansible[k].status # "successful"
  BY DEF RunTemplate
<1>4. /\ DOMAIN ansible' = DOMAIN ansible
      /\ Len(ansible') = Len(ansible)
  BY <1>0, <1>2
<1>5. \A i \in DOMAIN ansible :
         /\ ansible'[i].job = ansible[i].job
         /\ ansible[i].status = "successful" => ansible'[i].status = "successful"
  <2> SUFFICES ASSUME NEW i \in DOMAIN ansible
               PROVE  /\ ansible'[i].job = ansible[i].job
                      /\ ansible[i].status = "successful" => ansible'[i].status = "successful"
    OBVIOUS
  <2>1. ansible[i] \in AnsibleJob
    BY <1>0
  <2>2. CASE i = k
    <3>1. ansible'[i] = [ansible[i] EXCEPT !.status = s]
      BY <1>0, <1>2, <2>2
    <3> QED
      BY <1>3, <2>1, <2>2, <3>1 DEF AnsibleJob
  <2>3. CASE i # k
    BY <1>0, <1>2, <2>3
  <2> QED
    BY <2>2, <2>3
<1>6. OneHookAtATime'
  BY <1>4, <1>5 DEF HooksIInv, OneHookAtATime
<1>7. Numbered'
  BY <1>1, <1>4, <1>5 DEF HooksIInv, Numbered
<1>8. SuccessfulSoFar'
  BY <1>1, <1>4, <1>5 DEF HooksIInv, SuccessfulSoFar, Waits
<1> QED
  BY <1>6, <1>7, <1>8 DEF HooksIInv

LEMMA HooksNext == HooksIInv /\ [Next]_vars => HooksIInv'
<1> SUFFICES ASSUME HooksIInv, [Next]_vars PROVE HooksIInv'
  OBVIOUS
<1>0. TypeOK /\ PodTypeOK /\ ProvisionTypeOK /\ jobs \in Nat
  BY PodBoundAssumption DEF HooksIInv, TypeOK, PodTypeOK
<1>1. TypeOK'
  BY <1>0, NextTypes
<1>2. UNCHANGED <<ansible, podVars>> => HooksIInv'
  BY <1>1 DEF HooksIInv, podVars, OneHookAtATime, Numbered, SuccessfulSoFar, Waits
<1>3. ASSUME NEW c \in Curators, Launch(c) PROVE HooksIInv'
  <2>1. UNCHANGED ansible /\ jobs' = jobs + 1
    BY <1>3 DEF Launch, LaunchJob
  <2>2. \A i \in DOMAIN ansible : ansible[i].job \in Nat
    <3>1. \A i \in DOMAIN ansible : ansible[i] \in AnsibleJob
      BY DEF HooksIInv, TypeOK, AnsibleTypeOK
    <3> QED
      BY <3>1 DEF AnsibleJob
  <2>3. \A i \in DOMAIN ansible : ansible[i].job < jobs'
    BY <1>0, <2>1, <2>2 DEF HooksIInv, Numbered
  <2>4. OneHookAtATime' /\ Numbered'
    BY <1>0, <2>1, <2>2, <2>3 DEF HooksIInv, OneHookAtATime, Numbered
  <2>5. SuccessfulSoFar'
    BY <1>0, <2>1, <2>2, <2>3 DEF SuccessfulSoFar
  <2> QED
    BY <1>1, <2>4, <2>5 DEF HooksIInv
<1>4. CASE Hooks
  BY <1>1, <1>4, HooksKept
<1>5. CASE (Provisioning \/ HostedUpgrading) /\ UNCHANGED <<ansible, shared>>
  <2>1. todo # <<>> /\ ~Waits /\ UNCHANGED jobs
    BY <1>0, <1>5, ProvisioningMoves, UpgradingMoves, MovesKeepJobs DEF Waits
  <2> QED
    BY <1>1, <1>5, <2>1, NoHookChange
<1>6. CASE Done /\ UNCHANGED <<ansible, shared, clusterVars>>
  BY <1>1, <1>6, NoHookChange DEF Done
<1>7. CASE CallFails /\ UNCHANGED <<ansible, shared, clusterVars>>
  BY <1>1, <1>7, NoHookChange DEF CallFails, FailJob
<1>8. CASE AnsibleOperator
  BY <1>1, <1>8, OperatorKeeps
<1>9. CASE (Hive \/ Hypershift \/ Join \/ ReportVersion) /\ UNCHANGED <<ansible, shared>>
  BY <1>0, <1>2, <1>9, OutsideLeavesPod
<1>10. CASE UNCHANGED vars
  BY <1>2, <1>10 DEF vars
<1> QED
  BY <1>3, <1>4, <1>5, <1>6, <1>7, <1>8, <1>9, <1>10 DEF Next, Container, Outside

\* However many templates, Jobs and failures: of the AnsibleJobs of one Job each is
\* created when the one before it was successful (ansible job.go:91-109 and 407-503).
THEOREM HooksInTurn == Spec => []OneHookAtATime
<1>1. HooksIInv => OneHookAtATime
  BY DEF HooksIInv
<1> QED
  BY <1>1, HooksInit, HooksNext, PTL DEF Spec

-----------------------------------------------------------------------------
(* NodePools stay behind their HostedCluster.                               *)

\* What the HostedCluster runs or is to run it was asked for.
AskedFor ==
    /\ hc.version # NoVersion => hc.version \in asked
    /\ hc.image # NoVersion => hc.image \in asked

\* Past the validation: a request that goes to the NodePools is not ahead of what the
\* HostedCluster was asked for, and one for NodePools only patches no channel.
Behind(version) == \E v \in asked : version <= v

Upgrading(call) == todo # <<>> /\ Head(todo) = "upgrade-cluster" /\ at.call = call

Validated ==
    /\ Upgrading("channel") => ~OnlyPools
    /\ Upgrading("pools") => Behind(request.version)

PoolsIInv == TypeOK /\ AskedFor /\ Validated

\* The images of NodePools change only to what some version asked for is not behind.
ImagesBehind ==
    \A p \in Pools : pool'[p].image # pool[p].image => Behind(pool'[p].image)

\* After the step no patch of an upgrade is under way.
Quiet == ~Upgrading("channel")' /\ ~Upgrading("pools")'

LEMMA PoolsInit == Init => PoolsIInv
<1> SUFFICES ASSUME Init PROVE PoolsIInv
  OBVIOUS
<1>1. TypeOK
  BY InitTypes
<1>2. todo = <<>>
  BY Zenon DEF Init, PodInit
<1>3. hc.version \in {NoVersion, hc.image}
  <2>1. CASE NewStandalone
    BY <2>1 DEF NewStandalone, NoHC
  <2>2. ASSUME NEW v, NEW platform, NEW p, Hosted(NoVersion, platform, v, p)
        PROVE  hc.version = NoVersion
    BY <2>2 DEF Hosted, NoHC
  <2>3. ASSUME NEW v, NEW platform, NEW p, Hosted(v, platform, v, p)
        PROVE  hc.version = hc.image
    BY <2>3 DEF Hosted, NoHC
  <2> QED
    BY <2>1, <2>2, <2>3 DEF Init
<1>4. AskedFor
  BY <1>3 DEF Init, AskedFor
<1>5. Validated
  BY <1>2 DEF Validated, Upgrading
<1> QED
  BY <1>1, <1>4, <1>5 DEF PoolsIInv

\* A container that ends leaves no patch under way, as does one of another kind.
LEMMA EndsQuiet ==
  ASSUME todo' = <<>> \/ at' = Begin \/ Head(todo') # "upgrade-cluster" PROVE Quiet
  BY DEF Quiet, Upgrading, Begin

LEMMA MovesQuiet ==
  ASSUME Moves, Head(todo) # "upgrade-cluster" PROVE Quiet
<1>1. ASSUME NEW place, GoOn(place) PROVE Quiet
  BY <1>1, EndsQuiet DEF GoOn
<1>2. CASE Fail
  BY <1>2, EndsQuiet DEF Fail, FailJob
<1> QED
  BY <1>1, <1>2, EndsQuiet DEF Moves, Succeed, NextAttempt

LEMMA ProvisioningQuiet ==
  ASSUME PodTypeOK, ProvisionTypeOK, Provisioning PROVE Quiet
<1>1. CASE AskType
  <2>1. CASE Fail
    BY <2>1, EndsQuiet DEF Fail, FailJob
  <2>2. CASE ~Fail
    <3> DEFINE next == IF at.call = "again" \/ Head(todo) \in {"monitor-destroy", "monitor-upgrade"}
                       THEN "monitor" ELSE "work"
    <3>1. at' = [at EXCEPT !.type = ClusterType, !.call = next]
      BY <1>1, <2>2 DEF AskType, GoOn
    <3>2. at'.call = next
      BY <3>1 DEF PodTypeOK, Place
    <3> QED
      BY <3>2 DEF Quiet, Upgrading
  <2> QED
    BY <2>1, <2>2
<1>2. CASE ~AskType
  <2>1. Head(todo) # "upgrade-cluster"
    BY <1>2 DEF Provisioning, ActivateDeploy, UnpauseHostedCluster, UnpauseNodePool,
                PollDeployment, FindJob, AwaitJob, PollHostedCluster, AwaitHostedCluster,
                MonitorImport, DestroyDeployment, Detach, AwaitDetach, DestroyHostedCluster,
                Monitors, MonitorSteps, AtWork, In
  <2> QED
    BY <2>1, ProvisioningMoves, MovesQuiet
<1> QED
  BY <1>1, <1>2

LEMMA ProvisioningVersions ==
  ASSUME ProvisionTypeOK, Provisioning
  PROVE  /\ asked' = asked
         /\ hc'.version = hc.version /\ hc'.image = hc.image
         /\ \A p \in Pools : pool'[p].image = pool[p].image
<1>1. CASE UnpauseHostedCluster \/ DestroyHostedCluster
  <2>1. hc'.version = hc.version /\ hc'.image = hc.image
    BY <1>1 DEF UnpauseHostedCluster, DestroyHostedCluster, ProvisionTypeOK, HostedCluster
  <2> QED
    BY <1>1, <2>1 DEF UnpauseHostedCluster, DestroyHostedCluster
<1>2. CASE UnpauseNodePool
  <2>1. pool' = pool \/ \E q \in at.left : pool' = [pool EXCEPT ![q].paused = Unpaused(@)]
    BY <1>2 DEF UnpauseNodePool
  <2>2. \A p \in Pools : pool'[p].image = pool[p].image
    <3> SUFFICES ASSUME NEW p \in Pools, NEW q,
                        pool' = [pool EXCEPT ![q].paused = Unpaused(@)]
                 PROVE  pool'[p].image = pool[p].image
      BY <2>1
    <3>1. pool[p] \in NodePool
      BY DEF ProvisionTypeOK
    <3>2. pool'[p] \in {pool[p], [pool[p] EXCEPT !.paused = Unpaused(pool[p].paused)]}
      BY DEF ProvisionTypeOK
    <3> QED
      BY <3>1, <3>2 DEF NodePool
  <2> QED
    BY <1>2, <2>2 DEF UnpauseNodePool
<1>3. CASE ActivateDeploy \/ DestroyDeployment \/ Detach
  BY <1>3 DEF ActivateDeploy, DestroyDeployment, Detach
<1>4. CASE \/ AskType \/ PollDeployment \/ FindJob \/ AwaitJob \/ PollHostedCluster
           \/ AwaitHostedCluster \/ MonitorImport \/ AwaitDetach
  BY <1>4 DEF AskType, PollDeployment, FindJob, AwaitJob, PollHostedCluster,
              AwaitHostedCluster, MonitorImport, AwaitDetach, Unchanged, clusterVars
<1> QED
  BY <1>1, <1>2, <1>3, <1>4 DEF Provisioning

LEMMA QuietIsValid == Quiet => Validated'
  BY DEF Quiet, Validated, Upgrading

\* The patches that lead to the NodePools keep what the validation found out.
LEMMA AfterImageValid ==
  ASSUME PodTypeOK, AfterImage, WithPools => \E v \in asked' : request.version <= v
  PROVE  Validated'
<1>1. CASE WithPools
  <2>1. at' = [at EXCEPT !.call = "pools", !.left = MatchingPools] /\ curator' = curator
    BY <1>1 DEF AfterImage, GoOn
  <2>2. at'.call = "pools"
    BY <2>1 DEF PodTypeOK, Place
  <2>3. request' = request
    BY <2>1 DEF request
  <2>4. Behind(request.version)'
    BY <1>1, <2>3 DEF Behind
  <2> QED
    BY <2>2, <2>4 DEF Validated, Upgrading
<1>2. CASE ~WithPools
  BY <1>2, EndsQuiet, QuietIsValid DEF AfterImage, Succeed
<1> QED
  BY <1>1, <1>2

LEMMA AfterChannelValid ==
  ASSUME PodTypeOK, ProvisionTypeOK, AskedFor, AfterChannel, asked' = asked,
         OnlyPools /\ request.version # NoVersion => request.version <= hc.version
  PROVE  Validated'
<1>1. CASE request.version = NoVersion
  BY <1>1, EndsQuiet, QuietIsValid DEF AfterChannel, Succeed
<1>2. CASE request.version # NoVersion /\ WithControlPlane
  <2>1. at' = [at EXCEPT !.call = "image"]
    BY <1>2 DEF AfterChannel, GoOn
  <2>2. at'.call = "image"
    BY <2>1 DEF PodTypeOK, Place
  <2> QED
    BY <2>2 DEF Validated, Upgrading
<1>3. CASE request.version # NoVersion /\ ~WithControlPlane
  <2>1. AfterImage
    BY <1>3 DEF AfterChannel
  <2>2. request.version \in Nat /\ hc.version \in Nat
    BY DEF PodTypeOK, request, Request, ProvisionTypeOK, HostedCluster
  <2>3. ASSUME WithPools PROVE \E v \in asked' : request.version <= v
    <3>1. OnlyPools
      BY <1>3, <2>3 DEF WithPools, WithControlPlane, OnlyPools
    <3>2. request.version <= hc.version /\ hc.version # NoVersion
      BY <1>3, <2>2, <3>1 DEF NoVersion
    <3> QED
      BY <3>2 DEF AskedFor
  <2> QED
    BY <2>1, <2>3, AfterImageValid
<1> QED
  BY <1>1, <1>2, <1>3

LEMMA UpgradingBehind ==
  ASSUME PoolsIInv, HostedUpgrading PROVE AskedFor' /\ Validated' /\ ImagesBehind
<1>0. PodTypeOK /\ ProvisionTypeOK /\ AskedFor /\ Validated
  BY DEF PoolsIInv, TypeOK
<1>1. Unchanged => AskedFor' /\ ImagesBehind /\ asked' = asked
  BY <1>0 DEF Unchanged, clusterVars, AskedFor, ImagesBehind
<1>2. CASE ValidateUpgrade
  <2>0. AskedFor' /\ ImagesBehind
    BY <1>1, <1>2 DEF ValidateUpgrade
  <2>1. CASE Fail \/ Succeed
    BY <2>0, <2>1, EndsQuiet, QuietIsValid DEF Fail, FailJob, Succeed
  <2>2. CASE ~Fail /\ ~Succeed
    <3>1. /\ UpgradeValid
          /\ IF WithChannel THEN GoOn([at EXCEPT !.call = "channel"]) ELSE AfterChannel
      BY <1>2, <2>2 DEF ValidateUpgrade
    <3>2. CASE WithChannel
      <4>1. at' = [at EXCEPT !.call = "channel"] /\ curator' = curator
        BY <3>1, <3>2 DEF GoOn
      <4>2. at'.call = "channel"
        BY <1>0, <4>1 DEF PodTypeOK, Place
      <4>3. ~OnlyPools'
        BY <3>2, <4>1 DEF WithChannel, OnlyPools, request
      <4> QED
        BY <2>0, <4>2, <4>3 DEF Validated, Upgrading
    <3>3. CASE ~WithChannel
      <4>1. OnlyPools /\ request.version # NoVersion => request.version <= hc.version
        BY <3>1 DEF UpgradeValid
      <4> QED
        BY <1>0, <1>1, <1>2, <2>0, <3>1, <3>3, <4>1, AfterChannelValid DEF ValidateUpgrade
    <3> QED
      BY <3>2, <3>3
  <2> QED
    BY <2>1, <2>2
<1>3. CASE PatchChannel
  <2>1. hc'.version = hc.version /\ hc'.image = hc.image
    BY <1>0, <1>3 DEF PatchChannel, ProvisionTypeOK, HostedCluster
  <2>2. AskedFor' /\ ImagesBehind
    BY <1>0, <1>3, <2>1 DEF PatchChannel, AskedFor, ImagesBehind
  <2>3. ~OnlyPools
    BY <1>0, <1>3 DEF PatchChannel, AtWork, In, Validated, Upgrading
  <2> QED
    BY <1>0, <1>3, <2>2, <2>3, AfterChannelValid DEF PatchChannel
<1>4. CASE PatchImage
  <2>1. hc'.version = hc.version /\ hc'.image = request.version
    BY <1>0, <1>4 DEF PatchImage, ProvisionTypeOK, HostedCluster
  <2>2. AskedFor' /\ ImagesBehind
    BY <1>0, <1>4, <2>1 DEF PatchImage, AskedFor, ImagesBehind
  <2>3. request.version \in asked' /\ request.version <= request.version
    <3>1. request.version \in Nat
      BY <1>0 DEF PodTypeOK, request, Request
    <3> QED
      BY <1>4, <3>1 DEF PatchImage
  <2> QED
    BY <1>0, <1>4, <2>2, <2>3, AfterImageValid DEF PatchImage
<1>5. CASE PatchNodePool
  <2>1. Behind(request.version)
    BY <1>0, <1>5 DEF PatchNodePool, AtWork, In, Validated, Upgrading
  <2>2. AskedFor'
    BY <1>0, <1>5 DEF PatchNodePool, AskedFor
  <2>3. pool' = pool \/ \E q \in at.left : pool' = [pool EXCEPT ![q].image = request.version]
    BY <1>5 DEF PatchNodePool
  <2>4. ImagesBehind
    <3> SUFFICES ASSUME NEW p \in Pools, NEW q,
                        pool' = [pool EXCEPT ![q].image = request.version]
                 PROVE  pool'[p].image \in {pool[p].image, request.version}
      BY <2>1, <2>3 DEF ImagesBehind
    <3>1. pool[p] \in NodePool
      BY <1>0 DEF ProvisionTypeOK
    <3>2. pool'[p] \in {pool[p], [pool[p] EXCEPT !.image = request.version]}
      BY <1>0 DEF ProvisionTypeOK
    <3> QED
      BY <3>1, <3>2 DEF NodePool
  <2>5. Validated'
    <3>1. CASE Succeed
      BY <3>1, EndsQuiet, QuietIsValid DEF Succeed
    <3>2. CASE ~Succeed
      <4>1. PICK q \in at.left : GoOn([at EXCEPT !.left = at.left \ {q}])
        BY <1>5, <3>2 DEF PatchNodePool
      <4>2. at'.call = at.call /\ at.call = "pools"
        BY <1>0, <1>5, <4>1 DEF GoOn, PodTypeOK, Place, PatchNodePool, AtWork, In
      <4>3. request' = request /\ asked' = asked
        BY <1>5, <4>1 DEF GoOn, request, PatchNodePool
      <4> QED
        BY <2>1, <4>2, <4>3 DEF Validated, Upgrading, Behind
    <3> QED
      BY <3>1, <3>2
  <2> QED
    BY <2>2, <2>4, <2>5
<1>6. CASE MonitorTurn \/ MonitorControlPlane \/ AwaitControlPlane
  <2>1. Unchanged /\ Head(todo) # "upgrade-cluster"
    BY <1>6 DEF MonitorTurn, MonitorControlPlane, AwaitControlPlane, AtWork, In
  <2> QED
    BY <1>0, <1>1, <2>1, UpgradingMoves, MovesQuiet, QuietIsValid
<1> QED
  BY <1>2, <1>3, <1>4, <1>5, <1>6 DEF HostedUpgrading

\* Hypershift takes up the image that was asked for.
LEMMA HypershiftVersions ==
  ASSUME ProvisionTypeOK, AskedFor, Hypershift
  PROVE  /\ AskedFor'
         /\ asked' = asked
         /\ \A p \in Pools : pool'[p].image = pool[p].image
<1>1. CASE Unsettle
  <2>1. hc'.version = hc.image /\ hc'.image = hc.image
    BY <1>1 DEF Unsettle, ProvisionTypeOK, HostedCluster
  <2> QED
    BY <1>1, <2>1 DEF Unsettle, AskedFor
<1>2. CASE Settle
  <2>1. hc'.version = hc.version /\ hc'.image = hc.image
    BY <1>2 DEF Settle, ProvisionTypeOK, HostedCluster
  <2> QED
    BY <1>2, <2>1 DEF Settle, AskedFor
<1>3. CASE RemoveHostedCluster
  <2>1. CASE hc' = NoHC
    BY <1>3, <2>1 DEF RemoveHostedCluster, AskedFor, NoHC
  <2>2. CASE hc' = [hc EXCEPT !.ready = FALSE]
    <3>1. hc'.version = hc.version /\ hc'.image = hc.image
      BY <2>2 DEF ProvisionTypeOK, HostedCluster
    <3> QED
      BY <1>3, <3>1 DEF RemoveHostedCluster, AskedFor
  <2> QED
    BY <1>3, <2>1, <2>2 DEF RemoveHostedCluster
<1>4. CASE \E p \in Pools : RunNodePool(p)
  <2>1. PICK q \in Pools : RunNodePool(q)
    BY <1>4
  <2>2. \/ pool' = [pool EXCEPT ![q] = [pool[q] EXCEPT !.ready = FALSE]]
        \/ pool' = [pool EXCEPT ![q] = [pool[q] EXCEPT !.ready = TRUE, !.version = pool[q].image]]
    BY <2>1 DEF RunNodePool, ProvisionTypeOK
  <2>3. pool[q] \in NodePool
    BY DEF ProvisionTypeOK
  <2>4. \A p \in Pools : pool'[p].image = pool[p].image
    <3>1. PICK np : pool' = [pool EXCEPT ![q] = np] /\ np.image = pool[q].image
      BY <2>2, <2>3 DEF NodePool
    <3> QED
      BY <3>1 DEF ProvisionTypeOK
  <2>5. hc' = hc /\ asked' = asked
    BY <2>1 DEF RunNodePool
  <2> QED
    BY <2>4, <2>5 DEF AskedFor
<1> QED
  BY <1>1, <1>2, <1>3, <1>4 DEF Hypershift

LEMMA PoolsNext == PoolsIInv /\ [Next]_vars => PoolsIInv' /\ [ImagesBehind]_vars
<1> SUFFICES ASSUME PoolsIInv, [Next]_vars PROVE PoolsIInv' /\ ImagesBehind
  OBVIOUS
<1>0. TypeOK /\ PodTypeOK /\ ProvisionTypeOK /\ AskedFor /\ Validated
  BY DEF PoolsIInv, TypeOK
<1>1. TypeOK'
  BY <1>0, NextTypes
<1>2. UNCHANGED clusterVars => AskedFor' /\ ImagesBehind
  BY <1>0 DEF clusterVars, AskedFor, ImagesBehind
<1>3. UNCHANGED <<podVars, asked>> => Validated'
  BY <1>0 DEF podVars, Validated, Upgrading, Behind, OnlyPools, request
<1>4. ASSUME NEW c \in Curators, Launch(c) PROVE Quiet /\ UNCHANGED clusterVars
  BY <1>4, EndsQuiet DEF Launch, LaunchJob
<1>5. CASE Hooks /\ UNCHANGED <<shared, clusterVars>>
  <2>1. PICK step \in HookSteps : RunAnsibleJob(step) \/ MonitorAnsibleJob(step)
    BY <1>5 DEF Hooks
  <2>2. Head(todo) # "upgrade-cluster"
    BY <2>1 DEF HookSteps, RunAnsibleJob, MonitorAnsibleJob, In
  <2>3. Succeed \/ Fail \/ \E place : GoOn(place)
    BY <2>1 DEF RunAnsibleJob, MonitorAnsibleJob
  <2>4. Quiet
    BY <2>2, <2>3, EndsQuiet DEF Succeed, Fail, FailJob, GoOn
  <2> QED
    BY <1>1, <1>2, <1>5, <2>4, QuietIsValid DEF PoolsIInv
<1>6. CASE Provisioning
  <2>1. Quiet
    BY <1>0, <1>6, ProvisioningQuiet
  <2>2. AskedFor' /\ ImagesBehind
    BY <1>0, <1>6, ProvisioningVersions DEF AskedFor, ImagesBehind
  <2> QED
    BY <1>1, <2>1, <2>2, QuietIsValid DEF PoolsIInv
<1>7. CASE HostedUpgrading
  BY <1>1, <1>7, UpgradingBehind DEF PoolsIInv
<1>8. CASE (Done \/ CallFails) /\ UNCHANGED <<ansible, shared, clusterVars>>
  <2>1. Quiet
    BY <1>8, EndsQuiet DEF Done, CallFails, FailJob
  <2> QED
    BY <1>1, <1>2, <1>8, <2>1, QuietIsValid DEF PoolsIInv
<1>9. CASE AnsibleOperator /\ UNCHANGED <<shared, clusterVars>>
  <2>1. UNCHANGED <<podVars, asked>>
    BY <1>9 DEF AnsibleOperator, RunTemplate, clusterVars
  <2> QED
    BY <1>1, <1>2, <1>3, <1>9, <2>1 DEF PoolsIInv
<1>10. CASE Hypershift
  <2>1. UNCHANGED <<podVars, asked>>
    BY <1>0, <1>10, OutsideLeavesPod, HypershiftVersions
  <2> QED
    BY <1>0, <1>1, <1>3, <1>10, <2>1, HypershiftVersions DEF PoolsIInv, ImagesBehind
<1>11. CASE Hive \/ Join \/ ReportVersion
  <2>1. UNCHANGED <<podVars, hc, pool, asked>>
    BY <1>11 DEF Hive, StartProvision, StopProvision, RunInstaller, FinishProvision,
                 RunUninstaller, RemoveDeployment, Join, ReportVersion
  <2>2. AskedFor' /\ ImagesBehind
    BY <1>0, <2>1 DEF AskedFor, ImagesBehind
  <2> QED
    BY <1>1, <1>3, <2>1, <2>2 DEF PoolsIInv
<1>12. CASE UNCHANGED vars
  BY <1>1, <1>2, <1>3, <1>12 DEF vars, clusterVars, PoolsIInv
<1> QED
  BY <1>1, <1>2, <1>4, <1>5, <1>6, <1>7, <1>8, <1>9, <1>10, <1>11, <1>12, QuietIsValid
  DEF Next, Container, Outside, PoolsIInv

\* Whatever is requested, and wherever a Job before broke off: a NodePool is only asked
\* for a version not higher than one its HostedCluster was asked for
\* (hypershift.go:780-799).
THEOREM PoolsStayBehind == Spec => PoolsBehind
<1>1. PoolsIInv /\ [Next]_vars
        => [\A p \in Pools :
              pool'[p].image # pool[p].image => \E v \in asked : pool'[p].image <= v]_vars
  BY PoolsNext DEF ImagesBehind, Behind
<1> QED
  BY <1>1, PoolsInit, PoolsNext, PTL DEF Spec, PoolsBehind

-----------------------------------------------------------------------------
(* The containers of a Job come in their order.                             *)

\* The containers after the work of a Job.
Late == {"posthook-ansiblejob", "done"}

ToCome(s, step) == \E i \in 1 .. Len(s) : s[i] = step

\* A prehook is first, what is late stays so, and an upgrade is monitored.
InOrder(s) ==
    \A i, j \in 1 .. Len(s) :
       i < j => s[j] # "prehook-ansiblejob" /\ (s[i] \in Late => s[j] \in Late)

Monitored(s) ==
    \A i \in 1 .. Len(s) :
       s[i] = "upgrade-cluster" => \E j \in 1 .. Len(s) : i < j /\ s[j] = "monitor-upgrade"

LEMMA JoinedSteps ==
  ASSUME NEW s \in Seq(Steps), NEW t \in Seq(Steps)
  PROVE  /\ s \o t \in Seq(Steps)
         /\ Len(s) \in Nat /\ Len(t) \in Nat /\ Len(s \o t) = Len(s) + Len(t)
         /\ \A i \in 1 .. Len(s) : i \in 1 .. Len(s \o t) /\ (s \o t)[i] = s[i]
         /\ \A i \in 1 .. Len(t) :
              Len(s) + i \in 1 .. Len(s \o t) /\ (s \o t)[Len(s) + i] = t[i]
         /\ \A i \in 1 .. Len(s \o t) :
              \/ i \in 1 .. Len(s) /\ (s \o t)[i] = s[i]
              \/ i - Len(s) \in 1 .. Len(t) /\ (s \o t)[i] = t[i - Len(s)]
<1>1. /\ s \o t \in Seq(Steps) /\ Len(s) \in Nat /\ Len(t) \in Nat
      /\ Len(s \o t) = Len(s) + Len(t)
  OBVIOUS
<1>2. \A i \in 1 .. Len(s) + Len(t) :
         (s \o t)[i] = IF i <= Len(s) THEN s[i] ELSE t[i - Len(s)]
  OBVIOUS
<1>3. \A i \in 1 .. Len(t) : Len(s) + i \in 1 .. Len(s \o t) /\ ~(Len(s) + i <= Len(s))
                             /\ (Len(s) + i) - Len(s) = i
  BY <1>1
<1>4. \A i \in 1 .. Len(s) : i \in 1 .. Len(s) + Len(t) /\ i <= Len(s)
  BY <1>1
<1>5. \A i \in 1 .. Len(s) + Len(t) :
         IF i <= Len(s) THEN i \in 1 .. Len(s) ELSE i - Len(s) \in 1 .. Len(t)
  BY <1>1
<1> QED
  BY <1>1, <1>2, <1>3, <1>4, <1>5

LEMMA JoinedOrder ==
  ASSUME NEW s \in Seq(Steps), NEW t \in Seq(Steps), InOrder(s), InOrder(t),
         Monitored(s), Monitored(t), ~ToCome(t, "prehook-ansiblejob"),
         \/ \A i \in 1 .. Len(s) : s[i] \notin Late
         \/ \A i \in 1 .. Len(t) : t[i] \in Late
  PROVE  /\ s \o t \in Seq(Steps) /\ InOrder(s \o t) /\ Monitored(s \o t)
         /\ \A step : ToCome(s \o t, step) <=> ToCome(s, step) \/ ToCome(t, step)
<1>1. InOrder(s \o t)
  <2> SUFFICES ASSUME NEW i \in 1 .. Len(s \o t), NEW j \in 1 .. Len(s \o t), i < j
               PROVE  /\ (s \o t)[j] # "prehook-ansiblejob"
                      /\ (s \o t)[i] \in Late => (s \o t)[j] \in Late
    BY DEF InOrder
  <2>0. i \in Int /\ j \in Int /\ Len(s) \in Nat
    BY JoinedSteps
  <2>1. CASE j \in 1 .. Len(s)
    <3>1. i \in 1 .. Len(s)
      BY <2>0, <2>1
    <3> QED
      BY <2>1, <3>1, JoinedSteps DEF InOrder
  <2>2. CASE j - Len(s) \in 1 .. Len(t) /\ (s \o t)[j] = t[j - Len(s)]
    <3>1. (s \o t)[j] # "prehook-ansiblejob"
      BY <2>2 DEF ToCome
    <3>2. CASE i \in 1 .. Len(s)
      <4>1. (s \o t)[i] = s[i]
        BY <3>2, JoinedSteps
      <4> QED
        BY <2>2, <3>1, <3>2, <4>1
    <3>3. CASE i - Len(s) \in 1 .. Len(t) /\ (s \o t)[i] = t[i - Len(s)]
      <4>1. i - Len(s) < j - Len(s)
        BY <2>0
      <4> QED
        BY <2>2, <3>1, <3>3, <4>1 DEF InOrder
    <3> QED
      BY <3>2, <3>3, JoinedSteps
  <2> QED
    BY <2>1, <2>2, JoinedSteps
<1>2. Monitored(s \o t)
  <2> SUFFICES ASSUME NEW i \in 1 .. Len(s \o t), (s \o t)[i] = "upgrade-cluster"
               PROVE  \E j \in 1 .. Len(s \o t) : i < j /\ (s \o t)[j] = "monitor-upgrade"
    BY DEF Monitored
  <2>1. CASE i \in 1 .. Len(s) /\ (s \o t)[i] = s[i]
    <3>1. PICK j \in 1 .. Len(s) : i < j /\ s[j] = "monitor-upgrade"
      BY <2>1 DEF Monitored
    <3> QED
      BY <3>1, JoinedSteps
  <2>2. CASE i - Len(s) \in 1 .. Len(t) /\ (s \o t)[i] = t[i - Len(s)]
    <3>1. PICK j \in 1 .. Len(t) : i - Len(s) < j /\ t[j] = "monitor-upgrade"
      BY <2>2 DEF Monitored
    <3>2. /\ Len(s) + j \in 1 .. Len(s \o t)
          /\ (s \o t)[Len(s) + j] = "monitor-upgrade"
      BY <3>1, JoinedSteps
    <3>3. i < Len(s) + j
      <4>1. i \in Int /\ Len(s) \in Int
        BY JoinedSteps
      <4> QED
        BY <3>1, <4>1
    <3> QED
      BY <3>2, <3>3
  <2> QED
    BY <2>1, <2>2, JoinedSteps
<1>3. ASSUME NEW step PROVE ToCome(s \o t, step) <=> ToCome(s, step) \/ ToCome(t, step)
  <2>1. ToCome(s \o t, step) => ToCome(s, step) \/ ToCome(t, step)
    <3> SUFFICES ASSUME NEW i \in 1 .. Len(s \o t), (s \o t)[i] = step
                 PROVE  ToCome(s, step) \/ ToCome(t, step)
      BY DEF ToCome
    <3>1. \/ i \in 1 .. Len(s) /\ (s \o t)[i] = s[i]
          \/ i - Len(s) \in 1 .. Len(t) /\ (s \o t)[i] = t[i - Len(s)]
      BY JoinedSteps
    <3> QED
      BY <3>1 DEF ToCome
  <2>2. ToCome(s, step) => ToCome(s \o t, step)
    <3> SUFFICES ASSUME NEW i \in 1 .. Len(s), s[i] = step PROVE ToCome(s \o t, step)
      BY DEF ToCome
    <3> QED
      BY JoinedSteps DEF ToCome
  <2>3. ToCome(t, step) => ToCome(s \o t, step)
    <3> SUFFICES ASSUME NEW i \in 1 .. Len(t), t[i] = step PROVE ToCome(s \o t, step)
      BY DEF ToCome
    <3> QED
      BY JoinedSteps DEF ToCome
  <2> QED
    BY <2>1, <2>2, <2>3
<1> QED
  BY <1>1, <1>2, <1>3, JoinedSteps

\* What is left of an order is one.
LEMMA RestInOrder ==
  ASSUME NEW s \in Seq(Steps), s # <<>>, InOrder(s), Monitored(s)
  PROVE  /\ InOrder(Tail(s)) /\ Monitored(Tail(s))
         /\ \A step : ToCome(s, step) <=> step = Head(s) \/ ToCome(Tail(s), step)
         /\ ~ToCome(Tail(s), "prehook-ansiblejob")
         /\ Head(s) \in Late => \A step : ToCome(s, step) => step \in Late
<1>0. /\ Len(s) \in Nat /\ Len(s) >= 1 /\ Head(s) = s[1] /\ 1 \in 1 .. Len(s)
      /\ Len(Tail(s)) = Len(s) - 1
      /\ \A i \in 1 .. Len(s) - 1 : Tail(s)[i] = s[i + 1]
  OBVIOUS
<1>1. \A i \in 1 .. Len(s) - 1 : i + 1 \in 1 .. Len(s) /\ 1 < i + 1
  BY <1>0
<1>2. InOrder(Tail(s))
  <2> SUFFICES ASSUME NEW i \in 1 .. Len(s) - 1, NEW j \in 1 .. Len(s) - 1, i < j
               PROVE  /\ Tail(s)[j] # "prehook-ansiblejob"
                      /\ Tail(s)[i] \in Late => Tail(s)[j] \in Late
    BY <1>0 DEF InOrder
  <2>1. i + 1 < j + 1
    BY <1>0
  <2>2. Tail(s)[i] = s[i + 1] /\ Tail(s)[j] = s[j + 1]
    BY <1>0
  <2> QED
    BY <1>1, <2>1, <2>2 DEF InOrder
<1>3. Monitored(Tail(s))
  <2> SUFFICES ASSUME NEW i \in 1 .. Len(s) - 1, Tail(s)[i] = "upgrade-cluster"
               PROVE  \E j \in 1 .. Len(s) - 1 : i < j /\ Tail(s)[j] = "monitor-upgrade"
    BY <1>0 DEF Monitored
  <2>1. PICK j \in 1 .. Len(s) : i + 1 < j /\ s[j] = "monitor-upgrade"
    BY <1>0, <1>1 DEF Monitored
  <2>2. j - 1 \in 1 .. Len(s) - 1 /\ i < j - 1 /\ (j - 1) + 1 = j
    BY <1>0, <2>1
  <2> QED
    BY <1>0, <2>1, <2>2
<1>4. ASSUME NEW step PROVE ToCome(s, step) <=> step = Head(s) \/ ToCome(Tail(s), step)
  <2>1. \A i \in 1 .. Len(s) : i = 1 \/ (i - 1 \in 1 .. Len(s) - 1 /\ (i - 1) + 1 = i)
    BY <1>0
  <2>2. ToCome(s, step) => step = Head(s) \/ ToCome(Tail(s), step)
    <3> SUFFICES ASSUME NEW i \in 1 .. Len(s), s[i] = step, i # 1 PROVE ToCome(Tail(s), step)
      BY <1>0 DEF ToCome
    <3>1. i - 1 \in 1 .. Len(s) - 1 /\ Tail(s)[i - 1] = s[(i - 1) + 1] /\ (i - 1) + 1 = i
      BY <1>0, <2>1
    <3> QED
      BY <1>0, <3>1 DEF ToCome
  <2>3. step = Head(s) => ToCome(s, step)
    BY <1>0 DEF ToCome
  <2>4. ToCome(Tail(s), step) => ToCome(s, step)
    <3> SUFFICES ASSUME NEW i \in 1 .. Len(s) - 1, Tail(s)[i] = step PROVE ToCome(s, step)
      BY <1>0 DEF ToCome
    <3>1. i + 1 \in 1 .. Len(s) /\ s[i + 1] = step
      BY <1>0, <1>1
    <3> QED
      BY <3>1 DEF ToCome
  <2> QED
    BY <2>2, <2>3, <2>4
<1>5. ~ToCome(Tail(s), "prehook-ansiblejob")
  BY <1>0, <1>1 DEF ToCome, InOrder
<1>6. ASSUME Head(s) \in Late, NEW step, ToCome(s, step) PROVE step \in Late
  <2>1. PICK i \in 1 .. Len(s) : s[i] = step
    BY <1>6 DEF ToCome
  <2>2. i = 1 \/ 1 < i
    BY <1>0
  <2> QED
    BY <1>0, <1>6, <2>1, <2>2 DEF InOrder
<1> QED
  BY <1>2, <1>3, <1>4, <1>5, <1>6

LEMMA NoStepInOrder ==
  /\ <<>> \in Seq(Steps) /\ InOrder(<<>>) /\ Monitored(<<>>)
  /\ \A step : ~ToCome(<<>>, step)
  BY DEF InOrder, Monitored, ToCome

LEMMA OneStepInOrder ==
  ASSUME NEW x \in Steps, x # "upgrade-cluster"
  PROVE  /\ <<x>> \in Seq(Steps) /\ InOrder(<<x>>) /\ Monitored(<<x>>)
         /\ \A step : ToCome(<<x>>, step) <=> step = x
<1>1. <<x>> \in Seq(Steps) /\ Len(<<x>>) = 1 /\ <<x>>[1] = x
  OBVIOUS
<1>2. \A i, j \in 1 .. 1 : i = 1 /\ ~(i < j)
  OBVIOUS
<1> QED
  BY <1>1, <1>2 DEF InOrder, Monitored, ToCome

\* The containers between the hooks, by what the Job is for.
LEMMA MainInOrder ==
  ASSUME NEW c
  PROVE  /\ MainSteps(c) \in Seq(Steps) /\ InOrder(MainSteps(c)) /\ Monitored(MainSteps(c))
         /\ ~ToCome(MainSteps(c), "prehook-ansiblejob")
         /\ ToCome(MainSteps(c), "destroy-cluster") => JobKind(c) = "destroy"
         /\ JobKind(c) = "install" => /\ ToCome(MainSteps(c), "activate-and-monitor")
                                      /\ ToCome(MainSteps(c), "monitor-import")
         /\ JobKind(c) = "upgrade" => ToCome(MainSteps(c), "monitor-upgrade")
         /\ \A i \in 1 .. Len(MainSteps(c)) : MainSteps(c)[i] \notin Late
<1> DEFINE s == MainSteps(c)
<1>1. CASE JobKind(c) = "install"
  <2>1. s = <<"activate-and-monitor", "monitor-import">>
    BY <1>1 DEF MainSteps
  <2>2. Len(s) = 2 /\ s[1] = "activate-and-monitor" /\ s[2] = "monitor-import"
    BY <2>1
  <2>3. s \in Seq(Steps)
    BY <2>1 DEF Steps, ProvisionSteps
  <2> HIDE DEF s
  <2>4. \A i \in 1 .. Len(s) : i = 1 \/ i = 2
    BY <2>2
  <2>5. 1 \in 1 .. Len(s) /\ 2 \in 1 .. Len(s)
    BY <2>2
  <2>6. /\ InOrder(s) /\ Monitored(s) /\ ~ToCome(s, "prehook-ansiblejob")
        /\ ~ToCome(s, "destroy-cluster") /\ \A i \in 1 .. Len(s) : s[i] \notin Late
    BY <2>2, <2>4 DEF InOrder, Monitored, ToCome, Late
  <2>7. ToCome(s, "activate-and-monitor") /\ ToCome(s, "monitor-import")
    BY <2>2, <2>5 DEF ToCome
  <2> QED
    BY <1>1, <2>3, <2>6, <2>7 DEF s
<1>2. CASE JobKind(c) = "destroy"
  <2>1. s = <<"destroy-cluster", "monitor-destroy">>
    BY <1>2 DEF MainSteps
  <2>2. Len(s) = 2 /\ s[1] = "destroy-cluster" /\ s[2] = "monitor-destroy"
    BY <2>1
  <2>3. s \in Seq(Steps)
    BY <2>1 DEF Steps, ProvisionSteps
  <2> HIDE DEF s
  <2>4. \A i \in 1 .. Len(s) : i = 1 \/ i = 2
    BY <2>2
  <2>5. /\ InOrder(s) /\ Monitored(s) /\ ~ToCome(s, "prehook-ansiblejob")
        /\ \A i \in 1 .. Len(s) : s[i] \notin Late
    BY <2>2, <2>4 DEF InOrder, Monitored, ToCome, Late
  <2> QED
    BY <1>2, <2>3, <2>5 DEF s
<1>3. CASE JobKind(c) = "upgrade" /\ ~IsEUS(c)
  <2>1. s = <<"upgrade-cluster", "monitor-upgrade">>
    BY <1>3 DEF MainSteps
  <2>2. Len(s) = 2 /\ s[1] = "upgrade-cluster" /\ s[2] = "monitor-upgrade"
    BY <2>1
  <2>3. s \in Seq(Steps)
    BY <2>1 DEF Steps
  <2> HIDE DEF s
  <2>4. \A i \in 1 .. Len(s) : i = 1 \/ i = 2
    BY <2>2
  <2>5. 1 \in 1 .. Len(s) /\ 2 \in 1 .. Len(s)
    BY <2>2
  <2>6. /\ InOrder(s) /\ ~ToCome(s, "prehook-ansiblejob")
        /\ ~ToCome(s, "destroy-cluster") /\ \A i \in 1 .. Len(s) : s[i] \notin Late
    BY <2>2, <2>4 DEF InOrder, ToCome, Late
  <2>7. Monitored(s) /\ ToCome(s, "monitor-upgrade")
    BY <2>2, <2>4, <2>5 DEF Monitored, ToCome
  <2> QED
    BY <1>3, <2>3, <2>6, <2>7 DEF s
<1>4. CASE JobKind(c) = "upgrade" /\ IsEUS(c)
  <2>1. s = <<"intermediate-upgrade-cluster", "intermediate-monitor-upgrade",
              "final-upgrade-cluster", "monitor-upgrade">>
    BY <1>4 DEF MainSteps
  <2>2. /\ Len(s) = 4 /\ s[1] = "intermediate-upgrade-cluster"
        /\ s[2] = "intermediate-monitor-upgrade" /\ s[3] = "final-upgrade-cluster"
        /\ s[4] = "monitor-upgrade"
    BY <2>1
  <2>3. s \in Seq(Steps)
    BY <2>1 DEF Steps, EUSSteps
  <2> HIDE DEF s
  <2>4. \A i \in 1 .. Len(s) : i = 1 \/ i = 2 \/ i = 3 \/ i = 4
    BY <2>2
  <2>5. 4 \in 1 .. Len(s)
    BY <2>2
  <2>6. \A i \in 1 .. Len(s) :
          s[i] \notin Late \cup {"prehook-ansiblejob", "destroy-cluster", "upgrade-cluster"}
    BY <2>2, <2>4 DEF Late
  <2>7. /\ InOrder(s) /\ Monitored(s) /\ ~ToCome(s, "prehook-ansiblejob")
        /\ ~ToCome(s, "destroy-cluster")
    BY <2>6 DEF InOrder, Monitored, ToCome
  <2>8. ToCome(s, "monitor-upgrade")
    BY <2>2, <2>5 DEF ToCome
  <2> QED
    BY <1>4, <2>3, <2>6, <2>7, <2>8 DEF s
<1>5. CASE JobKind(c) \notin {"install", "destroy", "upgrade"}
  <2>1. s = <<>>
    BY <1>5 DEF MainSteps
  <2>2. \A i \in 1 .. Len(<<>>) : FALSE
    OBVIOUS
  <2> QED
    BY <1>5, <2>1, <2>2, NoStepInOrder
<1> QED
  BY <1>1, <1>2, <1>3, <1>4, <1>5

LEMMA ContainersInOrder ==
  ASSUME NEW c, NEW hooks, Containers(c, hooks) # <<>>
  PROVE  /\ Containers(c, hooks) \in Seq(Steps)
         /\ InOrder(Containers(c, hooks)) /\ Monitored(Containers(c, hooks))
         /\ ToCome(Containers(c, hooks), "destroy-cluster") => JobKind(c) = "destroy"
         /\ JobKind(c) = "install" => /\ ToCome(Containers(c, hooks), "activate-and-monitor")
                                      /\ ToCome(Containers(c, hooks), "monitor-import")
         /\ JobKind(c) = "upgrade" => ToCome(Containers(c, hooks), "monitor-upgrade")
         /\ RunsHook(c, hooks, "prehook") => Head(Containers(c, hooks)) = "prehook-ansiblejob"
<1> DEFINE Pre == IF RunsHook(c, hooks, "prehook") THEN <<"prehook-ansiblejob">> ELSE <<>>
           Post == IF RunsHook(c, hooks, "posthook") THEN <<"posthook-ansiblejob">> ELSE <<>>
           End == <<"done">>
<1>0. {"prehook-ansiblejob", "posthook-ansiblejob", "done"} \subseteq Steps
  BY DEF Steps, HookSteps
<1>1. /\ Pre \in Seq(Steps) /\ InOrder(Pre) /\ Monitored(Pre)
      /\ \A step : ToCome(Pre, step) => step = "prehook-ansiblejob"
  BY <1>0, OneStepInOrder, NoStepInOrder
<1>2. /\ Post \in Seq(Steps) /\ InOrder(Post) /\ Monitored(Post)
      /\ \A step : ToCome(Post, step) => step = "posthook-ansiblejob"
  BY <1>0, OneStepInOrder, NoStepInOrder
<1>3. /\ End \in Seq(Steps) /\ InOrder(End) /\ Monitored(End)
      /\ \A step : ToCome(End, step) => step = "done"
  BY <1>0, OneStepInOrder
<1>4. RunsHook(c, hooks, "prehook") => Len(Pre) = 1 /\ Pre[1] = "prehook-ansiblejob"
  OBVIOUS
<1>5. Containers(c, hooks) = ((Pre \o MainSteps(c)) \o Post) \o End
  BY DEF Containers
<1> HIDE DEF Pre, Post, End
<1>6. \A i \in 1 .. Len(Pre) : Pre[i] \notin Late
  BY <1>1 DEF ToCome, Late
<1>7. \A i \in 1 .. Len(Post) : Post[i] \in Late
  BY <1>2 DEF ToCome, Late
<1>8. \A i \in 1 .. Len(End) : End[i] \in Late
  BY <1>3 DEF ToCome, Late
<1>9. /\ Pre \o MainSteps(c) \in Seq(Steps) /\ InOrder(Pre \o MainSteps(c))
      /\ Monitored(Pre \o MainSteps(c))
      /\ \A step : ToCome(Pre \o MainSteps(c), step)
                     <=> ToCome(Pre, step) \/ ToCome(MainSteps(c), step)
  BY <1>1, <1>6, MainInOrder, JoinedOrder
<1> DEFINE Most == (Pre \o MainSteps(c)) \o Post
<1>10. /\ Most \in Seq(Steps) /\ InOrder(Most) /\ Monitored(Most)
       /\ \A step : ToCome(Most, step) <=> ToCome(Pre \o MainSteps(c), step) \/ ToCome(Post, step)
  BY <1>2, <1>7, <1>9, JoinedOrder
<1>11. RunsHook(c, hooks, "prehook") => Len(Most) >= 1 /\ Most[1] = "prehook-ansiblejob"
  <2> SUFFICES ASSUME RunsHook(c, hooks, "prehook")
               PROVE  Len(Most) >= 1 /\ Most[1] = "prehook-ansiblejob"
    OBVIOUS
  <2>1. 1 \in 1 .. Len(Pre)
    BY <1>4
  <2>2. /\ 1 \in 1 .. Len(Pre \o MainSteps(c))
        /\ (Pre \o MainSteps(c))[1] = "prehook-ansiblejob"
    BY <1>1, <1>4, <2>1, MainInOrder, JoinedSteps
  <2>3. 1 \in 1 .. Len(Most) /\ Most[1] = "prehook-ansiblejob"
    BY <1>2, <1>9, <2>2, JoinedSteps
  <2> QED
    BY <1>10, <2>3
<1> HIDE DEF Most
<1>12. /\ Most \o End \in Seq(Steps) /\ InOrder(Most \o End) /\ Monitored(Most \o End)
       /\ \A step : ToCome(Most \o End, step) <=> ToCome(Most, step) \/ ToCome(End, step)
  BY <1>3, <1>8, <1>10, JoinedOrder
<1>13. RunsHook(c, hooks, "prehook") => Head(Most \o End) = "prehook-ansiblejob"
  <2> SUFFICES ASSUME RunsHook(c, hooks, "prehook") PROVE Head(Most \o End) = "prehook-ansiblejob"
    OBVIOUS
  <2>1. 1 \in 1 .. Len(Most)
    BY <1>10, <1>11
  <2>2. (Most \o End)[1] = "prehook-ansiblejob" /\ 1 \in 1 .. Len(Most \o End)
    BY <1>3, <1>10, <1>11, <2>1, JoinedSteps
  <2>3. Most \o End # <<>>
    BY <1>12, <2>2
  <2> QED
    BY <1>12, <2>2, <2>3
<1>14. Containers(c, hooks) = Most \o End
  BY <1>5 DEF Most
<1> QED
  BY <1>1, <1>2, <1>3, <1>9, <1>10, <1>12, <1>13, <1>14, MainInOrder

\* The containers left are in order, and delete the cluster for a destroy only.
LeftInOrder ==
    todo # <<>> =>
      /\ InOrder(todo) /\ Monitored(todo)
      /\ ToCome(todo, "destroy-cluster") => JobKind(curator) = "destroy"

\* What a step can do to the containers left.
LEMMA TodoSteps ==
  ASSUME TypeOK, [Next]_vars
  PROVE  \/ UNCHANGED <<todo, curator>>
         \/ todo' = <<>>
         \/ todo # <<>> /\ todo' = Tail(todo) /\ curator' = curator
         \/ \E c \in Curators : Launch(c)
<1>0. PodTypeOK /\ ProvisionTypeOK
  BY DEF TypeOK
<1>1. Moves => \/ UNCHANGED <<todo, curator>>
               \/ todo' = <<>>
               \/ todo' = Tail(todo) /\ curator' = curator
  BY DEF Moves, Succeed, Fail, FailJob, GoOn, NextAttempt
<1>2. CASE Hooks
  <2>1. PICK step \in HookSteps : RunAnsibleJob(step) \/ MonitorAnsibleJob(step)
    BY <1>2 DEF Hooks
  <2> QED
    BY <2>1 DEF RunAnsibleJob, MonitorAnsibleJob, In, Succeed, Fail, FailJob, GoOn
<1>3. CASE Provisioning \/ HostedUpgrading
  BY <1>0, <1>1, <1>3, ProvisioningMoves, UpgradingMoves
<1>4. CASE Done \/ CallFails
  BY <1>4 DEF Done, CallFails, FailJob
<1>5. CASE AnsibleOperator
  BY <1>5 DEF AnsibleOperator, RunTemplate, podVars
<1>6. CASE Hive \/ Hypershift \/ Join \/ ReportVersion
  BY <1>0, <1>6, OutsideLeavesPod DEF podVars
<1>7. CASE UNCHANGED vars
  BY <1>7 DEF vars, podVars
<1> QED
  BY <1>2, <1>3, <1>4, <1>5, <1>6, <1>7 DEF Next, Container, Outside

LEMMA OrderInit == Init => LeftInOrder
<1> SUFFICES ASSUME Init PROVE LeftInOrder
  OBVIOUS
<1>1. todo = <<>>
  BY Zenon DEF Init, PodInit
<1> QED
  BY <1>1 DEF LeftInOrder

LEMMA OrderNext ==
  ASSUME TypeOK, LeftInOrder, [Next]_vars PROVE LeftInOrder'
<1>0. todo \in Seq(Steps)
  BY DEF TypeOK, PodTypeOK
<1>1. CASE UNCHANGED <<todo, curator>> \/ todo' = <<>>
  BY <1>1 DEF LeftInOrder
<1>2. CASE todo # <<>> /\ todo' = Tail(todo) /\ curator' = curator
  <2>1. /\ InOrder(Tail(todo)) /\ Monitored(Tail(todo))
        /\ ToCome(Tail(todo), "destroy-cluster") => ToCome(todo, "destroy-cluster")
    BY <1>0, <1>2, RestInOrder DEF LeftInOrder
  <2> QED
    BY <1>2, <2>1 DEF LeftInOrder
<1>3. ASSUME NEW c \in Curators, Launch(c) PROVE LeftInOrder'
  <2>1. todo' = Containers(c, DOMAIN Templates) /\ curator' = c
    BY <1>3 DEF Launch, LaunchJob
  <2> QED
    BY <2>1, ContainersInOrder DEF LeftInOrder
<1> QED
  BY <1>1, <1>2, <1>3, TodoSteps

-----------------------------------------------------------------------------
(* Prehooks come first.                                                     *)

\* The AnsibleJobs of this Job's prehook.
Prehooks ==
    {i \in DOMAIN ansible : /\ ansible[i].job = jobs
                            /\ ansible[i].hook = "prehook-ansiblejob"}

\* The prehook counts its AnsibleJobs; past it there is one for each template, and all
\* were successful.
PrehooksCounted ==
    todo # <<>> /\ RunsHook(curator, DOMAIN Templates, "prehook") =>
      IF Head(todo) = "prehook-ansiblejob"
      THEN Cardinality(Prehooks) = at.item
      ELSE /\ Cardinality(Prehooks) = TemplatesOf("prehook-ansiblejob")
           /\ \A i \in Prehooks : ansible[i].status = "successful"

PrehooksIInv == HooksIInv /\ LeftInOrder /\ PrehooksCounted

LEMMA PrehooksFinite == TypeOK => IsFiniteSet(Prehooks)
<1> SUFFICES ASSUME TypeOK PROVE IsFiniteSet(Prehooks)
  OBVIOUS
<1>1. Len(ansible) \in Nat /\ Prehooks \subseteq 1 .. Len(ansible)
  BY DEF TypeOK, AnsibleTypeOK, Prehooks
<1>2. IsFiniteSet(1 .. Len(ansible))
  BY <1>1, FS_Interval
<1> QED
  BY <1>1, <1>2, FS_Subset

\* Steps that create no AnsibleJob of the prehook and end no prehook.
LEMMA PrehooksStay ==
  ASSUME PrehooksIInv, UNCHANGED <<curator, jobs>>,
         DOMAIN ansible \subseteq DOMAIN ansible',
         \A i \in DOMAIN ansible' \ DOMAIN ansible :
            ansible'[i].hook # "prehook-ansiblejob",
         \A i \in DOMAIN ansible :
            /\ ansible'[i].job = ansible[i].job /\ ansible'[i].hook = ansible[i].hook
            /\ ansible[i].status = "successful" => ansible'[i].status = "successful",
         \/ todo' = <<>>
         \/ todo' = todo /\ at'.item = at.item
         \/ todo # <<>> /\ todo' \in {todo, Tail(todo)} /\ Head(todo) # "prehook-ansiblejob"
  PROVE  PrehooksCounted'
<1>1. Prehooks' = Prehooks
  BY DEF Prehooks
<1>2. TemplatesOf("prehook-ansiblejob")' = TemplatesOf("prehook-ansiblejob")
  BY DEF TemplatesOf, LocalCuration
<1>3. \A i \in Prehooks : ansible[i].status = "successful" => ansible'[i].status = "successful"
  BY DEF Prehooks
<1>4. CASE todo' = <<>>
  BY <1>4 DEF PrehooksCounted
<1>5. CASE todo' = todo /\ at'.item = at.item
  BY <1>1, <1>2, <1>3, <1>5 DEF PrehooksIInv, PrehooksCounted
<1>6. CASE todo # <<>> /\ todo' \in {todo, Tail(todo)} /\ Head(todo) # "prehook-ansiblejob"
  <2>1. todo' # <<>> => Head(todo') # "prehook-ansiblejob"
    <3>1. CASE todo' = todo
      BY <1>6, <3>1
    <3>2. CASE todo' = Tail(todo) /\ Tail(todo) # <<>>
      <4>1. todo \in Seq(Steps)
        BY DEF PrehooksIInv, HooksIInv, TypeOK, PodTypeOK
      <4>2. ~ToCome(Tail(todo), "prehook-ansiblejob")
        BY <1>6, <4>1, RestInOrder DEF PrehooksIInv, LeftInOrder
      <4>3. Tail(todo) \in Seq(Steps)
        BY <1>6, <4>1
      <4>4. 1 \in 1 .. Len(Tail(todo)) /\ Head(Tail(todo)) = Tail(todo)[1]
        BY <3>2, <4>3
      <4> QED
        BY <3>2, <4>2, <4>4 DEF ToCome
    <3> QED
      BY <1>6, <3>1, <3>2
  <2> QED
    BY <1>1, <1>2, <1>3, <1>6, <2>1 DEF PrehooksIInv, PrehooksCounted
<1> QED
  BY <1>4, <1>5, <1>6

LEMMA PrehooksSameAnsible ==
  ASSUME PrehooksIInv, UNCHANGED <<curator, jobs, ansible>>,
         \/ todo' = <<>>
         \/ todo' = todo /\ at'.item = at.item
         \/ todo # <<>> /\ todo' \in {todo, Tail(todo)} /\ Head(todo) # "prehook-ansiblejob"
  PROVE  PrehooksCounted'
  BY PrehooksStay

LEMMA PrehooksInHooks ==
  ASSUME PrehooksIInv, Hooks PROVE PrehooksCounted'
<1>0. /\ ansible \in Seq(AnsibleJob) /\ todo \in Seq(Steps) /\ at \in Place
      /\ at.item \in Nat /\ TypeOK
  BY AtType DEF PrehooksIInv, HooksIInv, TypeOK, AnsibleTypeOK, PodTypeOK
<1> PICK step \in HookSteps : RunAnsibleJob(step) \/ MonitorAnsibleJob(step)
  BY DEF Hooks
<1>1. todo # <<>> /\ Head(todo) = step
  BY DEF RunAnsibleJob, MonitorAnsibleJob, In
<1>2. CASE MonitorAnsibleJob(step)
  <2>1. UNCHANGED <<curator, jobs, ansible>>
    BY <1>2 DEF MonitorAnsibleJob, GoOn, Fail, FailJob
  <2>2. todo' = <<>> \/ (todo' = todo /\ at' = [at EXCEPT !.call = "start"])
    BY <1>2 DEF MonitorAnsibleJob, GoOn, Fail, FailJob
  <2>3. [at EXCEPT !.call = "start"].item = at.item
    BY <1>0 DEF Place
  <2> QED
    BY <2>1, <2>2, <2>3, PrehooksSameAnsible
<1>3. CASE RunAnsibleJob(step) /\ at.item = TemplatesOf(step)
  <2>1. UNCHANGED <<curator, jobs, ansible>> /\ todo' = Tail(todo)
    BY <1>3 DEF RunAnsibleJob, Succeed
  <2>2. CASE step # "prehook-ansiblejob"
    BY <1>1, <2>1, <2>2, PrehooksSameAnsible
  <2>3. CASE step = "prehook-ansiblejob"
    <3>1. ~Waits
      BY <1>3 DEF RunAnsibleJob, In, Waits
    <3>2. \A i \in Prehooks : ansible[i].status = "successful"
      BY <1>1, <3>1 DEF PrehooksIInv, HooksIInv, SuccessfulSoFar, Prehooks
    <3>3. Prehooks' = Prehooks
      BY <2>1 DEF Prehooks
    <3>4. TemplatesOf("prehook-ansiblejob")' = TemplatesOf("prehook-ansiblejob")
      BY <2>1 DEF TemplatesOf, LocalCuration
    <3>5. todo' # <<>> => Head(todo') # "prehook-ansiblejob"
      <4>1. ~ToCome(Tail(todo), "prehook-ansiblejob")
        BY <1>0, <1>1, RestInOrder DEF PrehooksIInv, LeftInOrder
      <4>2. Tail(todo) \in Seq(Steps)
        BY <1>0, <1>1
      <4>3. Tail(todo) # <<>> => 1 \in 1 .. Len(Tail(todo)) /\ Head(Tail(todo)) = Tail(todo)[1]
        BY <4>2
      <4> QED
        BY <2>1, <4>1, <4>3 DEF ToCome
    <3>6. RunsHook(curator, DOMAIN Templates, "prehook")
            => Cardinality(Prehooks) = TemplatesOf("prehook-ansiblejob")
      BY <1>1, <1>3, <2>3 DEF PrehooksIInv, PrehooksCounted
    <3> QED
      BY <2>1, <3>2, <3>3, <3>4, <3>5, <3>6 DEF PrehooksCounted
  <2> QED
    BY <2>2, <2>3
<1>4. CASE RunAnsibleJob(step) /\ at.item # TemplatesOf(step)
  <2> DEFINE new == [job |-> jobs, hook |-> step, status |-> "none"]
  <2>1. /\ ansible' = Append(ansible, new) /\ UNCHANGED <<curator, jobs, todo>>
        /\ at' = [at EXCEPT !.call = "await", !.item = at.item + 1]
    BY <1>4 DEF RunAnsibleJob, GoOn
  <2>2. new.job = jobs /\ new.hook = step
    OBVIOUS
  <2> HIDE DEF new
  <2>3. /\ DOMAIN ansible = 1 .. Len(ansible) /\ Len(ansible) \in Nat
        /\ DOMAIN ansible' = 1 .. Len(ansible) + 1
        /\ \A i \in 1 .. Len(ansible) : ansible'[i] = ansible[i]
        /\ ansible'[Len(ansible) + 1] = new
    BY <1>0, <2>1
  <2>4. CASE step # "prehook-ansiblejob"
    <3>1. \A i \in DOMAIN ansible' \ DOMAIN ansible : ansible'[i].hook # "prehook-ansiblejob"
      BY <2>2, <2>3, <2>4
    <3>2. DOMAIN ansible \subseteq DOMAIN ansible'
      BY <2>3
    <3> QED
      BY <1>1, <2>1, <2>3, <2>4, <3>1, <3>2, PrehooksStay
  <2>5. CASE step = "prehook-ansiblejob"
    <3>1. Prehooks' = Prehooks \cup {Len(ansible) + 1}
      BY <2>1, <2>2, <2>3, <2>5 DEF Prehooks
    <3>2. Len(ansible) + 1 \notin Prehooks
      BY <2>3 DEF Prehooks
    <3>3. Cardinality(Prehooks') = Cardinality(Prehooks) + 1
      BY <1>0, <3>1, <3>2, PrehooksFinite, FS_AddElement
    <3>4. at'.item = at.item + 1
      BY <1>0, <2>1 DEF Place
    <3>5. RunsHook(curator, DOMAIN Templates, "prehook") => Cardinality(Prehooks) = at.item
      BY <1>1, <2>5 DEF PrehooksIInv, PrehooksCounted
    <3> QED
      BY <1>1, <2>1, <2>5, <3>3, <3>4, <3>5 DEF PrehooksCounted
  <2> QED
    BY <2>4, <2>5
<1> QED
  BY <1>2, <1>3, <1>4

LEMMA PrehooksInit == Init => PrehooksIInv
<1> SUFFICES ASSUME Init PROVE PrehooksIInv
  OBVIOUS
<1>1. todo = <<>>
  BY Zenon DEF Init, PodInit
<1> QED
  BY <1>1, HooksInit, OrderInit DEF PrehooksIInv, PrehooksCounted

LEMMA PrehooksNext == PrehooksIInv /\ [Next]_vars => PrehooksIInv'
<1> SUFFICES ASSUME PrehooksIInv, [Next]_vars PROVE PrehooksCounted'
  BY HooksNext, OrderNext DEF PrehooksIInv, HooksIInv
<1>0. TypeOK /\ PodTypeOK /\ ProvisionTypeOK /\ jobs \in Nat /\ ansible \in Seq(AnsibleJob)
  BY PodBoundAssumption DEF PrehooksIInv, HooksIInv, TypeOK, PodTypeOK, AnsibleTypeOK
<1>1. UNCHANGED <<ansible, podVars>> => PrehooksCounted'
  BY PrehooksSameAnsible DEF podVars
<1>2. ASSUME NEW c \in Curators, Launch(c) PROVE PrehooksCounted'
  <2>1. /\ UNCHANGED ansible /\ jobs' = jobs + 1 /\ at' = Begin
        /\ todo' = Containers(c, DOMAIN Templates) /\ curator' = c
    BY <1>2 DEF Launch, LaunchJob
  <2>2. \A i \in DOMAIN ansible : ansible[i].job \in Nat /\ ansible[i].job <= jobs
    <3>1. \A i \in DOMAIN ansible : ansible[i] \in AnsibleJob
      BY <1>0
    <3> QED
      BY <3>1 DEF AnsibleJob, PrehooksIInv, HooksIInv, Numbered
  <2>3. Prehooks' = {}
    BY <1>0, <2>1, <2>2 DEF Prehooks
  <2>4. Cardinality(Prehooks') = at'.item
    BY <2>1, <2>3, FS_EmptySet DEF Begin
  <2> QED
    BY <2>1, <2>4, ContainersInOrder DEF PrehooksCounted
<1>3. CASE Hooks
  BY <1>3, PrehooksInHooks
<1>4. CASE (Provisioning \/ HostedUpgrading) /\ UNCHANGED <<ansible, shared>>
  <2>1. todo # <<>> /\ Head(todo) \notin HookSteps /\ Moves
    BY <1>0, <1>4, ProvisioningMoves, UpgradingMoves
  <2>2. UNCHANGED <<curator, jobs>> /\ todo' \in {<<>>, todo, Tail(todo)}
    BY <2>1 DEF Moves, Succeed, Fail, FailJob, GoOn, NextAttempt
  <2> QED
    BY <1>4, <2>1, <2>2, PrehooksSameAnsible DEF HookSteps
<1>5. CASE (Done \/ CallFails) /\ UNCHANGED <<ansible, shared, clusterVars>>
  BY <1>5 DEF Done, CallFails, FailJob, PrehooksCounted
<1>6. CASE AnsibleOperator
  <2> PICK k \in DOMAIN ansible : RunTemplate(k)
    BY <1>6 DEF AnsibleOperator
  <2>1. PICK s \in Statuses : ansible' = [ansible EXCEPT ![k].status = s]
    BY DEF RunTemplate, Statuses
  <2>2. DOMAIN ansible' = DOMAIN ansible
    BY <2>1
  <2>3. ASSUME NEW i \in DOMAIN ansible
        PROVE  /\ ansible'[i].job = ansible[i].job /\ ansible'[i].hook = ansible[i].hook
               /\ ansible[i].status = "successful" => ansible'[i].status = "successful"
    <3>1. ansible[i] \in AnsibleJob
      BY <1>0
    <3>2. ansible'[i] = IF i = k THEN [ansible[i] EXCEPT !.status = s] ELSE ansible[i]
      BY <1>0, <2>1
    <3>3. ansible[k].status # "successful"
      BY DEF RunTemplate
    <3> QED
      BY <3>1, <3>2, <3>3 DEF AnsibleJob
  <2>4. UNCHANGED <<curator, jobs, todo, at>>
    BY DEF RunTemplate, podVars
  <2> QED
    BY <2>2, <2>3, <2>4, PrehooksStay
<1>7. CASE (Hive \/ Hypershift \/ Join \/ ReportVersion) /\ UNCHANGED <<ansible, shared>>
  BY <1>0, <1>1, <1>7, OutsideLeavesPod
<1>8. CASE UNCHANGED vars
  BY <1>1, <1>8 DEF vars
<1> QED
  BY <1>2, <1>3, <1>4, <1>5, <1>6, <1>7, <1>8 DEF Next, Container, Outside

\* A step of the Job that touches the cluster is one of a container that works on it.
LEMMA WorkersTouch ==
  ASSUME TypeOK, [Next]_vars, podVars' # podVars, clusterVars' # clusterVars
  PROVE  todo # <<>> /\ Head(todo) \notin HookSteps
<1>0. PodTypeOK /\ ProvisionTypeOK
  BY DEF TypeOK
<1>1. Provisioning \/ HostedUpgrading
  <2>1. ASSUME NEW c \in Curators, Launch(c) PROVE FALSE
    BY <2>1 DEF Launch
  <2>2. ~(AnsibleOperator /\ UNCHANGED <<shared, clusterVars>>)
    OBVIOUS
  <2>3. ~(Hive \/ Hypershift \/ Join \/ ReportVersion)
    BY <1>0, OutsideLeavesPod
  <2> QED
    BY <2>1, <2>2, <2>3 DEF Next, Container, Outside, vars
<1> QED
  BY <1>0, <1>1, ProvisioningMoves, UpgradingMoves

\* However many templates a prehook has, and whatever becomes of earlier Jobs: a Job
\* touches the cluster when all of its own prehooks were successful, and only then
\* (ansible job.go:91-109, launcher job.go:142-258).
THEOREM PrehooksComeFirst == Spec => PrehooksFirst
<1>1. PrehooksIInv /\ [Next]_vars
        => [/\ podVars' # podVars
            /\ clusterVars' # clusterVars
            /\ RunsHook(curator, DOMAIN Templates, "prehook")
            => Cardinality(Succeeded("prehook-ansiblejob"))
                 = TemplatesOf("prehook-ansiblejob")]_vars
  <2> SUFFICES ASSUME PrehooksIInv, [Next]_vars, podVars' # podVars,
                      clusterVars' # clusterVars,
                      RunsHook(curator, DOMAIN Templates, "prehook")
               PROVE  Cardinality(Succeeded("prehook-ansiblejob"))
                        = TemplatesOf("prehook-ansiblejob")
    OBVIOUS
  <2>1. todo # <<>> /\ Head(todo) \notin HookSteps
    BY WorkersTouch DEF PrehooksIInv, HooksIInv
  <2>2. /\ Cardinality(Prehooks) = TemplatesOf("prehook-ansiblejob")
        /\ \A i \in Prehooks : ansible[i].status = "successful"
    BY <2>1 DEF PrehooksIInv, PrehooksCounted, HookSteps
  <2>3. Succeeded("prehook-ansiblejob") = Prehooks
    BY <2>2 DEF Succeeded, Prehooks
  <2> QED
    BY <2>2, <2>3
<1> QED
  BY <1>1, PrehooksInit, PrehooksNext, PTL DEF Spec, PrehooksFirst

-----------------------------------------------------------------------------
(* What a Job was for is achieved before its posthooks and its end.         *)

ClusterReady ==
    /\ cd.there => cd.console
    /\ hc.there => hc.version # NoVersion

Imported == managed \notin {"pending", "denied"}

AtVersion(p, v) == pool[p].image = v /\ pool[p].version = v

Upgraded ==
    /\ OnlyChannel => hc.channel = request.channel
    /\ request.version # NoVersion /\ WithPools =>
         \A p \in MatchingPools : AtVersion(p, request.version)

\* A cluster is of one kind, and a container that asked for it was told so; what reads
\* ready has a version.
OneCluster ==
    /\ cd.there => ~hc.there /\ ~shared
    /\ hc.ready => hc.version # NoVersion
    /\ at.type = "hosted" => ~cd.there
    /\ at.type = "standalone" => ~hc.there

\* What the containers that are done have achieved; and what is upgraded is not deleted
\* meanwhile.
InstalledSoFar ==
    todo # <<>> /\ JobKind(curator) = "install" =>
      /\ ~ToCome(todo, "activate-and-monitor") => ClusterReady
      /\ ~ToCome(todo, "monitor-import") => Imported

UpgradedSoFar ==
    todo # <<>> /\ JobKind(curator) = "upgrade" =>
      /\ hc.there /\ ~hc.deleting
      /\ ~ToCome(todo, "monitor-upgrade") => Upgraded

\* The conditions of the HostedCluster are awaited for an upgrade of its control plane.
Working(step) == todo # <<>> /\ Head(todo) = step

AwaitsControlPlane == Working("monitor-upgrade") /\ at.call = "ready" => ~OnlyChannel

AchievedIInv ==
    /\ TypeOK /\ LeftInOrder
    /\ OneCluster /\ AwaitsControlPlane /\ InstalledSoFar /\ UpgradedSoFar

LEMMA NoHostedCluster == ~NoHC.there /\ ~NoHC.ready
  BY DEF NoHC

LEMMA AchievedInit == Init => AchievedIInv
<1> SUFFICES ASSUME Init PROVE AchievedIInv
  OBVIOUS
<1>1. todo = <<>> /\ at = Begin
  BY Zenon DEF Init, PodInit
<1>2. InstalledSoFar /\ UpgradedSoFar /\ AwaitsControlPlane
  BY <1>1 DEF InstalledSoFar, UpgradedSoFar, AwaitsControlPlane, Working
<1>3. (cd.there => ~hc.there /\ ~shared) /\ (hc.ready => hc.version # NoVersion)
  <2>1. CASE NewStandalone
    <3>1. hc = NoHC /\ shared = FALSE
      BY <2>1, Zenon DEF NewStandalone
    <3> QED
      BY <3>1, NoHostedCluster
  <2>2. ASSUME NEW v, NEW platform, NEW image, NEW p, Hosted(v, platform, image, p)
        PROVE  ~cd.there /\ (hc.ready => hc.version # NoVersion)
    BY <2>2 DEF Hosted, NoCD, NoHC
  <2> QED
    BY <2>1, <2>2 DEF Init
<1>4. OneCluster
  BY <1>1, <1>3 DEF OneCluster, Begin
<1> QED
  BY <1>2, <1>4, InitTypes, OrderInit DEF AchievedIInv

\* What no step undoes, of what an install and an upgrade achieve.
Keeps ==
    /\ cd'.there => cd.there /\ (cd.console => cd'.console)
    /\ hc'.there => hc.there /\ (hc.version # NoVersion => hc'.version # NoVersion)
    /\ hc'.ready => hc'.version # NoVersion
    /\ Imported => Imported'
    /\ hc.there /\ ~hc.deleting /\ ~Working("destroy-cluster") => hc'.there /\ ~hc'.deleting
    /\ ~Working("upgrade-cluster") =>
         /\ ~hc.deleting => hc'.channel = hc.channel
         /\ \A p \in Pools, v \in Nat : AtVersion(p, v) => AtVersion(p, v)'

LEMMA SameKeeps ==
  ASSUME OneCluster, UNCHANGED clusterVars PROVE Keeps
  BY DEF clusterVars, Keeps, Imported, AtVersion, OneCluster

LEMMA ProvisioningKeeps ==
  ASSUME ProvisionTypeOK, OneCluster, Provisioning PROVE Keeps
<1>1. CASE UNCHANGED clusterVars
  BY <1>1, SameKeeps
<1>2. CASE ActivateDeploy \/ DestroyDeployment
  <2>1. UNCHANGED <<hc, pool, managed>> /\ cd'.there = cd.there /\ cd'.console = cd.console
    BY <1>2 DEF ActivateDeploy, DestroyDeployment, ProvisionTypeOK, ClusterDeployment
  <2> QED
    BY <2>1 DEF Keeps, Imported, AtVersion, OneCluster
<1>3. CASE UnpauseHostedCluster
  <2>1. /\ UNCHANGED <<cd, pool, managed>>
        /\ hc'.there = hc.there /\ hc'.version = hc.version /\ hc'.ready = hc.ready
        /\ hc'.deleting = hc.deleting /\ hc'.channel = hc.channel
    BY <1>3 DEF UnpauseHostedCluster, ProvisionTypeOK, HostedCluster
  <2> QED
    BY <2>1 DEF Keeps, Imported, AtVersion, OneCluster
<1>4. CASE DestroyHostedCluster
  <2>1. /\ UNCHANGED <<cd, pool, managed>>
        /\ hc'.there = hc.there /\ hc'.version = hc.version /\ hc'.ready = hc.ready
        /\ hc'.channel = hc.channel
    BY <1>4 DEF DestroyHostedCluster, ProvisionTypeOK, HostedCluster
  <2>2. Working("destroy-cluster")
    BY <1>4 DEF DestroyHostedCluster, AtWork, In, Working
  <2> QED
    BY <2>1, <2>2 DEF Keeps, Imported, AtVersion, OneCluster
<1>5. CASE UnpauseNodePool
  <2>1. pool' = pool \/ \E q \in at.left : pool' = [pool EXCEPT ![q].paused = Unpaused(@)]
    BY <1>5 DEF UnpauseNodePool
  <2>2. \A p \in Pools : pool'[p].image = pool[p].image /\ pool'[p].version = pool[p].version
    <3> SUFFICES ASSUME NEW p \in Pools, NEW q,
                        pool' = [pool EXCEPT ![q].paused = Unpaused(@)]
                 PROVE  /\ pool'[p].image = pool[p].image
                        /\ pool'[p].version = pool[p].version
      BY <2>1
    <3>1. pool[p] \in NodePool
      BY DEF ProvisionTypeOK
    <3>2. pool'[p] \in {pool[p], [pool[p] EXCEPT !.paused = Unpaused(pool[p].paused)]}
      BY DEF ProvisionTypeOK
    <3> QED
      BY <3>1, <3>2 DEF NodePool
  <2>3. UNCHANGED <<cd, hc, managed>>
    BY <1>5 DEF UnpauseNodePool
  <2> QED
    BY <2>2, <2>3 DEF Keeps, Imported, AtVersion, OneCluster
<1>6. CASE Detach
  <2>1. UNCHANGED <<cd, hc, pool>> /\ managed' \in {managed, "detaching"}
    BY <1>6 DEF Detach
  <2> QED
    BY <2>1 DEF Keeps, Imported, AtVersion, OneCluster
<1>7. CASE \/ AskType \/ PollDeployment \/ FindJob \/ AwaitJob \/ PollHostedCluster
           \/ AwaitHostedCluster \/ MonitorImport \/ AwaitDetach
  BY <1>1, <1>7 DEF AskType, PollDeployment, FindJob, AwaitJob, PollHostedCluster,
                    AwaitHostedCluster, MonitorImport, AwaitDetach, Unchanged
<1> QED
  BY <1>2, <1>3, <1>4, <1>5, <1>6, <1>7 DEF Provisioning

LEMMA UpgradingKeeps ==
  ASSUME ProvisionTypeOK, OneCluster, HostedUpgrading PROVE Keeps
<1>1. CASE PatchChannel \/ PatchImage
  <2>1. /\ UNCHANGED <<cd, pool, managed>>
        /\ hc'.there = hc.there /\ hc'.version = hc.version /\ hc'.ready = hc.ready
        /\ hc'.deleting = hc.deleting
    BY <1>1 DEF PatchChannel, PatchImage, ProvisionTypeOK, HostedCluster
  <2>2. Working("upgrade-cluster")
    BY <1>1 DEF PatchChannel, PatchImage, AtWork, In, Working
  <2> QED
    BY <2>1, <2>2 DEF Keeps, Imported, OneCluster
<1>2. CASE PatchNodePool
  BY <1>2 DEF PatchNodePool, AtWork, In, Working, Keeps, Imported, OneCluster
<1>3. CASE ValidateUpgrade \/ MonitorTurn \/ MonitorControlPlane \/ AwaitControlPlane
  BY <1>3, SameKeeps
  DEF ValidateUpgrade, MonitorTurn, MonitorControlPlane, AwaitControlPlane, Unchanged
<1> QED
  BY <1>1, <1>2, <1>3 DEF HostedUpgrading

LEMMA HiveKeeps ==
  ASSUME ProvisionTypeOK, OneCluster, Hive PROVE Keeps
<1>1. UNCHANGED <<hc, pool, managed>>
  BY DEF Hive, StartProvision, StopProvision, RunInstaller, FinishProvision, RunUninstaller,
         RemoveDeployment
<1>2. cd'.there => cd.there /\ (cd.console => cd'.console)
  <2>1. CASE StartProvision \/ StopProvision \/ FinishProvision
    BY <2>1
    DEF StartProvision, StopProvision, FinishProvision, ProvisionTypeOK, ClusterDeployment
  <2>2. CASE RunInstaller \/ RunUninstaller \/ RemoveDeployment
    BY <2>2 DEF RunInstaller, RunUninstaller, RemoveDeployment, NoCD
  <2> QED
    BY <2>1, <2>2 DEF Hive
<1> QED
  BY <1>1, <1>2 DEF Keeps, Imported, AtVersion, OneCluster

LEMMA HypershiftKeeps ==
  ASSUME ProvisionTypeOK, OneCluster, Hypershift PROVE Keeps
<1>1. CASE Unsettle
  <2>1. /\ UNCHANGED <<cd, pool, managed>>
        /\ hc'.there = hc.there /\ hc'.version = hc.image /\ ~hc'.ready
        /\ hc'.deleting = hc.deleting /\ hc'.channel = hc.channel
    BY <1>1 DEF Unsettle, ProvisionTypeOK, HostedCluster
  <2>2. hc.version # NoVersion => hc.image # NoVersion
    <3>1. hc.version \in Nat /\ hc.image \in Nat /\ hc.image >= hc.version
      BY <1>1 DEF Unsettle, ProvisionTypeOK, HostedCluster
    <3> QED
      BY <3>1 DEF NoVersion
  <2> QED
    BY <2>1, <2>2 DEF Keeps, Imported, AtVersion
<1>2. CASE Settle
  <2>1. /\ UNCHANGED <<cd, pool, managed>>
        /\ hc'.there = hc.there /\ hc'.version = hc.version /\ hc.version # NoVersion
        /\ hc'.deleting = hc.deleting /\ hc'.channel = hc.channel
    BY <1>2 DEF Settle, ProvisionTypeOK, HostedCluster
  <2> QED
    BY <2>1 DEF Keeps, Imported, AtVersion
<1>3. CASE RemoveHostedCluster
  <2>1. UNCHANGED <<cd, pool, managed>> /\ hc.deleting
    BY <1>3 DEF RemoveHostedCluster
  <2>2. \/ ~hc'.there /\ ~hc'.ready
        \/ hc'.there = hc.there /\ hc'.version = hc.version /\ ~hc'.ready
    <3>1. hc' = NoHC \/ hc' = [hc EXCEPT !.ready = FALSE]
      BY <1>3 DEF RemoveHostedCluster
    <3>2. [hc EXCEPT !.ready = FALSE].there = hc.there
      BY DEF ProvisionTypeOK, HostedCluster
    <3>3. [hc EXCEPT !.ready = FALSE].version = hc.version
      BY DEF ProvisionTypeOK, HostedCluster
    <3>4. ~[hc EXCEPT !.ready = FALSE].ready
      BY DEF ProvisionTypeOK, HostedCluster
    <3> QED
      BY <3>1, <3>2, <3>3, <3>4, NoHostedCluster
  <2> QED
    BY <2>1, <2>2 DEF Keeps, Imported, AtVersion
<1>4. CASE \E p \in Pools : RunNodePool(p)
  <2>1. PICK q \in Pools : RunNodePool(q)
    BY <1>4
  <2>2. UNCHANGED <<cd, hc, managed>>
    BY <2>1 DEF RunNodePool
  <2>3. ASSUME NEW p \in Pools, NEW v \in Nat, AtVersion(p, v) PROVE AtVersion(p, v)'
    <3>1. \/ pool' = [pool EXCEPT ![q] = [pool[q] EXCEPT !.ready = FALSE]]
          \/ pool' = [pool EXCEPT ![q] = [pool[q] EXCEPT !.ready = TRUE,
                                                        !.version = pool[q].image]]
      BY <2>1 DEF RunNodePool, ProvisionTypeOK
    <3>2. pool[q] \in NodePool /\ pool[p] \in NodePool
      BY DEF ProvisionTypeOK
    <3>3. \/ pool'[p] = pool[p]
          \/ pool'[p] = [pool[p] EXCEPT !.ready = FALSE]
          \/ pool'[p] = [pool[p] EXCEPT !.ready = TRUE, !.version = pool[p].image]
      BY <3>1 DEF ProvisionTypeOK
    <3> QED
      BY <2>3, <3>2, <3>3 DEF AtVersion, NodePool
  <2> QED
    BY <2>2, <2>3 DEF Keeps, Imported, OneCluster
<1> QED
  BY <1>1, <1>2, <1>3, <1>4 DEF Hypershift

LEMMA NextKeeps == TypeOK /\ OneCluster /\ [Next]_vars => Keeps /\ shared' = shared
<1> SUFFICES ASSUME TypeOK, OneCluster, [Next]_vars PROVE Keeps /\ shared' = shared
  OBVIOUS
<1>0. ProvisionTypeOK
  BY DEF TypeOK
<1>1. shared' = shared
  BY DEF Next, Launch, Container, Outside, vars
<1>2. CASE Join \/ ReportVersion
  <2>1. UNCHANGED <<cd, hc, pool>> /\ (Imported => Imported')
    BY <1>2 DEF Join, ReportVersion, Imported
  <2>2. \A p \in Pools, v \in Nat : AtVersion(p, v) => AtVersion(p, v)'
    BY <2>1 DEF AtVersion
  <2> QED
    BY <1>1, <2>1, <2>2 DEF Keeps, OneCluster
<1>3. CASE UNCHANGED clusterVars
  BY <1>1, <1>3, SameKeeps
<1>4. CASE Provisioning \/ HostedUpgrading \/ Hive \/ Hypershift \/ Join \/ ReportVersion
  BY <1>0, <1>1, <1>2, <1>4, ProvisioningKeeps, UpgradingKeeps, HiveKeeps, HypershiftKeeps
<1>5. CASE UNCHANGED vars
  BY <1>1, <1>3, <1>5 DEF vars
<1> QED
  BY <1>1, <1>3, <1>4, <1>5 DEF Next, Launch, Container, Outside

\* A container knows the type of the cluster from where it asked, and forgets it at its end.
Asked == at'.type = ClusterType /\ UNCHANGED clusterVars

LEMMA TypeKept ==
  ASSUME TypeOK, [Next]_vars PROVE at'.type \in {at.type, "none"} \/ Asked
<1>0. PodTypeOK /\ ProvisionTypeOK /\ at \in Place
  BY AtType DEF TypeOK
<1>1. ASSUME at' = Begin PROVE at'.type = "none"
  BY <1>1 DEF Begin
<1>2. Succeed \/ Fail \/ FailJob => at' = Begin
  BY DEF Succeed, Fail, FailJob
<1>3. ASSUME NEW place, place.type = at.type, GoOn(place) PROVE at'.type = at.type
  BY <1>3 DEF GoOn
<1>4. /\ \A call : [at EXCEPT !.call = call].type = at.type
      /\ \A call, n : [at EXCEPT !.call = call, !.item = n].type = at.type
      /\ \A call, n : [at EXCEPT !.call = call, !.polls = n].type = at.type
      /\ \A call, l : [at EXCEPT !.call = call, !.left = l].type = at.type
      /\ \A l : [at EXCEPT !.left = l].type = at.type
  BY <1>0 DEF Place
<1>5. ASSUME NEW place \in Place, place.type = at.type, NextAttempt(place)
      PROVE  at'.type \in {at.type, "none"}
  <2>1. [place EXCEPT !.polls = at.polls + 1].type = place.type
    BY DEF Place
  <2> QED
    BY <1>1, <1>2, <1>3, <1>5, <2>1 DEF NextAttempt
<1>6. NextAttempt(at) => at'.type \in {at.type, "none"}
  BY <1>0, <1>5
<1>7. NextAttempt([at EXCEPT !.call = "monitor"]) => at'.type \in {at.type, "none"}
  <2>0. "monitor" \in Calls
    BY DEF Calls
  <2>1. [at EXCEPT !.call = "monitor"] \in Place
    BY <1>0, <2>0 DEF Place
  <2>2. [at EXCEPT !.call = "monitor"].type = at.type
    BY <1>0 DEF Place
  <2> QED
    BY <1>5, <2>1, <2>2
<1>8. CASE AskType
  <2>1. CASE Fail
    BY <1>1, <1>2, <2>1
  <2>2. CASE ~Fail
    <3> DEFINE next == IF at.call = "again" \/ Head(todo) \in {"monitor-destroy", "monitor-upgrade"}
                       THEN "monitor" ELSE "work"
    <3>1. at' = [at EXCEPT !.type = ClusterType, !.call = next]
      BY <1>8, <2>2 DEF AskType, GoOn
    <3>2. at'.type = ClusterType
      BY <1>0, <3>1 DEF Place
    <3> QED
      BY <1>8, <3>2 DEF AskType, Asked
  <2> QED
    BY <2>1, <2>2
<1>9. CASE ActivateDeploy \/ UnpauseHostedCluster \/ UnpauseNodePool
  <2>1. CASE ActivateDeploy
    <3>1. Fail \/ GoOn([at EXCEPT !.call = "again"])
      BY <2>1 DEF ActivateDeploy
    <3> QED
      BY <1>1, <1>2, <1>3, <1>4, <3>1
  <2>2. CASE UnpauseHostedCluster
    <3>1. Fail \/ GoOn([at EXCEPT !.call = "pools", !.left = Pools])
      BY <2>2 DEF UnpauseHostedCluster
    <3> QED
      BY <1>1, <1>2, <1>3, <1>4, <3>1
  <2>3. CASE UnpauseNodePool
    <3>1. CASE Fail
      BY <1>1, <1>2, <3>1
    <3>2. CASE ~Fail
      <4>1. \/ GoOn([at EXCEPT !.call = "again"])
            \/ \E p \in at.left : GoOn([at EXCEPT !.left = at.left \ {p}])
        BY <2>3, <3>2 DEF UnpauseNodePool
      <4> QED
        BY <1>3, <1>4, <4>1
    <3> QED
      BY <3>1, <3>2
  <2> QED
    BY <1>9, <2>1, <2>2, <2>3
<1>10. CASE PollDeployment \/ FindJob \/ AwaitJob
  <2>1. CASE PollDeployment
    <3>1. [at EXCEPT !.call = "find", !.item = cd.ref].type = at.type
      BY <1>0 DEF Place
    <3> QED
      BY <1>1, <1>2, <1>3, <1>6, <2>1, <3>1 DEF PollDeployment
  <2>2. [at EXCEPT !.call = "job"].type = at.type
    BY <1>0 DEF Place
  <2>3. JudgeJob => at'.type \in {at.type, "none"}
    BY <1>1, <1>2, <1>7 DEF JudgeJob
  <2>4. CASE FindJob
    BY <1>3, <1>7, <2>2, <2>3, <2>4 DEF FindJob
  <2> QED
    BY <1>10, <2>1, <2>3, <2>4 DEF AwaitJob
<1>11. CASE PollHostedCluster \/ AwaitHostedCluster \/ MonitorImport
  BY <1>1, <1>2, <1>3, <1>4, <1>6, <1>7, <1>11
  DEF PollHostedCluster, AwaitHostedCluster, MonitorImport
<1>12. CASE DestroyDeployment \/ Detach \/ AwaitDetach \/ DestroyHostedCluster
  BY <1>1, <1>2, <1>3, <1>4, <1>6, <1>12
  DEF DestroyDeployment, Detach, AwaitDetach, DestroyHostedCluster
<1>13. AfterImage => at'.type \in {at.type, "none"}
  BY <1>1, <1>2, <1>3, <1>4 DEF AfterImage
<1>14. AfterChannel => at'.type \in {at.type, "none"}
  BY <1>1, <1>2, <1>3, <1>4, <1>13 DEF AfterChannel
<1>15. \A n : AfterReady(n) => at'.type \in {at.type, "none"}
  BY <1>1, <1>2, <1>3, <1>4 DEF AfterReady
<1>16. CASE ValidateUpgrade \/ PatchChannel \/ PatchImage \/ PatchNodePool
  BY <1>1, <1>2, <1>3, <1>4, <1>13, <1>14, <1>16
  DEF ValidateUpgrade, PatchChannel, PatchImage, PatchNodePool
<1>17. CASE MonitorTurn \/ MonitorControlPlane \/ AwaitControlPlane
  BY <1>1, <1>2, <1>3, <1>4, <1>7, <1>15, <1>17
  DEF MonitorTurn, MonitorControlPlane, AwaitControlPlane
<1>18. CASE Hooks
  <2>1. PICK step \in HookSteps : RunAnsibleJob(step) \/ MonitorAnsibleJob(step)
    BY <1>18 DEF Hooks
  <2> QED
    BY <1>1, <1>2, <1>3, <1>4, <2>1 DEF RunAnsibleJob, MonitorAnsibleJob
<1>19. ASSUME NEW c \in Curators, Launch(c) PROVE at' = Begin
  BY <1>19 DEF Launch, LaunchJob
<1>20. CASE Done \/ CallFails
  BY <1>1, <1>20 DEF Done, CallFails, FailJob
<1>21. CASE AnsibleOperator \/ Hive \/ Hypershift \/ Join \/ ReportVersion \/ UNCHANGED vars
  <2>1. at' = at
    BY <1>0, <1>21, OutsideLeavesPod DEF AnsibleOperator, RunTemplate, podVars, vars
  <2> QED
    BY <2>1
<1>22. CASE Provisioning
  BY <1>8, <1>9, <1>10, <1>11, <1>12, <1>22 DEF Provisioning
<1>23. CASE HostedUpgrading
  BY <1>16, <1>17, <1>23 DEF HostedUpgrading
<1> QED
  BY <1>1, <1>18, <1>19, <1>20, <1>21, <1>22, <1>23 DEF Next, Container, Outside

LEMMA OneClusterNext ==
  ASSUME TypeOK, OneCluster, [Next]_vars PROVE OneCluster'
<1>1. Keeps /\ shared' = shared
  BY NextKeeps
<1>2. /\ cd'.there => ~hc'.there /\ ~shared'
      /\ hc'.ready => hc'.version # NoVersion
  BY <1>1 DEF Keeps, OneCluster
<1>3. CASE at'.type \in {at.type, "none"}
  BY <1>1, <1>2, <1>3 DEF Keeps, OneCluster
<1>4. CASE Asked
  <2>1. /\ ClusterType = "hosted" => ~cd.there
        /\ ClusterType = "standalone" => ~hc.there
    BY DEF ClusterType, OneCluster
  <2> QED
    BY <1>2, <1>4, <2>1 DEF Asked, clusterVars, OneCluster
<1> QED
  BY <1>3, <1>4, TypeKept

-----------------------------------------------------------------------------
(* What a container achieves when it ends well.                             *)

Goes == todo' \in {<<>>, todo}

LEMMA GoesOn ==
  /\ \A place : GoOn(place) \/ NextAttempt(place) => Goes
  /\ Fail => Goes
  BY DEF GoOn, NextAttempt, Fail, FailJob, Goes

LEMMA ActivationEnds ==
  ASSUME TypeOK, OneCluster, Working("activate-and-monitor"), Provisioning
  PROVE  Goes \/ ClusterReady'
<1>1. CASE AskType
  BY <1>1, GoesOn DEF AskType
<1>2. CASE ActivateDeploy \/ UnpauseHostedCluster \/ UnpauseNodePool
  BY <1>2, GoesOn DEF ActivateDeploy, UnpauseHostedCluster, UnpauseNodePool
<1>3. Installing
  BY DEF Working, Installing
<1>4. CASE PollDeployment
  <2>1. CASE ~Goes
    <3>1. cd.console /\ UNCHANGED <<cd, hc>> /\ at.type = "standalone"
      BY <1>3, <1>4, <2>1, GoesOn
      DEF PollDeployment, Monitors, AtWork, Unchanged, clusterVars
    <3> QED
      BY <3>1 DEF OneCluster, ClusterReady
  <2> QED
    BY <2>1
<1>5. CASE FindJob \/ AwaitJob
  BY <1>3, <1>5, GoesOn DEF FindJob, AwaitJob, JudgeJob
<1>6. CASE PollHostedCluster
  <2>1. CASE ~Goes
    <3>1. hc.ready /\ UNCHANGED <<cd, hc>> /\ at.type = "hosted"
      BY <1>3, <1>6, <2>1, GoesOn
      DEF PollHostedCluster, Monitors, AtWork, Unchanged, clusterVars
    <3> QED
      BY <3>1 DEF OneCluster, ClusterReady
  <2> QED
    BY <2>1
<1>7. CASE AwaitHostedCluster
  BY <1>3, <1>7, GoesOn DEF AwaitHostedCluster
<1>8. ~(MonitorImport \/ DestroyDeployment \/ Detach \/ AwaitDetach \/ DestroyHostedCluster)
  BY DEF Working, MonitorImport, DestroyDeployment, Detach, AwaitDetach, DestroyHostedCluster,
         AtWork, In
<1> QED
  BY <1>1, <1>2, <1>4, <1>5, <1>6, <1>7, <1>8 DEF Provisioning

LEMMA ImportEnds ==
  ASSUME Working("monitor-import"), Provisioning PROVE Goes \/ Imported'
<1>1. MonitorImport
  BY DEF Provisioning, Working, AskType, TypedSteps, ActivateDeploy, UnpauseHostedCluster,
         UnpauseNodePool, PollDeployment, FindJob, AwaitJob, PollHostedCluster,
         AwaitHostedCluster, DestroyDeployment, Detach, AwaitDetach, DestroyHostedCluster,
         Monitors, MonitorSteps, AtWork, In
<1>2. Fail \/ NextAttempt(at) => Goes
  BY GoesOn
<1> QED
  BY <1>1, <1>2 DEF MonitorImport, Unchanged, clusterVars, Imported

LEMMA SameRequest ==
  ASSUME curator' = curator
  PROVE  /\ request' = request /\ MatchingPools' = MatchingPools
         /\ OnlyChannel' <=> OnlyChannel
         /\ WithPools' <=> WithPools
<1>1. request' = request
  BY DEF request
<1>2. (OnlyChannel' <=> OnlyChannel) /\ (WithPools' <=> WithPools)
  BY <1>1, Zenon DEF OnlyChannel, WithPools
<1>3. MatchingPools' = MatchingPools
  BY <1>1, Zenon DEF MatchingPools
<1> QED
  BY <1>1, <1>2, <1>3

LEMMA AwaitsNext ==
  ASSUME TypeOK, AwaitsControlPlane, [Next]_vars PROVE AwaitsControlPlane'
<1>0. PodTypeOK /\ ProvisionTypeOK /\ at \in Place
  BY AtType DEF TypeOK
<1>1. ASSUME at' = Begin PROVE AwaitsControlPlane'
  BY <1>1 DEF Begin, AwaitsControlPlane
<1>2. Succeed \/ Fail \/ FailJob => at' = Begin
  BY DEF Succeed, Fail, FailJob
<1>3. ASSUME NEW place, GoOn(place), place.call # "ready" PROVE AwaitsControlPlane'
  BY <1>3 DEF GoOn, AwaitsControlPlane
<1>4. ASSUME UNCHANGED todo, ~Working("monitor-upgrade") PROVE AwaitsControlPlane'
  BY <1>4 DEF Working, AwaitsControlPlane
<1>5. ASSUME UNCHANGED podVars PROVE AwaitsControlPlane'
  BY <1>5, SameRequest DEF podVars, Working, AwaitsControlPlane
<1>6. CASE AskType
  <2>1. CASE Fail
    BY <1>1, <1>2, <2>1
  <2>2. CASE ~Fail
    <3> DEFINE next == IF at.call = "again" \/ Head(todo) \in {"monitor-destroy", "monitor-upgrade"}
                       THEN "monitor" ELSE "work"
    <3>1. GoOn([at EXCEPT !.type = ClusterType, !.call = next])
      BY <1>6, <2>2 DEF AskType
    <3>2. [at EXCEPT !.type = ClusterType, !.call = next].call # "ready"
      BY <1>0 DEF Place
    <3> QED
      BY <1>3, <3>1, <3>2
  <2> QED
    BY <2>1, <2>2
<1>7. CASE MonitorTurn \/ AwaitControlPlane
  <2>1. \A n : [at EXCEPT !.call = "list", !.polls = n].call # "ready"
    BY <1>0 DEF Place
  <2>2. \A n : AfterReady(n) => AwaitsControlPlane'
    BY <1>1, <1>2, <1>3, <2>1 DEF AfterReady
  <2>3. [[at EXCEPT !.call = "monitor"] EXCEPT !.polls = at.polls + 1].call # "ready"
    BY <1>0 DEF Place
  <2>4. NextAttempt([at EXCEPT !.call = "monitor"]) => AwaitsControlPlane'
    BY <1>1, <1>2, <1>3, <2>3 DEF NextAttempt
  <2> QED
    BY <1>1, <1>2, <1>7, <2>2, <2>4 DEF MonitorTurn, AwaitControlPlane
<1>8. CASE MonitorControlPlane
  <2>1. CASE hc.ready
    <3>1. [at EXCEPT !.call = "list", !.polls = at.polls].call # "ready"
      BY <1>0 DEF Place
    <3> QED
      BY <1>1, <1>2, <1>3, <1>8, <2>1, <3>1 DEF MonitorControlPlane, AfterReady
  <2>2. CASE ~hc.ready
    <3>1. ~OnlyChannel /\ curator' = curator
      BY <1>8, <2>2 DEF MonitorControlPlane, GoOn
    <3> QED
      BY <3>1, SameRequest DEF AwaitsControlPlane
  <2> QED
    BY <2>1, <2>2
<1>9. CASE Moves /\ ~Working("monitor-upgrade")
  <2>1. at' = Begin \/ UNCHANGED todo
    BY <1>9 DEF Moves, Succeed, Fail, FailJob, GoOn, NextAttempt
  <2> QED
    BY <1>1, <1>4, <1>9, <2>1
<1>10. CASE Provisioning
  <2>1. AskType \/ ~Working("monitor-upgrade")
    BY <1>10 DEF Provisioning, Working, ActivateDeploy, UnpauseHostedCluster,
                 UnpauseNodePool, PollDeployment, FindJob, AwaitJob, PollHostedCluster,
                 AwaitHostedCluster, MonitorImport, DestroyDeployment, Detach, AwaitDetach,
                 DestroyHostedCluster, Monitors, MonitorSteps, AtWork, In
  <2> QED
    BY <1>0, <1>6, <1>9, <1>10, <2>1, ProvisioningMoves
<1>11. CASE HostedUpgrading
  <2>1. \/ MonitorTurn \/ MonitorControlPlane \/ AwaitControlPlane
        \/ ~Working("monitor-upgrade")
    BY <1>11 DEF HostedUpgrading, Working, ValidateUpgrade, PatchChannel, PatchImage,
                 PatchNodePool, AtWork, In
  <2> QED
    BY <1>0, <1>7, <1>8, <1>9, <1>11, <2>1, UpgradingMoves
<1>12. CASE Hooks
  <2>1. PICK step \in HookSteps : RunAnsibleJob(step) \/ MonitorAnsibleJob(step)
    BY <1>12 DEF Hooks
  <2>2. ~Working("monitor-upgrade")
    BY <2>1 DEF HookSteps, RunAnsibleJob, MonitorAnsibleJob, In, Working
  <2>3. at' = Begin \/ UNCHANGED todo
    BY <2>1 DEF RunAnsibleJob, MonitorAnsibleJob, Succeed, Fail, FailJob, GoOn
  <2> QED
    BY <1>1, <1>4, <2>2, <2>3
<1>13. ASSUME NEW c \in Curators, Launch(c) PROVE at' = Begin
  BY <1>13 DEF Launch, LaunchJob
<1>14. CASE Done \/ CallFails
  BY <1>1, <1>14 DEF Done, CallFails, FailJob
<1>15. CASE AnsibleOperator \/ Hive \/ Hypershift \/ Join \/ ReportVersion \/ UNCHANGED vars
  BY <1>0, <1>5, <1>15, OutsideLeavesPod DEF AnsibleOperator, RunTemplate, vars
<1> QED
  BY <1>1, <1>10, <1>11, <1>12, <1>13, <1>14, <1>15 DEF Next, Container, Outside

LEMMA UpgradeEnds ==
  ASSUME AwaitsControlPlane, Working("monitor-upgrade"), Provisioning \/ HostedUpgrading
  PROVE  Goes \/ (Upgraded /\ UNCHANGED clusterVars)
<1>1. CASE Provisioning
  <2>1. AskType
    BY <1>1 DEF Provisioning, Working, ActivateDeploy, UnpauseHostedCluster,
                UnpauseNodePool, PollDeployment, FindJob, AwaitJob, PollHostedCluster,
                AwaitHostedCluster, MonitorImport, DestroyDeployment, Detach, AwaitDetach,
                DestroyHostedCluster, Monitors, MonitorSteps, AtWork, In
  <2> QED
    BY <2>1, GoesOn DEF AskType
<1>2. CASE MonitorTurn
  <2>1. CASE OnlyChannel
    <3>1. Goes \/ (hc.channel = request.channel /\ UNCHANGED clusterVars)
      BY <1>2, <2>1, GoesOn DEF MonitorTurn, Unchanged
    <3>2. request.version = NoVersion
      BY <2>1, Zenon DEF OnlyChannel
    <3> QED
      BY <3>1, <3>2 DEF Upgraded
  <2>2. CASE ~OnlyChannel
    <3>1. Goes \/ (PoolsReady /\ UNCHANGED clusterVars)
      BY <1>2, <2>2, GoesOn DEF MonitorTurn, Unchanged
    <3> QED
      BY <2>2, <3>1 DEF Upgraded, PoolsReady, AtVersion
  <2> QED
    BY <2>1, <2>2
<1>3. CASE MonitorControlPlane \/ AwaitControlPlane
  <2>1. \A n : AfterReady(n) => Goes \/ ~WithPools
    BY GoesOn DEF AfterReady
  <2>2. ~OnlyChannel
    BY <1>3
    DEF MonitorControlPlane, AwaitControlPlane, AwaitsControlPlane, Working, AtWork, In
  <2>3. Goes \/ (~WithPools /\ UNCHANGED clusterVars)
    BY <1>3, <2>1, GoesOn DEF MonitorControlPlane, AwaitControlPlane, Unchanged
  <2> QED
    BY <2>2, <2>3 DEF Upgraded
<1>4. ~(ValidateUpgrade \/ PatchChannel \/ PatchImage \/ PatchNodePool)
  BY DEF Working, ValidateUpgrade, PatchChannel, PatchImage, PatchNodePool, AtWork, In
<1> QED
  BY <1>1, <1>2, <1>3, <1>4 DEF HostedUpgrading

LEMMA Advances ==
  ASSUME TypeOK, [Next]_vars, todo # <<>>, Head(todo) \notin HookSteps, ~Goes
  PROVE  Provisioning \/ HostedUpgrading
<1>0. PodTypeOK /\ ProvisionTypeOK
  BY DEF TypeOK
<1>1. ~Hooks
  BY DEF Hooks, RunAnsibleJob, MonitorAnsibleJob, In
<1>2. ASSUME NEW c \in Curators PROVE ~Launch(c)
  BY DEF Launch, LaunchJob
<1>3. ~(Done \/ CallFails)
  BY DEF Done, CallFails, FailJob, Goes
<1>4. AnsibleOperator \/ Hive \/ Hypershift \/ Join \/ ReportVersion \/ UNCHANGED vars
        => UNCHANGED podVars
  BY <1>0, OutsideLeavesPod DEF AnsibleOperator, RunTemplate, vars
<1>5. UNCHANGED podVars => Goes
  BY DEF podVars, Goes
<1> QED
  BY <1>1, <1>2, <1>3, <1>4, <1>5 DEF Next, Container, Outside

LEMMA InstalledNext ==
  ASSUME AchievedIInv, [Next]_vars PROVE InstalledSoFar'
<1>0. TypeOK /\ OneCluster /\ Keeps /\ todo \in Seq(Steps)
  BY NextKeeps DEF AchievedIInv, TypeOK, PodTypeOK
<1>1. (ClusterReady => ClusterReady') /\ (Imported => Imported')
  BY <1>0 DEF Keeps, ClusterReady
<1>2. CASE UNCHANGED <<todo, curator>>
  BY <1>1, <1>2 DEF AchievedIInv, InstalledSoFar
<1>3. CASE todo # <<>> /\ todo' = Tail(todo) /\ curator' = curator
  <2> SUFFICES ASSUME todo' # <<>>, JobKind(curator) = "install"
               PROVE  /\ ~ToCome(todo', "activate-and-monitor") => ClusterReady'
                      /\ ~ToCome(todo', "monitor-import") => Imported'
    BY <1>3 DEF InstalledSoFar
  <2>1. ~Goes
    <3>1. Len(Tail(todo)) # Len(todo)
      BY <1>0, <1>3
    <3> QED
      BY <1>3, <3>1 DEF Goes
  <2>2. \A step : ToCome(todo, step) <=> step = Head(todo) \/ ToCome(todo', step)
    BY <1>0, <1>3, RestInOrder DEF AchievedIInv, LeftInOrder
  <2>3. ASSUME ~ToCome(todo', "activate-and-monitor") PROVE ClusterReady'
    <3>1. CASE Head(todo) = "activate-and-monitor"
      <4>1. Provisioning
        <5>1. ~HostedUpgrading
          BY <3>1 DEF HostedUpgrading, ValidateUpgrade, PatchChannel, PatchImage,
             PatchNodePool, MonitorTurn, MonitorControlPlane, AwaitControlPlane, AtWork, In
        <5> QED
          BY <1>0, <1>3, <2>1, <3>1, <5>1, Advances DEF HookSteps
      <4> QED
        BY <1>0, <1>3, <2>1, <3>1, <4>1, ActivationEnds DEF Working
    <3>2. CASE Head(todo) # "activate-and-monitor"
      BY <1>1, <1>3, <2>2, <2>3, <3>2 DEF AchievedIInv, InstalledSoFar
    <3> QED
      BY <3>1, <3>2
  <2>4. ASSUME ~ToCome(todo', "monitor-import") PROVE Imported'
    <3>1. CASE Head(todo) = "monitor-import"
      <4>1. Provisioning
        <5>1. ~HostedUpgrading
          BY <3>1 DEF HostedUpgrading, ValidateUpgrade, PatchChannel, PatchImage,
             PatchNodePool, MonitorTurn, MonitorControlPlane, AwaitControlPlane, AtWork, In
        <5> QED
          BY <1>0, <1>3, <2>1, <3>1, <5>1, Advances DEF HookSteps
      <4> QED
        BY <1>3, <2>1, <3>1, <4>1, ImportEnds DEF Working
    <3>2. CASE Head(todo) # "monitor-import"
      BY <1>1, <1>3, <2>2, <2>4, <3>2 DEF AchievedIInv, InstalledSoFar
    <3> QED
      BY <3>1, <3>2
  <2> QED
    BY <2>3, <2>4
<1>4. ASSUME NEW c \in Curators, Launch(c) PROVE InstalledSoFar'
  <2>1. todo' = Containers(c, DOMAIN Templates) /\ curator' = c
    BY <1>4 DEF Launch, LaunchJob
  <2> QED
    BY <2>1, ContainersInOrder DEF InstalledSoFar
<1>5. CASE todo' = <<>>
  BY <1>5 DEF InstalledSoFar
<1> QED
  BY <1>0, <1>2, <1>3, <1>4, <1>5, TodoSteps

LEMMA UpgradedNext ==
  ASSUME AchievedIInv, [Next]_vars PROVE UpgradedSoFar'
<1>0. TypeOK /\ PodTypeOK /\ OneCluster /\ AwaitsControlPlane /\ Keeps /\ todo \in Seq(Steps)
  BY NextKeeps DEF AchievedIInv, TypeOK, PodTypeOK
<1>1. ASSUME todo # <<>>, JobKind(curator) = "upgrade", curator' = curator
      PROVE  /\ hc'.there /\ ~hc'.deleting
             /\ ~ToCome(todo, "monitor-upgrade") => Upgraded'
  <2>1. hc.there /\ ~hc.deleting
    BY <1>1 DEF AchievedIInv, UpgradedSoFar
  <2>2. Head(todo) = todo[1] /\ 1 \in 1 .. Len(todo)
    BY <1>0, <1>1
  <2>3. ~Working("destroy-cluster")
    BY <1>1, <2>2 DEF AchievedIInv, LeftInOrder, ToCome, Working
  <2>4. ASSUME ~ToCome(todo, "monitor-upgrade") PROVE Upgraded'
    <3>1. ~Working("upgrade-cluster")
      BY <1>1, <2>2, <2>4 DEF AchievedIInv, LeftInOrder, Monitored, ToCome, Working
    <3>2. Upgraded
      BY <1>1, <2>4 DEF AchievedIInv, UpgradedSoFar
    <3>3. hc'.channel = hc.channel
      BY <1>0, <2>1, <3>1 DEF Keeps
    <3>4. \A p \in Pools, v \in Nat : AtVersion(p, v) => AtVersion(p, v)'
      BY <1>0, <3>1 DEF Keeps
    <3>5. request.version \in Nat
      BY <1>0 DEF PodTypeOK, request, Request
    <3>6. MatchingPools \in SUBSET Pools
      BY <1>0, MatchingTypes
    <3>7. request.version # NoVersion /\ WithPools =>
            \A p \in MatchingPools : /\ pool'[p].image = request.version
                                     /\ pool'[p].version = request.version
      <4>1. ASSUME NEW p \in Pools, AtVersion(p, request.version)
            PROVE  pool'[p].image = request.version /\ pool'[p].version = request.version
        BY <3>4, <3>5, <4>1 DEF AtVersion
      <4> QED
        BY <3>2, <3>6, <4>1 DEF Upgraded
    <3>8. OnlyChannel => hc'.channel = request.channel
      BY <3>2, <3>3 DEF Upgraded
    <3> QED
      BY <1>1, <3>7, <3>8, SameRequest DEF Upgraded, AtVersion
  <2> QED
    BY <1>0, <2>1, <2>3, <2>4 DEF Keeps
<1>2. CASE UNCHANGED <<todo, curator>>
  BY <1>1, <1>2 DEF UpgradedSoFar
<1>3. CASE todo # <<>> /\ todo' = Tail(todo) /\ curator' = curator
  <2> SUFFICES ASSUME todo' # <<>>, JobKind(curator) = "upgrade",
                      ~ToCome(todo', "monitor-upgrade")
               PROVE  Upgraded'
    BY <1>1, <1>3 DEF UpgradedSoFar
  <2>1. ~Goes
    <3>1. Len(Tail(todo)) # Len(todo)
      BY <1>0, <1>3
    <3> QED
      BY <1>3, <3>1 DEF Goes
  <2>2. \A step : ToCome(todo, step) <=> step = Head(todo) \/ ToCome(todo', step)
    BY <1>0, <1>3, RestInOrder DEF AchievedIInv, LeftInOrder
  <2>3. CASE Head(todo) = "monitor-upgrade"
    <3>1. Upgraded /\ UNCHANGED clusterVars
      BY <1>0, <1>3, <2>1, <2>3, Advances, UpgradeEnds DEF Working, HookSteps
    <3> QED
      BY <1>3, <3>1, SameRequest DEF clusterVars, Upgraded, AtVersion
  <2>4. CASE Head(todo) # "monitor-upgrade"
    BY <1>1, <1>3, <2>2, <2>4
  <2> QED
    BY <2>3, <2>4
<1>4. ASSUME NEW c \in Curators, Launch(c) PROVE UpgradedSoFar'
  <2>1. todo' = Containers(c, DOMAIN Templates) /\ curator' = c /\ UNCHANGED hc
    BY <1>4 DEF Launch, LaunchJob, clusterVars
  <2>2. JobKind(c) = "upgrade" => hc.there /\ ~hc.deleting
    BY <1>4 DEF Launch
  <2> QED
    BY <2>1, <2>2, ContainersInOrder DEF UpgradedSoFar
<1>5. CASE todo' = <<>>
  BY <1>5 DEF UpgradedSoFar
<1> QED
  BY <1>0, <1>2, <1>3, <1>4, <1>5, TodoSteps

LEMMA AchievedNext == AchievedIInv /\ [Next]_vars => AchievedIInv'
  BY NextTypes, OrderNext, OneClusterNext, AwaitsNext, InstalledNext, UpgradedNext
  DEF AchievedIInv

\* Whatever fails, answers late or is asked for next: posthooks run, and a Job ends well,
\* only when the cluster is installed and imported, or the NodePools of the upgrade are
\* at its version and its channel is the one asked for (hive.go:113-272,
\* hypershift.go:115-241 and 443-688).
THEOREM AchievedBeforeEnd == Spec => AchievedFirst
<1>1. AchievedIInv /\ todo # <<>> /\ Head(todo) \in Late => Achieved
  <2> SUFFICES ASSUME AchievedIInv, todo # <<>>, Head(todo) \in Late PROVE Achieved
    OBVIOUS
  <2>1. todo \in Seq(Steps)
    BY DEF AchievedIInv, TypeOK, PodTypeOK
  <2>2. \A step : ToCome(todo, step) => step \in Late
    BY <2>1, RestInOrder DEF AchievedIInv, LeftInOrder
  <2>3. /\ ~ToCome(todo, "activate-and-monitor") /\ ~ToCome(todo, "monitor-import")
        /\ ~ToCome(todo, "monitor-upgrade")
    BY <2>2 DEF Late
  <2>4. JobKind(curator) = "install" => ClusterReady /\ Imported
    BY <2>3 DEF AchievedIInv, InstalledSoFar
  <2>5. JobKind(curator) = "upgrade" => Upgraded
    BY <2>3 DEF AchievedIInv, UpgradedSoFar
  <2> QED
    BY <2>4, <2>5 DEF Achieved, ClusterReady, Imported, Upgraded, AtVersion
<1>2. AchievedIInv /\ [Next]_vars
        => [/\ todo # <<>>
            /\ \/ Head(todo) = "done" /\ todo' = <<>> /\ ~cond'.failed
               \/ Len(ansible') > Len(ansible) /\ Head(todo) = "posthook-ansiblejob"
            => Achieved]_vars
  BY <1>1 DEF Late
<1> QED
  BY <1>2, AchievedInit, AchievedNext, PTL DEF Spec, AchievedFirst
=============================================================================
