------------------------ MODULE UpgradeCycle_proofs ------------------------
(***************************************************************************)
(* Proofs about UpgradeCycle, for every set of requests, start versions and *)
(* malformed versions and any number of edits.                              *)
(***************************************************************************)
EXTENDS UpgradeCycle, TLAPS

\* A blank request and its version info are what the types say they are.
LEMMA NoRequestType == NoRequest \in Request /\ NoInfo \in Info
  BY NamesAssumption DEF NoRequest, Request, NoVersion, NoInfo, Info

\* The message printed of a request is version info.
LEMMA PrintedInfoType ==
  ASSUME NEW req \in Request PROVE GetCurrentVersionInfo(req) \in Info
  BY DEF GetCurrentVersionInfo, Info

\* What a finished Job leaves is a condition.
LEMMA FinishedType ==
  ASSUME NEW req \in Request, NEW f \in BOOLEAN PROVE Finished(f, req) \in Condition
  BY PrintedInfoType DEF Finished, Condition

\* Type correctness of the upgrade cycle: every field the steps copy between the
\* spec, the containers and the condition stays in its type.
THEOREM TypeCorrect == Spec => []TypeOK
<1>1. Init => TypeOK
  <2> SUFFICES ASSUME Init PROVE TypeOK
    OBVIOUS
  <2>1. Absent \in Condition
    BY NoRequestType DEF Absent, Condition
  <2>2. request \in Request /\ cluster \in Nat /\ mci \in SUBSET Nat
    BY RequestsAssumption, VersionsAssumption DEF Init
  <2> QED
    BY <2>1, <2>2, NoRequestType, EditsAssumption DEF Init, TypeOK, Phases
<1>2. TypeOK /\ [Next]_vars => TypeOK'
  <2> SUFFICES ASSUME TypeOK, [Next]_vars PROVE TypeOK'
    OBVIOUS
  <2> USE DEF TypeOK
  <2>1. ASSUME NEW r \in Requests, Edit(r) PROVE TypeOK'
    BY <2>1, RequestsAssumption, EditsAssumption DEF Edit
  <2>2. CASE RefreshMCI
    BY <2>2 DEF RefreshMCI
  <2>3. CASE Launch
    <3>1. Running \in Condition
      BY NoRequestType DEF Running, Condition
    <3> QED
      BY <2>3, <3>1 DEF Launch, Phases
  <2>4. ASSUME NEW req \in Request, Fail(req)
        PROVE cond' \in Condition /\ last' \in Request /\ phase' \in Phases
    BY <2>4, FinishedType DEF Fail, Phases
  <2>5. CASE UpgradeCluster
    <3>1. CASE Fail(request)
      BY <2>4, <2>5, <3>1 DEF UpgradeCluster
    <3>2. CASE phase' = "monitoring" /\ UNCHANGED <<cond, last>>
      BY <2>5, <3>2 DEF UpgradeCluster, Phases
    <3> QED
      BY <2>5, <3>1, <3>2 DEF UpgradeCluster
  <2>6. CASE ReachVersion
    BY <2>6 DEF ReachVersion, Request
  <2>7. CASE MonitorUpgrade
    <3>1. CASE Fail(request)
      BY <2>4, <2>7, <3>1 DEF MonitorUpgrade
    <3>2. CASE phase' = "closing" /\ UNCHANGED <<cond, last>>
      BY <2>7, <3>2 DEF MonitorUpgrade, Phases
    <3> QED
      BY <2>7, <3>1, <3>2 DEF MonitorUpgrade
  <2>8. CASE Done
    BY <2>8, FinishedType DEF Done, Phases
  <2>9. CASE Ask
    BY <2>9 DEF Ask, Request, NoVersion
  <2>10. CASE UNCHANGED vars
    BY <2>10 DEF vars
  <2> QED
    BY <2>1, <2>2, <2>3, <2>5, <2>6, <2>7, <2>8, <2>9, <2>10 DEF Next
<1> QED
  BY <1>1, <1>2, PTL DEF Spec

-----------------------------------------------------------------------------
(* What the condition says of the last Job.                                 *)

\* At rest, the condition left is that of an upgrade and prints the request the last
\* Job read; only a finished Job counts as failed.
CondIsLast ==
    /\ cond.failed => cond.status = "True"
    /\ phase = "idle" /\ cond.status = "True"
         => cond.upgrade /\ cond.info = GetCurrentVersionInfo(last)

\* CondIsLast is an invariant: every ending of a Job prints the request it read, and
\* nothing else writes the condition while no Job runs.
THEOREM ConditionIsLast == Spec => []CondIsLast
<1>1. Init => CondIsLast
  BY DEF Init, Absent, CondIsLast
<1>2. CondIsLast /\ [Next]_vars => CondIsLast'
  <2> SUFFICES ASSUME CondIsLast, [Next]_vars PROVE CondIsLast'
    OBVIOUS
  <2> USE DEF CondIsLast
  <2>1. ASSUME NEW r \in Requests, Edit(r) PROVE CondIsLast'
    BY <2>1 DEF Edit
  <2>2. CASE RefreshMCI
    BY <2>2 DEF RefreshMCI
  <2>3. CASE Launch
    BY <2>3 DEF Launch, Running
  <2>4. ASSUME Fail(request) PROVE CondIsLast'
    BY <2>4 DEF Fail, Finished
  <2>5. CASE UpgradeCluster
    BY <2>4, <2>5 DEF UpgradeCluster
  <2>6. CASE ReachVersion
    BY <2>6 DEF ReachVersion
  <2>7. CASE MonitorUpgrade
    BY <2>4, <2>7 DEF MonitorUpgrade
  <2>8. CASE Done
    BY <2>8 DEF Done, Finished
  <2>9. CASE Ask
    BY <2>9 DEF Ask
  <2>10. CASE UNCHANGED vars
    BY <2>10 DEF vars
  <2> QED
    BY <2>1, <2>2, <2>3, <2>5, <2>6, <2>7, <2>8, <2>9, <2>10 DEF Next
<1> QED
  BY <1>1, <1>2, PTL DEF Spec

\* A request that equals, in what a message records, the one the last Job printed is
\* never answered with "yes", after a failure or after a success.
LEMMA SameRequestSkipped ==
  ASSUME NEW req \in Request, NEW done \in Request, NEW c \in Condition, NEW i,
         c.status = "True", c.upgrade, c.info = GetCurrentVersionInfo(done),
         Recorded(req) = Recorded(done)
  PROVE  NeedToUpgrade(req, c, i) # "yes"
<1>1. /\ req.version = done.version /\ req.channel = done.channel
      /\ req.upstream = done.upstream /\ req.type = done.type /\ req.pools = done.pools
  BY DEF Recorded
<1>2. c.info.fields = 5 /\ c.info.of = done
  BY DEF GetCurrentVersionInfo
<1>3. ~ExtendedChanged(req, c.info)
  BY <1>1, <1>2 DEF ExtendedChanged, parseExtendedVersionInfo
<1>4. ~RetryAfterFailure(req, c.info)
  BY <1>1, <1>2, <1>3 DEF RetryAfterFailure, ContainsBasicInfo
<1>5. req.version \notin Malformed => ~MoreThanDone(req, c.info)
  BY <1>1, <1>2, <1>3 DEF MoreThanDone, parseVersionInfoFails, Request
<1> QED
  BY <1>4, <1>5 DEF NeedToUpgrade

\* NoRelaunch, for every sequence of edits, failures and refreshes: a Job is launched
\* only for a request that differs from the one the last Job printed.
THEOREM NeverRelaunched == Spec => NoRelaunch
<1>1. TypeOK /\ CondIsLast /\ [Next]_vars
        => [phase = "idle" /\ phase' = "launched" /\ cond.status = "True"
              => Recorded(request) # Recorded(last)]_vars
  <2> SUFFICES ASSUME TypeOK, CondIsLast, Next, phase = "idle", phase' = "launched",
                      cond.status = "True"
               PROVE  Recorded(request) # Recorded(last)
    OBVIOUS
  <2>1. Launch
    BY DEF Next, Edit, RefreshMCI, Ask, UpgradeCluster, ReachVersion, MonitorUpgrade, Done
  <2>2. NeedToUpgrade(request, cond, mci) = "yes"
    BY <2>1 DEF Launch
  <2> QED
    BY <2>2, SameRequestSkipped DEF TypeOK, CondIsLast
<1> QED
  BY <1>1, TypeCorrect, ConditionIsLast, PTL DEF Spec, NoRelaunch

\* NewVersionRetried: after a failure, a version other than the one that failed is
\* always upgraded to.
THEOREM OtherVersionRetried == Spec => []NewVersionRetried
<1>1. CondIsLast => NewVersionRetried
  <2> SUFFICES ASSUME CondIsLast, phase = "idle", cond.failed,
                      request.version \notin {NoVersion, last.version}
               PROVE  NeedToUpgrade(request, cond, mci) = "yes"
    BY DEF NewVersionRetried
  <2>1. /\ cond.status = "True" /\ cond.upgrade
        /\ cond.info.fields = 5 /\ cond.info.of = last
    BY DEF CondIsLast, GetCurrentVersionInfo
  <2>2. RetryAfterFailure(request, cond.info)
    BY <2>1 DEF RetryAfterFailure, ContainsBasicInfo
  <2> QED
    BY <2>1, <2>2 DEF NeedToUpgrade
<1> QED
  BY <1>1, ConditionIsLast, PTL

-----------------------------------------------------------------------------
(* What a skipped request says of the cluster.                              *)

\* Once monitor-upgrade is through, the cluster is at the version requested or past
\* it, and a Job that succeeded has printed that version.
DoneIsReached ==
    /\ phase = "closing" => request.version <= cluster
    /\ phase = "idle" /\ cond.status = "True" /\ ~cond.failed
         => last.version <= cluster

\* DoneIsReached is an invariant if nobody edits spec.upgrade while a Job runs: done
\* then reads the request that monitor-upgrade has seen fulfilled.
THEOREM ReachedOnDone ==
  ASSUME MidRunEdits = FALSE PROVE Spec => []DoneIsReached
<1>1. Init => DoneIsReached
  BY DEF Init, Absent, DoneIsReached
<1>2. TypeOK /\ DoneIsReached /\ [Next]_vars => DoneIsReached'
  <2> SUFFICES ASSUME TypeOK, DoneIsReached, [Next]_vars PROVE DoneIsReached'
    OBVIOUS
  <2> USE DEF DoneIsReached
  <2>1. ASSUME NEW r \in Requests, Edit(r) PROVE DoneIsReached'
    BY <2>1 DEF Edit
  <2>2. CASE RefreshMCI
    BY <2>2 DEF RefreshMCI
  <2>3. CASE Launch
    BY <2>3 DEF Launch
  <2>4. ASSUME Fail(request) PROVE DoneIsReached'
    BY <2>4 DEF Fail, Finished
  <2>5. CASE UpgradeCluster
    BY <2>4, <2>5 DEF UpgradeCluster
  <2>6. CASE ReachVersion
    <3>1. PICK v \in asked : v > cluster /\ cluster' = v
      BY <2>6 DEF ReachVersion
    <3>2. \A w \in Nat : w <= cluster => w <= cluster'
      BY <3>1 DEF TypeOK
    <3> QED
      BY <2>6, <3>2 DEF ReachVersion, TypeOK, Request
  <2>7. CASE MonitorUpgrade
    BY <2>4, <2>7 DEF MonitorUpgrade
  <2>8. CASE Done
    BY <2>8 DEF Done
  <2>9. CASE Ask
    BY <2>9 DEF Ask
  <2>10. CASE UNCHANGED vars
    BY <2>10 DEF vars
  <2> QED
    BY <2>1, <2>2, <2>3, <2>5, <2>6, <2>7, <2>8, <2>9, <2>10 DEF Next
<1> QED
  BY <1>1, <1>2, TypeCorrect, PTL DEF Spec

\* SkippedMeansReached: if nobody edits spec.upgrade while a Job runs, a request with a
\* version is skipped after a success only when the cluster is there already.
THEOREM SkippedIsReached ==
  ASSUME MidRunEdits = FALSE PROVE Spec => []SkippedMeansReached
<1>1. TypeOK /\ CondIsLast /\ DoneIsReached => SkippedMeansReached
  <2> SUFFICES ASSUME TypeOK, CondIsLast, DoneIsReached,
                      phase = "idle", cond.status = "True", ~cond.failed,
                      request.version # NoVersion,
                      NeedToUpgrade(request, cond, mci) = "no"
               PROVE  request.version <= cluster
    BY DEF SkippedMeansReached
  <2>1. cond.upgrade /\ cond.info.fields = 5 /\ cond.info.of = last
    BY DEF CondIsLast, GetCurrentVersionInfo
  <2>2. ~MoreThanDone(request, cond.info)
    BY <2>1 DEF NeedToUpgrade
  <2>3. /\ request.version \in Nat /\ last.version \in Nat
        /\ ~(request.version > last.version)
    BY <2>1, <2>2 DEF MoreThanDone, TypeOK, Request
  <2>4. last.version <= cluster
    BY DEF DoneIsReached
  <2> QED
    BY <2>3, <2>4 DEF TypeOK
<1> QED
  BY <1>1, TypeCorrect, ConditionIsLast, ReachedOnDone, PTL
=============================================================================
