------------------------ MODULE CuratorObject_proofs ------------------------
(* What conditions and the containers of a Job are: facts about the values    *)
(* the other proofs share.                                                    *)
EXTENDS CuratorObject, TLAPS

\* The blank values are what the types say they are.
LEMMA BlankTypes ==
  /\ NoRequest \in Request
  /\ NoInfo \in Info
  /\ NoCondition \in Condition
  /\ NoSteps \in [Steps -> StepStates]
  /\ NoObject \in Object
  /\ NoObject.rv = 0
<1>1. NoRequest \in Request /\ NoInfo \in Info
  BY NamesAssumption DEF NoRequest, Request, NoVersion, NoInfo, Info
<1>2. NoCondition \in Condition
  BY <1>1 DEF NoCondition, Condition, NoJob, Curations
<1>3. NoSteps \in [Steps -> StepStates]
  BY DEF NoSteps, StepStates
<1> QED
  BY <1>1, <1>2, <1>3 DEF NoObject, Object, NoJob, Curations, Operations

\* The conditions the containers write are conditions.
LEMMA ConditionTypes ==
  ASSUME NEW j \in Nat, NEW d \in Curations, NEW req \in Request, NEW f \in BOOLEAN
  PROVE  InProgress(j, d) \in Condition /\ Ended(j, d, req, f) \in Condition
<1>1. GetCurrentVersionInfo(req) \in Info
  BY DEF GetCurrentVersionInfo, Info
<1>2. InProgress(j, d) \in Condition
  BY BlankTypes DEF InProgress, Condition
<1>3. Ended(j, d, req, f) \in Condition
  BY <1>1, BlankTypes DEF Ended, Condition
<1> QED
  BY <1>2, <1>3

\* The main container, "done", is the last one.
EndsInDone(todo) == todo # <<>> /\ todo[Len(todo)] = "done"

\* The containers of a Job: none, or steps that end in "done".
LEMMA ContainersShape ==
  ASSUME NEW o, NEW hooks
  PROVE  /\ Containers(o, hooks) \in Seq(Steps)
         /\ Containers(o, hooks) # <<>> => EndsInDone(Containers(o, hooks))
<1> DEFINE Hook(hook, step) == IF RunsHook(o, hooks, hook) THEN <<step>> ELSE <<>>
<1>1. /\ Hook("prehook", "prehook-ansiblejob") \in Seq(Steps)
      /\ Hook("posthook", "posthook-ansiblejob") \in Seq(Steps)
  <2>1. HookSteps \subseteq Steps
    BY DEF Steps
  <2>2. /\ <<"prehook-ansiblejob">> \in Seq(Steps)
        /\ <<"posthook-ansiblejob">> \in Seq(Steps)
        /\ <<>> \in Seq(Steps)
    BY <2>1 DEF HookSteps
  <2> QED
    BY <2>2
<1>2. MainSteps(o) \in Seq(Steps)
  <2>1. /\ "activate-and-monitor" \in Steps /\ "monitor-import" \in Steps
        /\ "destroy-cluster" \in Steps /\ "monitor-destroy" \in Steps
        /\ "upgrade-cluster" \in Steps /\ "monitor-upgrade" \in Steps
        /\ EUSSteps \subseteq Steps
    BY DEF Steps, ProvisionSteps
  <2>2. /\ <<"activate-and-monitor", "monitor-import">> \in Seq(Steps)
        /\ <<"destroy-cluster", "monitor-destroy">> \in Seq(Steps)
        /\ <<"upgrade-cluster", "monitor-upgrade">> \in Seq(Steps)
    BY <2>1
  <2>3. <<"intermediate-upgrade-cluster", "intermediate-monitor-upgrade",
          "final-upgrade-cluster", "monitor-upgrade">> \in Seq(Steps)
    BY <2>1 DEF EUSSteps
  <2>4. <<>> \in Seq(Steps)
    OBVIOUS
  <2> QED
    BY <2>2, <2>3, <2>4 DEF MainSteps
<1>3. <<"done">> \in Seq(Steps)
  BY DEF Steps
<1> HIDE DEF Hook
<1> DEFINE Before == Hook("prehook", "prehook-ansiblejob") \o MainSteps(o)
                       \o Hook("posthook", "posthook-ansiblejob")
<1>4. Before \in Seq(Steps)
  BY <1>1, <1>2
<1>5. ASSUME NEW s \in Seq(Steps)
      PROVE  s \o <<"done">> \in Seq(Steps) /\ EndsInDone(s \o <<"done">>)
  <2>1. s \o <<"done">> \in Seq(Steps) /\ Len(s \o <<"done">>) = Len(s) + 1
    BY <1>3
  <2>2. (s \o <<"done">>)[Len(s) + 1] = "done"
    OBVIOUS
  <2>3. s \o <<"done">> # <<>>
    BY <2>1
  <2> QED
    BY <2>1, <2>2, <2>3 DEF EndsInDone
<1>6. Before \o <<"done">> \in Seq(Steps) /\ EndsInDone(Before \o <<"done">>)
  BY <1>4, <1>5
<1> QED
  BY <1>6 DEF Containers, Hook
=============================================================================
