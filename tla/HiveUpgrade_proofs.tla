------------------------ MODULE HiveUpgrade_proofs ------------------------
(***************************************************************************)
(* Proofs about HiveUpgrade, for every set of requests, versions, updates   *)
(* and channels, and any number of attempts, polls, edits and faults.       *)
(***************************************************************************)
EXTENDS HiveUpgrade, CuratorObject_proofs, SequenceTheorems

-----------------------------------------------------------------------------
(* The containers of an upgrade, and where each of them can be.             *)

WorkSteps == {"upgrade-cluster", "intermediate-upgrade-cluster", "final-upgrade-cluster"}

\* The containers that may come after a step's.
Followers(step) ==
    CASE step \in {"upgrade-cluster", "final-upgrade-cluster"} -> {"monitor-upgrade"}
      [] step = "intermediate-upgrade-cluster" -> {"intermediate-monitor-upgrade"}
      [] step = "intermediate-monitor-upgrade" -> {"final-upgrade-cluster"}
      [] step = "monitor-upgrade" -> {"done"}
      [] OTHER -> {}

\* What may be left of an upgrade's Job.
JobRest(rest) ==
    /\ rest \in Seq(Steps)
    /\ rest # <<>> => rest[Len(rest)] = "done"
    /\ \A i \in 1 .. Len(rest) - 1 : rest[i + 1] \in Followers(rest[i])

LEMMA SeqFacts ==
  ASSUME NEW S, NEW s \in Seq(S)
  PROVE  /\ Len(s) \in Nat
         /\ s = <<>> <=> Len(s) = 0
         /\ Len(s) = 0 \/ Len(s) = 1 \/ Len(s) > 1
         /\ s # <<>> => Head(s) = s[1]
<1>1. Len(s) \in Nat
  OBVIOUS
<1>2. \A n \in Nat : n = 0 \/ n = 1 \/ n > 1
  OBVIOUS
<1>3. s = <<>> <=> Len(s) = 0
  OBVIOUS
<1>4. s # <<>> => Head(s) = s[1]
  OBVIOUS
<1> QED
  BY <1>1, <1>2, <1>3, <1>4

LEMMA RestFacts ==
  ASSUME NEW rest, JobRest(rest), rest # <<>>
  PROVE  /\ Head(rest) \in WorkSteps \cup MonitorSteps \cup {"done"}
         /\ JobRest(Tail(rest))
         /\ Head(rest) # "done" => Tail(rest) # <<>> /\ Head(Tail(rest)) \in Followers(Head(rest))
<1>0. rest \in Seq(Steps) /\ Len(rest) \in Nat /\ Len(rest) > 0
  BY DEF JobRest
<1>1. /\ rest \in Seq(Steps) /\ Len(rest) \in Nat /\ Len(rest) > 0
      /\ Head(rest) = rest[1]
  BY <1>0
<1>2. /\ Tail(rest) \in Seq(Steps)
      /\ Len(Tail(rest)) = Len(rest) - 1
      /\ \A i \in 1 .. Len(rest) - 1 : Tail(rest)[i] = rest[i + 1]
  BY <1>1, HeadTailProperties
<1>3. CASE Len(rest) = 1
  <2>1. Head(rest) = "done" /\ Tail(rest) = <<>>
    <3>1. rest[1] = "done"
      BY <1>0, <1>3 DEF JobRest
    <3>2. Len(Tail(rest)) = 0
      BY <1>2, <1>3
    <3> QED
      BY <1>1, <1>2, <3>1, <3>2, SeqFacts
  <2>2. JobRest(<<>>)
    <3>1. <<>> \in Seq(Steps) /\ Len(<<>>) = 0 /\ 1 .. (0 - 1) = {}
      OBVIOUS
    <3> QED
      BY <3>1 DEF JobRest
  <2> QED
    BY <2>1, <2>2
<1>4. CASE Len(rest) > 1
  <2>1. rest[2] \in Followers(rest[1])
    BY <1>1, <1>4 DEF JobRest
  <2>2. Tail(rest) # <<>> /\ Head(Tail(rest)) = rest[2]
    <3>1. Len(Tail(rest)) >= 1 /\ Tail(rest)[1] = rest[1 + 1]
      BY <1>1, <1>2, <1>4
    <3>2. Tail(rest) # <<>>
      <4>1. Tail(rest) \in Seq(Steps) /\ Len(Tail(rest)) # 0
        BY <1>2, <3>1
      <4> QED
        BY <4>1, SeqFacts
    <3>3. Head(Tail(rest)) = Tail(rest)[1]
      <4>1. Tail(rest) \in Seq(Steps)
        BY <1>2
      <4> QED
        BY <3>2, <4>1, SeqFacts
    <3> QED
      BY <3>1, <3>2, <3>3
  <2>3. Head(rest) \in WorkSteps \cup MonitorSteps
    BY <1>1, <2>1 DEF Followers, WorkSteps, MonitorSteps
  <2>4. Tail(rest)[Len(Tail(rest))] = "done"
    BY <1>1, <1>2, <1>4 DEF JobRest
  <2>5. ASSUME NEW i \in 1 .. Len(Tail(rest)) - 1
        PROVE  Tail(rest)[i + 1] \in Followers(Tail(rest)[i])
    <3>1. Tail(rest)[i + 1] = rest[i + 2] /\ Tail(rest)[i] = rest[i + 1]
      BY <1>1, <1>2
    <3>2. i + 1 \in 1 .. Len(rest) - 1 /\ (i + 1) + 1 = i + 2
      BY <1>1, <1>2
    <3>3. rest[i + 2] \in Followers(rest[i + 1])
      BY <3>2 DEF JobRest
    <3> QED
      BY <3>1, <3>3
  <2> QED
    BY <1>1, <1>2, <2>1, <2>2, <2>3, <2>4, <2>5 DEF JobRest
<1>5. Len(rest) = 1 \/ Len(rest) > 1
  BY <1>0, SeqFacts
<1> QED
  BY <1>3, <1>4, <1>5

\* The container done follows the others.
LEMMA DoneLast ==
  ASSUME NEW main \in Seq(Steps)
  PROVE  /\ main \o <<"done">> \in Seq(Steps)
         /\ Len(main \o <<"done">>) = Len(main) + 1
         /\ (main \o <<"done">>)[Len(main) + 1] = "done"
         /\ \A i \in 1 .. Len(main) : (main \o <<"done">>)[i] = main[i]
<1>1. <<"done">> \in Seq(Steps) /\ Len(<<"done">>) = 1 /\ <<"done">>[1] = "done"
  BY DEF Steps
<1> QED
  BY <1>1

\* The containers of an upgrade without hooks.
LEMMA UpgradeContainers ==
  ASSUME NEW r \in Request, NEW steps,
         steps = Containers([desired |-> "upgrade", op |-> "nil", upgrade |-> r], {})
  PROVE  /\ JobRest(steps) /\ steps # <<>>
         /\ Head(steps) \in {"upgrade-cluster", "intermediate-upgrade-cluster"}
<1> DEFINE cur == [desired |-> "upgrade", op |-> "nil", upgrade |-> r]
           main == MainSteps(cur)
<1>1. JobKind(cur) = "upgrade"
  BY DEF JobKind, PosthookOnly, Retries
<1>2. \A hook : ~RunsHook(cur, {}, hook)
  BY <1>1 DEF RunsHook
<1>3. \/ main = <<"upgrade-cluster", "monitor-upgrade">>
      \/ main = <<"intermediate-upgrade-cluster", "intermediate-monitor-upgrade",
                 "final-upgrade-cluster", "monitor-upgrade">>
  BY <1>1 DEF MainSteps
<1>4. /\ main \in Seq(Steps)
      /\ Len(main) > 0 /\ main[Len(main)] = "monitor-upgrade"
      /\ main[1] \in {"upgrade-cluster", "intermediate-upgrade-cluster"}
      /\ \A i \in 1 .. Len(main) - 1 : main[i + 1] \in Followers(main[i])
  <2> HIDE DEF main
  <2>1. /\ "monitor-upgrade" \in Steps /\ "upgrade-cluster" \in Steps
        /\ "final-upgrade-cluster" \in Steps /\ "intermediate-monitor-upgrade" \in Steps
        /\ "intermediate-upgrade-cluster" \in Steps
    BY DEF Steps, EUSSteps
  <2>2. CASE main = <<"upgrade-cluster", "monitor-upgrade">>
    <3>1. /\ <<"upgrade-cluster", "monitor-upgrade">> \in Seq(Steps)
          /\ Len(<<"upgrade-cluster", "monitor-upgrade">>) = 2
      BY <2>1
    <3>2. main[1] = "upgrade-cluster" /\ main[2] = "monitor-upgrade"
      BY <2>2
    <3>3. Followers("upgrade-cluster") = {"monitor-upgrade"}
      BY DEF Followers
    <3> QED
      BY <2>2, <3>1, <3>2, <3>3
  <2>3. CASE main = <<"intermediate-upgrade-cluster", "intermediate-monitor-upgrade",
                      "final-upgrade-cluster", "monitor-upgrade">>
    <3>1. main \in Seq(Steps) /\ Len(main) = 4
      <4>1. <<"intermediate-upgrade-cluster", "intermediate-monitor-upgrade",
              "final-upgrade-cluster", "monitor-upgrade">> \in Seq(Steps)
        BY <2>1
      <4> QED
        BY <2>3, <4>1
    <3>2. /\ main[1] = "intermediate-upgrade-cluster"
          /\ main[2] = "intermediate-monitor-upgrade"
          /\ main[3] = "final-upgrade-cluster"
          /\ main[4] = "monitor-upgrade"
      BY <2>3
    <3>3. \A i \in 1 .. 3 : i = 1 \/ i = 2 \/ i = 3
      OBVIOUS
    <3>4. \A i \in 1 .. 3 : main[i + 1] \in Followers(main[i])
      BY <3>2, <3>3 DEF Followers
    <3> QED
      BY <3>1, <3>2, <3>4
  <2> QED
    BY <1>3, <2>2, <2>3
<1> HIDE DEF cur, main
<1>5. steps = <<>> \o main \o <<>> \o <<"done">>
  BY <1>1, <1>2 DEF Containers, main, cur
<1>6. steps = main \o <<"done">>
  BY <1>4, <1>5
<1>7. /\ steps \in Seq(Steps) /\ Len(steps) = Len(main) + 1
      /\ steps[Len(main) + 1] = "done"
      /\ \A i \in 1 .. Len(main) : steps[i] = main[i]
  <2>1. main \in Seq(Steps)
    BY <1>4
  <2> QED
    BY <1>6, <2>1, DoneLast
<1>8. ASSUME NEW i \in 1 .. Len(steps) - 1 PROVE steps[i + 1] \in Followers(steps[i])
  <2>1. CASE i = Len(main)
    BY <1>4, <1>7, <2>1 DEF Followers
  <2>2. CASE i # Len(main)
    <3>1. i \in 1 .. Len(main) - 1 /\ i + 1 \in 1 .. Len(main)
      BY <1>4, <1>7, <2>2
    <3> QED
      BY <1>4, <1>7, <3>1
  <2> QED
    BY <2>1, <2>2
<1>9. steps # <<>> /\ Head(steps) = main[1]
  BY <1>4, <1>7
<1> QED
  BY <1>4, <1>7, <1>8, <1>9 DEF JobRest

-----------------------------------------------------------------------------
(* Where the Job is.                                                        *)

WorkCalls == {"validate", "view", "wait", "act", "await", "delete"}

\* The calls a container makes.
Fits(call, step) ==
    \/ step \in WorkSteps /\ call \in WorkCalls
    \/ step \in MonitorSteps /\ call \in {"monitor", "forget"}
    \/ step = "done" /\ call = "close"

\* No loop runs past its last turn, and after the last attempt no action is deleted for
\* another.
Bounded(p) ==
    /\ p.call \in {"wait", "await"} => p.polls < WaitPolls
    /\ p.call = "monitor" => p.polls < MonitorPolls
    /\ p.call = "delete" => p.attempt < BackoffLimit \/ (p.attempt > 0 /\ p.well)

Control ==
    /\ JobRest(todo)
    /\ todo = <<>> => at.call = "rest"
    /\ todo # <<>> => Fits(at.call, Head(todo))
    /\ Bounded(at)

TypesIInv == TypeOK /\ Control

\* Which container makes the call.
LEMMA Callers ==
  ASSUME TypesIInv
  PROVE  /\ at.call \in WorkCalls => todo # <<>> /\ Head(todo) \in WorkSteps
         /\ at.call \in {"monitor", "forget"} => todo # <<>> /\ Head(todo) \in MonitorSteps
         /\ at.call = "close" => todo # <<>> /\ Head(todo) = "done"
  BY DEF TypesIInv, Control, Fits, WorkCalls

\* The steps of a container: it ends well, it fails, or it goes on to a call of its own.
Moves ==
    \/ Succeed /\ Head(todo) # "done"
    \/ Fail
    \/ \E p \in Place : Fits(p.call, Head(todo)) /\ Bounded(p) /\ GoOn(p)

LEMMA BeginFits ==
  ASSUME NEW step \in WorkSteps \cup MonitorSteps \cup {"done"}
  PROVE  /\ Begin(FirstCall(step)) \in Place
         /\ Bounded(Begin(FirstCall(step)))
         /\ Fits(Begin(FirstCall(step)).call, step)
<1>1. FirstCall(step) \in Calls /\ Fits(FirstCall(step), step)
  BY DEF FirstCall, Fits, WorkSteps, MonitorSteps, WorkCalls, Calls
<1>2. NotRead \in ClusterVersion
  BY NamesAssumption DEF NotRead, ClusterVersion, NoVersion
<1>3. Begin(FirstCall(step)) \in Place
  BY <1>1, <1>2, BoundAssumption DEF Begin, Place, Objects
<1> QED
  BY <1>1, <1>3, BoundAssumption DEF Begin, Bounded, FirstCall

LEMMA MovesControl ==
  ASSUME TypesIInv, todo # <<>>, Moves
  PROVE  Control' /\ at' \in Place /\ last' \in Request /\ todo' \in Seq(Steps)
<1>1. JobRest(todo) /\ last \in Request /\ request \in Request /\ todo \in Seq(Steps)
  BY DEF TypesIInv, TypeOK, Control
<1>2. CASE Succeed /\ Head(todo) # "done"
  <2>1. JobRest(Tail(todo)) /\ Tail(todo) # <<>>
    BY <1>1, <1>2, RestFacts
  <2>2. Head(Tail(todo)) \in WorkSteps \cup MonitorSteps \cup {"done"}
    BY <2>1, RestFacts
  <2>3. todo' = Tail(todo) /\ at' = Begin(FirstCall(Head(Tail(todo)))) /\ last' = last
    BY <1>2 DEF Succeed
  <2>4. Tail(todo) \in Seq(Steps)
    BY <2>1 DEF JobRest
  <2> QED
    BY <1>1, <2>1, <2>2, <2>3, <2>4, BeginFits DEF Control
<1>3. CASE Fail
  <2>1. todo' = <<>> /\ at' = Begin("rest") /\ last' = request
    BY <1>3 DEF Fail
  <2>2. NotRead \in ClusterVersion
    BY NamesAssumption DEF NotRead, ClusterVersion, NoVersion
  <2>3. Begin("rest") \in Place
    BY <2>2, BoundAssumption DEF Begin, Place, Objects, Calls
  <2>4. Bounded(Begin("rest")) /\ Begin("rest").call = "rest"
    BY DEF Begin, Bounded
  <2>5. <<>> \in Seq(Steps) /\ Len(<<>>) = 0 /\ 1 .. (0 - 1) = {}
    OBVIOUS
  <2>6. JobRest(<<>>)
    BY <2>5 DEF JobRest
  <2> QED
    BY <1>1, <2>1, <2>3, <2>4, <2>5, <2>6 DEF Control
<1>4. CASE \E p \in Place : Fits(p.call, Head(todo)) /\ Bounded(p) /\ GoOn(p)
  BY <1>1, <1>4 DEF GoOn, jobVars, Control
<1> QED
  BY <1>2, <1>3, <1>4 DEF Moves

\* Changes of place are places.
LEMMA PlaceEdits ==
  ASSUME NEW p \in Place
  PROVE  /\ \A c \in Calls, o \in Objects : [p EXCEPT !.call = c, !.of = o] \in Place
         /\ \A c \in Calls, n \in 0 .. BackoffLimit :
              [p EXCEPT !.call = c, !.attempt = n] \in Place
         /\ \A c \in Calls, n \in 0 .. WaitPolls + MonitorPolls :
              [p EXCEPT !.call = c, !.polls = n] \in Place
         /\ \A n \in 0 .. WaitPolls + MonitorPolls : [p EXCEPT !.polls = n] \in Place
         /\ \A c \in Calls, v \in ClusterVersion : [p EXCEPT !.call = c, !.seen = v] \in Place
         /\ \A c \in Calls, b \in BOOLEAN : [p EXCEPT !.call = c, !.well = b] \in Place
         /\ \A c \in Calls : [p EXCEPT !.call = c] \in Place
  BY DEF Place

LEMMA AtFacts ==
  ASSUME TypesIInv
  PROVE  /\ at \in Place /\ at.of \in Objects /\ at.call \in Calls
         /\ at.attempt \in Nat /\ at.attempt <= BackoffLimit /\ BackoffLimit \in Nat \ {0}
         /\ at.polls \in Nat /\ WaitPolls \in Nat \ {0} /\ MonitorPolls \in Nat \ {0}
         /\ at.seen \in ClusterVersion /\ view[at.of] \in View
         /\ Bounded(at)
  BY BoundAssumption DEF TypesIInv, TypeOK, Control, Place

\* A poll that is not the last leaves a place for the next.
LEMMA NextPoll ==
  ASSUME TypesIInv, at.call \in {"wait", "await", "monitor"},
         at.polls + 1 # (IF at.call = "monitor" THEN MonitorPolls ELSE WaitPolls)
  PROVE  /\ [at EXCEPT !.polls = at.polls + 1] \in Place
         /\ Bounded([at EXCEPT !.polls = at.polls + 1])
         /\ [at EXCEPT !.polls = at.polls + 1].call = at.call
<1> DEFINE next == [at EXCEPT !.polls = at.polls + 1]
<1>1. /\ at.polls < (IF at.call = "monitor" THEN MonitorPolls ELSE WaitPolls)
      /\ at.polls \in Nat /\ WaitPolls \in Nat /\ MonitorPolls \in Nat
  BY AtFacts DEF Bounded
<1>2. at.polls + 1 < (IF at.call = "monitor" THEN MonitorPolls ELSE WaitPolls)
  BY <1>1
<1>3. at.polls + 1 \in 0 .. WaitPolls + MonitorPolls
  BY <1>1, <1>2
<1>4. next \in Place
  BY <1>3, AtFacts, PlaceEdits
<1>5. next.call = at.call /\ next.polls = at.polls + 1
  BY AtFacts DEF Place
<1> QED
  BY <1>2, <1>4, <1>5 DEF Bounded

\* Calls without a bound of their own.
LEMMA Unbounded ==
  ASSUME NEW p \in Place, p.call \notin {"wait", "await", "monitor", "delete"}
  PROVE  Bounded(p)
  BY DEF Bounded

LEMMA ValidateMoves ==
  ASSUME TypesIInv, Validate PROVE todo # <<>> /\ Moves
<1>1. todo # <<>> /\ Head(todo) \in WorkSteps /\ Head(todo) # "done"
  BY Callers DEF Validate, WorkCalls, WorkSteps
<1>2. ASSUME NEW p \in Place, p.call = "view" PROVE Fits(p.call, Head(todo)) /\ Bounded(p)
  BY <1>1, <1>2, Unbounded DEF Fits, WorkCalls
<1>3. /\ [at EXCEPT !.call = "view", !.of = "admack"] \in Place
      /\ [at EXCEPT !.call = "view", !.of = "admack"].call = "view"
  <2>1. [at EXCEPT !.call = "view", !.of = "admack"] \in Place
    BY AtFacts, PlaceEdits DEF Calls, Objects
  <2> QED
    BY <2>1, AtFacts DEF Place
<1>4. ASSUME NEW n \in {0, 1}
      PROVE  /\ [at EXCEPT !.call = "view", !.attempt = n] \in Place
             /\ [at EXCEPT !.call = "view", !.attempt = n].call = "view"
  <2>1. n \in 0 .. BackoffLimit
    BY AtFacts
  <2>2. [at EXCEPT !.call = "view", !.attempt = n] \in Place
    BY <2>1, AtFacts, PlaceEdits DEF Calls
  <2> QED
    BY <2>2, AtFacts DEF Place
<1>5. CASE EUSStep
  BY <1>1, <1>2, <1>3, <1>5 DEF Validate, Moves
<1>6. CASE ~EUSStep
  BY <1>1, <1>2, <1>4, <1>6 DEF Validate, Moves
<1> QED
  BY <1>5, <1>6

LEMMA ViewMoves ==
  ASSUME TypesIInv, EnsureView \/ WaitForView PROVE todo # <<>> /\ Moves
<1>1. todo # <<>> /\ Head(todo) \in WorkSteps
  BY Callers DEF EnsureView, WaitForView, WorkCalls
<1>2. CASE EnsureView
  <2>1. [at EXCEPT !.call = "wait", !.polls = 0] \in Place
    <3>1. 0 \in 0 .. WaitPolls + MonitorPolls
      BY AtFacts
    <3> QED
      BY <3>1, AtFacts, PlaceEdits DEF Calls
  <2>2. /\ [at EXCEPT !.call = "wait", !.polls = 0].call = "wait"
        /\ [at EXCEPT !.call = "wait", !.polls = 0].polls = 0
    BY AtFacts DEF Place
  <2>3. Bounded([at EXCEPT !.call = "wait", !.polls = 0])
    BY <2>2, AtFacts DEF Bounded
  <2>4. Fits("wait", Head(todo))
    BY <1>1 DEF Fits, WorkCalls
  <2> QED
    BY <1>1, <1>2, <2>1, <2>2, <2>3, <2>4 DEF EnsureView, Moves
<1>3. ASSUME NEW p \in Place, p.call \in {"act", "view"} PROVE Fits(p.call, Head(todo)) /\ Bounded(p)
  BY <1>1, <1>3, Unbounded DEF Fits, WorkCalls
<1>4. AfterView => Moves
  <2>1. view[at.of].result \in ClusterVersion
    BY AtFacts DEF View
  <2>2. /\ [at EXCEPT !.call = "act", !.seen = view[at.of].result] \in Place
        /\ [at EXCEPT !.call = "act", !.seen = view[at.of].result].call = "act"
    <3>1. [at EXCEPT !.call = "act", !.seen = view[at.of].result] \in Place
      BY <2>1, AtFacts, PlaceEdits DEF Calls
    <3> QED
      BY <3>1, AtFacts DEF Place
  <2>3. /\ [at EXCEPT !.call = "view", !.of = "cluster"] \in Place
        /\ [at EXCEPT !.call = "view", !.of = "cluster"].call = "view"
        /\ [at EXCEPT !.call = "act", !.of = "admack"] \in Place
        /\ [at EXCEPT !.call = "act", !.of = "admack"].call = "act"
    <3>1. /\ [at EXCEPT !.call = "view", !.of = "cluster"] \in Place
          /\ [at EXCEPT !.call = "act", !.of = "admack"] \in Place
      BY AtFacts, PlaceEdits DEF Calls, Objects
    <3> QED
      BY <3>1, AtFacts DEF Place
  <2>4. /\ [at EXCEPT !.call = "view", !.attempt = 1] \in Place
        /\ [at EXCEPT !.call = "view", !.attempt = 1].call = "view"
    <3>1. 1 \in 0 .. BackoffLimit
      BY AtFacts
    <3>2. [at EXCEPT !.call = "view", !.attempt = 1] \in Place
      BY <3>1, AtFacts, PlaceEdits DEF Calls
    <3> QED
      BY <3>2, AtFacts DEF Place
  <2>5. at.attempt = 0 \/ at.attempt > 0
    BY AtFacts
  <2>6. at.of = "cluster" \/ at.of = "admack"
    BY AtFacts DEF Objects
  <2>7. ASSUME NEW p \in Place, p.call \in {"act", "view"}, GoOn(p) PROVE Moves
    BY <1>3, <2>7 DEF Moves
  <2> QED
    BY <2>2, <2>3, <2>4, <2>5, <2>6, <2>7 DEF AfterView, Moves
<1>5. CASE WaitForView
  <2>1. ASSUME at.polls + 1 < WaitPolls, GoOn([at EXCEPT !.polls = at.polls + 1])
        PROVE  Moves
    <3>1. at.call = "wait" /\ at.polls + 1 # WaitPolls
      BY <1>5, <2>1, AtFacts DEF WaitForView
    <3>2. Fits("wait", Head(todo))
      BY <1>1 DEF Fits, WorkCalls
    <3> QED
      BY <2>1, <3>1, <3>2, NextPoll DEF Moves
  <2>2. CASE AfterView
    BY <1>1, <1>4, <2>2
  <2>3. CASE Fail
    BY <1>1, <2>3 DEF Moves
  <2> QED
    BY <1>1, <1>5, <2>1, <2>2, <2>3 DEF WaitForView
<1> QED
  BY <1>1, <1>2, <1>5

LEMMA ActionMoves ==
  ASSUME TypesIInv, CreateAction \/ AwaitAction \/ DeleteAction PROVE todo # <<>> /\ Moves
<1>1. todo # <<>> /\ Head(todo) \in WorkSteps /\ Head(todo) # "done"
  BY Callers DEF CreateAction, AwaitAction, DeleteAction, WorkCalls, WorkSteps
<1>2. ASSUME NEW call \in WorkCalls PROVE Fits(call, Head(todo))
  BY <1>1 DEF Fits
<1>3. CASE CreateAction
  <2>1. [at EXCEPT !.call = "await", !.polls = 0] \in Place
    <3>1. 0 \in 0 .. WaitPolls + MonitorPolls
      BY AtFacts
    <3> QED
      BY <3>1, AtFacts, PlaceEdits DEF Calls
  <2>2. /\ [at EXCEPT !.call = "await", !.polls = 0].call = "await"
        /\ [at EXCEPT !.call = "await", !.polls = 0].polls = 0
    BY AtFacts DEF Place
  <2>3. Bounded([at EXCEPT !.call = "await", !.polls = 0])
    BY <2>2, AtFacts DEF Bounded
  <2>4. Fits("await", Head(todo))
    BY <1>2 DEF WorkCalls
  <2> QED
    BY <1>1, <1>3, <2>1, <2>2, <2>3, <2>4 DEF CreateAction, Moves
<1>4. ASSUME NEW outcome, Judge(outcome) PROVE Moves
  <2>1. /\ [at EXCEPT !.call = "delete", !.well = TRUE] \in Place
        /\ [at EXCEPT !.call = "delete"] \in Place
    BY AtFacts, PlaceEdits DEF Calls
  <2>2. /\ [at EXCEPT !.call = "delete", !.well = TRUE].call = "delete"
        /\ [at EXCEPT !.call = "delete", !.well = TRUE].well
        /\ [at EXCEPT !.call = "delete", !.well = TRUE].attempt = at.attempt
        /\ [at EXCEPT !.call = "delete"].call = "delete"
        /\ [at EXCEPT !.call = "delete"].attempt = at.attempt
    BY AtFacts DEF Place
  <2>3. at.attempt = 0 \/ at.attempt > 0
    BY AtFacts
  <2>4. Bounded([at EXCEPT !.call = "delete", !.well = TRUE])
    <3>1. at.attempt < BackoffLimit \/ at.attempt > 0
      BY <2>3, AtFacts
    <3> QED
      BY <2>2, <3>1 DEF Bounded
  <2>5. MoreAttempts => Bounded([at EXCEPT !.call = "delete"])
    BY <2>2 DEF Bounded, MoreAttempts
  <2>6. Fits("delete", Head(todo))
    BY <1>2 DEF WorkCalls
  <2> QED
    BY <1>1, <1>4, <2>1, <2>2, <2>4, <2>5, <2>6 DEF Judge, Moves
<1>5. CASE AwaitAction
  <2>1. ASSUME at.polls + 1 < WaitPolls, GoOn([at EXCEPT !.polls = at.polls + 1])
        PROVE  Moves
    <3>1. at.call = "await" /\ at.polls + 1 # WaitPolls
      BY <1>5, <2>1, AtFacts DEF AwaitAction
    <3>2. Fits("await", Head(todo))
      BY <1>2 DEF WorkCalls
    <3> QED
      BY <2>1, <3>1, <3>2, NextPoll DEF Moves
  <2>2. at.call = "await" => at.polls < WaitPolls
    BY AtFacts DEF Bounded
  <2>3. \/ Judge(action[at.of].outcome) \/ Judge("none") \/ Fail
        \/ at.polls + 1 < WaitPolls /\ GoOn([at EXCEPT !.polls = at.polls + 1])
    <3>1. at.polls + 1 < WaitPolls \/ at.polls + 1 = WaitPolls
      BY <1>5, <2>2, AtFacts DEF AwaitAction
    <3> QED
      BY <1>5, <3>1 DEF AwaitAction
  <2> QED
    BY <1>1, <1>4, <2>1, <2>3 DEF Moves
<1>6. CASE DeleteAction
  <2>1. CASE Fail \/ Succeed
    BY <1>1, <2>1 DEF Moves
  <2>2. CASE ~Fail /\ ~Succeed
    <3> DEFINE next == [Begin("view") EXCEPT !.attempt = at.attempt + 1]
    <3>1. ~(at.attempt > 0 /\ at.well) /\ GoOn(next)
      BY <1>6, <2>2 DEF DeleteAction
    <3>2. at.attempt < BackoffLimit
      BY <1>6, <3>1, AtFacts DEF DeleteAction, Bounded
    <3>3. at.attempt + 1 \in 0 .. BackoffLimit
      BY <3>2, AtFacts
    <3>4. next \in Place /\ next.call = "view"
      <4>1. NotRead \in ClusterVersion
        BY NamesAssumption DEF NotRead, ClusterVersion, NoVersion
      <4>2. Begin("view") \in Place /\ Begin("view").call = "view"
        BY <4>1, BoundAssumption DEF Begin, Place, Objects, Calls
      <4> QED
        BY <3>3, <4>2 DEF Place
    <3>5. Fits("view", Head(todo))
      BY <1>2 DEF WorkCalls
    <3> HIDE DEF next
    <3> QED
      BY <1>1, <3>1, <3>4, <3>5, Unbounded DEF Moves
  <2> QED
    BY <2>1, <2>2
<1> QED
  BY <1>1, <1>3, <1>5, <1>6

LEMMA ForgetPlace ==
  ASSUME TypesIInv, at.call = "monitor", NEW b \in BOOLEAN
  PROVE  /\ [at EXCEPT !.call = "forget", !.well = b] \in Place
         /\ Fits([at EXCEPT !.call = "forget", !.well = b].call, Head(todo))
         /\ Bounded([at EXCEPT !.call = "forget", !.well = b])
         /\ [at EXCEPT !.call = "forget", !.well = b].call = "forget"
         /\ [at EXCEPT !.call = "forget", !.well = b].well = b
<1> DEFINE next == [at EXCEPT !.call = "forget", !.well = b]
<1>1. next \in Place
  BY AtFacts, PlaceEdits DEF Calls
<1>2. next.call = "forget" /\ next.well = b
  BY AtFacts DEF Place
<1>3. Head(todo) \in MonitorSteps
  BY Callers
<1> QED
  BY <1>1, <1>2, <1>3, Unbounded DEF Fits

LEMMA MonitorMoves ==
  ASSUME TypesIInv, MonitorUpgrade \/ ForgetView PROVE todo # <<>> /\ Moves
<1>1. todo # <<>> /\ Head(todo) \in MonitorSteps /\ Head(todo) # "done"
  BY Callers DEF MonitorUpgrade, ForgetView, MonitorSteps
<1>2. CASE MonitorUpgrade
  <2>1. at.call = "monitor"
    BY <1>2 DEF MonitorUpgrade
  <2>2. \/ Fail
        \/ \E b \in BOOLEAN : GoOn([at EXCEPT !.call = "forget", !.well = b])
        \/ at.polls + 1 # MonitorPolls /\ GoOn([at EXCEPT !.polls = at.polls + 1])
    BY <1>2 DEF MonitorUpgrade
  <2>3. Fits("monitor", Head(todo))
    BY <1>1 DEF Fits
  <2>4. ASSUME at.polls + 1 # MonitorPolls, GoOn([at EXCEPT !.polls = at.polls + 1])
        PROVE  Moves
    BY <2>1, <2>3, <2>4, NextPoll DEF Moves
  <2>5. ASSUME NEW b \in BOOLEAN, GoOn([at EXCEPT !.call = "forget", !.well = b])
        PROVE  Moves
    BY <2>1, <2>5, ForgetPlace DEF Moves
  <2>6. Fail => Moves
    BY DEF Moves
  <2> QED
    BY <1>1, <2>2, <2>4, <2>5, <2>6
<1>3. CASE ForgetView
  BY <1>1, <1>3 DEF ForgetView, Moves
<1> QED
  BY <1>2, <1>3

LEMMA FaultMoves ==
  ASSUME TypesIInv, PollFails \/ CallFails PROVE todo # <<>> /\ Moves
<1>1. CASE CallFails
  BY <1>1 DEF CallFails, Moves
<1>2. CASE PollFails
  <2>1. at.call \in {"wait", "await", "monitor"}
    BY <1>2 DEF PollFails
  <2>2. todo # <<>> /\ Fits(at.call, Head(todo))
    BY <2>1 DEF TypesIInv, Control
  <2>3. \/ /\ at.polls + 1 # (IF at.call = "monitor" THEN MonitorPolls ELSE WaitPolls)
           /\ GoOn([at EXCEPT !.polls = at.polls + 1])
        \/ /\ at.call = "monitor"
           /\ GoOn([at EXCEPT !.call = "forget", !.well = FALSE])
    BY <1>2 DEF PollFails
  <2>4. ASSUME at.polls + 1 # (IF at.call = "monitor" THEN MonitorPolls ELSE WaitPolls),
               GoOn([at EXCEPT !.polls = at.polls + 1])
        PROVE  Moves
    BY <2>1, <2>2, <2>4, NextPoll DEF Moves
  <2>5. ASSUME at.call = "monitor", GoOn([at EXCEPT !.call = "forget", !.well = FALSE])
        PROVE  Moves
    BY <2>5, ForgetPlace DEF Moves
  <2> QED
    BY <2>2, <2>3, <2>4, <2>5
<1> QED
  BY <1>1, <1>2

LEMMA ClosedControl ==
  ASSUME TypesIInv, Close
  PROVE  Control' /\ at' \in Place /\ last' \in Request /\ todo' \in Seq(Steps)
<1>2. NotRead \in ClusterVersion
  BY NamesAssumption DEF NotRead, ClusterVersion, NoVersion
<1>3. Begin("rest") \in Place
  BY <1>2, BoundAssumption DEF Begin, Place, Objects, Calls
<1>4. Bounded(Begin("rest")) /\ Begin("rest").call = "rest"
  BY DEF Begin, Bounded
<1>5. <<>> \in Seq(Steps) /\ Len(<<>>) = 0 /\ 1 .. (0 - 1) = {}
  OBVIOUS
<1>6. JobRest(<<>>)
  BY <1>5 DEF JobRest
<1>7. todo' = <<>> /\ at' = Begin("rest") /\ last' = request
  BY DEF Close
<1> QED
  BY <1>3, <1>4, <1>5, <1>6, <1>7 DEF Control, TypesIInv, TypeOK

-----------------------------------------------------------------------------
(* The objects on the hub and the cluster.                                  *)

LEMMA BlankObjects ==
  /\ NotRead \in ClusterVersion /\ [NotRead EXCEPT !.rv = 1] \in ClusterVersion
  /\ NoView \in View /\ NoAction \in Action
<1>1. NotRead \in ClusterVersion
  BY NamesAssumption DEF NotRead, ClusterVersion, NoVersion
<1>2. [NotRead EXCEPT !.rv = 1] \in ClusterVersion
  BY <1>1 DEF ClusterVersion
<1> QED
  BY <1>1, <1>2 DEF NoView, View, NoAction, Action

LEMMA TemplateType ==
  ASSUME TypesIInv PROVE Template \in ClusterVersion
<1>1. at.seen \in ClusterVersion
  BY AtFacts
<1>2. /\ Target \in Nat /\ request.channel \in Names /\ request.upstream \in Names
      /\ EUSChannel \in Names
  BY ClusterAssumption DEF TypesIInv, TypeOK, Target, Request
<1>3. VersionTemplate \in ClusterVersion
  BY <1>1, <1>2 DEF VersionTemplate, ClusterVersion
<1>4. EUSTemplate \in ClusterVersion
  BY <1>1, <1>2 DEF EUSTemplate, ClusterVersion
<1> QED
  BY <1>3, <1>4 DEF Template

HubTypes ==
    /\ request \in Request
    /\ edits \in 0 .. MaxEdits
    /\ mci \in SUBSET Nat
    /\ cv \in ClusterVersion
    /\ view \in [Objects -> View]
    /\ action \in [Objects -> Action]
    /\ asked \in SUBSET Nat
    /\ faults \in 0 .. MaxFaults

LEMMA SameHub ==
  ASSUME TypesIInv, UNCHANGED <<request, edits, mci, cv, view, action, asked, faults>>
  PROVE  HubTypes'
  BY DEF TypesIInv, TypeOK, HubTypes

LEMMA ContainerHub ==
  ASSUME TypesIInv, Container PROVE HubTypes'
<1>1. Remote
  BY DEF Container, Validate, EnsureView, WaitForView, CreateAction, AwaitAction, DeleteAction,
         MonitorUpgrade, ForgetView, Close
<1>2. /\ request' \in Request /\ edits' \in 0 .. MaxEdits /\ mci' \in SUBSET Nat
      /\ cv' \in ClusterVersion /\ faults' \in 0 .. MaxFaults
  BY <1>1 DEF Remote, TypesIInv, TypeOK
<1>3. CASE EnsureView \/ ForgetView
  <2>1. [NoView EXCEPT !.there = TRUE, !.ours = TRUE] \in View
    BY BlankObjects DEF View
  <2>2. view' \in [Objects -> View]
    BY <1>3, <2>1, BlankObjects DEF EnsureView, ForgetView, TypesIInv, TypeOK
  <2>3. action' = action /\ asked' = asked
    BY <1>3 DEF EnsureView, ForgetView
  <2> QED
    BY <1>2, <2>2, <2>3 DEF HubTypes, TypesIInv, TypeOK
<1>4. CASE CreateAction
  <2>1. \A t \in ClusterVersion : [NoAction EXCEPT !.there = TRUE, !.template = t] \in Action
    BY BlankObjects DEF Action
  <2>2. action' \in [Objects -> Action]
    BY <1>4, <2>1, BlankObjects, TemplateType DEF CreateAction, TypesIInv, TypeOK
  <2>3. Template.desired \in Nat
    BY TemplateType DEF ClusterVersion
  <2>4. asked' \in SUBSET Nat
    BY <1>4, <2>3 DEF CreateAction, TypesIInv, TypeOK
  <2>5. view' = view
    BY <1>4 DEF CreateAction
  <2> QED
    BY <1>2, <2>2, <2>4, <2>5 DEF HubTypes, TypesIInv, TypeOK
<1>5. CASE DeleteAction
  <2>1. action' \in [Objects -> Action]
    BY <1>5, BlankObjects DEF DeleteAction, TypesIInv, TypeOK
  <2>2. view' = view /\ asked' = asked
    BY <1>5 DEF DeleteAction
  <2> QED
    BY <1>2, <2>1, <2>2 DEF HubTypes, TypesIInv, TypeOK
<1>6. CASE Validate \/ WaitForView \/ AwaitAction \/ MonitorUpgrade \/ Close
  <2>1. UNCHANGED <<view, action, asked>>
    BY <1>6 DEF Validate, WaitForView, AwaitAction, MonitorUpgrade, Close
  <2> QED
    BY <1>2, <2>1 DEF HubTypes, TypesIInv, TypeOK
<1> QED
  BY <1>3, <1>4, <1>5, <1>6 DEF Container

\* The cluster's side leaves the Job alone.
JobUntouched == UNCHANGED <<request, cond, last, edits, asked, todo, at, faults>>

LEMMA NextRV ==
  ASSUME NEW c \in ClusterVersion PROVE [c EXCEPT !.rv = c.rv + 1] \in ClusterVersion
<1>1. c.rv \in Nat
  BY DEF ClusterVersion
<1>2. c.rv + 1 \in Nat
  BY <1>1
<1> QED
  BY <1>2 DEF ClusterVersion

LEMMA ClusterHub ==
  ASSUME TypesIInv, ManagedCluster PROVE HubTypes' /\ JobUntouched
<1>0. /\ cv \in ClusterVersion /\ view \in [Objects -> View] /\ action \in [Objects -> Action]
      /\ cv.version \in Nat /\ cv.rv \in Nat /\ cv.desired \in Nat
  BY DEF TypesIInv, TypeOK, ClusterVersion
<1>1. JobUntouched
  BY DEF ManagedCluster, RefreshView, RunAction, ExpireAction, ReachVersion, RefreshMCI, JobUntouched
<1>2. /\ request' \in Request /\ edits' \in 0 .. MaxEdits /\ asked' \in SUBSET Nat
      /\ faults' \in 0 .. MaxFaults
  BY <1>1 DEF JobUntouched, TypesIInv, TypeOK
<1>3. ASSUME NEW n \in Objects, RefreshView(n) PROVE HubTypes'
  <2>1. Snapshot(n) \in ClusterVersion
    BY <1>0, BlankObjects DEF Snapshot
  <2>2. view' = [view EXCEPT ![n] = [view[n] EXCEPT !.result = Snapshot(n)]]
    BY <1>0, <1>3 DEF RefreshView
  <2>3. [view[n] EXCEPT !.result = Snapshot(n)] \in View
    BY <1>0, <2>1 DEF View
  <2>4. view' \in [Objects -> View]
    BY <1>0, <2>2, <2>3
  <2> QED
    BY <1>2, <1>3, <2>4 DEF RefreshView, HubTypes, TypesIInv, TypeOK
<1>4. ASSUME NEW n \in Objects, RunAction(n) PROVE HubTypes'
  <2>1. action[n].template \in ClusterVersion
    BY <1>0 DEF Action
  <2>2. \A o \in {"done", "failed"} : [action[n] EXCEPT !.outcome = o] \in Action
    BY <1>0 DEF Action
  <2>3. PICK o \in {"done", "failed"} : action' = [action EXCEPT ![n].outcome = o]
    BY <1>4 DEF RunAction
  <2>4. action' = [action EXCEPT ![n] = [action[n] EXCEPT !.outcome = o]]
    BY <1>0, <2>3
  <2>5. action' \in [Objects -> Action]
    BY <1>0, <2>2, <2>4
  <2> DEFINE t   == action[n].template
             new == [cv EXCEPT !.desired = t.desired, !.channel = t.channel, !.upstream = t.upstream]
  <2>6. new \in ClusterVersion
    BY <1>0, <2>1 DEF ClusterVersion
  <2>7. [new EXCEPT !.rv = new.rv + 1] \in ClusterVersion
    <3> HIDE DEF new
    <3> QED
      BY <2>6, NextRV
  <2>8. cv' \in {cv, [new EXCEPT !.rv = new.rv + 1]}
    BY <1>4 DEF RunAction
  <2>9. cv' \in ClusterVersion
    BY <1>0, <2>7, <2>8
  <2> QED
    BY <1>2, <1>4, <2>5, <2>9 DEF RunAction, HubTypes, TypesIInv, TypeOK
<1>5. ASSUME NEW n \in Objects, ExpireAction(n) PROVE HubTypes'
  <2>1. action' \in [Objects -> Action]
    BY <1>0, <1>5, BlankObjects DEF ExpireAction
  <2> QED
    BY <1>2, <1>5, <2>1 DEF ExpireAction, HubTypes, TypesIInv, TypeOK
<1>6. CASE ReachVersion
  <2>1. cv' = [cv EXCEPT !.version = cv.desired, !.rv = cv.rv + 1]
    BY <1>6 DEF ReachVersion
  <2>2. cv.rv + 1 \in Nat
    BY <1>0
  <2>3. cv' \in ClusterVersion
    <3>1. ASSUME NEW i \in Nat, NEW j \in Nat
          PROVE  [cv EXCEPT !.version = i, !.rv = j] \in ClusterVersion
      BY <1>0 DEF ClusterVersion
    <3> QED
      BY <1>0, <2>1, <2>2, <3>1
  <2> QED
    BY <1>1, <1>2, <1>6, <2>3 DEF ReachVersion, HubTypes, TypesIInv, TypeOK
<1>7. CASE RefreshMCI
  <2>1. {cv.version} \in SUBSET Nat
    BY <1>0
  <2> QED
    BY <1>1, <1>2, <1>7, <2>1 DEF RefreshMCI, HubTypes, TypesIInv, TypeOK
<1> QED
  BY <1>1, <1>3, <1>4, <1>5, <1>6, <1>7 DEF ManagedCluster

-----------------------------------------------------------------------------
(* Types.                                                                   *)

LEMMA TypesInit ==
  ASSUME Init PROVE TypesIInv
<1>1. NoRequest \in Request
  BY NamesAssumption DEF NoRequest, Request, NoVersion
<1>2. request \in Request /\ 0 \in 0 .. MaxEdits /\ 0 \in 0 .. MaxFaults
  BY RequestsAssumption, BoundAssumption DEF Init
<1>3. cv \in ClusterVersion
  <2>1. PICK v \in StartVersions : cv = [NotRead EXCEPT !.rv = 1, !.version = v]
    BY DEF Init
  <2>2. v \in Nat
    BY ClusterAssumption
  <2>3. [NotRead EXCEPT !.rv = 1, !.version = v] \in ClusterVersion
    BY <2>2, BlankObjects DEF ClusterVersion
  <2> QED
    BY <2>1, <2>3
<1>4. mci \in SUBSET Nat
  <2>1. cv.version \in Nat
    BY <1>3 DEF ClusterVersion
  <2> QED
    BY <2>1 DEF Init
<1>5. view \in [Objects -> View]
  <2>1. [NoView EXCEPT !.there = TRUE] \in View
    BY BlankObjects DEF View
  <2> QED
    BY <2>1, BlankObjects DEF Init
<1>6. action \in [Objects -> Action]
  BY BlankObjects DEF Init
<1>7. at \in Place /\ at.call = "rest" /\ Bounded(at)
  <2>1. Begin("rest") \in Place
    BY BlankObjects, BoundAssumption DEF Begin, Place, Objects, Calls
  <2>2. Bounded(Begin("rest")) /\ Begin("rest").call = "rest"
    BY DEF Begin, Bounded
  <2> QED
    BY <2>1, <2>2 DEF Init
<1>8. todo = <<>> /\ todo \in Seq(Steps) /\ JobRest(todo)
  <2>1. <<>> \in Seq(Steps) /\ Len(<<>>) = 0 /\ 1 .. (0 - 1) = {}
    OBVIOUS
  <2> QED
    BY <2>1 DEF JobRest, Init
<1>9. last = NoRequest /\ edits = 0 /\ asked = {} /\ faults = 0
  BY DEF Init
<1> QED
  BY <1>1, <1>2, <1>3, <1>4, <1>5, <1>6, <1>7, <1>8, <1>9 DEF TypesIInv, TypeOK, Control

LEMMA LaunchTypes ==
  ASSUME TypesIInv, Launch PROVE TypesIInv'
<1> DEFINE steps == Containers([desired |-> "upgrade", op |-> "nil", upgrade |-> request], {})
<1>1. request \in Request
  BY DEF TypesIInv, TypeOK
<1>2. JobRest(steps) /\ steps # <<>>
  BY <1>1, UpgradeContainers
<1>3. Head(steps) \in WorkSteps \cup MonitorSteps \cup {"done"}
  BY <1>2, RestFacts
<1>4. todo' = steps /\ at' = Begin(FirstCall(Head(steps)))
  BY DEF Launch
<1>5. UNCHANGED <<request, last, edits, mci, cv, view, action, asked, faults>>
  BY DEF Launch
<1> HIDE DEF steps
<1>6. Control' /\ at' \in Place
  BY <1>2, <1>3, <1>4, BeginFits DEF Control
<1>7. todo' \in Seq(Steps)
  BY <1>2, <1>4 DEF JobRest
<1> QED
  BY <1>5, <1>6, <1>7, SameHub DEF TypesIInv, TypeOK, HubTypes

LEMMA TypesNext ==
  ASSUME TypesIInv, [Next]_vars PROVE TypesIInv'
<1>1. ASSUME NEW r \in Requests, Edit(r) PROVE TypesIInv'
  <2>1. r \in Request /\ edits + 1 \in 0 .. MaxEdits
    BY <1>1, RequestsAssumption, BoundAssumption DEF Edit, TypesIInv, TypeOK
  <2>2. /\ request' = r /\ edits' = edits + 1
        /\ UNCHANGED <<last, mci, cv, view, action, asked, todo, at, faults>>
    BY <1>1 DEF Edit
  <2> QED
    BY <2>1, <2>2 DEF TypesIInv, TypeOK, Control
<1>2. CASE Launch
  BY <1>2, LaunchTypes
<1>3. CASE Container
  <2>1. Control' /\ at' \in Place /\ last' \in Request /\ todo' \in Seq(Steps)
    <3>1. CASE Close
      BY <3>1, ClosedControl
    <3>2. CASE ~Close
      <4>1. todo # <<>> /\ Moves
        BY <1>3, <3>2, ValidateMoves, ViewMoves, ActionMoves, MonitorMoves DEF Container
      <4> QED
        BY <4>1, MovesControl
    <3> QED
      BY <3>1, <3>2
  <2> QED
    BY <1>3, <2>1, ContainerHub DEF HubTypes, TypesIInv, TypeOK
<1>4. CASE PollFails \/ CallFails
  <2>1. Control' /\ at' \in Place /\ last' \in Request /\ todo' \in Seq(Steps)
    BY <1>4, FaultMoves, MovesControl
  <2>2. /\ faults < MaxFaults /\ faults' = faults + 1
        /\ UNCHANGED <<request, edits, mci, cv, view, action, asked>>
    BY <1>4 DEF PollFails, CallFails
  <2>3. faults' \in 0 .. MaxFaults
    BY <2>2, BoundAssumption DEF TypesIInv, TypeOK
  <2> QED
    BY <2>1, <2>2, <2>3 DEF TypesIInv, TypeOK
<1>5. CASE ManagedCluster
  <2>1. HubTypes' /\ JobUntouched
    BY <1>5, ClusterHub
  <2> QED
    BY <2>1 DEF HubTypes, JobUntouched, TypesIInv, TypeOK, Control
<1>6. CASE UNCHANGED vars
  BY <1>6 DEF vars, TypesIInv, TypeOK, Control
<1> QED
  BY <1>1, <1>2, <1>3, <1>4, <1>5, <1>6 DEF Next

\* Wherever the upgrade is, the object it works on, the attempts and the polls are within
\* their bounds: the containers of hive.go count right, whatever the hub answers.
THEOREM TypeCorrect == Spec => []TypeOK
<1>1. Init => TypesIInv
  BY TypesInit
<1>2. TypesIInv /\ [Next]_vars => TypesIInv'
  BY TypesNext
<1>3. TypesIInv => TypeOK
  BY DEF TypesIInv
<1> QED
  BY <1>1, <1>2, <1>3, PTL DEF Spec

-----------------------------------------------------------------------------
(* HiveUpgrade implements UpgradeCycle.                                     *)

\* A version whose text another's contains is not the later one: true of releases, but
\* a pre-release's text contains that of the release it comes before.
NoEarlyPrint == \A v, w \in Nat : <<v, w>> \in PrintedIn => v <= w

Asked(v) == v \in asked \cup {NoVersion}

\* A version is desired because an action was created for it, wherever the desire has
\* got to: the cluster, a view of it, a container that read the view, an action.
DesiredWasAsked ==
    /\ Asked(cv.desired)
    /\ Asked(at.seen.desired)
    /\ \A n \in Objects : Asked(view[n].result.desired) /\ Asked(action[n].template.desired)

\* A view, however old, shows no version the cluster has not reached.
ViewsBehind == \A n \in Objects : view[n].result.version <= cv.version

\* The verdict of monitor-upgrade still stands when the view has been deleted.
VerdictStands ==
    at.call = "forget" /\ at.well /\ Head(todo) = "monitor-upgrade"
        => request.version <= cv.version

CycleIInv == TypesIInv /\ DesiredWasAsked /\ ViewsBehind /\ VerdictStands

PhaseFacts ==
    /\ todo = <<>> => phase = "idle"
    /\ todo # <<>> /\ Head(todo) = "monitor-upgrade" => phase = "monitoring"
    /\ todo # <<>> /\ Head(todo) = "done" => phase = "closing"
    /\ todo # <<>> /\ Head(todo) \notin {"monitor-upgrade", "done"} => phase = "launched"

LEMMA Phases == PhaseFacts /\ PhaseFacts'
  BY DEF PhaseFacts, phase

\* What the Job's steps leave alone.
Elsewhere == UNCHANGED <<request, edits, mci, cv, asked>>

CycleStep == [Cycle!Next]_(Cycle!vars)

LEMMA StayStep ==
  ASSUME Elsewhere, UNCHANGED jobVars PROVE CycleStep
<1>1. UNCHANGED <<request, cond, last, edits, mci, cv, asked, todo>>
  BY DEF Elsewhere, jobVars
<1>2. phase' = phase /\ cv.version' = cv.version
  BY <1>1 DEF phase
<1> QED
  BY <1>1, <1>2 DEF CycleStep, Cycle!vars

LEMMA FailStep ==
  ASSUME TypesIInv, todo # <<>>, Elsewhere, Fail PROVE CycleStep
<1>1. Cycle!Fail(request)
  <2>1. phase' = "idle"
    BY Phases DEF Fail, PhaseFacts
  <2> QED
    BY <2>1 DEF Fail, Cycle!Fail
<1>2. UNCHANGED <<request, asked, mci, edits>> /\ cv.version' = cv.version
  BY DEF Elsewhere
<1>3. phase \in {"launched", "monitoring", "closing"}
  BY Phases DEF PhaseFacts
<1>4. CASE phase = "launched"
  BY <1>1, <1>2, <1>4 DEF CycleStep, Cycle!Next, Cycle!UpgradeCluster
<1>5. CASE phase = "monitoring"
  BY <1>1, <1>2, <1>5 DEF CycleStep, Cycle!Next, Cycle!MonitorUpgrade
<1>6. CASE phase = "closing"
  <2>1. Cycle!Done
    BY <1>1, <1>2, <1>6 DEF Cycle!Done, Cycle!Fail
  <2> QED
    BY <2>1 DEF CycleStep, Cycle!Next
<1> QED
  BY <1>3, <1>4, <1>5, <1>6

LEMMA SucceedStep ==
  ASSUME TypesIInv, todo # <<>>, Elsewhere, Succeed, Head(todo) # "done",
         Head(todo) = "monitor-upgrade" => request.version <= cv.version
  PROVE  CycleStep
<1>1. /\ UNCHANGED <<request, asked, mci, edits, cond, last>> /\ cv.version' = cv.version
      /\ todo' = Tail(todo)
  BY DEF Elsewhere, Succeed
<1>2. /\ todo' # <<>> /\ Head(todo') \in Followers(Head(todo))
      /\ Head(todo) \in WorkSteps \cup MonitorSteps
  BY <1>1, RestFacts DEF TypesIInv, Control
<1>3. CASE Head(todo) \in {"upgrade-cluster", "final-upgrade-cluster"}
  <2>1. phase = "launched" /\ phase' = "monitoring"
    BY <1>2, <1>3, Phases DEF PhaseFacts, Followers
  <2> QED
    BY <1>1, <2>1 DEF CycleStep, Cycle!Next, Cycle!UpgradeCluster
<1>4. CASE Head(todo) \in {"intermediate-upgrade-cluster", "intermediate-monitor-upgrade"}
  <2>1. phase = "launched" /\ phase' = "launched"
    BY <1>2, <1>4, Phases DEF PhaseFacts, Followers
  <2> QED
    BY <1>1, <2>1 DEF CycleStep, Cycle!vars
<1>5. CASE Head(todo) = "monitor-upgrade"
  <2>1. phase = "monitoring" /\ phase' = "closing"
    BY <1>2, <1>5, Phases DEF PhaseFacts, Followers
  <2> QED
    BY <1>1, <1>5, <2>1 DEF CycleStep, Cycle!Next, Cycle!MonitorUpgrade
<1> QED
  BY <1>2, <1>3, <1>4, <1>5 DEF WorkSteps, MonitorSteps

LEMMA LaunchStep ==
  ASSUME TypesIInv, Launch PROVE CycleStep
<1> DEFINE steps == Containers([desired |-> "upgrade", op |-> "nil", upgrade |-> request], {})
<1>1. /\ todo = <<>> /\ NeedToUpgrade(request, cond, mci) = "yes" /\ todo' = steps
      /\ cond' = Cycle!Running
      /\ UNCHANGED <<request, last, edits, mci, cv, asked>>
  BY DEF Launch
<1>2. steps # <<>> /\ Head(steps) \in {"upgrade-cluster", "intermediate-upgrade-cluster"}
  BY UpgradeContainers DEF TypesIInv, TypeOK
<1> HIDE DEF steps
<1>3. phase = "idle" /\ phase' = "launched"
  BY <1>1, <1>2, Phases DEF PhaseFacts
<1>4. Cycle!NeedToUpgrade(request, cond, mci) = NeedToUpgrade(request, cond, mci)
  BY DEF NeedToUpgrade, NothingRecorded, RetryAfterFailure, MoreThanDone, ContainsBasicInfo,
         ExtendedChanged, parseExtendedVersionInfo, parseVersionInfoFails, NoVersion,
         Cycle!NeedToUpgrade, Cycle!NothingRecorded, Cycle!RetryAfterFailure,
         Cycle!MoreThanDone, Cycle!ContainsBasicInfo, Cycle!ExtendedChanged,
         Cycle!parseExtendedVersionInfo, Cycle!parseVersionInfoFails, Cycle!NoVersion
<1>5. cv.version' = cv.version
  BY <1>1
<1> QED
  BY <1>1, <1>3, <1>4, <1>5 DEF CycleStep, Cycle!Next, Cycle!Launch

LEMMA MonitorOutcome ==
  ASSUME TypesIInv, MonitorUpgrade PROVE Fail \/ UNCHANGED jobVars
  BY DEF MonitorUpgrade, GoOn

LEMMA WorkStep ==
  ASSUME TypesIInv, todo # <<>>, Moves, Elsewhere, Head(todo) \in WorkSteps PROVE CycleStep
<1>1. CASE Fail
  BY <1>1, FailStep
<1>2. CASE Succeed /\ Head(todo) # "done"
  BY <1>2, SucceedStep DEF WorkSteps
<1>3. CASE UNCHANGED jobVars
  BY <1>3, StayStep
<1> QED
  BY <1>1, <1>2, <1>3 DEF Moves, GoOn

LEMMA CreateStep ==
  ASSUME TypesIInv, DesiredWasAsked, CreateAction PROVE CycleStep
<1>1. todo # <<>> /\ Head(todo) \in WorkSteps
  BY Callers DEF CreateAction, WorkCalls
<1>2. UNCHANGED <<request, edits, mci, cv>>
  BY DEF CreateAction, Remote
<1>3. CASE asked' = asked
  <2>1. Fail \/ UNCHANGED jobVars
    BY DEF CreateAction, GoOn
  <2> QED
    BY <1>1, <1>2, <1>3, <2>1, FailStep, StayStep DEF Elsewhere
<1>4. CASE asked' # asked
  <2>1. /\ asked' = asked \cup {Template.desired} /\ Template.desired # NoVersion
        /\ UNCHANGED jobVars
    BY <1>4 DEF CreateAction, GoOn
  <2>2. Template.desired \in {Target, at.seen.desired}
    <3>1. at.seen \in ClusterVersion
      BY AtFacts
    <3> QED
      BY <3>1 DEF Template, VersionTemplate, EUSTemplate, ClusterVersion
  <2>3. Template.desired \notin asked
    BY <1>4, <2>1
  <2>4. Template.desired = Target
    BY <2>1, <2>2, <2>3 DEF DesiredWasAsked, Asked
  <2>5. Template.desired \in {request.version, request.intermediate} \ {Cycle!NoVersion}
    BY <2>1, <2>4 DEF Target, NoVersion, Cycle!NoVersion
  <2>6. phase = "launched" /\ phase' = phase
    <3>1. phase = "launched"
      BY <1>1, Phases DEF PhaseFacts, WorkSteps
    <3> QED
      BY <2>1, <3>1 DEF phase, jobVars
  <2>7. Cycle!Ask
    BY <1>2, <2>1, <2>5, <2>6 DEF Cycle!Ask, jobVars
  <2> QED
    BY <2>7 DEF CycleStep, Cycle!Next
<1> QED
  BY <1>3, <1>4

LEMMA ContainerStep ==
  ASSUME CycleIInv, Container PROVE CycleStep
<1>0. TypesIInv /\ DesiredWasAsked /\ VerdictStands
  BY DEF CycleIInv
<1>1. CASE Validate \/ EnsureView \/ WaitForView \/ AwaitAction \/ DeleteAction
  <2>1. at.call \in WorkCalls
    BY <1>1 DEF Validate, EnsureView, WaitForView, AwaitAction, DeleteAction, WorkCalls
  <2>2. Elsewhere
    BY <1>1 DEF Validate, EnsureView, WaitForView, AwaitAction, DeleteAction, Remote, Elsewhere
  <2>3. todo # <<>> /\ Moves
    BY <1>0, <1>1, ValidateMoves, ViewMoves, ActionMoves
  <2> QED
    BY <1>0, <2>1, <2>2, <2>3, Callers, WorkStep
<1>2. CASE CreateAction
  BY <1>0, <1>2, CreateStep
<1>3. CASE MonitorUpgrade
  <2>1. todo # <<>>
    BY <1>0, <1>3, Callers DEF MonitorUpgrade
  <2>2. Elsewhere
    BY <1>3 DEF MonitorUpgrade, Remote, Elsewhere
  <2> QED
    BY <1>0, <1>3, <2>1, <2>2, MonitorOutcome, FailStep, StayStep
<1>4. CASE ForgetView
  <2>1. todo # <<>> /\ Head(todo) # "done"
    BY <1>0, <1>4, Callers DEF ForgetView, MonitorSteps
  <2>2. Elsewhere
    BY <1>4 DEF ForgetView, Remote, Elsewhere
  <2>3. CASE at.well
    BY <1>0, <1>4, <2>1, <2>2, <2>3, SucceedStep DEF ForgetView, VerdictStands
  <2>4. CASE ~at.well
    BY <1>0, <1>4, <2>1, <2>2, <2>4, FailStep DEF ForgetView
  <2> QED
    BY <2>3, <2>4
<1>5. CASE Close
  <2>1. todo # <<>> /\ Head(todo) = "done"
    BY <1>0, <1>5, Callers DEF Close
  <2>2. /\ todo' = <<>> /\ cond' = Cycle!Finished(FALSE, request) /\ last' = request
        /\ UNCHANGED <<request, asked, mci, edits, cv>>
    BY <1>5 DEF Close, Remote
  <2>3. phase = "closing" /\ phase' = "idle" /\ cv.version' = cv.version
    BY <2>1, <2>2, Phases DEF PhaseFacts
  <2>4. Cycle!Done
    BY <2>2, <2>3 DEF Cycle!Done
  <2> QED
    BY <2>4 DEF CycleStep, Cycle!Next
<1> QED
  BY <1>1, <1>2, <1>3, <1>4, <1>5 DEF Container

LEMMA FaultStep ==
  ASSUME CycleIInv, PollFails \/ CallFails PROVE CycleStep
<1>1. TypesIInv
  BY DEF CycleIInv
<1>2. todo # <<>>
  BY <1>1, FaultMoves
<1>3. Fail \/ UNCHANGED jobVars
  BY DEF PollFails, CallFails, GoOn
<1>4. Elsewhere
  BY DEF PollFails, CallFails, Elsewhere
<1> QED
  BY <1>1, <1>2, <1>3, <1>4, FailStep, StayStep

LEMMA ManagedClusterStep ==
  ASSUME CycleIInv, ManagedCluster PROVE CycleStep
<1>1. /\ UNCHANGED <<request, cond, last, edits, asked, todo>>
      /\ phase' = phase
  <2>1. JobUntouched
    BY ClusterHub DEF CycleIInv
  <2> QED
    BY <2>1 DEF JobUntouched, phase
<1>2. cv \in ClusterVersion /\ cv.version \in Nat
  BY DEF CycleIInv, TypesIInv, TypeOK, ClusterVersion
<1>3. CASE \E n \in Objects : RefreshView(n) \/ RunAction(n) \/ ExpireAction(n)
  <2>1. mci' = mci
    BY <1>3 DEF RefreshView, RunAction, ExpireAction
  <2>2. cv.version' = cv.version
    BY <1>2, <1>3 DEF RefreshView, RunAction, ExpireAction, ClusterVersion
  <2> QED
    BY <1>1, <2>1, <2>2 DEF CycleStep, Cycle!vars
<1>4. CASE ReachVersion
  <2>1. cv.version' = cv.desired /\ mci' = mci
    BY <1>2, <1>4 DEF ReachVersion, ClusterVersion
  <2>2. cv.desired \in asked \ Malformed /\ cv.desired > cv.version
    BY <1>2, <1>4 DEF ReachVersion, CycleIInv, DesiredWasAsked, Asked, NoVersion
  <2>3. Cycle!ReachVersion
    BY <1>1, <2>1, <2>2 DEF Cycle!ReachVersion
  <2> QED
    BY <2>3 DEF CycleStep, Cycle!Next
<1>5. CASE RefreshMCI
  <2>1. Cycle!RefreshMCI
    BY <1>1, <1>5 DEF RefreshMCI, Cycle!RefreshMCI
  <2> QED
    BY <2>1 DEF CycleStep, Cycle!Next
<1> QED
  BY <1>3, <1>4, <1>5 DEF ManagedCluster

LEMMA CycleNext ==
  ASSUME CycleIInv, [Next]_vars PROVE CycleStep
<1>1. ASSUME NEW r \in Requests, Edit(r) PROVE CycleStep
  <2>1. phase = "idle" /\ phase' = phase /\ cv.version' = cv.version
    BY <1>1, Phases DEF Edit, PhaseFacts
  <2>2. Cycle!Edit(r)
    BY <1>1, <2>1 DEF Edit, Cycle!Edit
  <2> QED
    BY <2>2 DEF CycleStep, Cycle!Next
<1>2. CASE UNCHANGED vars
  BY <1>2, StayStep DEF vars, Elsewhere, jobVars
<1> QED
  BY <1>1, <1>2, LaunchStep, ContainerStep, FaultStep, ManagedClusterStep DEF Next, CycleIInv

LEMMA CycleInit ==
  ASSUME Init PROVE Cycle!Init
<1>1. phase = "idle"
  BY Phases DEF Init, PhaseFacts
<1>2. cv.version \in StartVersions
  <2>1. PICK v \in StartVersions : cv = [NotRead EXCEPT !.rv = 1, !.version = v]
    BY DEF Init
  <2> QED
    BY <2>1 DEF NotRead
<1>3. last = Cycle!NoRequest
  BY DEF Init, NoRequest, Cycle!NoRequest, NoVersion, Cycle!NoVersion
<1> QED
  BY <1>1, <1>2, <1>3 DEF Init, Cycle!Init

-----------------------------------------------------------------------------
(* What was asked for, and what the views show.                             *)

LEMMA AskedGrows ==
  ASSUME TypesIInv, [Next]_vars PROVE asked \subseteq asked'
<1>1. CASE Container
  BY <1>1 DEF Container, Validate, EnsureView, WaitForView, CreateAction, AwaitAction,
              DeleteAction, MonitorUpgrade, ForgetView, Close
<1>2. CASE ~Container
  BY <1>2, ClusterHub DEF Next, Edit, Launch, PollFails, CallFails, JobUntouched, vars
<1> QED
  BY <1>1, <1>2

\* A container's place keeps the ClusterVersion it has seen until it reads another.
LEMMA SeenMoves ==
  ASSUME TypesIInv, Container \/ PollFails \/ CallFails
  PROVE  at'.seen \in {at.seen, NotRead, view[at.of].result}
<1>1. at \in Place
  BY AtFacts
<1>2. \A call : Begin(call).seen = NotRead /\ [Begin(call) EXCEPT !.attempt = at.attempt + 1].seen = NotRead
  BY DEF Begin
<1>3. Succeed \/ Fail => at'.seen = NotRead
  BY <1>2 DEF Succeed, Fail
<1>4. CASE Validate \/ EnsureView \/ CreateAction \/ MonitorUpgrade \/ ForgetView
  BY <1>1, <1>3, <1>4
     DEF Validate, EnsureView, CreateAction, MonitorUpgrade, ForgetView, GoOn, Place
<1>5. CASE WaitForView
  <2>1. AfterView => at'.seen \in {at.seen, NotRead, view[at.of].result}
    <3>1. /\ at.attempt = 0 \/ at.attempt > 0
          /\ at.of = "cluster" \/ at.of = "admack"
      BY AtFacts DEF Objects
    <3> QED
      BY <1>1, <1>3, <3>1 DEF AfterView, GoOn, Place
  <2>2. \/ Fail \/ AfterView \/ GoOn([at EXCEPT !.polls = at.polls + 1])
    BY <1>5 DEF WaitForView
  <2> QED
    BY <1>1, <1>3, <2>1, <2>2 DEF GoOn, Place
<1>6. CASE AwaitAction
  <2>1. ASSUME NEW outcome, Judge(outcome)
        PROVE  \/ Succeed \/ Fail \/ GoOn([at EXCEPT !.call = "delete", !.well = TRUE])
               \/ GoOn([at EXCEPT !.call = "delete"])
    BY <2>1 DEF Judge
  <2>2. at.polls + 1 < WaitPolls \/ at.polls + 1 = WaitPolls
    <3>1. at.call = "await" /\ at.polls < WaitPolls
      BY <1>6, AtFacts DEF AwaitAction, Bounded
    <3> QED
      BY <3>1, AtFacts
  <2>3. \/ Judge(action[at.of].outcome) \/ Judge("none") \/ Fail
        \/ GoOn([at EXCEPT !.polls = at.polls + 1])
    BY <1>6, <2>2 DEF AwaitAction
  <2>4. \/ Succeed \/ Fail \/ GoOn([at EXCEPT !.call = "delete", !.well = TRUE])
        \/ GoOn([at EXCEPT !.call = "delete"]) \/ GoOn([at EXCEPT !.polls = at.polls + 1])
    BY <2>1, <2>3
  <2> QED
    BY <1>1, <1>3, <2>4 DEF GoOn, Place
<1>7. CASE DeleteAction
  BY <1>2, <1>3, <1>7 DEF DeleteAction, GoOn
<1>8. CASE Close
  BY <1>2, <1>8 DEF Close
<1>9. CASE PollFails \/ CallFails
  BY <1>1, <1>3, <1>9 DEF PollFails, CallFails, GoOn, Place
<1> QED
  BY <1>4, <1>5, <1>6, <1>7, <1>8, <1>9 DEF Container

LEMMA ViewChanges ==
  ASSUME TypesIInv, [Next]_vars, NEW n \in Objects
  PROVE  view'[n].result \in {view[n].result, NotRead, Snapshot(n)}
<1>1. view \in [Objects -> View] /\ at.of \in Objects
  BY AtFacts DEF TypesIInv, TypeOK
<1>2. NoView.result = NotRead /\ [NoView EXCEPT !.there = TRUE, !.ours = TRUE].result = NotRead
  BY DEF NoView
<1>3. CASE EnsureView \/ ForgetView
  BY <1>1, <1>2, <1>3 DEF EnsureView, ForgetView
<1>4. ASSUME NEW m \in Objects, RefreshView(m) PROVE view'[n].result \in {view[n].result, Snapshot(n)}
  BY <1>1, <1>4 DEF RefreshView, View
<1>5. CASE view' = view
  BY <1>5
<1>6. \/ EnsureView \/ ForgetView \/ view' = view
      \/ \E m \in Objects : RefreshView(m)
  BY DEF Next, Edit, Launch, Container, Validate, WaitForView, CreateAction, AwaitAction,
         DeleteAction, MonitorUpgrade, Close, PollFails, CallFails, ManagedCluster, RunAction,
         ExpireAction, ReachVersion, RefreshMCI, vars
<1> QED
  BY <1>3, <1>4, <1>5, <1>6

LEMMA ActionChanges ==
  ASSUME TypesIInv, [Next]_vars, NEW n \in Objects
  PROVE  \/ action'[n].template \in {action[n].template, NotRead}
         \/ action'[n].template = Template /\ CreateAction /\ n = at.of /\ n = "cluster"
            /\ asked' = (IF Template.desired # NoVersion THEN asked \cup {Template.desired}
                                                         ELSE asked)
<1>1. action \in [Objects -> Action] /\ at.of \in Objects
  BY AtFacts DEF TypesIInv, TypeOK
<1>2. /\ NoAction.template = NotRead
      /\ \A t : [NoAction EXCEPT !.there = TRUE, !.template = t].template = t
  BY DEF NoAction
<1>3. CASE CreateAction
  <2>1. CASE action[at.of].there
    BY <1>3, <2>1 DEF CreateAction
  <2>2. CASE ~action[at.of].there /\ n # at.of
    BY <1>1, <1>3, <2>2 DEF CreateAction
  <2>3. CASE ~action[at.of].there /\ n = at.of
    <3>1. action'[n] = [NoAction EXCEPT !.there = TRUE,
                          !.template = IF at.of = "cluster" THEN Template ELSE NotRead]
      BY <1>1, <1>3, <2>3 DEF CreateAction
    <3>2. action'[n].template = IF at.of = "cluster" THEN Template ELSE NotRead
      BY <1>2, <3>1
    <3> QED
      BY <1>3, <2>3, <3>2 DEF CreateAction
  <2> QED
    BY <2>1, <2>2, <2>3
<1>4. CASE DeleteAction
  BY <1>1, <1>2, <1>4 DEF DeleteAction
<1>5. ASSUME NEW m \in Objects, RunAction(m) PROVE action'[n].template = action[n].template
  BY <1>1, <1>5 DEF RunAction, Action
<1>6. ASSUME NEW m \in Objects, ExpireAction(m)
      PROVE  action'[n].template \in {action[n].template, NotRead}
  BY <1>1, <1>2, <1>6 DEF ExpireAction
<1>7. \/ CreateAction \/ DeleteAction \/ action' = action
      \/ \E m \in Objects : RunAction(m) \/ ExpireAction(m)
  BY DEF Next, Edit, Launch, Container, Validate, EnsureView, WaitForView, AwaitAction,
         MonitorUpgrade, ForgetView, Close, PollFails, CallFails, ManagedCluster, RefreshView,
         ReachVersion, RefreshMCI, vars
<1> QED
  BY <1>3, <1>4, <1>5, <1>6, <1>7

\* The cluster's version only grows, and its desire is an action's.
LEMMA ClusterChanges ==
  ASSUME TypesIInv, [Next]_vars
  PROVE  /\ cv.version <= cv'.version
         /\ cv'.desired = cv.desired \/ \E n \in Objects : cv'.desired = action[n].template.desired
<1>1. /\ cv \in ClusterVersion /\ cv.version \in Nat /\ cv.desired \in Nat
  BY DEF TypesIInv, TypeOK, ClusterVersion
<1>2. ASSUME NEW n \in Objects, RunAction(n)
      PROVE  /\ cv'.version = cv.version
             /\ cv'.desired \in {cv.desired, action[n].template.desired}
  BY <1>1, <1>2 DEF RunAction, ClusterVersion
<1>3. CASE ReachVersion
  BY <1>1, <1>3 DEF ReachVersion, ClusterVersion
<1>4. CASE cv' = cv
  BY <1>1, <1>4
<1>5. cv' = cv \/ ReachVersion \/ \E n \in Objects : RunAction(n)
  BY DEF Next, Edit, Launch, Container, Validate, EnsureView, WaitForView, CreateAction,
         AwaitAction, DeleteAction, MonitorUpgrade, ForgetView, Close, Remote, PollFails,
         CallFails, ManagedCluster, RefreshView, ExpireAction, RefreshMCI, vars
<1> QED
  BY <1>1, <1>2, <1>3, <1>4, <1>5

LEMMA DesiredNext ==
  ASSUME TypesIInv, DesiredWasAsked, [Next]_vars PROVE DesiredWasAsked'
<1>1. asked \subseteq asked'
  BY AskedGrows
<1>2. \A v : Asked(v) => v \in asked' \cup {NoVersion}
  BY <1>1 DEF Asked
<1>3. Asked(NotRead.desired) /\ [NotRead EXCEPT !.rv = 1].desired = NoVersion
  BY DEF Asked, NotRead
<1>4. Asked(cv.desired) /\ Asked(at.seen.desired) /\ at.of \in Objects
  BY AtFacts DEF DesiredWasAsked
<1>5. \A n \in Objects : Asked(view[n].result.desired) /\ Asked(action[n].template.desired)
  BY DEF DesiredWasAsked
<1>6. cv'.desired \in asked' \cup {NoVersion}
  BY <1>2, <1>4, <1>5, ClusterChanges
<1>7. at'.seen.desired \in asked' \cup {NoVersion}
  <2>1. CASE Container \/ PollFails \/ CallFails
    BY <1>2, <1>3, <1>4, <1>5, <2>1, SeenMoves
  <2>2. CASE Launch
    <3>1. at'.seen = NotRead
      BY <2>2 DEF Launch, Begin
    <3> QED
      BY <1>2, <1>3, <3>1
  <2>3. CASE ~(Container \/ PollFails \/ CallFails \/ Launch)
    <3>1. at' = at
      BY <2>3, ClusterHub DEF Next, Edit, JobUntouched, vars
    <3> QED
      BY <1>2, <1>4, <3>1
  <2> QED
    BY <2>1, <2>2, <2>3
<1>8. ASSUME NEW n \in Objects
      PROVE  /\ view'[n].result.desired \in asked' \cup {NoVersion}
             /\ action'[n].template.desired \in asked' \cup {NoVersion}
  <2>1. Snapshot(n).desired \in asked' \cup {NoVersion}
    BY <1>2, <1>3, <1>4 DEF Snapshot
  <2>2. view'[n].result.desired \in asked' \cup {NoVersion}
    BY <1>2, <1>3, <1>5, <2>1, ViewChanges
  <2>3. action'[n].template.desired \in asked' \cup {NoVersion}
    BY <1>2, <1>3, <1>5, ActionChanges
  <2> QED
    BY <2>2, <2>3
<1> QED
  BY <1>6, <1>7, <1>8 DEF DesiredWasAsked, Asked

LEMMA ViewsNext ==
  ASSUME TypesIInv, ViewsBehind, [Next]_vars PROVE ViewsBehind'
<1> SUFFICES ASSUME NEW n \in Objects PROVE view'[n].result.version <= cv'.version
  BY DEF ViewsBehind
<1>1. cv.version \in Nat /\ cv'.version \in Nat /\ cv.version <= cv'.version
  <2>1. TypesIInv'
    BY TypesNext
  <2> QED
    BY <2>1, ClusterChanges DEF TypesIInv, TypeOK, ClusterVersion
<1>2. view[n].result.version \in Nat /\ view[n].result.version <= cv.version
  BY DEF ViewsBehind, TypesIInv, TypeOK, View, ClusterVersion
<1>3. NotRead.version = 0 /\ Snapshot(n).version <= cv.version /\ Snapshot(n).version \in Nat
  BY <1>1 DEF NotRead, NoVersion, Snapshot
<1> QED
  BY <1>1, <1>2, <1>3, ViewChanges

\* A fulfilled request's version is at most the one shown.
LEMMA FulfilledReached ==
  ASSUME NoEarlyPrint, TypesIInv, Head(todo) = "monitor-upgrade",
         NEW shown \in ClusterVersion, Fulfilled(shown) \/ Target = NoVersion
  PROVE  request.version = NoVersion \/ request.version <= shown.version
<1>1. Target = request.version /\ request.version \in Nat /\ shown.version \in Nat
  BY DEF Target, Intermediate, TypesIInv, TypeOK, Request, ClusterVersion
<1>2. CASE Target # NoVersion
  BY <1>1, <1>2 DEF Fulfilled, Prints, NoEarlyPrint
<1> QED
  BY <1>1, <1>2

LEMMA VerdictNext ==
  ASSUME NoEarlyPrint, CycleIInv, [Next]_vars PROVE VerdictStands'
<1>0. TypesIInv /\ ViewsBehind /\ VerdictStands
  BY DEF CycleIInv
<1>1. /\ cv.version \in Nat /\ cv'.version \in Nat /\ cv.version <= cv'.version
      /\ request.version \in Nat
  <2>1. TypesIInv'
    BY <1>0, TypesNext
  <2> QED
    BY <1>0, <2>1, ClusterChanges DEF TypesIInv, TypeOK, ClusterVersion, Request
<1>2. CASE MonitorUpgrade
  <2>1. SUFFICES ASSUME at'.call = "forget", at'.well, Head(todo') = "monitor-upgrade"
                 PROVE  request'.version <= cv'.version
    BY DEF VerdictStands
  <2>2. at.call = "monitor" /\ request' = request
    BY <1>2 DEF MonitorUpgrade, Remote
  <2>3. /\ ~Fail
        /\ ~GoOn([at EXCEPT !.polls = at.polls + 1])
        /\ ~GoOn([at EXCEPT !.call = "forget", !.well = FALSE])
    <3>1. Begin("rest").call = "rest"
      BY DEF Begin
    <3>2. ~Fail
      BY <2>1, <3>1 DEF Fail
    <3>3. ~GoOn([at EXCEPT !.polls = at.polls + 1])
      BY <1>0, <2>1, <2>2, AtFacts DEF GoOn, Place
    <3>4. ~GoOn([at EXCEPT !.call = "forget", !.well = FALSE])
      BY <1>0, <2>1, AtFacts DEF GoOn, Place
    <3> QED
      BY <3>2, <3>3, <3>4
  <2>4. todo' = todo
    BY <1>2, <2>3 DEF MonitorUpgrade, GoOn, jobVars
  <2>5. /\ view["cluster"].result \in ClusterVersion
        /\ view["cluster"].result.version <= cv.version
        /\ view["cluster"].result.version \in Nat
    BY <1>0 DEF ViewsBehind, TypesIInv, TypeOK, View, Objects, ClusterVersion
  <2>6. Fulfilled(view["cluster"].result) \/ Target = NoVersion
    BY <1>2, <2>3 DEF MonitorUpgrade
  <2>7. request.version = NoVersion \/ request.version <= view["cluster"].result.version
    BY <1>0, <2>1, <2>4, <2>5, <2>6, FulfilledReached
  <2> QED
    BY <1>1, <2>2, <2>5, <2>7 DEF NoVersion
<1>3. CASE at' = at /\ todo' = todo /\ request' = request
  BY <1>0, <1>1, <1>3 DEF VerdictStands
<1>4. CASE at'.call # "forget" \/ ~at'.well
  BY <1>4 DEF VerdictStands
<1>5. \A call : Begin(call).well = FALSE
  BY DEF Begin
<1>6. CASE Container /\ ~MonitorUpgrade
  <2>1. at.call \in WorkCalls \cup {"forget", "close"}
    BY <1>6 DEF Container, Validate, EnsureView, WaitForView, CreateAction, AwaitAction,
                DeleteAction, ForgetView, Close, WorkCalls
  <2>2. CASE at.call \in WorkCalls
    <3>1. todo # <<>> /\ Head(todo) \in WorkSteps /\ Moves
      BY <1>0, <1>6, <2>2, Callers, ValidateMoves, ViewMoves, ActionMoves
         DEF Container, ForgetView, Close, WorkCalls
    <3>2. Succeed \/ Fail => ~at'.well
      BY <1>5 DEF Succeed, Fail
    <3>3. ASSUME NEW p \in Place, Fits(p.call, Head(todo)), GoOn(p) PROVE at'.call # "forget"
      BY <3>1, <3>3 DEF GoOn, Fits, WorkSteps, WorkCalls, MonitorSteps
    <3> QED
      BY <1>4, <3>1, <3>2, <3>3 DEF Moves
  <2>3. CASE at.call \in {"forget", "close"}
    <3>1. ForgetView \/ Close
      BY <1>6, <2>3 DEF Container, Validate, EnsureView, WaitForView, CreateAction,
                        AwaitAction, DeleteAction
    <3>2. ~at'.well
      BY <1>5, <3>1 DEF ForgetView, Close, Succeed, Fail
    <3> QED
      BY <1>4, <3>2
  <2> QED
    BY <2>1, <2>2, <2>3
<1>7. CASE PollFails \/ CallFails
  <2>1. Fail => ~at'.well
    BY <1>5 DEF Fail
  <2>2. CASE CallFails
    BY <1>4, <2>1, <2>2 DEF CallFails
  <2>3. CASE PollFails
    <3>1. at'.call = at.call \/ ~at'.well
      BY <1>0, <2>3, AtFacts DEF PollFails, GoOn, Place
    <3> QED
      BY <1>4, <2>3, <3>1 DEF PollFails
  <2> QED
    BY <1>7, <2>2, <2>3
<1>8. CASE Launch
  <2>1. ~at'.well
    BY <1>5, <1>8 DEF Launch
  <2> QED
    BY <1>4, <2>1
<1>9. CASE \E r \in Requests : Edit(r)
  <2>1. at' = at /\ at.call = "rest"
    BY <1>0, <1>9 DEF Edit, TypesIInv, Control
  <2> QED
    BY <1>4, <2>1
<1>10. CASE ManagedCluster
  BY <1>0, <1>3, <1>10, ClusterHub DEF JobUntouched
<1>11. CASE UNCHANGED vars
  BY <1>3, <1>11 DEF vars
<1> QED
  BY <1>2, <1>6, <1>7, <1>8, <1>9, <1>10, <1>11 DEF Next

\* The attempts, polls and late answers of hive.go carry out the upgrade cycle, in
\* particular: monitor-upgrade ends well only for a version the cluster has reached
\* (hive.go:274-344), and the cluster only moves to versions that were asked for
\* (hive.go:605-700); if the texts of versions do not mislead.
THEOREM UpgradesImplementCycle ==
  ASSUME NoEarlyPrint PROVE Spec => ImplementsCycle
<1>1. Init => CycleIInv
  <2> SUFFICES ASSUME Init PROVE CycleIInv
    OBVIOUS
  <2>1. TypesIInv
    BY TypesInit
  <2>2. cv.desired = NoVersion /\ at.seen = NotRead /\ NotRead.desired = NoVersion
        /\ NotRead.version = 0 /\ at.call = "rest"
    BY DEF Init, NotRead, Begin, NoVersion
  <2>3. \A n \in Objects : view[n].result = NotRead /\ action[n].template = NotRead
    BY DEF Init, NoView, NoAction
  <2>4. cv.version \in Nat
    BY <2>1 DEF TypesIInv, TypeOK, ClusterVersion
  <2> QED
    BY <2>1, <2>2, <2>3, <2>4 DEF CycleIInv, DesiredWasAsked, Asked, ViewsBehind, VerdictStands
<1>2. CycleIInv /\ [Next]_vars => CycleIInv'
  BY TypesNext, DesiredNext, ViewsNext, VerdictNext DEF CycleIInv
<1>3. Init => Cycle!Init
  BY CycleInit
<1>4. CycleIInv /\ [Next]_vars => [Cycle!Next]_(Cycle!vars)
  BY CycleNext DEF CycleStep
<1> QED
  BY <1>1, <1>2, <1>3, <1>4, PTL DEF Spec, ImplementsCycle, Cycle!Spec

=============================================================================
