------------------------------ MODULE Launcher ------------------------------
(***************************************************************************)
(* The batch Job the launcher builds for a ClusterCurator: the commands its *)
(* containers run, in order.  Kubernetes runs the init containers one after *)
(* the other and the main container ("done") last; a failed container fails *)
(* the Job (restartPolicy Never, backoffLimit 0).                           *)
(*                                                                          *)
(* A curator is a record with at least the fields                           *)
(*   desired   spec.desiredCuration, "" when unset                          *)
(*   op        operation.retryPosthook; "nil" when there is no operation    *)
(*   upgrade   spec.upgrade                                                 *)
(* A hook is a pair <<curation, "prehook" or "posthook">>.                  *)
(***************************************************************************)
EXTENDS Sequences, UpgradeDecision

Retries == {"installPosthook", "upgradePosthook"}

HookSteps == {"prehook-ansiblejob", "posthook-ansiblejob"}

EUSSteps == {"intermediate-upgrade-cluster", "intermediate-monitor-upgrade",
             "final-upgrade-cluster"}

ProvisionSteps == {"activate-and-monitor", "destroy-cluster"}

Steps == HookSteps \cup EUSSteps \cup ProvisionSteps
           \cup {"monitor-import", "upgrade-cluster", "monitor-upgrade",
                 "monitor-destroy", "done"}

PosthookOnly(cur) == cur.op \in Retries

\* What getBatchJob switches on.
JobKind(cur) == IF PosthookOnly(cur) THEN cur.op ELSE cur.desired

IsEUS(cur) == /\ cur.upgrade.intermediate # NoVersion
              /\ cur.upgrade.version # NoVersion

MainSteps(cur) ==
    CASE JobKind(cur) = "install" -> <<"activate-and-monitor", "monitor-import">>
      [] JobKind(cur) = "destroy" -> <<"destroy-cluster", "monitor-destroy">>
      [] JobKind(cur) = "upgrade" /\ ~IsEUS(cur) ->
            <<"upgrade-cluster", "monitor-upgrade">>
      [] JobKind(cur) = "upgrade" /\ IsEUS(cur) ->
            <<"intermediate-upgrade-cluster", "intermediate-monitor-upgrade",
              "final-upgrade-cluster", "monitor-upgrade">>
      [] OTHER -> <<>>

\* Is this hook of the curator part of the Job?
RunsHook(cur, hooks, hook) ==
    CASE JobKind(cur) \in {"install", "destroy"} -> <<JobKind(cur), hook>> \in hooks
      [] JobKind(cur) = "upgrade" ->
            <<"upgrade", hook>> \in hooks /\ cur.upgrade.version # NoVersion
      [] JobKind(cur) = "installPosthook" ->
            hook = "posthook" /\ <<"install", hook>> \in hooks
      [] JobKind(cur) = "upgradePosthook" ->
            hook = "posthook" /\ <<"upgrade", hook>> \in hooks
      [] OTHER -> FALSE

\* getBatchJob: the commands of the Job's containers.  A desiredCuration the
\* switch does not know ("scale") leaves the empty Job, which has none.
Containers(cur, hooks) ==
    LET Hook(hook, step) == IF RunsHook(cur, hooks, hook) THEN <<step>> ELSE <<>>
    IN  IF JobKind(cur) \in {"install", "destroy", "upgrade"} \cup Retries
        THEN Hook("prehook", "prehook-ansiblejob") \o MainSteps(cur)
               \o Hook("posthook", "posthook-ansiblejob") \o <<"done">>
        ELSE <<>>
=============================================================================
