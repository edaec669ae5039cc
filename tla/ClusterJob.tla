----------------------------- MODULE ClusterJob -----------------------------
(***************************************************************************)
(* Curation Jobs with everything their containers do to the cluster: hooks, *)
(* install, import, destroy, and the upgrade of a hosted cluster.  The      *)
(* containers run one after the other; Ansible, Hive, Hypershift and the    *)
(* managed cluster go on beside them, and do not stop when a Job fails.     *)
(* (The upgrade of a standalone cluster is HiveUpgrade's.)                  *)
(***************************************************************************)
EXTENDS AnsibleHooks, HostedUpgrade

CONSTANT InstalledVersions  \* the versions of hosted clusters that exist at the start

ASSUME InstalledAssumption == InstalledVersions \subseteq Nat \ {NoVersion}

vars == <<podVars, ansible, shared, clusterVars>>

TypeOK == PodTypeOK /\ AnsibleTypeOK /\ ProvisionTypeOK

\* A new standalone cluster, a new hosted cluster, or one that is installed.
NewStandalone ==
    /\ cd \in {[NoCD EXCEPT !.there = TRUE, !.paused = p] : p \in Pauses}
    /\ hc = NoHC
    /\ shared = FALSE
    /\ pool = [p \in Pools |-> [paused |-> "no", ready |-> FALSE,
                                image |-> NoVersion, version |-> NoVersion]]
    /\ managed \in {"none", "pending"}
    /\ mci = {}

\* Of a new one users may have paused only some NodePools.
Hosted(v, platform, image, p) ==
    /\ cd = NoCD
    /\ shared \in BOOLEAN
    /\ hc = [NoHC EXCEPT !.there = TRUE, !.paused = p, !.ready = v # NoVersion,
                         !.image = image, !.version = v, !.platform = platform]
    /\ \E paused \in (IF p = "no" THEN {{}} ELSE SUBSET Pools) :
          pool = [q \in Pools |-> [paused |-> IF q \in paused THEN p ELSE "no",
                                   ready |-> v # NoVersion, image |-> image, version |-> v]]

Init ==
    /\ PodInit
    /\ AnsibleInit
    /\ \/ NewStandalone
       \/ \E v \in InstalledVersions, platform \in Platforms :
             \/ /\ Hosted(NoVersion, platform, v, "true")
                /\ managed = "pending" /\ mci = {}
             \/ /\ Hosted(v, platform, v, "no")
                /\ managed = "available" /\ mci \in {{}, {v}}
    /\ provision = [r \in 1 .. Provisions |-> "absent"]
    /\ uninstall = "absent"
    /\ asked = {hc.image}

-----------------------------------------------------------------------------
\* Users upgrade what is installed and not being deleted; a standalone cluster's upgrade
\* is not this module's.
Launch(c) ==
    /\ JobKind(c) = "upgrade" => hc.there /\ hc.version # NoVersion /\ ~hc.deleting
    /\ LaunchJob(c, mci)
    /\ UNCHANGED <<ansible, shared, clusterVars>>

Container ==
    \/ Hooks /\ UNCHANGED <<shared, clusterVars>>
    \/ (Provisioning \/ HostedUpgrading) /\ UNCHANGED <<ansible, shared>>
    \/ Done /\ UNCHANGED <<ansible, shared, clusterVars>>

Outside ==
    \/ AnsibleOperator /\ UNCHANGED <<shared, clusterVars>>
    \/ (Hive \/ Hypershift \/ Join \/ ReportVersion) /\ UNCHANGED <<ansible, shared>>

Next ==
    \/ \E c \in Curators : Launch(c)
    \/ Container
    \/ CallFails /\ UNCHANGED <<ansible, shared, clusterVars>>
    \/ Outside

\* Containers keep going; nothing outside need ever answer.
Spec == Init /\ [][Next]_vars /\ WF_vars(Container)

-----------------------------------------------------------------------------
\* Of the AnsibleJobs a Job creates, over both of its hooks, each is created when the one
\* before it was successful: playbooks of one curation never run at the same time, or
\* after one that failed (ansible job.go:91-109 and 407-503).
OneHookAtATime ==
    \A i, j \in DOMAIN ansible :
       i < j /\ ansible[i].job = ansible[j].job => ansible[i].status = "successful"

Succeeded(hook) ==
    {i \in DOMAIN ansible : /\ ansible[i].job = jobs
                            /\ ansible[i].hook = hook
                            /\ ansible[i].status = "successful"}

\* A Job leaves the cluster's resources alone until every one of its prehooks was
\* successful (ansible job.go:91-109, launcher job.go:142-258).
PrehooksFirst ==
    [][/\ podVars' # podVars
       /\ clusterVars' # clusterVars
       /\ RunsHook(curator, DOMAIN Templates, "prehook")
       => Cardinality(Succeeded("prehook-ansiblejob"))
            = TemplatesOf("prehook-ansiblejob")]_vars

\* What the Job was for, as far as the code looks.
Achieved ==
    CASE JobKind(curator) = "install" ->
            /\ cd.there => cd.console
            /\ hc.there => hc.version # NoVersion
            /\ managed \notin {"pending", "denied"}
      [] JobKind(curator) = "upgrade" ->
            /\ OnlyChannel => hc.channel = request.channel
            /\ request.version # NoVersion /\ WithPools =>
                  \A p \in MatchingPools : pool[p].version = request.version
      [] OTHER -> TRUE

\* Posthooks run, and a Job ends well, only when the cluster is installed and imported
\* (or gone by now, where an earlier Job deleted it), or the NodePools of the upgrade are
\* at its version (hive.go:113-272, hypershift.go:115-241 and 443-688).
AchievedFirst ==
    [][/\ todo # <<>>
       /\ \/ Head(todo) = "done" /\ todo' = <<>> /\ ~cond'.failed
          \/ Len(ansible') > Len(ansible) /\ Head(todo) = "posthook-ansiblejob"
       => Achieved]_vars

\* A NodePool is only ever asked for a version that is not higher than one its
\* HostedCluster was asked for (hypershift.go:780-799).
PoolsBehind ==
    [][\A p \in Pools :
         pool'[p].image # pool[p].image => \E v \in asked : pool'[p].image <= v]_vars

\* What a Job awaits in a loop without a last turn is settled: AnsibleJobs, the Jobs of
\* Hive, the conditions of the HostedCluster.
Settled ==
    /\ \A i \in DOMAIN ansible : ansible[i].status \in {"successful", "error", "reasonFailed"}
    /\ \A r \in 1 .. Provisions : provision[r] # "active"
    /\ uninstall # "active"
    /\ hc.there => hc.ready

\* If all of that settles every Job ends, however the rest of the world fails to answer
\* (ansible job.go:407-503, hive.go:113-272, hypershift.go:115-241 and 443-602).
JobsEnd == <>[]Settled => (todo # <<>> ~> todo = <<>>)

-----------------------------------------------------------------------------
\* hypershift.go:212 (and hive.go:215) say of monitor-destroy that "by this point the job
\* finished", and log "Uninstall job complete".
UninstallComplete ==
    [][/\ todo # <<>>
       /\ Head(todo) = "monitor-destroy"
       /\ todo' = Tail(todo) /\ todo' # <<>>
       => ~hc.there]_vars

\* hosted-cluster-upgrade.md:313-321: a Job launched because nodePoolNames changed
\* upgrades the NodePools named.
NamedPoolsAsked ==
    /\ todo # <<>>
    /\ Head(todo) = "monitor-upgrade"
    /\ request.version # NoVersion
    /\ WithPools
    => \A p \in MatchingPools : pool[p].image = request.version
=============================================================================
