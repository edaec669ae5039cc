---------------------------- MODULE AnsibleHooks ----------------------------
(***************************************************************************)
(* prehook-ansiblejob and posthook-ansiblejob: for each template of the     *)
(* hook in turn an AnsibleJob is created, under a generated name, and       *)
(* polled until it has a result the container understands.  The AnsibleJob  *)
(* itself is run by the Ansible operator and outlives the container.        *)
(***************************************************************************)
EXTENDS JobPod

VARIABLE ansible    \* the AnsibleJobs, in the order of their creation

\* none: no conditions yet.  stuck: a result other than successful and error ("failed",
\* "canceled") and no condition with reason Failed.
Statuses == {"none", "running", "successful", "error", "reasonFailed", "stuck"}

AnsibleJob == [job : Nat, hook : HookSteps, status : Statuses]

AnsibleTypeOK == ansible \in Seq(AnsibleJob)

AnsibleInit == ansible = <<>>

\* The templates of the hook that step runs; a retried posthook is that of the
\* curation it retries.
TemplatesOf(step) ==
    Templates[<<LocalCuration(curator),
                IF step = "prehook-ansiblejob" THEN "prehook" ELSE "posthook">>]

-----------------------------------------------------------------------------
\* MUTANT: the first template is taken for done already.
SkipsFirst(step) ==
    /\ In(step, "start")
    /\ IF at.item + 1 >= TemplatesOf(step)
       THEN Succeed /\ UNCHANGED ansible
       ELSE /\ ansible' = Append(ansible, [job |-> jobs, hook |-> step, status |-> "none"])
            /\ GoOn([at EXCEPT !.call = "await", !.item = @ + 1])

\* RunAnsibleJob: the next template's AnsibleJob is created, or there is none left.  That
\* a ClusterDeployment, install-config or ManagedClusterInfo is missing is no error.
RunAnsibleJob(step) ==
    /\ In(step, "start")
    /\ IF at.item = TemplatesOf(step)
       THEN Succeed /\ UNCHANGED ansible
       ELSE /\ ansible' = Append(ansible, [job |-> jobs, hook |-> step, status |-> "none"])
            /\ GoOn([at EXCEPT !.call = "await", !.item = @ + 1])

\* MUTANT: any result ends the wait as a success does.
AnyResult(step) ==
    LET status == ansible[Len(ansible)].status
    IN  /\ In(step, "await")
        /\ status \notin {"none", "running"}
        /\ IF status \in {"successful", "stuck"} THEN GoOn([at EXCEPT !.call = "start"]) ELSE Fail
        /\ UNCHANGED ansible

\* MonitorAnsibleJob: the poll that ends the wait.  There is no last poll.
MonitorAnsibleJob(step) ==
    LET status == ansible[Len(ansible)].status
    IN  /\ In(step, "await")
        /\ \/ status = "successful" /\ GoOn([at EXCEPT !.call = "start"])
           \/ status \in {"error", "reasonFailed"} /\ Fail
        /\ UNCHANGED ansible

Hooks == \E step \in HookSteps : RunAnsibleJob(step) \/ MonitorAnsibleJob(step)

\* The Ansible operator works on an AnsibleJob, whoever waits for it.
RunTemplate(i) ==
    /\ \/ /\ ansible[i].status \in {"none", "running"}
          /\ \E s \in Statuses \ {"none", ansible[i].status} :
                ansible' = [ansible EXCEPT ![i].status = s]
       \/ /\ ansible[i].status = "stuck"
          /\ ansible' = [ansible EXCEPT ![i].status = "reasonFailed"]
    /\ UNCHANGED podVars

AnsibleOperator == \E i \in DOMAIN ansible : RunTemplate(i)
=============================================================================
