--------------------------- MODULE IncidentWorkflow --------------------------
(***************************************************************************)
(* IncidentWorkflow (workflows/incident_workflow.py), the activities it    *)
(* awaits and the Kubernetes executor one of them calls.                   *)
(*                                                                         *)
(* Temporal's part, as the code relies on it: one activity at a time is    *)
(* scheduled and executed by a worker; an attempt that raises, times out   *)
(* or dies with its worker is retried, up to maximum_attempts where the    *)
(* call gives a RetryPolicy and without limit where it gives none; when    *)
(* the attempts are used up ActivityError ends the workflow.  An activity  *)
(* is a sequence of database transactions, each of which is one action     *)
(* here, so an attempt can be lost between any two of them and after the   *)
(* last one ("done": the work is committed and not yet reported).  An      *)
(* attempt that is replaced is over: one that timed out and still runs     *)
(* beside its successor is not modelled.                                   *)
(***************************************************************************)
EXTENDS IncidentStore, RemediationDecision

CONSTANTS
    Responses,          \* LLM answers considered, a subset of LlmResponse
    Service,            \* input["service"]
    ServiceNamespace,   \* input["namespace"]
    MaximumAttempts,    \* maximum_attempts of `retry_policy` (3 in the code)
    MaxWorkerFaults     \* bound on lost attempts and failed transactions

ASSUME WorkflowAssumption ==
    /\ Responses \subseteq LlmResponse
    /\ Service \in Target /\ ServiceNamespace \in Namespace
    /\ MaximumAttempts \in Nat \ {0}
    /\ MaxWorkerFaults \in Nat

VARIABLES
    step,          \* the activity the workflow awaits, "wait", or "closed"
    stage,         \* how far the current attempt of that activity is
    attempt,       \* number of the current attempt, where they are limited
    result,        \* what the attempt will report
    rca,           \* recommended_actions[0] of the diagnosis
    plan,          \* plan_result["plan"]
    verdict,       \* policy_result
    outcome,       \* how the workflow ends
    verification,  \* verification_result["status"]
    k8sRuns,       \* calls of _execute_k8s_action that returned: the cluster was
                   \* changed, or (Kubernetes unavailable) the change simulated
    workerFaults   \* faults so far

workflowVars ==
    <<step, stage, attempt, result, rca, plan, verdict, outcome,
      verification, k8sRuns, workerFaults>>

NoVerdict == [allowed |-> FALSE]

\* execute_activity calls with a RetryPolicy, and those without one.
Limited == {"investigate", "plan", "policy", "execute", "verify"}
Unlimited ==
    {"requestApproval", "setAwaiting", "setRemediating", "setVerifying", "setOutcome"}
Activity == Limited \cup Unlimited

\* Mutant: one attempt too many.
MaxAttemptsPlusOne(a) == IF a = "policy" THEN 1 ELSE MaximumAttempts + 1

MaxAttempts(a) == IF a = "policy" THEN 1 ELSE MaximumAttempts

WorkflowTypeOK ==
    /\ step \in Activity \cup {"notStarted", "wait", "closed"}
    /\ stage \in {"scheduled", "rca", "act", "record", "recordFailure", "done"}
    /\ attempt \in 1 .. MaximumAttempts
    /\ result \in {"none", "ok", "failed", "SUCCESS", "FAILURE", "SKIPPED_IDEMPOTENT"}
    /\ rca \in {NoAction} \cup DictItem
    /\ plan \in {NoPlan} \cup Plan
    /\ verdict \in {NoVerdict} \cup Verdict
    /\ outcome \in {"none", "RESOLVED", "FAILED", "ERROR", "TIMEOUT"}
    /\ verification \in {"none", "RECOVERED", "PARTIAL"}
    /\ k8sRuns \in Nat
    /\ workerFaults \in 0 .. MaxWorkerFaults

WorkflowInit ==
    /\ step = "notStarted" /\ stage = "scheduled" /\ attempt = 1
    /\ result = "none" /\ rca = NoAction /\ plan = NoPlan /\ verdict = NoVerdict
    /\ outcome = "none" /\ verification = "none"
    /\ k8sRuns = 0 /\ workerFaults = 0
-----------------------------------------------------------------------------
(* Scheduling, retries and faults.                                         *)

\* The workflow goes on to `next`.
GoTo(next) ==
    step' = next /\ stage' = "scheduled" /\ attempt' = 1 /\ result' = "none"

\* The current attempt stays and is at `next`.
Within(next) == stage' = next /\ UNCHANGED <<step, attempt, outcome>>

\* Mutant: attempts are not counted.
RetryForEver == stage' = "scheduled" /\ result' = "none" /\ UNCHANGED <<step, outcome, attempt>>

\* The current attempt failed: another one, or ActivityError.
RetryOrFail ==
    /\ stage' = "scheduled" /\ result' = "none"
    /\ IF step \in Limited /\ attempt = MaxAttempts(step)
       THEN step' = "closed" /\ outcome' = "ERROR" /\ attempt' = 1
       ELSE /\ UNCHANGED <<step, outcome>>
            /\ attempt' = IF step \in Limited THEN attempt + 1 ELSE attempt

Fault ==
    /\ workerFaults < MaxWorkerFaults
    /\ workerFaults' = workerFaults + 1

\* A worker crash, an activity timeout, or a database error the activity does
\* not catch: whatever the attempt had not committed is gone.
AttemptLost ==
    /\ step \in Activity
    /\ Fault
    /\ RetryOrFail
    /\ UNCHANGED <<rca, plan, verdict, signal, verification, k8sRuns, storeVars>>

Start ==
    /\ step = "notStarted"
    /\ GoTo("investigate")
    /\ UNCHANGED <<rca, plan, verdict, signal, outcome, verification, k8sRuns,
                   workerFaults, storeVars>>
-----------------------------------------------------------------------------
(* investigate_activity                                                    *)

MarkInvestigating ==
    /\ step = "investigate" /\ stage = "scheduled"
    /\ status' = "INVESTIGATING"
    /\ Within("rca")
    /\ UNCHANGED <<result, rca, plan, verdict, signal, verification, k8sRuns,
                   workerFaults, rowVars>>

Diagnose ==
    /\ step = "investigate" /\ stage = "rca"
    /\ \E response \in Responses :
          /\ ~RcaRaises(response)
          /\ rca' = run_rca(response, ServiceNamespace)
    /\ status' = "DIAGNOSED"
    /\ result' = "ok" /\ Within("done")
    /\ UNCHANGED <<plan, verdict, signal, verification, k8sRuns, workerFaults, rowVars>>

\* run_rca or the second transaction raised: caught, success is False.
InvestigationFails ==
    /\ step = "investigate" /\ stage = "rca"
    /\ \/ (\E response \in Responses : RcaRaises(response)) /\ UNCHANGED workerFaults
       \/ Fault
    /\ result' = "failed" /\ Within("done")
    /\ UNCHANGED <<rca, plan, verdict, signal, verification, k8sRuns, storeVars>>

ReportInvestigation ==
    /\ step = "investigate" /\ stage = "done"
    /\ IF result = "ok"
       THEN GoTo("plan") /\ UNCHANGED outcome
       ELSE GoTo("setOutcome") /\ outcome' = "FAILED"
    /\ UNCHANGED <<rca, plan, verdict, signal, verification, k8sRuns, workerFaults,
                   storeVars>>
-----------------------------------------------------------------------------
(* plan_remediation_activity and policy_check_activity change nothing but  *)
(* the workflow's history: one action each.                                *)

PlanRemediation ==
    /\ step = "plan" /\ ~PlanRaises(rca)
    /\ plan' = plan_remediation(rca, Service, ServiceNamespace)
    /\ IF plan' = NoPlan
       THEN GoTo("setOutcome") /\ outcome' = "RESOLVED"
       ELSE GoTo("policy") /\ UNCHANGED outcome
    /\ UNCHANGED <<rca, verdict, signal, verification, k8sRuns, workerFaults, storeVars>>

PlanRemediationRaises ==
    /\ step = "plan" /\ PlanRaises(rca)
    /\ RetryOrFail
    /\ UNCHANGED <<rca, plan, verdict, signal, verification, k8sRuns, workerFaults,
                   storeVars>>

\* Mutant: the approval flag of the verdict is not looked at.
PolicyCheckNoApproval ==
    /\ step = "policy"
    /\ verdict' = evaluate_policy(plan)
    /\ IF ~verdict'.allowed
       THEN GoTo("setOutcome") /\ outcome' = "FAILED"
       ELSE GoTo("setRemediating") /\ UNCHANGED outcome
    /\ UNCHANGED <<rca, plan, signal, verification, k8sRuns, workerFaults, storeVars>>

\* Mutant: an operator may override the policy engine.
PolicyCheckOverride ==
    /\ step = "policy"
    /\ verdict' = evaluate_policy(plan)
    /\ GoTo(IF verdict'.allowed /\ ~verdict'.requires_approval
            THEN "setRemediating" ELSE "requestApproval")
    /\ UNCHANGED <<rca, plan, signal, outcome, verification, k8sRuns, workerFaults,
                   storeVars>>

PolicyCheck ==
    /\ step = "policy"
    /\ verdict' = evaluate_policy(plan)
    /\ IF ~verdict'.allowed
       THEN GoTo("setOutcome") /\ outcome' = "FAILED"
       ELSE /\ GoTo(IF verdict'.requires_approval
                    THEN "requestApproval" ELSE "setRemediating")
            /\ UNCHANGED outcome
    /\ UNCHANGED <<rca, plan, signal, verification, k8sRuns, workerFaults, storeVars>>
-----------------------------------------------------------------------------
(* request_approval_activity: one transaction, with the plan's fixed       *)
(* primary key; then the wait for the signal.                              *)

RequestApproval ==
    /\ step = "requestApproval" /\ stage = "scheduled"
    /\ WorkflowRow \notin plans
    /\ InsertPending(WorkflowRow, WorkflowRow)
    /\ result' = "ok" /\ Within("done")
    /\ UNCHANGED <<rca, plan, verdict, signal, verification, k8sRuns, workerFaults,
                   status, execution, decisions>>

\* An earlier attempt committed and was lost: IntegrityError, retried for ever.
RequestApprovalConflict ==
    /\ step = "requestApproval" /\ stage = "scheduled"
    /\ WorkflowRow \in plans
    /\ RetryOrFail
    /\ UNCHANGED <<rca, plan, verdict, signal, verification, k8sRuns, workerFaults,
                   storeVars>>

ReportRequestApproval ==
    /\ step = "requestApproval" /\ stage = "done"
    /\ GoTo("setAwaiting")
    /\ UNCHANGED <<rca, plan, verdict, signal, outcome, verification, k8sRuns,
                   workerFaults, storeVars>>

\* Mutant: a rejection does not end the wait.
ApprovalArrivesUnlessRejected ==
    /\ step = "wait" /\ signal = "approved"
    /\ GoTo("setRemediating") /\ UNCHANGED outcome
    /\ UNCHANGED <<rca, plan, verdict, signal, verification, k8sRuns, workerFaults,
                   storeVars>>

\* wait_condition returns because approval_signal was handled.
ApprovalArrives ==
    /\ step = "wait" /\ signal # "none"
    /\ IF signal = "approved"
       THEN GoTo("setRemediating") /\ UNCHANGED outcome
       ELSE GoTo("setOutcome") /\ outcome' = "FAILED"
    /\ UNCHANGED <<rca, plan, verdict, signal, verification, k8sRuns, workerFaults,
                   storeVars>>

\* After 24 hours wait_condition raises asyncio.TimeoutError, which nothing
\* catches: the workflow fails where it stands.
ApprovalTimesOut ==
    /\ step = "wait" /\ signal = "none"
    /\ GoTo("closed") /\ outcome' = "TIMEOUT"
    /\ UNCHANGED <<rca, plan, verdict, signal, verification, k8sRuns, workerFaults,
                   storeVars>>
-----------------------------------------------------------------------------
(* update_incident_status_activity: an unconditional write.                *)

StatusWritten ==
    CASE step = "setAwaiting" -> "AWAITING_APPROVAL"
      [] step = "setRemediating" -> "REMEDIATING"
      [] step = "setVerifying" -> "VERIFYING"
      [] step = "setOutcome" -> outcome

AfterStatus ==
    CASE step = "setAwaiting" -> "wait"
      [] step = "setRemediating" -> "execute"
      [] step = "setVerifying" -> "verify"
      [] step = "setOutcome" -> "closed"

SetsStatus == Unlimited \ {"requestApproval"}

UpdateIncidentStatus ==
    /\ step \in SetsStatus /\ stage = "scheduled"
    /\ status' = StatusWritten
    /\ Within("done")
    /\ UNCHANGED <<result, rca, plan, verdict, signal, verification, k8sRuns,
                   workerFaults, rowVars>>

\* Mutant: the activity is started and not awaited.
ReportStatusNotAwaited ==
    /\ step \in SetsStatus
    /\ GoTo(AfterStatus)
    /\ UNCHANGED <<rca, plan, verdict, signal, outcome, verification, k8sRuns,
                   workerFaults, storeVars>>

ReportStatus ==
    /\ step \in SetsStatus /\ stage = "done"
    /\ GoTo(AfterStatus)
    /\ UNCHANGED <<rca, plan, verdict, signal, outcome, verification, k8sRuns,
                   workerFaults, storeVars>>
-----------------------------------------------------------------------------
(* execute_remediation_activity: execute_remediation with the execution_id *)
(* drawn once by the workflow, then a timeline event.                      *)

\* Mutant: the existing row is not looked at.
CheckExecutedForgotten ==
    /\ step = "execute" /\ stage = "scheduled"
    /\ Within("act") /\ UNCHANGED result
    /\ UNCHANGED <<rca, plan, verdict, signal, verification, k8sRuns, workerFaults,
                   storeVars>>

\* The idempotency check; a row with status FAILURE does not stop a re-run.
CheckExecuted ==
    /\ step = "execute" /\ stage = "scheduled"
    /\ IF execution = "SUCCESS"
       THEN Within("done") /\ result' = "SKIPPED_IDEMPOTENT"
       ELSE Within("act") /\ UNCHANGED result
    /\ UNCHANGED <<rca, plan, verdict, signal, verification, k8sRuns, workerFaults,
                   storeVars>>

\* _execute_k8s_action.  Its three branches turn every Kubernetes error into a
\* simulated success; only an action without a branch raises.
ActOnCluster ==
    /\ step = "execute" /\ stage = "act"
    /\ IF CanDispatch(plan)
       THEN Within("record") /\ k8sRuns' = k8sRuns + 1
       ELSE Within("recordFailure") /\ UNCHANGED k8sRuns
    /\ UNCHANGED <<result, rca, plan, verdict, signal, verification, workerFaults,
                   storeVars>>

RecordSuccess ==
    /\ step = "execute" /\ stage = "record"
    /\ CanInsertExecution
    /\ execution' = "SUCCESS" /\ result' = "SUCCESS" /\ Within("done")
    /\ UNCHANGED <<rca, plan, verdict, signal, verification, k8sRuns, workerFaults,
                   status, plans, approvals, newest, decisions>>

\* The SUCCESS row cannot be inserted: a constraint, or a database error.
RecordSuccessRaises ==
    /\ step = "execute" /\ stage = "record"
    /\ \/ ~CanInsertExecution /\ UNCHANGED workerFaults
       \/ Fault
    /\ Within("recordFailure") /\ UNCHANGED result
    /\ UNCHANGED <<rca, plan, verdict, signal, verification, k8sRuns, storeVars>>

\* The except branch inserts a FAILURE row under the same key.
RecordFailure ==
    /\ step = "execute" /\ stage = "recordFailure"
    /\ IF CanInsertExecution
       THEN execution' = "FAILURE" /\ result' = "FAILURE" /\ Within("done")
       ELSE RetryOrFail /\ UNCHANGED execution
    /\ UNCHANGED <<rca, plan, verdict, signal, verification, k8sRuns, workerFaults,
                   status, plans, approvals, newest, decisions>>

\* Mutant: a failed remediation is verified as a successful one is.
ReportExecutionIgnoresFailure ==
    /\ step = "execute" /\ stage = "done"
    /\ GoTo("setVerifying") /\ UNCHANGED outcome
    /\ UNCHANGED <<rca, plan, verdict, signal, verification, k8sRuns, workerFaults,
                   storeVars>>

ReportExecution ==
    /\ step = "execute" /\ stage = "done"
    /\ IF result = "FAILURE"
       THEN GoTo("setOutcome") /\ outcome' = "FAILED"
       ELSE GoTo("setVerifying") /\ UNCHANGED outcome
    /\ UNCHANGED <<rca, plan, verdict, signal, verification, k8sRuns, workerFaults,
                   storeVars>>
-----------------------------------------------------------------------------
\* verify_recovery_activity: RECOVERED when the error rate is low, when there
\* is no sample and when Prometheus cannot be asked; PARTIAL when it is high
\* (latency_ok is never cleared, so NOT_RECOVERED cannot be returned).
VerifyRecovery ==
    /\ step = "verify"
    /\ verification' \in {"RECOVERED", "PARTIAL"}
    /\ GoTo("setOutcome")
    /\ outcome' = IF verification' = "RECOVERED" THEN "RESOLVED" ELSE "FAILED"
    /\ UNCHANGED <<rca, plan, verdict, signal, k8sRuns, workerFaults, storeVars>>
-----------------------------------------------------------------------------
\* What the worker and the Temporal server do on their own.
WorkflowStep ==
    \/ MarkInvestigating \/ Diagnose \/ InvestigationFails \/ ReportInvestigation
    \/ PlanRemediation \/ PlanRemediationRaises \/ PolicyCheck
    \/ RequestApproval \/ RequestApprovalConflict \/ ReportRequestApproval
    \/ ApprovalArrives
    \/ UpdateIncidentStatus \/ ReportStatus
    \/ CheckExecuted \/ ActOnCluster \/ RecordSuccess \/ RecordSuccessRaises
    \/ RecordFailure \/ ReportExecution \/ VerifyRecovery

WorkflowNext == Start \/ WorkflowStep \/ ApprovalTimesOut \/ AttemptLost
=============================================================================
