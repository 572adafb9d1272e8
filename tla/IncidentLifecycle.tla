-------------------------- MODULE IncidentLifecycle --------------------------
(***************************************************************************)
(* One incident from its creation to the end of its workflow: the Temporal *)
(* workflow (IncidentWorkflow) and the approval endpoints of the REST API  *)
(* (ApprovalApi) over the rows they share (IncidentStore).  They meet in   *)
(* those rows and in the approval signal.                                  *)
(***************************************************************************)
EXTENDS IncidentWorkflow, ApprovalApi

vars == <<storeVars, signal, workflowVars, apiVars>>

TypeOK == StoreTypeOK /\ WorkflowTypeOK /\ ApiTypeOK

Init == StoreInit /\ WorkflowInit /\ ApiInit

WorkflowRunning == step \notin {"notStarted", "closed"}

WorkflowMoves == WorkflowNext /\ UNCHANGED apiVars

ApiMoves ==
    /\ ApiNext(WorkflowRunning)
    /\ UNCHANGED <<step, stage, attempt, result, rca, plan, verdict, outcome,
                   verification, k8sRuns, workerFaults>>

Next == WorkflowMoves \/ ApiMoves

Spec == Init /\ [][Next]_vars

\* Temporal keeps handing the current activity to a worker and fires timers.
\* Nobody has to call the API, a call need not run on, and no fault has to happen.
Fairness == WF_vars((Start \/ WorkflowStep \/ ApprovalTimesOut) /\ UNCHANGED apiVars)

FairSpec == Spec /\ Fairness
-----------------------------------------------------------------------------
(* Safety.                                                                 *)

(* The human gate: a plan whose action needs approval changes the cluster  *)
(* only after an operator's "approved" was committed to the timeline, in   *)
(* whatever order the approval calls, the self-healing of the pending      *)
(* list, lost attempts and the workflow interleave.                        *)
ApprovedBeforeExecution ==
    k8sRuns > 0 /\ verdict.requires_approval => "approved" \in decisions

(* The signal never tells the workflow more than the database knows: the   *)
(* API commits a decision before it sends it.                              *)
SignalIsCommitted == signal # "none" => signal \in decisions

(* No path around the policy engine: whatever the LLM answered, a change   *)
(* of the cluster was allowed by evaluate_policy on this very plan, and    *)
(* stays within the three attempts of the activity.                        *)
OnlyAllowedPlansRun ==
    k8sRuns > 0 =>
        /\ verdict = evaluate_policy(plan) /\ verdict.allowed
        /\ plan.target \in AllowedDeployments /\ plan.namespace \in AllowedNamespaces
        /\ k8sRuns <= MaximumAttempts

(* Verification never starts on a remediation that is not durably recorded *)
(* as successful: a retry that finds a FAILURE row, or that loses its own  *)
(* record, does not get there.                                             *)
VerifiedRunsAreRecorded ==
    step \in {"setVerifying", "verify"} => execution = "SUCCESS" /\ k8sRuns > 0

(* An incident whose workflow ended by itself, with no operator's decision *)
(* on it, is left in exactly the state the workflow meant to leave it in.  *)
UndisturbedOutcome ==
    step = "closed" /\ outcome \in Terminal /\ decisions = {} => status = outcome

(* The API may mark an incident RESOLVED that was not verified, but nobody  *)
(* marks one for no reason: an operator's approval is on the timeline, or   *)
(* the workflow itself ended it, with nothing to do or with a change that   *)
(* is on record and a recovery it has seen.                                *)
ResolvedHasReason ==
    status = "RESOLVED" =>
        \/ "approved" \in decisions
        \/ /\ outcome = "RESOLVED"
           /\ plan = NoPlan \/ (execution = "SUCCESS" /\ verification = "RECOVERED")

(* The executor's idempotency: once a SUCCESS row exists no attempt, retry *)
(* or restarted worker touches the cluster for this execution again.       *)
RecordedNeverRepeated ==
    [][execution = "SUCCESS" => UNCHANGED k8sRuns]_vars
-----------------------------------------------------------------------------
(* Refinement: the workflow, its executor and the API together implement   *)
(* RemediationGate, whatever they do besides being a stutter of it.        *)

Judged ==
    IF verdict = NoVerdict THEN "none"
    ELSE IF ~verdict.allowed THEN "denied"
    ELSE IF verdict.requires_approval THEN "ask" ELSE "auto"

Gate == INSTANCE RemediationGate WITH
    MaxRuns <- MaximumAttempts,
    judged <- Judged,
    approved <- "approved" \in decisions,
    runs <- k8sRuns,
    recorded <- execution = "SUCCESS"

ImplementsGate == Gate!GateSpec
-----------------------------------------------------------------------------
(* Liveness.                                                               *)

(* An approval or rejection that reached the waiting workflow is acted on: *)
(* the workflow ends, and ends the incident, despite one lost attempt.     *)
(* (Two are enough to end it with an error: one between the FAILURE row    *)
(* and its report, after one that lost the SUCCESS row.)                   *)
DecisionIsHonoured ==
    (step = "wait" /\ signal # "none")
        ~> (step = "closed" /\ (outcome \in Terminal \/ workerFaults > 1))

(* Without an operator the workflow still gets to an end or to its         *)
(* question.  (It can stay in request_approval_activity for ever: see      *)
(* RequestIsEventuallyMade.)                                               *)
WorkflowGetsSomewhere ==
    (step = "investigate") ~> (step \in {"requestApproval", "closed"})
-----------------------------------------------------------------------------
(* What the documentation says and the code does not do.                   *)

(* README: error rates are verified "before marking incidents RESOLVED".   *)
(* An incident with a plan is RESOLVED only once its workflow verified     *)
(* recovery.                                                               *)
VerifiedBeforeResolved ==
    status = "RESOLVED" /\ plan # NoPlan => verification = "RECOVERED"

(* k8s_executor.py: "checks if it was already executed [...] If already    *)
(* executed, returns SKIPPED": with no fault at all, an execution changes  *)
(* the cluster at most once.                                               *)
ExecutedAtMostOnce == workerFaults = 0 => k8sRuns <= 1

(* incident_workflow.py: on a timeout the incident is set to FAILED with   *)
(* "Approval timed out".                                                   *)
TimeoutIsRecorded == outcome = "TIMEOUT" => status # "AWAITING_APPROVAL"

(* incident_workflow.py: "If the worker crashes at any step, Temporal      *)
(* replays the workflow from the last successful activity boundary": the   *)
(* workflow gets past request_approval_activity.                           *)
RequestIsEventuallyMade ==
    (step = "requestApproval") ~> (step # "requestApproval")
=============================================================================
