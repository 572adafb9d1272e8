--------------------------- MODULE FallbackLifecycle ---------------------------
(***************************************************************************)
(* IncidentLifecycle with the investigator's synchronous fallback beside   *)
(* it, as when the second of two investigators finds the workflow running, *)
(* or when Temporal is away: a third writer over the same rows.            *)
(***************************************************************************)
EXTENDS IncidentLifecycle, InvestigatorFallback

allVars == <<vars, syncVars>>

FallbackTypeOK == TypeOK /\ SyncTypeOK

FallbackInit == Init /\ SyncInit

LifecycleMoves == Next /\ UNCHANGED syncVars

FallbackMoves == FallbackNext(WorkflowRunning) /\ UNCHANGED <<workflowVars, apiVars>>

FallbackSpec == FallbackInit /\ [][LifecycleMoves \/ FallbackMoves]_allVars

\* The fallback need not run on either.
FairFallbackSpec == FallbackSpec /\ Fairness
-----------------------------------------------------------------------------
(* Until a fallback begins, an incident whose workflow ended by itself is  *)
(* left as the workflow meant to leave it; a fallback writes the status    *)
(* whatever the workflow made of it.                                       *)
OutcomeStands == syncStage = "idle" => UndisturbedOutcome

(* Whoever sets AWAITING_APPROVAL, and whatever the others write after it: *)
(* there is an approval row an operator can be shown.                      *)
AwaitingHasApproval == status = "AWAITING_APPROVAL" => ApprovalRows # {}

(* While the workflow waits and no one has decided, its approval is still  *)
(* PENDING with its own plan: neither the list's self-healing, the         *)
(* incident endpoint's reset nor the fallback takes it away.               *)
QuestionStaysOpen ==
    step = "wait" /\ decisions = {} =>
        approvals[WorkflowRow] = [status |-> "PENDING", plan |-> WorkflowRow]

(* The answer to the workflow's question is not lost by any interleaving   *)
(* of calls, heals and resets with the workflow: as long as no call died   *)
(* and no signal failed, a workflow that runs on while its own approval is *)
(* decided in the database was told, or a call is about to tell it.        *)
NoAnswerIsLost ==
    WorkflowRunning /\ apiFaults = 0 /\ approvals[WorkflowRow].status \in {"APPROVED", "REJECTED"}
        => signal # "none" \/ \E r \in Request : req[r].pc = "signal"
=============================================================================
