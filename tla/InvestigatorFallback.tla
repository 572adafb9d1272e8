------------------------- MODULE InvestigatorFallback --------------------------
(***************************************************************************)
(* _run_investigation_sync (services/investigator/main.py): what an        *)
(* investigator does by itself when starting the workflow raised, over the *)
(* rows of IncidentStore, with a plan and an approval of its own.          *)
(*                                                                         *)
(* The plan row, the status and the approval are one transaction, and the  *)
(* executor runs inside it, in sessions of its own, which see what is      *)
(* committed and nothing else.                                             *)
(***************************************************************************)
EXTENDS IncidentStore, RemediationDecision

CONSTANTS
    SyncResponses,      \* LLM answers considered, a subset of LlmResponse
    SyncService,        \* the event's service ...
    SyncNamespace,      \* ... and namespace
    MaxSyncFaults       \* bound on unreachable servers, crashes and database errors

ASSUME SyncAssumption ==
    /\ SyncResponses \subseteq LlmResponse
    /\ SyncService \in Target /\ SyncNamespace \in Namespace
    /\ MaxSyncFaults \in Nat

VARIABLES
    syncStage,    \* where the fallback is: "idle", "diagnose", "persist",
                  \* "failing" (in its except branch), "done"
    syncPlan,     \* its plan
    syncRuns,     \* calls of _execute_k8s_action that returned
    syncFaults    \* faults so far

syncVars == <<syncStage, syncPlan, syncRuns, syncFaults>>

SyncTypeOK ==
    /\ syncStage \in {"idle", "diagnose", "persist", "failing", "done"}
    /\ syncPlan \in {NoPlan} \cup Plan
    /\ syncRuns \in Nat
    /\ syncFaults \in 0 .. MaxSyncFaults

SyncInit == syncStage = "idle" /\ syncPlan = NoPlan /\ syncRuns = 0 /\ syncFaults = 0

SyncFault == syncFaults < MaxSyncFaults /\ syncFaults' = syncFaults + 1
-----------------------------------------------------------------------------
\* The start raised, because the workflow is running or because Temporal could
\* not be reached.  The first transaction:
SyncMarkInvestigating(running) ==
    /\ syncStage = "idle"
    /\ (running /\ UNCHANGED syncFaults) \/ SyncFault
    /\ status' = "INVESTIGATING"
    /\ syncStage' = "diagnose"
    /\ UNCHANGED <<rowVars, signal, syncPlan, syncRuns>>

\* run_rca and plan_remediation touch no row.
SyncDiagnose ==
    /\ syncStage = "diagnose"
    /\ \E response \in SyncResponses :
          LET rec == run_rca(response, SyncNamespace)
          IN  IF RcaRaises(response) \/ PlanRaises(rec)
              THEN syncStage' = "failing" /\ UNCHANGED syncPlan
              ELSE /\ syncStage' = "persist"
                   /\ syncPlan' = plan_remediation(rec, SyncService, SyncNamespace)
    /\ UNCHANGED <<storeVars, signal, syncRuns, syncFaults>>

Unattended ==
    /\ syncPlan # NoPlan /\ evaluate_policy(syncPlan).allowed
    /\ ~evaluate_policy(syncPlan).requires_approval

NeedsApproval ==
    /\ syncPlan # NoPlan /\ evaluate_policy(syncPlan).allowed
    /\ evaluate_policy(syncPlan).requires_approval

Denied == syncPlan # NoPlan /\ ~evaluate_policy(syncPlan).allowed

\* Foreign key of the executor's row, SUCCESS or FAILURE, to the plan's: the
\* executor's sessions see committed plan rows.
SyncRecordAccepted == SyncRow \in plans

\* The executor changes the cluster, or raises, and inserts its record.  When
\* the database refuses that, as it does while the plan row is uncommitted, the
\* exception takes the whole transaction with it.
SyncExecute ==
    /\ syncStage = "persist" /\ Unattended
    /\ syncRuns' = IF CanDispatch(syncPlan) THEN syncRuns + 1 ELSE syncRuns
    /\ IF SyncRecordAccepted
       THEN status' = "RESOLVED" /\ plans' = plans \cup {SyncRow} /\ syncStage' = "done"
       ELSE UNCHANGED <<status, plans>> /\ syncStage' = "failing"
    /\ UNCHANGED <<approvals, newest, execution, decisions, signal, syncPlan, syncFaults>>

\* Mutant: the approval row is left out.
SyncAskWithoutApproval ==
    /\ syncStage = "persist" /\ NeedsApproval
    /\ plans' = plans \cup {SyncRow}
    /\ status' = "AWAITING_APPROVAL"
    /\ syncStage' = "done"
    /\ UNCHANGED <<approvals, newest, execution, decisions, signal, syncPlan, syncRuns,
                   syncFaults>>

SyncAsk ==
    /\ syncStage = "persist" /\ NeedsApproval
    /\ InsertPending(SyncRow, SyncRow)
    /\ status' = "AWAITING_APPROVAL"
    /\ syncStage' = "done"
    /\ UNCHANGED <<execution, decisions, signal, syncPlan, syncRuns, syncFaults>>

SyncDeny ==
    /\ syncStage = "persist" /\ Denied
    /\ plans' = plans \cup {SyncRow}
    /\ status' = "FAILED"
    /\ syncStage' = "done"
    /\ UNCHANGED <<approvals, newest, execution, decisions, signal, syncPlan, syncRuns,
                   syncFaults>>

SyncWithoutPlan ==
    /\ syncStage = "persist" /\ syncPlan = NoPlan
    /\ status' = "DIAGNOSED"
    /\ syncStage' = "done"
    /\ UNCHANGED <<rowVars, signal, syncPlan, syncRuns, syncFaults>>

\* A database error in one of the transactions: the except branch.
SyncRaises ==
    /\ syncStage \in {"diagnose", "persist"}
    /\ SyncFault
    /\ syncStage' = "failing"
    /\ UNCHANGED <<storeVars, signal, syncPlan, syncRuns>>

SyncFailed ==
    /\ syncStage = "failing"
    /\ status' = "FAILED"
    /\ syncStage' = "done"
    /\ UNCHANGED <<rowVars, signal, syncPlan, syncRuns, syncFaults>>

\* The investigator dies, or the except branch raises as well.
SyncDies ==
    /\ syncStage \in {"diagnose", "persist", "failing"}
    /\ SyncFault
    /\ syncStage' = "done"
    /\ UNCHANGED <<storeVars, signal, syncPlan, syncRuns>>

FallbackNext(running) ==
    \/ SyncMarkInvestigating(running) \/ SyncDiagnose
    \/ SyncExecute \/ SyncAsk \/ SyncDeny \/ SyncWithoutPlan
    \/ SyncRaises \/ SyncFailed \/ SyncDies
=============================================================================
