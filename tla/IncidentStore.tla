---------------------------- MODULE IncidentStore ----------------------------
(***************************************************************************)
(* The PostgreSQL rows of ONE incident that the Temporal workflow, the     *)
(* REST API and the investigator write.  Nothing locks them: each reads    *)
(* and writes in short READ COMMITTED transactions of its own.  Incidents  *)
(* share no row, so one of them shows every interleaving.                  *)
(*                                                                         *)
(* Kept of a row is what a guard, a constraint or a property reads: the    *)
(* incident's status, the identity of plan rows, each approval's status    *)
(* and plan_id, the execution's status, the decisions in the timeline.     *)
(***************************************************************************)
EXTENDS Naturals

CONSTANTS
    Request,      \* the API calls that are made, each once; a row an API call
                  \* inserts has a fresh uuid and is named after the call
    WorkflowRow,  \* the plan_id the workflow's planner drew, and the id of the
                  \* approval the workflow asks for
    SyncRow       \* the same of the investigator's synchronous fallback

ASSUME StoreAssumption ==
    WorkflowRow \notin Request /\ SyncRow \notin Request \cup {WorkflowRow}

RowId == Request \cup {WorkflowRow, SyncRow}

Status ==
    {"DETECTED", "INVESTIGATING", "DIAGNOSED", "AWAITING_APPROVAL",
     "REMEDIATING", "VERIFYING", "RESOLVED", "FAILED"}

Terminal == {"RESOLVED", "FAILED"}

VARIABLES
    status,     \* incidents.status
    plans,      \* remediation_plans: primary keys present
    approvals,  \* approvals: primary key -> [status, plan_id]; "none": no row
    newest,     \* the approval with the latest requested_at
    execution,  \* remediation_executions: status of the row whose id is the
                \* workflow's execution_id, "none" when there is no such row
    decisions,  \* decisions recorded by APPROVAL_DECIDED rows of incident_events
    signal      \* not a row: IncidentWorkflow._approval_decision, which the API
                \* sets through Temporal and the workflow waits for

storeVars == <<status, plans, approvals, newest, execution, decisions>>
rowVars == <<plans, approvals, newest, execution, decisions>>

StoreTypeOK ==
    /\ status \in Status
    /\ plans \subseteq RowId
    /\ approvals \in
          [RowId -> [status: {"none", "PENDING", "APPROVED", "REJECTED"}, plan: RowId]]
    /\ newest \in RowId
    /\ execution \in {"none", "SUCCESS", "FAILURE"}
    /\ decisions \subseteq {"approved", "rejected"}
    /\ signal \in {"none", "approved", "rejected"}

StoreInit ==
    /\ status = "DETECTED"
    /\ plans = {}
    /\ approvals = [id \in RowId |-> [status |-> "none", plan |-> id]]
    /\ newest = WorkflowRow
    /\ execution = "none"
    /\ decisions = {}
    /\ signal = "none"

ApprovalRows == {id \in RowId : approvals[id].status # "none"}

\* approvals.plan_id is UNIQUE: may approval `id` carry plan `p`?
PlanIdFree(id, p) == \A other \in ApprovalRows \ {id} : approvals[other].plan # p

\* INSERT of a plan row (when it is new) and of a PENDING approval for it.
InsertPending(id, p) ==
    /\ plans' = plans \cup {p}
    /\ approvals' = [approvals EXCEPT ![id] = [status |-> "PENDING", plan |-> p]]
    /\ newest' = id

\* Foreign key, primary key and unique constraints of remediation_executions:
\* can a row for the workflow's plan be inserted under its execution_id?
CanInsertExecution == WorkflowRow \in plans /\ execution = "none"
=============================================================================
