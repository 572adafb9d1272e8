----------------------------- MODULE ApprovalApi -----------------------------
(***************************************************************************)
(* The approval endpoints of services/api/main.py.  Each member of Request *)
(* is one HTTP call with its own database session:                         *)
(*                                                                         *)
(*   GET  /approvals/pending            ListRead, ListHeal                 *)
(*   POST /approvals/{id}/approve       ReadApproval, then Commit ...      *)
(*   POST /incidents/{id}/approve       EnsurePlan, EnsureApproval,        *)
(*                                      (InsertApproval, ResetApproval),   *)
(*                                      then Commit ...                    *)
(*                                                                         *)
(* What a call read and decided upon is kept in its record: the session    *)
(* does not expire on commit, so a row it has loaded is not read again and *)
(* the check for PENDING is made once, before the transaction commits.     *)
(* A call that answers 404 or 409 changes nothing and is left out.         *)
(***************************************************************************)
EXTENDS IncidentStore

CONSTANT MaxApiFaults   \* bound on API calls cut short and signals not sent

ASSUME ApiAssumption == MaxApiFaults \in Nat

VARIABLES
    req,          \* per call: where it is, the decision, the approval row and the
                  \* plan its session holds
    apiFaults     \* faults so far

apiVars == <<req, apiFaults>>

Decision == {"approved", "rejected"}

ReqPc ==
    {"idle", "heal", "ensure", "insert", "reset", "commit", "signal", "resolve", "done"}

Call ==
    [pc: ReqPc, decision: Decision \cup {"none"}, approval: RowId, plan: RowId]

ApiTypeOK ==
    /\ req \in [Request -> Call]
    /\ apiFaults \in 0 .. MaxApiFaults

ApiInit ==
    /\ req = [r \in Request |-> [pc |-> "idle", decision |-> "none",
                                 approval |-> WorkflowRow, plan |-> WorkflowRow]]
    /\ apiFaults = 0

Move(r, pc) == req' = [req EXCEPT ![r].pc = pc]

Take(r, pc, decision, id, p) ==
    req' = [req EXCEPT ![r] = [pc |-> pc, decision |-> decision, approval |-> id, plan |-> p]]

ApiFault == apiFaults < MaxApiFaults /\ apiFaults' = apiFaults + 1
-----------------------------------------------------------------------------
(* GET /approvals/pending: the query for AWAITING_APPROVAL, then the       *)
(* self-healing writes.  LIMIT 1 without ORDER BY: any row may come first. *)

ListRead(r) ==
    /\ req[r].pc = "idle"
    /\ status = "AWAITING_APPROVAL"
    /\ Move(r, "heal")
    /\ UNCHANGED <<storeVars, signal, apiFaults>>

\* approvals[id] goes back to PENDING for plan `p`; plan_id is UNIQUE, so the
\* transaction may fail and change nothing.
SetPending(id, p) ==
    approvals' = IF PlanIdFree(id, p)
                 THEN [approvals EXCEPT ![id] = [status |-> "PENDING", plan |-> p]]
                 ELSE approvals

ListHeal(r) ==
    /\ req[r].pc = "heal"
    /\ \E p \in IF plans = {} THEN {r} ELSE plans :
          IF ApprovalRows = {} THEN InsertPending(r, p)
          ELSE /\ \E id \in ApprovalRows :
                     IF approvals[id].status # "PENDING" THEN SetPending(id, p)
                     ELSE UNCHANGED approvals
               /\ UNCHANGED <<plans, newest>>
    /\ Move(r, "done")
    /\ UNCHANGED <<status, execution, decisions, signal, apiFaults>>
-----------------------------------------------------------------------------
(* POST /approvals/{id}/approve                                            *)

ReadApproval(r) ==
    /\ req[r].pc = "idle"
    /\ \E id \in ApprovalRows, d \in Decision :
          /\ approvals[id].status = "PENDING"
          /\ Take(r, "commit", d, id, approvals[id].plan)
    /\ UNCHANGED <<storeVars, signal, apiFaults>>

\* Mutant: the signal is sent before the transaction commits.
CommitAfterSignal(r) ==
    /\ req[r].pc = "commit"
    /\ signal' = req[r].decision
    /\ Move(r, "signal")
    /\ UNCHANGED <<storeVars, apiFaults>>

\* Mutant: a rejection needs no signal, the incident is FAILED already.
CommitRejectionUntold(r) ==
    /\ req[r].pc = "commit"
    /\ approvals' = [approvals EXCEPT ![req[r].approval].status =
                        IF req[r].decision = "approved" THEN "APPROVED" ELSE "REJECTED"]
    /\ decisions' = decisions \cup {req[r].decision}
    /\ status' = IF req[r].decision = "approved" THEN "REMEDIATING" ELSE "FAILED"
    /\ plans' = plans \cup {req[r].plan}
    /\ Move(r, IF req[r].decision = "approved" THEN "signal" ELSE "done")
    /\ UNCHANGED <<newest, execution, signal, apiFaults>>

\* One transaction: the decision, the timeline event, the incident's status,
\* and the plan row the session may still have to insert.
Commit(r) ==
    /\ req[r].pc = "commit"
    /\ approvals' = [approvals EXCEPT ![req[r].approval].status =
                        IF req[r].decision = "approved" THEN "APPROVED" ELSE "REJECTED"]
    /\ decisions' = decisions \cup {req[r].decision}
    /\ status' = IF req[r].decision = "approved" THEN "REMEDIATING" ELSE "FAILED"
    /\ plans' = plans \cup {req[r].plan}
    /\ Move(r, "signal")
    /\ UNCHANGED <<newest, execution, signal, apiFaults>>

\* Mutant: the recovery hook is run, and the incident RESOLVED, after a rejection too.
AfterSignalAlways(r) == "resolve"

AfterSignal(r) == IF req[r].decision = "approved" THEN "resolve" ELSE "done"

\* handle.signal succeeds only while the workflow is running.
SendSignal(r, running) ==
    /\ req[r].pc = "signal" /\ running
    /\ signal' = req[r].decision
    /\ Move(r, AfterSignal(r))
    /\ UNCHANGED <<storeVars, apiFaults>>

\* Otherwise, or when Temporal cannot be reached, the error is only logged.
SignalNotSent(r, running) ==
    /\ req[r].pc = "signal"
    /\ \/ ~running /\ UNCHANGED apiFaults
       \/ ApiFault
    /\ Move(r, AfterSignal(r))
    /\ UNCHANGED <<storeVars, signal>>

\* After an approval, and after the demo recovery hook: RESOLVED.
Resolve(r) ==
    /\ req[r].pc = "resolve"
    /\ status' = "RESOLVED"
    /\ Move(r, "done")
    /\ UNCHANGED <<rowVars, signal, apiFaults>>
-----------------------------------------------------------------------------
(* POST /incidents/{id}/approve: makes sure that a plan and a PENDING      *)
(* approval exist and goes on as the endpoint above with the rows it has   *)
(* in its session.  The plan is looked for first, the approval after it; a *)
(* plan that is missing is inserted with whatever the call commits next.   *)
(* (LIMIT 1 without ORDER BY: the plan may be any of the incident's.  Plan *)
(* rows are committed with their approval, so no approval means no plan.)  *)

EnsurePlan(r) ==
    /\ req[r].pc = "idle"
    /\ \E d \in Decision, p \in IF plans = {} THEN {r} ELSE plans :
          Take(r, "ensure", d, r, p)
    /\ UNCHANGED <<storeVars, signal, apiFaults>>

\* Mutant: the approval's status is not looked at.
EnsureApprovalAnyStatus(r) ==
    /\ req[r].pc = "ensure"
    /\ IF ApprovalRows = {} THEN Move(r, "insert")
       ELSE Take(r, "reset", req[r].decision, newest, req[r].plan)
    /\ UNCHANGED <<storeVars, signal, apiFaults>>

EnsureApproval(r) ==
    /\ req[r].pc = "ensure"
    /\ IF ApprovalRows = {} THEN Move(r, "insert")
       ELSE Take(r, IF approvals[newest].status = "PENDING" THEN "commit" ELSE "reset",
                 req[r].decision, newest, req[r].plan)
    /\ UNCHANGED <<storeVars, signal, apiFaults>>

InsertApproval(r) ==
    /\ req[r].pc = "insert"
    /\ InsertPending(r, req[r].plan)
    /\ Move(r, "commit")
    /\ UNCHANGED <<status, execution, decisions, signal, apiFaults>>

\* A decided approval is set back to PENDING; a UNIQUE violation answers 500.
ResetApproval(r) ==
    /\ req[r].pc = "reset"
    /\ SetPending(req[r].approval, req[r].plan)
    /\ IF PlanIdFree(req[r].approval, req[r].plan)
       THEN plans' = plans \cup {req[r].plan} /\ Move(r, "commit")
       ELSE UNCHANGED plans /\ Move(r, "done")
    /\ UNCHANGED <<status, newest, execution, decisions, signal, apiFaults>>

\* The API process dies, or an exception ends the call, between two steps.
RequestDies(r) ==
    /\ req[r].pc \notin {"idle", "done"}
    /\ ApiFault
    /\ Move(r, "done")
    /\ UNCHANGED <<storeVars, signal>>
-----------------------------------------------------------------------------
\* What a call does once it was made.
RequestStep(r, running) ==
    \/ ListHeal(r) \/ Commit(r) \/ SendSignal(r, running) \/ SignalNotSent(r, running)
    \/ Resolve(r) \/ EnsureApproval(r) \/ InsertApproval(r) \/ ResetApproval(r)

ApiNext(running) ==
    \E r \in Request :
        ListRead(r) \/ ReadApproval(r) \/ EnsurePlan(r)
        \/ RequestStep(r, running) \/ RequestDies(r)
=============================================================================
