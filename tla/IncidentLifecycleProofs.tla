----------------------- MODULE IncidentLifecycleProofs -----------------------
(***************************************************************************)
(* The safety properties of IncidentLifecycle for any number of approval   *)
(* calls, any set of LLM answers and any bound on retries and faults.      *)
(***************************************************************************)
EXTENDS IncidentLifecycle, RemediationDecisionProofs
-----------------------------------------------------------------------------
(* The inductive invariant.                                                *)

AfterPolicy ==
    {"requestApproval", "setAwaiting", "wait", "setRemediating", "execute",
     "setVerifying", "verify"}

AfterApproval == {"setRemediating", "execute", "setVerifying", "verify"}

BeforeExecution ==
    {"notStarted", "investigate", "plan", "policy", "requestApproval",
     "setAwaiting", "wait", "setRemediating"}

Cleared == verdict.requires_approval => "approved" \in decisions

(* Where the workflow is tells what the planner, the policy engine and the *)
(* operator have said.                                                     *)
GateInv ==
    /\ step \in {"notStarted", "investigate", "plan", "policy"} => verdict = NoVerdict
    /\ step = "policy" => plan \in Plan /\ attempt = 1
    /\ step \in AfterPolicy \/ k8sRuns > 0 =>
          plan \in Plan /\ verdict = evaluate_policy(plan) /\ verdict.allowed
    /\ step \in AfterApproval \/ k8sRuns > 0 => Cleared

(* Where an attempt of the execution is tells how often the cluster can    *)
(* have been changed and what is on record.                                *)
ExecutionInv ==
    /\ step \in BeforeExecution => k8sRuns = 0 /\ execution = "none"
    /\ stage \in {"act", "record", "recordFailure"} =>
          step = "execute" /\ execution # "SUCCESS"
    /\ stage = "record" => k8sRuns > 0
    /\ step = "execute" /\ stage \in {"scheduled", "act"} => k8sRuns < attempt
    /\ step = "execute" => k8sRuns <= attempt
    /\ k8sRuns <= MaximumAttempts
    /\ execution = "SUCCESS" => k8sRuns > 0
    /\ step = "execute" /\ stage = "done" => result = "FAILURE" \/ execution = "SUCCESS"
    /\ step \in {"setVerifying", "verify"} => execution = "SUCCESS"

(* An approval call carries a decision once it has read an approval, and   *)
(* what it sends or resolves upon is committed.                            *)
ApiInv ==
    /\ \A r \in Request :
          /\ req[r].pc \in {"ensure", "insert", "reset", "commit"} => req[r].decision \in Decision
          /\ req[r].pc \in {"signal", "resolve"} => req[r].decision \in decisions
    /\ signal # "none" => signal \in decisions

(* A status is written before it is reported, and the last one is final.   *)
StatusInv ==
    /\ step = "setOutcome" => outcome \in Terminal
    /\ step \in SetsStatus => stage \in {"scheduled", "done"}

(* What is inductive whoever else writes the incident's status.            *)
CoreInv == TypeOK /\ GateInv /\ ExecutionInv /\ ApiInv /\ StatusInv

(* The workflow's last write of the status is its outcome.                 *)
OutcomeInv ==
    /\ step = "setOutcome" /\ stage = "done" /\ decisions = {} => status = outcome
    /\ UndisturbedOutcome

IInv == CoreInv /\ OutcomeInv

LEMMA InitIInv == Init => IInv
<1> SUFFICES ASSUME Init PROVE IInv
  OBVIOUS
<1> USE DEF Init, StoreInit, WorkflowInit, ApiInit
<1>1. StoreTypeOK
  BY DEF StoreTypeOK, RowId, Status
<1>2. WorkflowTypeOK
  BY WorkflowAssumption DEF WorkflowTypeOK
<1>3. ApiTypeOK
  BY ApiAssumption DEF ApiTypeOK, Call, ReqPc, RowId
<1>4. GateInv
  BY DEF GateInv, AfterPolicy, AfterApproval
<1>5. ExecutionInv
  BY WorkflowAssumption DEF ExecutionInv, BeforeExecution
<1>6. ApiInv
  BY DEF ApiInv
<1>7. StatusInv /\ OutcomeInv
  BY DEF StatusInv, OutcomeInv, UndisturbedOutcome, SetsStatus, Unlimited
<1> QED BY <1>1, <1>2, <1>3, <1>4, <1>5, <1>6, <1>7 DEF IInv, CoreInv, TypeOK
-----------------------------------------------------------------------------
(* What one side leaves to the other.                                      *)

(* The workflow writes neither the decisions, nor the signal, nor what an  *)
(* approval call knows.                                                    *)
LEMMA WorkflowFrame ==
    WorkflowMoves => UNCHANGED <<signal, decisions, req, apiFaults>>
BY DEF WorkflowMoves, apiVars, storeVars, rowVars, WorkflowNext, WorkflowStep, InsertPending,
       Start, MarkInvestigating, Diagnose, InvestigationFails, ReportInvestigation,
       PlanRemediation, PlanRemediationRaises, PolicyCheck, RequestApproval,
       RequestApprovalConflict, ReportRequestApproval, ApprovalArrives, ApprovalTimesOut,
       UpdateIncidentStatus, ReportStatus, CheckExecuted, ActOnCluster, RecordSuccess,
       RecordSuccessRaises, RecordFailure, ReportExecution, VerifyRecovery, AttemptLost

(* The API writes neither the execution nor anything of the workflow, and  *)
(* a decision on the timeline stays there.                                 *)
LEMMA ApiFrame ==
    ApiMoves => UNCHANGED <<execution, workflowVars>> /\ decisions \subseteq decisions'
<1> SUFFICES ASSUME ApiMoves PROVE UNCHANGED execution /\ decisions \subseteq decisions'
  BY DEF ApiMoves, workflowVars
<1>1. PICK r \in Request :
        ListRead(r) \/ ReadApproval(r) \/ EnsurePlan(r)
        \/ RequestStep(r, WorkflowRunning) \/ RequestDies(r)
  BY DEF ApiMoves, ApiNext
<1> QED
  BY <1>1 DEF RequestStep, storeVars, rowVars, InsertPending, ListRead, ListHeal, ReadApproval,
              Commit, SendSignal, SignalNotSent, Resolve, EnsurePlan, EnsureApproval,
              InsertApproval, ResetApproval, RequestDies
-----------------------------------------------------------------------------
(* Types.                                                                  *)

\* Moving a call within its endpoint keeps every call well-typed.
LEMMA MoveTypes ==
    ASSUME ApiTypeOK, NEW r \in Request, NEW pc \in ReqPc
    PROVE  /\ Move(r, pc) => req' \in [Request -> Call]
           /\ \A d \in Decision, id, p \in RowId :
                 Take(r, pc, d, id, p) => req' \in [Request -> Call]
BY DEF ApiTypeOK, Move, Take, Call

LEMMA ApprovalTypes ==
    ASSUME StoreTypeOK, NEW id \in RowId, NEW p \in RowId
    PROVE  /\ InsertPending(id, p) =>
                 /\ plans' \subseteq RowId /\ newest' \in RowId
                 /\ approvals' \in [RowId -> [status: {"none", "PENDING", "APPROVED", "REJECTED"},
                                              plan: RowId]]
           /\ SetPending(id, p) =>
                 approvals' \in [RowId -> [status: {"none", "PENDING", "APPROVED", "REJECTED"},
                                           plan: RowId]]
BY DEF StoreTypeOK, InsertPending, SetPending

LEMMA ApiTypes == CoreInv /\ ApiMoves => TypeOK'
<1> SUFFICES ASSUME CoreInv, ApiMoves PROVE TypeOK'
  OBVIOUS
<1>0. StoreTypeOK /\ ApiTypeOK /\ WorkflowTypeOK /\ ApiInv
  BY DEF CoreInv, TypeOK
<1>1. PICK r \in Request :
        ListRead(r) \/ ReadApproval(r) \/ EnsurePlan(r)
        \/ RequestStep(r, WorkflowRunning) \/ RequestDies(r)
  BY DEF ApiMoves, ApiNext
<1>2. WorkflowTypeOK'
  BY <1>0, ApiFrame DEF WorkflowTypeOK, workflowVars
<1>3. r \in RowId /\ req[r].approval \in RowId /\ req[r].plan \in RowId /\ plans \subseteq RowId
      /\ newest \in RowId /\ ApprovalRows \subseteq RowId
  BY <1>0 DEF RowId, ApiTypeOK, Call, StoreTypeOK, ApprovalRows
<1>4. apiFaults' \in 0 .. MaxApiFaults
  BY <1>0, <1>1, ApiAssumption
     DEF ApiTypeOK, RequestStep, ListRead, ListHeal, ReadApproval, Commit, SendSignal,
         SignalNotSent, Resolve, EnsurePlan, EnsureApproval, InsertApproval, ResetApproval,
         RequestDies,
         ApiFault
<1>5. {"idle", "heal", "ensure", "insert", "reset", "commit", "signal", "resolve", "done"} \subseteq ReqPc
  BY DEF ReqPc
<1> USE <1>0, <1>3, <1>4, <1>5, MoveTypes, ApprovalTypes
<1>6. CASE ListRead(r)
  BY <1>6, <1>2 DEF ListRead, TypeOK, StoreTypeOK, ApiTypeOK, storeVars
<1>7. CASE ListHeal(r)
  <2>1. StoreTypeOK'
    BY <1>7 DEF ListHeal, StoreTypeOK
  <2> QED BY <2>1, <1>7, <1>2 DEF ListHeal, TypeOK, ApiTypeOK
<1>8. CASE ReadApproval(r)
  BY <1>8, <1>2 DEF ReadApproval, TypeOK, StoreTypeOK, ApiTypeOK, storeVars
<1>9. CASE Commit(r)
  <2>1. StoreTypeOK'
    BY <1>9 DEF Commit, StoreTypeOK, ApiInv, Decision, Status
  <2> QED BY <2>1, <1>9, <1>2 DEF Commit, TypeOK, ApiTypeOK
<1>10. CASE SendSignal(r, WorkflowRunning)
  <2>1. StoreTypeOK'
    BY <1>10 DEF SendSignal, StoreTypeOK, ApiInv, storeVars
  <2> QED BY <2>1, <1>10, <1>2 DEF SendSignal, AfterSignal, TypeOK, ApiTypeOK
<1>11. CASE SignalNotSent(r, WorkflowRunning)
  BY <1>11, <1>2 DEF SignalNotSent, AfterSignal, TypeOK, StoreTypeOK, ApiTypeOK, storeVars
<1>12. CASE Resolve(r)
  BY <1>12, <1>2 DEF Resolve, TypeOK, StoreTypeOK, ApiTypeOK, rowVars, Status
<1>13. CASE EnsurePlan(r) \/ EnsureApproval(r)
  BY <1>13, <1>2 DEF EnsurePlan, EnsureApproval, TypeOK, StoreTypeOK, ApiTypeOK, ApiInv, storeVars
<1>14. CASE InsertApproval(r)
  <2>1. StoreTypeOK'
    BY <1>14 DEF InsertApproval, StoreTypeOK
  <2> QED BY <2>1, <1>14, <1>2 DEF InsertApproval, TypeOK, ApiTypeOK
<1>15. CASE ResetApproval(r)
  <2>1. StoreTypeOK'
    BY <1>15 DEF ResetApproval, StoreTypeOK
  <2> QED BY <2>1, <1>15, <1>2 DEF ResetApproval, TypeOK, ApiTypeOK
<1>16. CASE RequestDies(r)
  BY <1>16, <1>2 DEF RequestDies, TypeOK, StoreTypeOK, ApiTypeOK, storeVars
<1> QED
  BY <1>1, <1>6, <1>7, <1>8, <1>9, <1>10, <1>11, <1>12, <1>13, <1>14, <1>15, <1>16
     DEF RequestStep

(* An attempt that is retried or given up leaves the workflow well-typed.  *)
LEMMA RetryTypes ==
    ASSUME WorkflowTypeOK, GateInv, step \in Activity, RetryOrFail
    PROVE  /\ step' \in Activity \cup {"notStarted", "wait", "closed"}
           /\ stage' = "scheduled" /\ result' = "none"
           /\ attempt' \in 1 .. MaximumAttempts
           /\ outcome' \in {"none", "RESOLVED", "FAILED", "ERROR", "TIMEOUT"}
BY WorkflowAssumption
   DEF WorkflowTypeOK, GateInv, RetryOrFail, MaxAttempts, Activity, Limited

LEMMA WorkflowTypes == CoreInv /\ WorkflowMoves => TypeOK'
<1> SUFFICES ASSUME CoreInv, WorkflowMoves PROVE TypeOK'
  OBVIOUS
<1> USE WorkflowAssumption
<1>0. StoreTypeOK /\ ApiTypeOK /\ WorkflowTypeOK /\ GateInv /\ StatusInv
  BY DEF CoreInv, TypeOK
<1>1. ApiTypeOK'
  BY <1>0, WorkflowFrame DEF ApiTypeOK
<1>2. ASSUME StoreTypeOK', WorkflowTypeOK' PROVE TypeOK'
  BY <1>1, <1>2 DEF TypeOK
<1>3. ASSUME UNCHANGED <<storeVars, signal>> PROVE StoreTypeOK'
  BY <1>0, <1>3 DEF StoreTypeOK, storeVars
<1>4. {"investigate", "plan", "policy", "requestApproval", "setAwaiting", "setRemediating",
       "execute", "setVerifying", "verify", "setOutcome"} = Activity
  BY DEF Activity, Limited, Unlimited
<1>5. ASSUME Fault PROVE workerFaults' \in 0 .. MaxWorkerFaults
  BY <1>0, <1>5 DEF Fault, WorkflowTypeOK
<1> USE <1>0, <1>4 DEF GoTo, Within
<1>6. CASE AttemptLost
  <2>1. WorkflowTypeOK'
    BY <1>6, <1>5, RetryTypes DEF AttemptLost, WorkflowTypeOK
  <2> QED BY <2>1, <1>6, <1>2, <1>3 DEF AttemptLost
<1>7. CASE Start
  BY <1>7, <1>2, <1>3 DEF Start, WorkflowTypeOK
<1>8. CASE MarkInvestigating
  <2>1. StoreTypeOK'
    BY <1>8 DEF MarkInvestigating, StoreTypeOK, rowVars, Status
  <2> QED BY <2>1, <1>8, <1>2 DEF MarkInvestigating, WorkflowTypeOK
<1>9. CASE Diagnose
  <2>1. StoreTypeOK'
    BY <1>9 DEF Diagnose, StoreTypeOK, rowVars, Status
  <2>2. rca' \in {NoAction} \cup DictItem
    BY <1>9, RcaKeepsThreeActions DEF Diagnose
  <2> QED BY <2>1, <2>2, <1>9, <1>2 DEF Diagnose, WorkflowTypeOK
<1>10. CASE InvestigationFails
  BY <1>10, <1>2, <1>3, <1>5 DEF InvestigationFails, WorkflowTypeOK
<1>11. CASE ReportInvestigation
  BY <1>11, <1>2, <1>3 DEF ReportInvestigation, WorkflowTypeOK
<1>12. CASE PlanRemediation
  <2>1. plan' \in {NoPlan} \cup Plan
    BY <1>12, PlanType DEF PlanRemediation, WorkflowTypeOK
  <2> QED BY <2>1, <1>12, <1>2, <1>3 DEF PlanRemediation, WorkflowTypeOK
<1>13. CASE PlanRemediationRaises
  BY <1>13, <1>2, <1>3, RetryTypes DEF PlanRemediationRaises, WorkflowTypeOK
<1>14. CASE PolicyCheck
  <2>1. verdict' \in Verdict
    BY <1>14, VerdictType DEF PolicyCheck, GateInv
  <2> QED BY <2>1, <1>14, <1>2, <1>3 DEF PolicyCheck, WorkflowTypeOK
<1>15. CASE RequestApproval
  <2>1. StoreTypeOK'
    BY <1>15, ApprovalTypes DEF RequestApproval, StoreTypeOK, WorkflowTypeOK, RowId
  <2> QED BY <2>1, <1>15, <1>2 DEF RequestApproval, WorkflowTypeOK
<1>16. CASE RequestApprovalConflict
  BY <1>16, <1>2, <1>3, RetryTypes DEF RequestApprovalConflict, WorkflowTypeOK
<1>17. CASE ReportRequestApproval
  BY <1>17, <1>2, <1>3 DEF ReportRequestApproval, WorkflowTypeOK
<1>18. CASE ApprovalArrives
  BY <1>18, <1>2, <1>3 DEF ApprovalArrives, WorkflowTypeOK
<1>19. CASE ApprovalTimesOut
  BY <1>19, <1>2, <1>3 DEF ApprovalTimesOut, WorkflowTypeOK
<1>20. CASE UpdateIncidentStatus
  <2>1. StatusWritten \in Status
    BY <1>20 DEF UpdateIncidentStatus, StatusWritten, SetsStatus, Unlimited, StatusInv,
                 Terminal, Status
  <2>2. StoreTypeOK'
    BY <2>1, <1>20 DEF UpdateIncidentStatus, StoreTypeOK, rowVars
  <2> QED BY <2>2, <1>20, <1>2 DEF UpdateIncidentStatus, WorkflowTypeOK
<1>21. CASE ReportStatus
  <2>1. AfterStatus \in Activity \cup {"wait", "closed"}
    BY <1>21 DEF ReportStatus, AfterStatus, SetsStatus, Unlimited
  <2> QED BY <2>1, <1>21, <1>2, <1>3 DEF ReportStatus, WorkflowTypeOK
<1>22. CASE CheckExecuted
  BY <1>22, <1>2, <1>3 DEF CheckExecuted, WorkflowTypeOK
<1>23. CASE ActOnCluster
  BY <1>23, <1>2, <1>3 DEF ActOnCluster, WorkflowTypeOK
<1>24. CASE RecordSuccess
  <2>1. StoreTypeOK'
    BY <1>24 DEF RecordSuccess, StoreTypeOK
  <2> QED BY <2>1, <1>24, <1>2 DEF RecordSuccess, WorkflowTypeOK
<1>25. CASE RecordSuccessRaises
  BY <1>25, <1>2, <1>3, <1>5 DEF RecordSuccessRaises, WorkflowTypeOK
<1>26. CASE RecordFailure
  <2>1. StoreTypeOK'
    BY <1>26 DEF RecordFailure, StoreTypeOK
  <2>2. WorkflowTypeOK'
    BY <1>26, RetryTypes DEF RecordFailure, WorkflowTypeOK
  <2> QED BY <2>1, <2>2, <1>2
<1>27. CASE ReportExecution
  BY <1>27, <1>2, <1>3 DEF ReportExecution, WorkflowTypeOK
<1>28. CASE VerifyRecovery
  BY <1>28, <1>2, <1>3 DEF VerifyRecovery, WorkflowTypeOK
<1> QED
  BY <1>6, <1>7, <1>8, <1>9, <1>10, <1>11, <1>12, <1>13, <1>14, <1>15, <1>16, <1>17, <1>18,
     <1>19, <1>20, <1>21, <1>22, <1>23, <1>24, <1>25, <1>26, <1>27, <1>28
     DEF WorkflowMoves, WorkflowNext, WorkflowStep

-----------------------------------------------------------------------------
(* The gate.                                                               *)

LEMMA WorkflowGateInv == CoreInv /\ WorkflowMoves => GateInv'
<1> SUFFICES ASSUME CoreInv, WorkflowMoves PROVE GateInv'
  OBVIOUS
<1> USE DEF GateInv, AfterPolicy, AfterApproval, Cleared, GoTo, Within
<1>0. WorkflowTypeOK /\ GateInv /\ ExecutionInv /\ ApiInv
  BY DEF CoreInv, TypeOK
<1>1. UNCHANGED <<signal, decisions>>
  BY WorkflowFrame
<1>2. ASSUME RetryOrFail, UNCHANGED <<plan, verdict, k8sRuns>> PROVE GateInv'
  BY <1>0, <1>1, <1>2 DEF RetryOrFail, MaxAttempts, Limited
<1>3. step \in {"plan", "policy"} => k8sRuns = 0
  BY <1>0 DEF ExecutionInv, BeforeExecution
<1>4. CASE AttemptLost
  BY <1>4, <1>0, <1>1, <1>2 DEF AttemptLost
<1>5. CASE Start
  BY <1>5, <1>0, <1>1 DEF Start
<1>6. CASE MarkInvestigating
  BY <1>6, <1>0, <1>1 DEF MarkInvestigating
<1>7. CASE Diagnose
  BY <1>7, <1>0, <1>1 DEF Diagnose
<1>8. CASE InvestigationFails
  BY <1>8, <1>0, <1>1 DEF InvestigationFails
<1>9. CASE ReportInvestigation
  BY <1>9, <1>0, <1>1 DEF ReportInvestigation
<1>10. CASE PlanRemediation
  <2>1. plan' \in {NoPlan} \cup Plan
    BY <1>0, <1>10, PlanType, WorkflowAssumption DEF PlanRemediation, WorkflowTypeOK
  <2> QED BY <2>1, <1>10, <1>0, <1>1, <1>3 DEF PlanRemediation
<1>11. CASE PlanRemediationRaises
  BY <1>11, <1>0, <1>1, <1>2 DEF PlanRemediationRaises
<1>12. CASE PolicyCheck
  BY <1>12, <1>0, <1>1, <1>3 DEF PolicyCheck
<1>13. CASE RequestApproval
  BY <1>13, <1>0, <1>1 DEF RequestApproval
<1>14. CASE RequestApprovalConflict
  BY <1>14, <1>0, <1>1, <1>2 DEF RequestApprovalConflict
<1>15. CASE ReportRequestApproval
  BY <1>15, <1>0, <1>1 DEF ReportRequestApproval
<1>16. CASE ApprovalArrives
  BY <1>16, <1>0, <1>1 DEF ApprovalArrives, ApiInv
<1>17. CASE ApprovalTimesOut
  BY <1>17, <1>0, <1>1 DEF ApprovalTimesOut
<1>18. CASE UpdateIncidentStatus
  BY <1>18, <1>0, <1>1 DEF UpdateIncidentStatus
<1>19. CASE ReportStatus
  BY <1>19, <1>0, <1>1 DEF ReportStatus, AfterStatus, SetsStatus, Unlimited
<1>20. CASE CheckExecuted
  BY <1>20, <1>0, <1>1 DEF CheckExecuted
<1>21. CASE ActOnCluster
  BY <1>21, <1>0, <1>1 DEF ActOnCluster
<1>22. CASE RecordSuccess
  BY <1>22, <1>0, <1>1 DEF RecordSuccess
<1>23. CASE RecordSuccessRaises
  BY <1>23, <1>0, <1>1 DEF RecordSuccessRaises
<1>24. CASE RecordFailure
  BY <1>24, <1>0, <1>1, <1>2 DEF RecordFailure
<1>25. CASE ReportExecution
  BY <1>25, <1>0, <1>1 DEF ReportExecution
<1>26. CASE VerifyRecovery
  BY <1>26, <1>0, <1>1 DEF VerifyRecovery
<1> QED
  BY <1>4, <1>5, <1>6, <1>7, <1>8, <1>9, <1>10, <1>11, <1>12, <1>13, <1>14, <1>15, <1>16,
     <1>17, <1>18, <1>19, <1>20, <1>21, <1>22, <1>23, <1>24, <1>25, <1>26
     DEF WorkflowMoves, WorkflowNext, WorkflowStep

LEMMA ApiGateInv == CoreInv /\ ApiMoves => GateInv'
BY ApiFrame DEF CoreInv, GateInv, Cleared, workflowVars

-----------------------------------------------------------------------------
(* The execution and its record.                                           *)

LEMMA WorkflowExecutionInv == CoreInv /\ WorkflowMoves => ExecutionInv'
<1> SUFFICES ASSUME CoreInv, WorkflowMoves PROVE ExecutionInv'
  OBVIOUS
<1> USE WorkflowAssumption DEF ExecutionInv, BeforeExecution, GoTo, Within
<1>0. WorkflowTypeOK /\ ExecutionInv
  BY DEF CoreInv, TypeOK
<1>2. ASSUME RetryOrFail, step \in Activity, UNCHANGED <<k8sRuns, execution>>
      PROVE  ExecutionInv'
  BY <1>0, <1>2 DEF RetryOrFail, MaxAttempts, Activity, Limited, Unlimited, WorkflowTypeOK
<1>3. UNCHANGED storeVars => UNCHANGED execution
  BY DEF storeVars
<1>4. UNCHANGED rowVars => UNCHANGED execution
  BY DEF rowVars
<1>5. {"plan", "requestApproval", "execute"} \subseteq Activity
  BY DEF Activity, Limited, Unlimited
<1>6. CASE AttemptLost
  BY <1>6, <1>0, <1>3, <1>4, <1>2, <1>5 DEF AttemptLost, WorkflowTypeOK
<1>7. CASE Start
  BY <1>7, <1>0, <1>3, <1>4 DEF Start, WorkflowTypeOK
<1>8. CASE MarkInvestigating
  BY <1>8, <1>0, <1>3, <1>4 DEF MarkInvestigating, WorkflowTypeOK
<1>9. CASE Diagnose
  BY <1>9, <1>0, <1>3, <1>4 DEF Diagnose, WorkflowTypeOK
<1>10. CASE InvestigationFails
  BY <1>10, <1>0, <1>3, <1>4 DEF InvestigationFails, WorkflowTypeOK
<1>11. CASE ReportInvestigation
  BY <1>11, <1>0, <1>3, <1>4 DEF ReportInvestigation, WorkflowTypeOK
<1>12. CASE PlanRemediation
  BY <1>12, <1>0, <1>3, <1>4 DEF PlanRemediation, WorkflowTypeOK
<1>13. CASE PlanRemediationRaises
  BY <1>13, <1>0, <1>3, <1>4, <1>2, <1>5 DEF PlanRemediationRaises, WorkflowTypeOK
<1>14. CASE PolicyCheck
  BY <1>14, <1>0, <1>3, <1>4 DEF PolicyCheck, WorkflowTypeOK
<1>15. CASE RequestApproval
  BY <1>15, <1>0, <1>3, <1>4 DEF RequestApproval, WorkflowTypeOK
<1>16. CASE RequestApprovalConflict
  BY <1>16, <1>0, <1>3, <1>4, <1>2, <1>5 DEF RequestApprovalConflict, WorkflowTypeOK
<1>17. CASE ReportRequestApproval
  BY <1>17, <1>0, <1>3, <1>4 DEF ReportRequestApproval, WorkflowTypeOK
<1>18. CASE ApprovalArrives
  BY <1>18, <1>0, <1>3, <1>4 DEF ApprovalArrives, WorkflowTypeOK
<1>19. CASE ApprovalTimesOut
  BY <1>19, <1>0, <1>3, <1>4 DEF ApprovalTimesOut, WorkflowTypeOK
<1>20. CASE UpdateIncidentStatus
  BY <1>20, <1>0, <1>3, <1>4 DEF UpdateIncidentStatus, SetsStatus, Unlimited, WorkflowTypeOK
<1>21. CASE ReportStatus
  BY <1>21, <1>0, <1>3, <1>4 DEF ReportStatus, AfterStatus, SetsStatus, Unlimited, WorkflowTypeOK
<1>22. CASE CheckExecuted
  BY <1>22, <1>0, <1>3, <1>4 DEF CheckExecuted, WorkflowTypeOK
<1>23. CASE ActOnCluster
  BY <1>23, <1>0, <1>3, <1>4 DEF ActOnCluster, WorkflowTypeOK
<1>24. CASE RecordSuccess
  BY <1>24, <1>0, <1>3, <1>4 DEF RecordSuccess, WorkflowTypeOK
<1>25. CASE RecordSuccessRaises
  BY <1>25, <1>0, <1>3, <1>4 DEF RecordSuccessRaises, WorkflowTypeOK
<1>26. CASE RecordFailure
  BY <1>26, <1>0, <1>3, <1>4, <1>2, <1>5 DEF RecordFailure, WorkflowTypeOK
<1>27. CASE ReportExecution
  BY <1>27, <1>0, <1>3, <1>4 DEF ReportExecution, WorkflowTypeOK
<1>28. CASE VerifyRecovery
  BY <1>28, <1>0, <1>3, <1>4 DEF VerifyRecovery, WorkflowTypeOK
<1> QED
  BY <1>6, <1>7, <1>8, <1>9, <1>10, <1>11, <1>12, <1>13, <1>14, <1>15, <1>16, <1>17, <1>18,
     <1>19, <1>20, <1>21, <1>22, <1>23, <1>24, <1>25, <1>26, <1>27, <1>28
     DEF WorkflowMoves, WorkflowNext, WorkflowStep

LEMMA ApiExecutionInv == CoreInv /\ ApiMoves => ExecutionInv'
BY ApiFrame DEF CoreInv, ExecutionInv, workflowVars
-----------------------------------------------------------------------------
(* Decisions and signals.                                                  *)

LEMMA WorkflowApiInv == CoreInv /\ WorkflowMoves => ApiInv'
BY WorkflowFrame DEF CoreInv, ApiInv

LEMMA ApiApiInv == CoreInv /\ ApiMoves => ApiInv'
<1> SUFFICES ASSUME CoreInv, ApiMoves PROVE ApiInv'
  OBVIOUS
<1>0. StoreTypeOK /\ ApiTypeOK /\ ApiInv
  BY DEF CoreInv, TypeOK
<1>1. PICK r \in Request :
        ListRead(r) \/ ReadApproval(r) \/ EnsurePlan(r)
        \/ RequestStep(r, WorkflowRunning) \/ RequestDies(r)
  BY DEF ApiMoves, ApiNext
<1>2. decisions \subseteq decisions'
  BY ApiFrame
<1>3. \A pc : Move(r, pc) =>
         \A q \in Request : /\ req'[q].decision = req[q].decision
                            /\ req'[q].pc = IF q = r THEN pc ELSE req[q].pc
  BY <1>0 DEF Move, ApiTypeOK
<1>4. \A pc, d, id, p : Take(r, pc, d, id, p) =>
         \A q \in Request : /\ req'[q].decision = IF q = r THEN d ELSE req[q].decision
                            /\ req'[q].pc = IF q = r THEN pc ELSE req[q].pc
  BY <1>0 DEF Take, ApiTypeOK
<1> USE <1>0, <1>1, <1>2, <1>3, <1>4 DEF ApiInv
<1>5. CASE ListRead(r)
  BY <1>5 DEF ListRead
<1>6. CASE ListHeal(r)
  BY <1>6 DEF ListHeal
<1>7. CASE ReadApproval(r)
  BY <1>7 DEF ReadApproval
<1>8. CASE Commit(r)
  BY <1>8 DEF Commit
<1>9. CASE SendSignal(r, WorkflowRunning)
  BY <1>9 DEF SendSignal, AfterSignal
<1>10. CASE SignalNotSent(r, WorkflowRunning)
  BY <1>10 DEF SignalNotSent, AfterSignal
<1>11. CASE Resolve(r)
  BY <1>11 DEF Resolve
<1>12. CASE EnsurePlan(r) \/ EnsureApproval(r)
  BY <1>12 DEF EnsurePlan, EnsureApproval
<1>13. CASE InsertApproval(r)
  BY <1>13 DEF InsertApproval
<1>14. CASE ResetApproval(r)
  BY <1>14 DEF ResetApproval
<1>15. CASE RequestDies(r)
  BY <1>15 DEF RequestDies
<1> QED
  BY <1>1, <1>5, <1>6, <1>7, <1>8, <1>9, <1>10, <1>11, <1>12, <1>13, <1>14, <1>15
     DEF RequestStep
-----------------------------------------------------------------------------
(* The outcome.                                                            *)

LEMMA WorkflowOutcomeInv == 
    CoreInv /\ WorkflowMoves => StatusInv' /\ (OutcomeInv => OutcomeInv')
<1> SUFFICES ASSUME CoreInv, WorkflowMoves
             PROVE  StatusInv' /\ (OutcomeInv => OutcomeInv')
  OBVIOUS
<1> USE DEF StatusInv, OutcomeInv, UndisturbedOutcome, Terminal, SetsStatus, Unlimited, GoTo, Within
<1>0. WorkflowTypeOK /\ StatusInv
  BY DEF CoreInv, TypeOK
<1>1. UNCHANGED decisions
  BY WorkflowFrame
<1>2. ASSUME RetryOrFail, step \in Activity, UNCHANGED status
      PROVE  StatusInv' /\ (OutcomeInv => OutcomeInv')
  BY <1>0, <1>2 DEF RetryOrFail, Activity, Limited
<1>3. UNCHANGED storeVars => UNCHANGED status
  BY DEF storeVars
<1>4. {"plan", "requestApproval", "execute"} \subseteq Activity
  BY DEF Activity, Limited
<1>5. CASE AttemptLost
  BY <1>5, <1>0, <1>1, <1>3, <1>2, <1>4 DEF AttemptLost
<1>6. CASE Start
  BY <1>6, <1>0, <1>1, <1>3 DEF Start
<1>7. CASE MarkInvestigating
  BY <1>7, <1>0, <1>1, <1>3 DEF MarkInvestigating
<1>8. CASE Diagnose
  BY <1>8, <1>0, <1>1, <1>3 DEF Diagnose
<1>9. CASE InvestigationFails
  BY <1>9, <1>0, <1>1, <1>3 DEF InvestigationFails
<1>10. CASE ReportInvestigation
  BY <1>10, <1>0, <1>1, <1>3 DEF ReportInvestigation
<1>11. CASE PlanRemediation
  BY <1>11, <1>0, <1>1, <1>3 DEF PlanRemediation
<1>12. CASE PlanRemediationRaises
  BY <1>12, <1>0, <1>1, <1>3, <1>2, <1>4 DEF PlanRemediationRaises
<1>13. CASE PolicyCheck
  BY <1>13, <1>0, <1>1, <1>3 DEF PolicyCheck
<1>14. CASE RequestApproval
  BY <1>14, <1>0, <1>1, <1>3 DEF RequestApproval
<1>15. CASE RequestApprovalConflict
  BY <1>15, <1>0, <1>1, <1>3, <1>2, <1>4 DEF RequestApprovalConflict
<1>16. CASE ReportRequestApproval
  BY <1>16, <1>0, <1>1, <1>3 DEF ReportRequestApproval
<1>17. CASE ApprovalArrives
  BY <1>17, <1>0, <1>1, <1>3 DEF ApprovalArrives
<1>18. CASE ApprovalTimesOut
  BY <1>18, <1>0, <1>1, <1>3 DEF ApprovalTimesOut
<1>19. CASE UpdateIncidentStatus
  BY <1>19, <1>0, <1>1, <1>3 DEF UpdateIncidentStatus, StatusWritten
<1>20. CASE ReportStatus
  BY <1>20, <1>0, <1>1, <1>3 DEF ReportStatus, AfterStatus
<1>21. CASE CheckExecuted
  BY <1>21, <1>0, <1>1, <1>3 DEF CheckExecuted
<1>22. CASE ActOnCluster
  BY <1>22, <1>0, <1>1, <1>3 DEF ActOnCluster
<1>23. CASE RecordSuccess
  BY <1>23, <1>0, <1>1, <1>3 DEF RecordSuccess
<1>24. CASE RecordSuccessRaises
  BY <1>24, <1>0, <1>1, <1>3 DEF RecordSuccessRaises
<1>25. CASE RecordFailure
  BY <1>25, <1>0, <1>1, <1>3, <1>2, <1>4 DEF RecordFailure
<1>26. CASE ReportExecution
  BY <1>26, <1>0, <1>1, <1>3 DEF ReportExecution
<1>27. CASE VerifyRecovery
  BY <1>27, <1>0, <1>1, <1>3 DEF VerifyRecovery
<1> QED
  BY <1>5, <1>6, <1>7, <1>8, <1>9, <1>10, <1>11, <1>12, <1>13, <1>14, <1>15, <1>16, <1>17,
     <1>18, <1>19, <1>20, <1>21, <1>22, <1>23, <1>24, <1>25, <1>26, <1>27
     DEF WorkflowMoves, WorkflowNext, WorkflowStep

LEMMA ApiStatusInv == CoreInv /\ ApiMoves => StatusInv'
BY ApiFrame DEF CoreInv, StatusInv, workflowVars

LEMMA ApiOutcomeInv == IInv /\ ApiMoves => OutcomeInv'
<1> SUFFICES ASSUME IInv, ApiMoves PROVE OutcomeInv'
  OBVIOUS
<1>1. PICK r \in Request :
        ListRead(r) \/ ReadApproval(r) \/ EnsurePlan(r)
        \/ RequestStep(r, WorkflowRunning) \/ RequestDies(r)
  BY DEF ApiMoves, ApiNext
<1>2. UNCHANGED <<step, stage, outcome>> /\ decisions \subseteq decisions'
  BY ApiFrame DEF workflowVars
<1>3. UNCHANGED status \/ decisions' # {}
  <2>1. CASE Commit(r)
    BY <2>1 DEF Commit
  <2>2. CASE Resolve(r)
    BY <2>2, <1>2, <1>1 DEF Resolve, IInv, CoreInv, ApiInv
  <2> QED
    BY <1>1, <2>1, <2>2
       DEF RequestStep, ListRead, ListHeal, ReadApproval, SendSignal, SignalNotSent,
           EnsurePlan, EnsureApproval, InsertApproval, ResetApproval, RequestDies, storeVars
<1> QED BY <1>2, <1>3 DEF IInv, OutcomeInv, UndisturbedOutcome

-----------------------------------------------------------------------------
(* The theorems.                                                           *)

LEMMA NextCoreInv == CoreInv /\ [Next]_vars => CoreInv'
<1> SUFFICES ASSUME CoreInv, [Next]_vars PROVE CoreInv'
  OBVIOUS
<1>1. CASE WorkflowMoves
  BY <1>1, WorkflowTypes, WorkflowGateInv, WorkflowExecutionInv, WorkflowApiInv,
     WorkflowOutcomeInv DEF CoreInv
<1>2. CASE ApiMoves
  BY <1>2, ApiTypes, ApiGateInv, ApiExecutionInv, ApiApiInv, ApiStatusInv DEF CoreInv
<1>3. CASE UNCHANGED vars
  BY <1>3 DEF vars, storeVars, workflowVars, apiVars, CoreInv, TypeOK, StoreTypeOK,
              WorkflowTypeOK, ApiTypeOK, GateInv, Cleared, ExecutionInv, ApiInv, StatusInv
<1> QED BY <1>1, <1>2, <1>3 DEF Next

LEMMA NextIInv == IInv /\ [Next]_vars => IInv'
<1> SUFFICES ASSUME IInv, [Next]_vars PROVE OutcomeInv'
  BY NextCoreInv DEF IInv
<1>1. CASE WorkflowMoves
  BY <1>1, WorkflowOutcomeInv DEF IInv
<1>2. CASE ApiMoves
  BY <1>2, ApiOutcomeInv
<1>3. CASE UNCHANGED vars
  BY <1>3 DEF vars, storeVars, workflowVars, IInv, OutcomeInv, UndisturbedOutcome
<1> QED BY <1>1, <1>2, <1>3 DEF Next

LEMMA SpecIInv == Spec => []IInv
BY InitIInv, NextIInv, PTL DEF Spec

(* Every row, every field of the workflow and every call is well-typed,    *)
(* for any number of calls, retries and faults.                            *)
THEOREM SpecTypeOK == Spec => []TypeOK
<1>1. IInv => TypeOK
  BY DEF IInv, CoreInv
<1> QED BY <1>1, SpecIInv, PTL

(* The human gate (see IncidentLifecycle): nothing that needs approval     *)
(* runs before an operator's approval is committed.                        *)
THEOREM SpecApprovedBeforeExecution == Spec => []ApprovedBeforeExecution
<1>1. IInv => ApprovedBeforeExecution
  BY DEF IInv, CoreInv, GateInv, Cleared, ApprovedBeforeExecution
<1> QED BY <1>1, SpecIInv, PTL

(* The workflow is never told what the database does not know.             *)
THEOREM SpecSignalIsCommitted == Spec => []SignalIsCommitted
<1>1. IInv => SignalIsCommitted
  BY DEF IInv, CoreInv, ApiInv, SignalIsCommitted
<1> QED BY <1>1, SpecIInv, PTL

LEMMA CoreOnlyAllowed == CoreInv => OnlyAllowedPlansRun
<1> SUFFICES ASSUME CoreInv, k8sRuns > 0
             PROVE  /\ verdict = evaluate_policy(plan) /\ verdict.allowed
                    /\ plan.target \in AllowedDeployments
                    /\ plan.namespace \in AllowedNamespaces
                    /\ k8sRuns <= MaximumAttempts
  BY DEF OnlyAllowedPlansRun
<1>1. plan \in Plan /\ verdict = evaluate_policy(plan) /\ verdict.allowed
  BY DEF CoreInv, GateInv
<1> QED BY <1>1, AllowedIsSafe DEF CoreInv, ExecutionInv

(* No path leads around the policy engine, and the retries of the          *)
(* execution are bounded.                                                  *)
THEOREM SpecOnlyAllowedPlansRun == Spec => []OnlyAllowedPlansRun
<1>1. IInv => OnlyAllowedPlansRun
  BY CoreOnlyAllowed DEF IInv
<1> QED BY <1>1, SpecIInv, PTL

(* Verification only ever follows a recorded success.                      *)
THEOREM SpecVerifiedRunsAreRecorded == Spec => []VerifiedRunsAreRecorded
<1>1. IInv => VerifiedRunsAreRecorded
  BY DEF IInv, CoreInv, ExecutionInv, VerifiedRunsAreRecorded
<1> QED BY <1>1, SpecIInv, PTL

(* An incident no operator decided on ends in the state its workflow       *)
(* ended in.                                                               *)
THEOREM SpecUndisturbedOutcome == Spec => []UndisturbedOutcome
<1>1. IInv => UndisturbedOutcome
  BY DEF IInv, OutcomeInv
<1> QED BY <1>1, SpecIInv, PTL

(* Only _execute_k8s_action changes the cluster, and only after the        *)
(* idempotency check found no recorded success.                            *)
LEMMA OnlyActOnClusterRuns ==
    ASSUME [Next]_vars, k8sRuns' # k8sRuns
    PROVE  ActOnCluster /\ WorkflowMoves
<1>1. WorkflowMoves
  BY ApiFrame DEF Next, vars, workflowVars
<1>2. ActOnCluster
  BY <1>1 DEF WorkflowMoves, WorkflowNext, WorkflowStep,
       Start, MarkInvestigating, Diagnose, InvestigationFails, ReportInvestigation,
       PlanRemediation, PlanRemediationRaises, PolicyCheck, RequestApproval,
       RequestApprovalConflict, ReportRequestApproval, ApprovalArrives, ApprovalTimesOut,
       UpdateIncidentStatus, ReportStatus, CheckExecuted, RecordSuccess,
       RecordSuccessRaises, RecordFailure, ReportExecution, VerifyRecovery, AttemptLost
<1> QED BY <1>1, <1>2

LEMMA CoreRecordedNeverRepeated ==
    CoreInv /\ [Next]_vars => [execution = "SUCCESS" => UNCHANGED k8sRuns]_vars
BY OnlyActOnClusterRuns DEF ActOnCluster, CoreInv, ExecutionInv

(* The executor is idempotent from the moment its success is recorded.     *)
THEOREM SpecRecordedNeverRepeated == Spec => RecordedNeverRepeated
<1>1. IInv /\ [Next]_vars => [execution = "SUCCESS" => UNCHANGED k8sRuns]_vars
  BY CoreRecordedNeverRepeated DEF IInv
<1> QED BY <1>1, SpecIInv, PTL DEF Spec, RecordedNeverRepeated
-----------------------------------------------------------------------------
(* Why an incident is RESOLVED.                                            *)

\* What lets a workflow end its incident well.
NothingLeft == plan = NoPlan \/ (execution = "SUCCESS" /\ verification = "RECOVERED")

Ending == {"setOutcome", "closed"}

(* ResolvedHasReason with what it rests on: the workflow means RESOLVED    *)
(* only on its way out, and only an approving call goes on to resolve.     *)
ReasonInv ==
    /\ outcome = "RESOLVED" => step \in Ending /\ NothingLeft
    /\ \A r \in Request : req[r].pc = "resolve" => req[r].decision = "approved"
    /\ ResolvedHasReason

LEMMA InitReasonInv == Init => ReasonInv
BY DEF Init, StoreInit, WorkflowInit, ApiInit, ReasonInv, ResolvedHasReason

(* The workflow works, decides to end well, or writes how it ends.         *)
Works ==
    /\ step \notin Ending
    /\ outcome' = "RESOLVED" => outcome = "RESOLVED"
    /\ status' = "RESOLVED" => status = "RESOLVED"

EndsWell ==
    /\ outcome' = "RESOLVED" /\ step' = "setOutcome" /\ NothingLeft'
    /\ UNCHANGED status

WritesOutcome ==
    /\ step = "setOutcome" /\ step' \in Ending
    /\ status' = status \/ status' = outcome
    /\ UNCHANGED <<outcome, plan, execution, verification>>

LEMMA WorkflowEnds == CoreInv /\ WorkflowMoves => Works \/ EndsWell \/ WritesOutcome
<1> SUFFICES ASSUME CoreInv, WorkflowMoves PROVE Works \/ EndsWell \/ WritesOutcome
  OBVIOUS
<1> USE DEF Works, WritesOutcome, Ending, GoTo, Within, storeVars
<1>0. ExecutionInv /\ StatusInv
  BY DEF CoreInv
<1>1. CASE \/ Start \/ MarkInvestigating \/ Diagnose \/ InvestigationFails
           \/ ReportInvestigation \/ PolicyCheck \/ RequestApproval
           \/ ReportRequestApproval \/ ApprovalArrives \/ ApprovalTimesOut
  BY <1>1 DEF Start, MarkInvestigating, Diagnose, InvestigationFails, ReportInvestigation,
       PolicyCheck, RequestApproval, ReportRequestApproval, ApprovalArrives, ApprovalTimesOut
<1>2. CASE \/ CheckExecuted \/ ActOnCluster \/ RecordSuccess \/ RecordSuccessRaises
           \/ ReportExecution
  BY <1>2 DEF CheckExecuted, ActOnCluster, RecordSuccess, RecordSuccessRaises, ReportExecution
<1>3. ASSUME RetryOrFail, UNCHANGED <<status, plan, execution, verification>>, step \in Activity
      PROVE  Works \/ WritesOutcome
  BY <1>3 DEF RetryOrFail, Activity, Limited, Unlimited
<1>4. CASE PlanRemediationRaises \/ RequestApprovalConflict \/ RecordFailure \/ AttemptLost
  <2>1. CASE RetryOrFail
    BY <1>3, <1>4, <2>1
       DEF PlanRemediationRaises, RequestApprovalConflict, RecordFailure, AttemptLost,
           Activity, Limited, Unlimited
  <2>2. CASE RecordFailure /\ UNCHANGED outcome
    BY <2>2 DEF RecordFailure
  <2> QED
    BY <1>4, <2>1, <2>2
       DEF PlanRemediationRaises, RequestApprovalConflict, RecordFailure, AttemptLost
<1>5. CASE PlanRemediation
  BY <1>5 DEF PlanRemediation, EndsWell, NothingLeft
<1>6. CASE VerifyRecovery
  BY <1>0, <1>6 DEF VerifyRecovery, EndsWell, NothingLeft, ExecutionInv
<1>7. CASE UpdateIncidentStatus \/ ReportStatus
  BY <1>7 DEF UpdateIncidentStatus, ReportStatus, StatusWritten, AfterStatus, SetsStatus,
       Unlimited, rowVars
<1> QED
  BY <1>1, <1>2, <1>4, <1>5, <1>6, <1>7 DEF WorkflowMoves, WorkflowNext, WorkflowStep

LEMMA WorkflowReason == CoreInv /\ ReasonInv /\ WorkflowMoves => ReasonInv'
<1> SUFFICES ASSUME CoreInv, ReasonInv, WorkflowMoves PROVE ReasonInv'
  OBVIOUS
<1>1. UNCHANGED <<req, decisions>>
  BY WorkflowFrame
<1>2. CASE Works
  BY <1>1, <1>2 DEF Works, ReasonInv, ResolvedHasReason
<1>3. CASE EndsWell
  BY <1>1, <1>3 DEF EndsWell, Ending, NothingLeft, ReasonInv, ResolvedHasReason
<1>4. CASE WritesOutcome
  BY <1>1, <1>4 DEF WritesOutcome, Ending, NothingLeft, ReasonInv, ResolvedHasReason
<1> QED BY <1>2, <1>3, <1>4, WorkflowEnds

\* An approving call resolves after it committed; the others write no RESOLVED.
LEMMA ApiResolves ==
    ASSUME CoreInv, ReasonInv, ApiMoves
    PROVE  /\ status' = "RESOLVED" => status = "RESOLVED" \/ "approved" \in decisions
           /\ \A q \in Request : req'[q].pc = "resolve" => req'[q].decision = "approved"
<1>0. ApiTypeOK /\ ApiInv
  BY DEF CoreInv, TypeOK
<1>1. PICK r \in Request :
        ListRead(r) \/ ReadApproval(r) \/ EnsurePlan(r)
        \/ RequestStep(r, WorkflowRunning) \/ RequestDies(r)
  BY DEF ApiMoves, ApiNext
<1>2. /\ \A q \in Request \ {r} : req'[q] = req[q]
      /\ req'[r].pc = "resolve" => req'[r].decision = "approved"
  <2>1. ASSUME NEW pc, Move(r, pc)
        PROVE  /\ \A q \in Request \ {r} : req'[q] = req[q]
               /\ req'[r].pc = pc /\ req'[r].decision = req[r].decision
    BY <1>0, <2>1 DEF Move, ApiTypeOK
  <2>2. ASSUME NEW pc, NEW d, NEW id, NEW p, Take(r, pc, d, id, p)
        PROVE  (\A q \in Request \ {r} : req'[q] = req[q]) /\ req'[r].pc = pc
    BY <1>0, <2>2 DEF Take, ApiTypeOK
  <2>3. CASE SendSignal(r, WorkflowRunning) \/ SignalNotSent(r, WorkflowRunning)
    BY <2>1, <2>3 DEF SendSignal, SignalNotSent, AfterSignal
  <2>4. CASE ReadApproval(r) \/ EnsurePlan(r) \/ EnsureApproval(r)
    BY <2>1, <2>2, <2>4 DEF ReadApproval, EnsurePlan, EnsureApproval
  <2>5. CASE ListRead(r) \/ ListHeal(r) \/ Commit(r) \/ Resolve(r)
             \/ InsertApproval(r) \/ ResetApproval(r) \/ RequestDies(r)
    BY <2>1, <2>5 DEF ListRead, ListHeal, Commit, Resolve, InsertApproval, ResetApproval,
         RequestDies
  <2> QED BY <1>1, <2>3, <2>4, <2>5 DEF RequestStep
<1>3. status' = "RESOLVED" => status = "RESOLVED" \/ "approved" \in decisions
  <2>1. CASE Commit(r)
    BY <2>1 DEF Commit
  <2>2. CASE Resolve(r)
    BY <1>0, <2>2 DEF Resolve, ReasonInv, ApiInv
  <2> QED
    BY <1>1, <2>1, <2>2
       DEF RequestStep, ListRead, ListHeal, ReadApproval, SendSignal, SignalNotSent,
           EnsurePlan, EnsureApproval, InsertApproval, ResetApproval, RequestDies, storeVars
<1> QED BY <1>2, <1>3 DEF ReasonInv

LEMMA NextReasonInv == CoreInv /\ ReasonInv /\ [Next]_vars => ReasonInv'
<1> SUFFICES ASSUME CoreInv, ReasonInv, [Next]_vars PROVE ReasonInv'
  OBVIOUS
<1>1. CASE WorkflowMoves
  BY <1>1, WorkflowReason
<1>2. CASE ApiMoves
  BY <1>2, ApiFrame, ApiResolves
     DEF ReasonInv, ResolvedHasReason, NothingLeft, workflowVars
<1>3. CASE UNCHANGED vars
  BY <1>3 DEF vars, storeVars, rowVars, workflowVars, apiVars, ReasonInv, ResolvedHasReason,
       NothingLeft
<1> QED BY <1>1, <1>2, <1>3 DEF Next

(* No incident is marked RESOLVED for no reason, by the API or by the      *)
(* workflow.                                                               *)
THEOREM SpecResolvedHasReason == Spec => []ResolvedHasReason
<1>1. ReasonInv => ResolvedHasReason
  BY DEF ReasonInv
<1>2. IInv => CoreInv
  BY DEF IInv
<1> QED BY <1>1, <1>2, InitReasonInv, NextReasonInv, SpecIInv, PTL DEF Spec
-----------------------------------------------------------------------------
(* Refinement: every step is a step of RemediationGate or changes nothing  *)
(* of it.                                                                  *)

LEMMA InitRefines == Init => Gate!GateInit
BY DEF Init, StoreInit, WorkflowInit, Gate!GateInit, Judged

\* What a workflow step other than the four below leaves alone.
LEMMA OtherStepsStutter ==
    ASSUME WorkflowMoves, ~PolicyCheck, ~ActOnCluster, ~RecordSuccess, ~RecordFailure
    PROVE  UNCHANGED <<verdict, k8sRuns, execution, decisions>>
BY DEF WorkflowMoves, WorkflowNext, WorkflowStep, storeVars, rowVars,
       Start, MarkInvestigating, Diagnose, InvestigationFails, ReportInvestigation,
       PlanRemediation, PlanRemediationRaises, RequestApproval, InsertPending,
       RequestApprovalConflict, ReportRequestApproval, ApprovalArrives, ApprovalTimesOut,
       UpdateIncidentStatus, ReportStatus, CheckExecuted,
       RecordSuccessRaises, ReportExecution, VerifyRecovery, AttemptLost

LEMMA NextRefines == CoreInv /\ [Next]_vars => [Gate!GateNext]_(Gate!gateVars)
<1> SUFFICES ASSUME CoreInv, [Next]_vars PROVE [Gate!GateNext]_(Gate!gateVars)
  OBVIOUS
<1> USE DEF Gate!GateNext, Gate!gateVars, Judged
<1>1. CASE UNCHANGED vars
  BY <1>1 DEF vars, storeVars, workflowVars
<1>2. CASE ApiMoves
  <2>1. UNCHANGED <<execution, verdict, k8sRuns>> /\ decisions \subseteq decisions'
    BY <1>2, ApiFrame DEF workflowVars
  <2> QED BY <2>1 DEF Gate!Approve
<1>3. CASE WorkflowMoves
  <2>0. UNCHANGED decisions
    BY <1>3, WorkflowFrame
  <2>1. CASE PolicyCheck
    <3>1. verdict = NoVerdict /\ verdict' \in Verdict
      BY <2>1, VerdictType DEF PolicyCheck, CoreInv, GateInv
    <3>2. NoVerdict \notin Verdict
      BY DEF NoVerdict, Verdict
    <3> QED BY <2>0, <2>1, <3>1, <3>2 DEF PolicyCheck, Gate!Judge, storeVars
  <2>2. CASE ActOnCluster
    <3>1. /\ verdict \in Verdict /\ verdict.allowed
          /\ verdict.requires_approval => "approved" \in decisions
          /\ execution # "SUCCESS" /\ k8sRuns < MaximumAttempts
      BY <2>2, VerdictType, WorkflowAssumption
         DEF ActOnCluster, CoreInv, TypeOK, WorkflowTypeOK, GateInv, AfterPolicy, AfterApproval,
             Cleared, ExecutionInv
    <3>2. Judged = IF verdict.requires_approval THEN "ask" ELSE "auto"
      BY <3>1 DEF NoVerdict, Verdict
    <3> QED BY <2>0, <2>2, <3>1, <3>2 DEF ActOnCluster, Gate!Run, Gate!MayRun, storeVars
  <2>3. CASE RecordSuccess
    BY <2>3 DEF RecordSuccess, CoreInv, ExecutionInv, Gate!Record
  <2>4. CASE RecordFailure
    BY <2>4 DEF RecordFailure, CoreInv, ExecutionInv
  <2>5. CASE ~PolicyCheck /\ ~ActOnCluster /\ ~RecordSuccess /\ ~RecordFailure
    BY <2>5, <1>3, OtherStepsStutter
  <2> QED BY <2>1, <2>2, <2>3, <2>4, <2>5
<1> QED BY <1>1, <1>2, <1>3 DEF Next

(* The workflow, the executor and the API implement the abstract gate: one *)
(* judgement, approval before a run that needs it, a bounded number of     *)
(* runs, none after a recorded success.                                    *)
THEOREM SpecImplementsGate == Spec => ImplementsGate
<1>1. IInv => CoreInv
  BY DEF IInv
<1> QED BY <1>1, InitRefines, NextRefines, SpecIInv, PTL DEF Spec, ImplementsGate, Gate!GateSpec
=============================================================================
