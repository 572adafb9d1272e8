----------------------- MODULE FallbackLifecycleProofs -----------------------
(***************************************************************************)
(* The safety properties of FallbackLifecycle for any number of approval   *)
(* calls, any LLM answers and any number of faults.  What the workflow and *)
(* the API do by themselves comes from IncidentLifecycleProofs; here the   *)
(* fallback is put beside them.                                            *)
(***************************************************************************)
EXTENDS FallbackLifecycle, IncidentLifecycleProofs
-----------------------------------------------------------------------------
(* The inductive invariant.                                                *)

(* Nothing in the database refers to the fallback's plan.                  *)
NoTrace ==
    /\ SyncRow \notin plans /\ newest # SyncRow
    /\ approvals[SyncRow].status = "none"
    /\ \A id \in RowId \ {SyncRow} : approvals[id].plan # SyncRow
    /\ \A r \in Request : req[r].plan # SyncRow /\ req[r].approval # SyncRow

(* Until the fallback ends its transaction: so the executor's record never *)
(* finds the plan it refers to.                                            *)
TraceInv == syncStage \in {"idle", "diagnose", "persist"} => NoTrace

(* A call that decides on an approval holds the key of a row.              *)
CallsStand ==
    \A r \in Request :
        /\ req[r].pc \in {"ensure", "insert"} => req[r].approval = r
        /\ req[r].pc \in {"reset", "commit"} => req[r].approval \in ApprovalRows

(* Approval rows stay, and the newest is one of them; the status says      *)
(* AWAITING_APPROVAL only once there is one.                               *)
AskInv ==
    /\ ApprovalRows # {} => newest \in ApprovalRows
    /\ \/ step = "requestApproval" /\ stage = "done"
       \/ step \in {"setAwaiting", "wait"}
       => WorkflowRow \in ApprovalRows
    /\ CallsStand
    /\ AwaitingHasApproval

(* Before the first decision nothing but PENDING has been written to an    *)
(* approval, and no call wants to reset one.                               *)
UndecidedInv ==
    decisions = {} =>
        /\ \A id \in ApprovalRows : approvals[id].status = "PENDING"
        /\ \A r \in Request : req[r].pc # "reset"
        /\ approvals[WorkflowRow].plan = WorkflowRow

(* The workflow's question is asked by a workflow that was started, and    *)
(* its answer is not lost.                                                 *)
AnswerInv ==
    /\ WorkflowRow \in ApprovalRows => step # "notStarted"
    /\ NoAnswerIsLost

FallbackInv ==
    CoreInv /\ SyncTypeOK /\ TraceInv /\ AskInv /\ UndecidedInv /\ AnswerInv

LEMMA InitFallbackInv == FallbackInit => FallbackInv
<1> SUFFICES ASSUME FallbackInit PROVE FallbackInv
  OBVIOUS
<1> USE StoreAssumption DEF FallbackInit, SyncInit, Init, StoreInit, ApiInit, WorkflowInit
<1>1. CoreInv
  BY InitIInv DEF IInv
<1>2. SyncTypeOK
  BY SyncAssumption DEF SyncTypeOK
<1>3. ApprovalRows = {} /\ SyncRow \in RowId /\ WorkflowRow \in RowId
  BY DEF ApprovalRows, RowId
<1>4. TraceInv
  BY <1>3 DEF TraceInv, NoTrace
<1>5. AskInv
  BY <1>3 DEF AskInv, AwaitingHasApproval, CallsStand
<1>6. UndecidedInv
  BY <1>3 DEF UndecidedInv
<1>7. AnswerInv
  BY <1>3 DEF AnswerInv, NoAnswerIsLost
<1> QED BY <1>1, <1>2, <1>4, <1>5, <1>6, <1>7 DEF FallbackInv
-----------------------------------------------------------------------------
(* What a step of the workflow does to the rows of the API.                *)

\* request_approval_activity is the only step that writes plans or approvals.
LEMMA OnlyRequestApprovalInserts ==
    ASSUME WorkflowMoves, ~RequestApproval
    PROVE  UNCHANGED <<plans, approvals, newest>>
BY DEF WorkflowMoves, WorkflowNext, WorkflowStep, storeVars, rowVars,
       Start, MarkInvestigating, Diagnose, InvestigationFails, ReportInvestigation,
       PlanRemediation, PlanRemediationRaises, PolicyCheck,
       RequestApprovalConflict, ReportRequestApproval, ApprovalArrives, ApprovalTimesOut,
       UpdateIncidentStatus, ReportStatus, CheckExecuted, ActOnCluster, RecordSuccess,
       RecordSuccessRaises, RecordFailure, ReportExecution, VerifyRecovery, AttemptLost

\* Only setAwaiting writes AWAITING_APPROVAL.
LEMMA WorkflowAwaits ==
    ASSUME CoreInv, WorkflowMoves, status' = "AWAITING_APPROVAL", status' # status
    PROVE  step = "setAwaiting"
<1>1. outcome \in {"none", "RESOLVED", "FAILED", "ERROR", "TIMEOUT"}
  BY DEF CoreInv, TypeOK, WorkflowTypeOK
<1> QED
  BY <1>1 DEF WorkflowMoves, WorkflowNext, WorkflowStep, storeVars, rowVars,
       Start, MarkInvestigating, Diagnose, InvestigationFails, ReportInvestigation,
       PlanRemediation, PlanRemediationRaises, PolicyCheck, RequestApproval,
       RequestApprovalConflict, ReportRequestApproval, ApprovalArrives, ApprovalTimesOut,
       UpdateIncidentStatus, SetsStatus, Unlimited, StatusWritten,
       ReportStatus, CheckExecuted, ActOnCluster, RecordSuccess,
       RecordSuccessRaises, RecordFailure, ReportExecution, VerifyRecovery, AttemptLost

Asked ==
    \/ step = "requestApproval" /\ stage = "done"
    \/ step \in {"setAwaiting", "wait"}

\* No way to the wait but through request_approval_activity.
LEMMA AskedByRequest ==
    ASSUME WorkflowMoves, ~RequestApproval, Asked'
    PROVE  Asked
<1> USE DEF Asked, GoTo, Within
<1>1. RetryOrFail => Asked
  BY DEF RetryOrFail
<1>2. ReportStatus => Asked
  BY DEF ReportStatus, AfterStatus, SetsStatus, Unlimited
<1>3. CASE PlanRemediation \/ PlanRemediationRaises \/ PolicyCheck \/ Start \/ MarkInvestigating
           \/ Diagnose \/ InvestigationFails \/ ReportInvestigation
  BY <1>1, <1>3 DEF PlanRemediation, PlanRemediationRaises, PolicyCheck, Start,
       MarkInvestigating, Diagnose, InvestigationFails, ReportInvestigation
<1>4. CASE RequestApprovalConflict \/ ReportRequestApproval \/ ApprovalArrives
           \/ ApprovalTimesOut \/ UpdateIncidentStatus \/ AttemptLost
  BY <1>1, <1>4 DEF RequestApprovalConflict, ReportRequestApproval, ApprovalArrives,
       ApprovalTimesOut, UpdateIncidentStatus, SetsStatus, Unlimited, AttemptLost
<1>5. CASE CheckExecuted \/ ActOnCluster \/ RecordSuccess \/ RecordSuccessRaises
           \/ RecordFailure \/ ReportExecution \/ VerifyRecovery
  BY <1>1, <1>5 DEF CheckExecuted, ActOnCluster, RecordSuccess, RecordSuccessRaises,
       RecordFailure, ReportExecution, VerifyRecovery
<1> QED BY <1>2, <1>3, <1>4, <1>5 DEF WorkflowMoves, WorkflowNext, WorkflowStep
-----------------------------------------------------------------------------
(* Types, and what the invariant of the others says, beside the fallback.  *)

LEMMA FallbackCore == CoreInv /\ SyncTypeOK /\ FallbackMoves => CoreInv' /\ SyncTypeOK'
<1> SUFFICES ASSUME CoreInv, SyncTypeOK, FallbackMoves PROVE CoreInv' /\ SyncTypeOK'
  OBVIOUS
<1>1. StoreTypeOK' /\ UNCHANGED <<execution, decisions, signal>>
  <2>1. StoreTypeOK /\ SyncRow \in RowId
    BY DEF CoreInv, TypeOK, RowId
  <2>2. CASE SyncAsk
    BY <2>1, <2>2, ApprovalTypes DEF SyncAsk, StoreTypeOK, Status
  <2>3. CASE SyncMarkInvestigating(WorkflowRunning) \/ SyncExecute \/ SyncDeny
             \/ SyncWithoutPlan \/ SyncFailed
    BY <2>1, <2>3 DEF SyncMarkInvestigating, SyncExecute, SyncDeny, SyncWithoutPlan, SyncFailed,
                      rowVars, StoreTypeOK, Status
  <2>4. CASE SyncDiagnose \/ SyncRaises \/ SyncDies
    BY <2>1, <2>4 DEF SyncDiagnose, SyncRaises, SyncDies, storeVars, StoreTypeOK
  <2> QED BY <2>2, <2>3, <2>4 DEF FallbackMoves, FallbackNext
<1>2. CoreInv'
  BY <1>1 DEF FallbackMoves, workflowVars, apiVars, CoreInv, TypeOK, WorkflowTypeOK, ApiTypeOK,
              GateInv, Cleared, ExecutionInv, ApiInv, StatusInv
<1>3. SyncTypeOK'
  <2> USE SyncAssumption DEF SyncTypeOK, SyncFault
  <2>1. CASE SyncDiagnose
    <3>1. PICK response \in SyncResponses :
            LET rec == run_rca(response, SyncNamespace)
            IN  IF RcaRaises(response) \/ PlanRaises(rec)
                THEN syncStage' = "failing" /\ UNCHANGED syncPlan
                ELSE /\ syncStage' = "persist"
                     /\ syncPlan' = plan_remediation(rec, SyncService, SyncNamespace)
      BY <2>1 DEF SyncDiagnose
    <3>2. run_rca(response, SyncNamespace) \in {NoAction} \cup DictItem
      BY RcaKeepsThreeActions
    <3>3. syncPlan' \in {NoPlan} \cup Plan
      BY <3>1, <3>2, PlanType
    <3> QED BY <2>1, <3>1, <3>3 DEF SyncDiagnose
  <2>2. CASE SyncMarkInvestigating(WorkflowRunning) \/ SyncExecute \/ SyncAsk \/ SyncDeny
             \/ SyncWithoutPlan
    BY <2>2 DEF SyncMarkInvestigating, SyncExecute, SyncAsk, SyncDeny, SyncWithoutPlan
  <2>3. CASE SyncRaises \/ SyncFailed \/ SyncDies
    BY <2>3 DEF SyncRaises, SyncFailed, SyncDies
  <2> QED BY <2>1, <2>2, <2>3 DEF FallbackMoves, FallbackNext
<1> QED BY <1>2, <1>3
-----------------------------------------------------------------------------
(* The trace of the fallback.                                              *)

LEMMA WorkflowNoTrace == CoreInv /\ WorkflowMoves /\ NoTrace => NoTrace'
<1> SUFFICES ASSUME CoreInv, WorkflowMoves, NoTrace PROVE NoTrace'
  OBVIOUS
<1>1. UNCHANGED req
  BY WorkflowFrame
<1>2. CASE RequestApproval
  <2>1. approvals \in [RowId -> [status: {"none", "PENDING", "APPROVED", "REJECTED"}, plan: RowId]]
    BY DEF CoreInv, TypeOK, StoreTypeOK
  <2>2. InsertPending(WorkflowRow, WorkflowRow) /\ WorkflowRow # SyncRow
    BY <1>2, StoreAssumption DEF RequestApproval
  <2> QED BY <1>1, <2>1, <2>2 DEF InsertPending, NoTrace, ApprovalRows
<1>3. CASE ~RequestApproval
  BY <1>1, <1>3, OnlyRequestApprovalInserts DEF NoTrace, ApprovalRows
<1> QED BY <1>2, <1>3

LEMMA ApiNoTrace == CoreInv /\ ApiMoves /\ NoTrace => NoTrace'
<1> SUFFICES ASSUME CoreInv, ApiMoves, NoTrace PROVE NoTrace'
  OBVIOUS
<1>1. PICK r \in Request :
        ListRead(r) \/ ReadApproval(r) \/ EnsurePlan(r)
        \/ RequestStep(r, WorkflowRunning) \/ RequestDies(r)
  BY DEF ApiMoves, ApiNext
<1>2. r # SyncRow /\ r \in RowId /\ SyncRow \in RowId
  BY StoreAssumption DEF RowId
<1>3. /\ approvals \in [RowId -> [status: {"none", "PENDING", "APPROVED", "REJECTED"}, plan: RowId]]
      /\ req \in [Request -> Call]
  BY DEF CoreInv, TypeOK, StoreTypeOK, ApiTypeOK
<1>4. \A pc : Move(r, pc) =>
         \A q \in Request : req'[q].plan # SyncRow /\ req'[q].approval # SyncRow
  BY <1>3 DEF Move, NoTrace, Call
<1>5. \A pc, d, id, p : Take(r, pc, d, id, p) /\ id # SyncRow /\ p # SyncRow =>
         \A q \in Request : req'[q].plan # SyncRow /\ req'[q].approval # SyncRow
  BY <1>3 DEF Take, NoTrace
<1> USE <1>2, <1>3 DEF NoTrace, ApprovalRows
<1>6. CASE ListRead(r) \/ SendSignal(r, WorkflowRunning) \/ SignalNotSent(r, WorkflowRunning)
           \/ Resolve(r) \/ RequestDies(r)
  BY <1>6, <1>4 DEF ListRead, SendSignal, SignalNotSent, Resolve, RequestDies, storeVars, rowVars
<1>7. CASE ReadApproval(r) \/ EnsurePlan(r)
  BY <1>7, <1>5 DEF ReadApproval, EnsurePlan, storeVars
<1>8. CASE EnsureApproval(r)
  BY <1>8, <1>4, <1>5 DEF EnsureApproval, storeVars
<1>9. CASE ListHeal(r)
  <2>1. PICK p \in IF plans = {} THEN {r} ELSE plans :
          IF ApprovalRows = {} THEN InsertPending(r, p)
          ELSE /\ \E id \in ApprovalRows :
                     IF approvals[id].status # "PENDING" THEN SetPending(id, p)
                     ELSE UNCHANGED approvals
               /\ UNCHANGED <<plans, newest>>
    BY <1>9 DEF ListHeal
  <2>2. p # SyncRow
    BY <2>1
  <2>3. \A q \in Request : req'[q].plan # SyncRow /\ req'[q].approval # SyncRow
    BY <1>9, <1>4 DEF ListHeal
  <2>4. CASE InsertPending(r, p)
    BY <2>2, <2>3, <2>4 DEF InsertPending
  <2>5. CASE UNCHANGED <<plans, newest, approvals>>
    BY <2>3, <2>5
  <2>6. CASE UNCHANGED <<plans, newest>> /\ \E id \in ApprovalRows : SetPending(id, p)
    BY <2>2, <2>3, <2>6 DEF SetPending
  <2> QED BY <2>1, <2>4, <2>5, <2>6
<1>10. CASE Commit(r)
  <2>1. req[r].plan # SyncRow /\ req[r].approval # SyncRow /\ req[r].approval \in RowId
    BY DEF Call
  <2>2. /\ \A id \in RowId : approvals'[id].plan = approvals[id].plan
        /\ approvals'[SyncRow].status = approvals[SyncRow].status
    BY <1>10, <2>1 DEF Commit
  <2>3. \A q \in Request : req'[q].plan # SyncRow /\ req'[q].approval # SyncRow
    BY <1>10, <1>4 DEF Commit
  <2> QED BY <1>10, <2>1, <2>2, <2>3 DEF Commit
<1>11. CASE InsertApproval(r)
  BY <1>11, <1>4 DEF InsertApproval, InsertPending
<1>12. CASE ResetApproval(r)
  BY <1>12, <1>4 DEF ResetApproval, SetPending, Call
<1> QED
  BY <1>1, <1>6, <1>7, <1>8, <1>9, <1>10, <1>11, <1>12 DEF RequestStep
-----------------------------------------------------------------------------
\* The fallback leaves no trace before it ends its transaction.
LEMMA FallbackTrace == TraceInv /\ FallbackMoves => TraceInv'
<1> SUFFICES ASSUME TraceInv, FallbackMoves PROVE TraceInv'
  OBVIOUS
<1>1. UNCHANGED req
  BY DEF FallbackMoves, apiVars
<1>2. UNCHANGED <<plans, approvals, newest>> /\ NoTrace => NoTrace'
  BY <1>1 DEF NoTrace
<1> USE <1>2 DEF TraceInv
<1>3. CASE SyncMarkInvestigating(WorkflowRunning) \/ SyncDiagnose
  BY <1>3 DEF SyncMarkInvestigating, SyncDiagnose, storeVars, rowVars
<1>4. CASE SyncExecute \/ SyncAsk \/ SyncDeny \/ SyncWithoutPlan \/ SyncRaises
           \/ SyncFailed \/ SyncDies
  BY <1>4 DEF SyncExecute, SyncAsk, SyncDeny, SyncWithoutPlan, SyncRaises, SyncFailed, SyncDies
<1> QED BY <1>3, <1>4 DEF FallbackMoves, FallbackNext

LEMMA LifecycleTrace == CoreInv /\ TraceInv /\ LifecycleMoves => TraceInv'
BY WorkflowNoTrace, ApiNoTrace DEF LifecycleMoves, Next, TraceInv, syncVars
-----------------------------------------------------------------------------
(* Asking: approval rows stay, and are there when somebody is asked.       *)

(* No step deletes an approval, and the newest is one of them.             *)
RowsGrow ==
    /\ ApprovalRows \subseteq ApprovalRows'
    /\ ApprovalRows' # {} => newest' \in ApprovalRows'

LEMMA InsertGrows ==
    ASSUME StoreTypeOK, NEW id \in RowId, NEW p, InsertPending(id, p)
    PROVE  RowsGrow /\ id \in ApprovalRows'
BY DEF InsertPending, RowsGrow, ApprovalRows, StoreTypeOK

LEMMA ApiRowsGrow == CoreInv /\ AskInv /\ ApiMoves => RowsGrow
<1> SUFFICES ASSUME CoreInv, AskInv, ApiMoves PROVE RowsGrow
  OBVIOUS
<1>1. PICK r \in Request :
        ListRead(r) \/ ReadApproval(r) \/ EnsurePlan(r)
        \/ RequestStep(r, WorkflowRunning) \/ RequestDies(r)
  BY DEF ApiMoves, ApiNext
<1>2. r \in RowId /\ StoreTypeOK /\ ApiTypeOK
  BY DEF RowId, CoreInv, TypeOK
<1>3. UNCHANGED <<approvals, newest>> => RowsGrow
  BY DEF RowsGrow, AskInv, ApprovalRows
<1>4. ASSUME NEW id, NEW p, SetPending(id, p), UNCHANGED newest, ApprovalRows # {}
      PROVE  RowsGrow
  BY <1>2, <1>4 DEF SetPending, RowsGrow, AskInv, ApprovalRows, StoreTypeOK
<1>5. CASE ListRead(r) \/ SendSignal(r, WorkflowRunning) \/ SignalNotSent(r, WorkflowRunning)
           \/ Resolve(r) \/ RequestDies(r) \/ ReadApproval(r) \/ EnsurePlan(r)
           \/ EnsureApproval(r)
  BY <1>5, <1>3 DEF ListRead, SendSignal, SignalNotSent, Resolve, RequestDies, ReadApproval,
       EnsurePlan, EnsureApproval, storeVars, rowVars
<1>6. CASE ListHeal(r)
  BY <1>6, <1>2, <1>3, <1>4, InsertGrows DEF ListHeal
<1>7. CASE InsertApproval(r)
  BY <1>7, <1>2, InsertGrows DEF InsertApproval
<1>8. CASE ResetApproval(r)
  BY <1>8, <1>2, <1>4 DEF ResetApproval, AskInv, CallsStand
<1>9. CASE Commit(r)
  <2>1. req[r].approval \in ApprovalRows
    BY <1>9 DEF Commit, AskInv, CallsStand
  <2>2. \A id \in RowId :
           \/ approvals'[id].status = approvals[id].status
           \/ id = req[r].approval /\ approvals'[id].status # "none"
    BY <1>9, <2>1, <1>2 DEF Commit, ApprovalRows, StoreTypeOK
  <2>3. ApprovalRows' = ApprovalRows
    BY <2>1, <2>2 DEF ApprovalRows
  <2> QED BY <1>9, <2>1, <2>3 DEF Commit, RowsGrow, AskInv
<1> QED BY <1>1, <1>5, <1>6, <1>7, <1>8, <1>9 DEF RequestStep

\* Where a call stands, beside the rows.
LEMMA ApiAsk == CoreInv /\ AskInv /\ ApiMoves => AskInv'
<1> SUFFICES ASSUME CoreInv, AskInv, ApiMoves PROVE AskInv'
  OBVIOUS
<1>1. PICK r \in Request :
        ListRead(r) \/ ReadApproval(r) \/ EnsurePlan(r)
        \/ RequestStep(r, WorkflowRunning) \/ RequestDies(r)
  BY DEF ApiMoves, ApiNext
<1>2. r \in RowId /\ StoreTypeOK /\ ApiTypeOK /\ ApiInv
  BY DEF RowId, CoreInv, TypeOK
<1>3. RowsGrow /\ UNCHANGED <<step, stage>>
  BY ApiRowsGrow, ApiFrame DEF workflowVars
<1>4. status' = "AWAITING_APPROVAL" => status = status'
  BY <1>1, <1>2 DEF ListRead, ListHeal, ReadApproval, Commit, SendSignal, SignalNotSent, Resolve,
       EnsurePlan, EnsureApproval, InsertApproval, ResetApproval, RequestDies, RequestStep,
       storeVars
<1>5. CallsStand'
  <2>1. CallsStand /\ ApprovalRows \subseteq ApprovalRows'
    BY <1>3 DEF AskInv, RowsGrow
  <2>2. \A pc : /\ Move(r, pc)
                /\ \/ pc \in {"heal", "signal", "resolve", "done"}
                   \/ pc = "insert" /\ req[r].pc = "ensure"
                   \/ pc = "commit" /\ req[r].approval \in ApprovalRows'
                => CallsStand'
    BY <2>1, <1>2 DEF Move, ApiTypeOK, CallsStand
  <2>3. \A pc, d, id, p :
            /\ Take(r, pc, d, id, p)
            /\ \/ pc \in {"reset", "commit"} /\ id \in ApprovalRows
               \/ pc = "ensure" /\ id = r
            => CallsStand'
    BY <2>1, <1>2 DEF Take, ApiTypeOK, CallsStand
  <2>4. CASE ListRead(r) \/ ListHeal(r) \/ Commit(r) \/ SendSignal(r, WorkflowRunning)
             \/ SignalNotSent(r, WorkflowRunning) \/ Resolve(r) \/ RequestDies(r)
    BY <2>2, <2>4 DEF ListRead, ListHeal, Commit, SendSignal, SignalNotSent, Resolve, RequestDies,
         AfterSignal
  <2>5. CASE ReadApproval(r) \/ EnsurePlan(r)
    BY <2>3, <2>5 DEF ReadApproval, EnsurePlan
  <2>6. CASE EnsureApproval(r)
    <3>1. CASE ApprovalRows = {}
      BY <3>1, <2>2, <2>6 DEF EnsureApproval
    <3>2. CASE ApprovalRows # {}
      <4>1. Take(r, IF approvals[newest].status = "PENDING" THEN "commit" ELSE "reset",
                 req[r].decision, newest, req[r].plan)
        BY <3>2, <2>6 DEF EnsureApproval
      <4>2. newest \in ApprovalRows
        BY <3>2 DEF AskInv
      <4> QED BY <4>1, <4>2, <2>3
    <3> QED BY <3>1, <3>2
  <2>7. CASE InsertApproval(r)
    <3>1. req[r].approval = r /\ Move(r, "commit") /\ InsertPending(r, req[r].plan)
      BY <2>7, <2>1 DEF InsertApproval, CallsStand
    <3> QED BY <3>1, <2>2, <1>2, InsertGrows
  <2>8. CASE ResetApproval(r)
    BY <2>2, <2>8, <1>3, <2>1 DEF ResetApproval, CallsStand
  <2> QED BY <1>1, <2>4, <2>5, <2>6, <2>7, <2>8 DEF RequestStep
<1> QED BY <1>3, <1>4, <1>5 DEF AskInv, RowsGrow, AwaitingHasApproval

LEMMA WorkflowAsk == CoreInv /\ AskInv /\ WorkflowMoves => AskInv'
<1> SUFFICES ASSUME CoreInv, AskInv, WorkflowMoves PROVE AskInv'
  OBVIOUS
<1>1. UNCHANGED req
  BY WorkflowFrame
<1>2. RowsGrow /\ (RequestApproval => WorkflowRow \in ApprovalRows')
  <2>1. CASE RequestApproval
    BY <2>1, InsertGrows DEF RequestApproval, RowId, CoreInv, TypeOK
  <2>2. CASE ~RequestApproval
    BY <2>2, OnlyRequestApprovalInserts DEF RowsGrow, AskInv, ApprovalRows
  <2> QED BY <2>1, <2>2
<1>3. Asked' => WorkflowRow \in ApprovalRows'
  BY <1>2, AskedByRequest DEF Asked, AskInv, RowsGrow
<1>4. AwaitingHasApproval'
  BY <1>2, WorkflowAwaits DEF AskInv, AwaitingHasApproval, RowsGrow
<1> QED BY <1>1, <1>2, <1>3, <1>4 DEF AskInv, RowsGrow, Asked, CallsStand

LEMMA FallbackAsk == CoreInv /\ AskInv /\ FallbackMoves => AskInv'
<1> SUFFICES ASSUME CoreInv, AskInv, FallbackMoves PROVE AskInv'
  OBVIOUS
<1>1. UNCHANGED <<req, step, stage>>
  BY DEF FallbackMoves, apiVars, workflowVars
<1>2. RowsGrow /\ (SyncAsk => ApprovalRows' # {})
  <2>1. CASE SyncAsk
    BY <2>1, InsertGrows DEF SyncAsk, RowId, CoreInv, TypeOK
  <2>2. CASE ~SyncAsk
    BY <2>2 DEF FallbackMoves, FallbackNext, SyncMarkInvestigating, SyncDiagnose, SyncExecute,
         SyncDeny, SyncWithoutPlan, SyncRaises, SyncFailed, SyncDies, storeVars, rowVars,
         RowsGrow, AskInv, ApprovalRows
  <2> QED BY <2>1, <2>2
<1>3. status' = "AWAITING_APPROVAL" => status = status' \/ SyncAsk
  BY DEF FallbackMoves, FallbackNext, SyncMarkInvestigating, SyncDiagnose, SyncExecute, SyncDeny,
       SyncWithoutPlan, SyncRaises, SyncFailed, SyncDies, storeVars
<1> QED BY <1>1, <1>2, <1>3 DEF AskInv, RowsGrow, AwaitingHasApproval, CallsStand
-----------------------------------------------------------------------------
(* Before the first decision.                                              *)

LEMMA ApiUndecided == CoreInv /\ AskInv /\ UndecidedInv /\ ApiMoves => UndecidedInv'
<1> SUFFICES ASSUME CoreInv, AskInv, UndecidedInv, ApiMoves, decisions' = {}
             PROVE  UndecidedInv'
  BY DEF UndecidedInv
<1>1. PICK r \in Request :
        ListRead(r) \/ ReadApproval(r) \/ EnsurePlan(r)
        \/ RequestStep(r, WorkflowRunning) \/ RequestDies(r)
  BY DEF ApiMoves, ApiNext
<1>2. r \in RowId /\ r # WorkflowRow /\ StoreTypeOK /\ ApiTypeOK
  BY StoreAssumption DEF RowId, CoreInv, TypeOK
<1>3. decisions = {}
  BY ApiFrame
<1>4. /\ \A id \in ApprovalRows : approvals[id].status = "PENDING"
      /\ \A q \in Request : req[q].pc # "reset"
      /\ approvals[WorkflowRow].plan = WorkflowRow
  BY <1>3 DEF UndecidedInv
<1>5. \A pc : Move(r, pc) /\ pc # "reset" => \A q \in Request : req'[q].pc # "reset"
  BY <1>2, <1>4 DEF Move, ApiTypeOK
<1>6. \A pc, d, id, p :
         Take(r, pc, d, id, p) /\ pc # "reset" => \A q \in Request : req'[q].pc # "reset"
  BY <1>2, <1>4 DEF Take, ApiTypeOK
<1>7. \A p : InsertPending(r, p) =>
         /\ \A id \in ApprovalRows' : approvals'[id].status = "PENDING"
         /\ approvals'[WorkflowRow].plan = WorkflowRow
  BY <1>2, <1>4 DEF InsertPending, ApprovalRows, StoreTypeOK
<1>8. UNCHANGED approvals =>
         /\ \A id \in ApprovalRows' : approvals'[id].status = "PENDING"
         /\ approvals'[WorkflowRow].plan = WorkflowRow
  BY <1>4 DEF ApprovalRows
<1>9. CASE ListRead(r) \/ SendSignal(r, WorkflowRunning) \/ SignalNotSent(r, WorkflowRunning)
           \/ Resolve(r) \/ RequestDies(r)
  BY <1>9, <1>5, <1>8 DEF ListRead, SendSignal, AfterSignal, SignalNotSent, Resolve, RequestDies,
       storeVars, rowVars, UndecidedInv
<1>10. CASE ReadApproval(r) \/ EnsurePlan(r)
  BY <1>10, <1>6, <1>8 DEF ReadApproval, EnsurePlan, storeVars, UndecidedInv
<1>11. CASE EnsureApproval(r)
  <2>1. CASE ApprovalRows = {}
    BY <2>1, <1>11, <1>5, <1>8 DEF EnsureApproval, storeVars, UndecidedInv
  <2>2. CASE ApprovalRows # {}
    <3>1. approvals[newest].status = "PENDING"
      BY <2>2, <1>4 DEF AskInv
    <3>2. Take(r, "commit", req[r].decision, newest, req[r].plan)
      BY <2>2, <3>1, <1>11 DEF EnsureApproval
    <3> QED BY <3>2, <1>6, <1>8, <1>11 DEF EnsureApproval, storeVars, UndecidedInv
  <2> QED BY <2>1, <2>2
<1>12. CASE ListHeal(r)
  BY <1>12, <1>4, <1>5, <1>7, <1>8 DEF ListHeal, UndecidedInv
<1>13. CASE InsertApproval(r)
  BY <1>13, <1>5, <1>7 DEF InsertApproval, UndecidedInv
<1>14. CASE Commit(r) \/ ResetApproval(r)
  BY <1>14, <1>4 DEF Commit, ResetApproval
<1> QED
  BY <1>1, <1>9, <1>10, <1>11, <1>12, <1>13, <1>14 DEF RequestStep

LEMMA WorkflowUndecided == CoreInv /\ UndecidedInv /\ WorkflowMoves => UndecidedInv'
<1> SUFFICES ASSUME CoreInv, UndecidedInv, WorkflowMoves PROVE UndecidedInv'
  OBVIOUS
<1>1. UNCHANGED <<req, decisions>>
  BY WorkflowFrame
<1>2. CASE RequestApproval
  BY <1>1, <1>2 DEF RequestApproval, InsertPending, UndecidedInv, ApprovalRows, RowId, CoreInv,
                    TypeOK, StoreTypeOK
<1>3. CASE ~RequestApproval
  BY <1>1, <1>3, OnlyRequestApprovalInserts DEF UndecidedInv, ApprovalRows
<1> QED BY <1>2, <1>3

LEMMA FallbackUndecided == CoreInv /\ UndecidedInv /\ FallbackMoves => UndecidedInv'
<1> SUFFICES ASSUME CoreInv, UndecidedInv, FallbackMoves PROVE UndecidedInv'
  OBVIOUS
<1>1. UNCHANGED req
  BY DEF FallbackMoves, apiVars
<1>2. CASE SyncAsk
  BY <1>1, <1>2, StoreAssumption
     DEF SyncAsk, InsertPending, UndecidedInv, ApprovalRows, RowId, CoreInv, TypeOK, StoreTypeOK
<1>3. CASE ~SyncAsk
  BY <1>1, <1>3 DEF FallbackMoves, FallbackNext, SyncMarkInvestigating, SyncDiagnose, SyncExecute,
       SyncDeny, SyncWithoutPlan, SyncRaises, SyncFailed, SyncDies, storeVars, rowVars,
       UndecidedInv, ApprovalRows
<1> QED BY <1>2, <1>3
-----------------------------------------------------------------------------
(* The answer to the workflow's question.                                  *)

Answered == approvals[WorkflowRow].status \in {"APPROVED", "REJECTED"}

\* The workflow starts once, and does not move once it is closed.
LEMMA WorkflowStarts ==
    WorkflowMoves => step' # "notStarted" /\ step # "closed"
<1> SUFFICES ASSUME WorkflowMoves PROVE step' # "notStarted" /\ step # "closed"
  OBVIOUS
<1> USE DEF GoTo, Within
<1>1. RetryOrFail /\ step # "notStarted" => step' # "notStarted"
  BY DEF RetryOrFail
<1>2. CASE Start \/ PlanRemediation \/ PlanRemediationRaises \/ PolicyCheck
           \/ MarkInvestigating \/ Diagnose \/ InvestigationFails \/ ReportInvestigation
  BY <1>1, <1>2 DEF PlanRemediation, PlanRemediationRaises, PolicyCheck, Start,
       MarkInvestigating, Diagnose, InvestigationFails, ReportInvestigation
<1>3. CASE RequestApproval \/ RequestApprovalConflict \/ ReportRequestApproval
           \/ ApprovalArrives \/ ApprovalTimesOut
  BY <1>1, <1>3 DEF RequestApproval, RequestApprovalConflict, ReportRequestApproval,
       ApprovalArrives, ApprovalTimesOut
<1>4. CASE UpdateIncidentStatus \/ ReportStatus \/ AttemptLost
  BY <1>1, <1>4 DEF UpdateIncidentStatus, ReportStatus, AfterStatus, AttemptLost, SetsStatus,
       Unlimited, Activity, Limited
<1>5. CASE CheckExecuted \/ ActOnCluster \/ RecordSuccess \/ RecordSuccessRaises
           \/ RecordFailure \/ ReportExecution \/ VerifyRecovery
  BY <1>1, <1>5 DEF CheckExecuted, ActOnCluster, RecordSuccess, RecordSuccessRaises,
       RecordFailure, ReportExecution, VerifyRecovery
<1> QED BY <1>2, <1>3, <1>4, <1>5 DEF WorkflowMoves, WorkflowNext, WorkflowStep

LEMMA WorkflowAnswer == CoreInv /\ AnswerInv /\ WorkflowMoves => AnswerInv'
<1> SUFFICES ASSUME CoreInv, AnswerInv, WorkflowMoves PROVE AnswerInv'
  OBVIOUS
<1>1. UNCHANGED <<signal, req, apiFaults>> /\ step' # "notStarted" /\ step # "closed"
  BY WorkflowFrame, WorkflowStarts
<1>2. Answered' => Answered /\ step # "notStarted"
  <2>1. CASE RequestApproval
    BY <2>1 DEF RequestApproval, InsertPending, Answered, CoreInv, TypeOK, StoreTypeOK, RowId
  <2>2. CASE ~RequestApproval
    BY <2>2, OnlyRequestApprovalInserts DEF Answered, AnswerInv, ApprovalRows, RowId
  <2> QED BY <2>1, <2>2
<1> QED BY <1>1, <1>2 DEF AnswerInv, NoAnswerIsLost, Answered, WorkflowRunning

LEMMA ApiAnswer == CoreInv /\ AskInv /\ AnswerInv /\ ApiMoves => AnswerInv'
<1> SUFFICES ASSUME CoreInv, AskInv, AnswerInv, ApiMoves PROVE AnswerInv'
  OBVIOUS
<1>1. PICK r \in Request :
        ListRead(r) \/ ReadApproval(r) \/ EnsurePlan(r)
        \/ RequestStep(r, WorkflowRunning) \/ RequestDies(r)
  BY DEF ApiMoves, ApiNext
<1>2. /\ r \in Request /\ r \in RowId /\ r # WorkflowRow /\ WorkflowRow \in RowId
      /\ StoreTypeOK /\ ApiTypeOK /\ ApiInv /\ CallsStand
  BY <1>1, StoreAssumption DEF RowId, CoreInv, TypeOK, AskInv
<1>3. UNCHANGED step
  BY ApiFrame DEF workflowVars
<1>4. apiFaults \in Nat /\ (ApiFault => apiFaults' > 0)
  BY <1>2, ApiAssumption DEF ApiTypeOK, ApiFault
<1>5. WorkflowRow \in ApprovalRows' => WorkflowRow \in ApprovalRows
  BY <1>1, <1>2 DEF RequestStep, storeVars, rowVars, InsertPending, SetPending, ListRead, ListHeal,
       ReadApproval, Commit, SendSignal, SignalNotSent, Resolve, EnsurePlan, EnsureApproval,
       InsertApproval, ResetApproval, RequestDies, ApprovalRows, CallsStand, StoreTypeOK
<1> SUFFICES NoAnswerIsLost'
  BY <1>3, <1>5 DEF AnswerInv
<1>6. ASSUME UNCHANGED <<signal, apiFaults>>, Answered' => Answered, req[r].pc # "signal",
             \A q \in Request \ {r} : req'[q] = req[q]
      PROVE  NoAnswerIsLost'
  BY <1>3, <1>6 DEF AnswerInv, NoAnswerIsLost, Answered, WorkflowRunning
<1>7. \A q \in Request \ {r} : req'[q] = req[q]
  BY <1>1, <1>2 DEF RequestStep, ListRead, ListHeal, ReadApproval, Commit, SendSignal,
       SignalNotSent, Resolve, EnsurePlan, EnsureApproval, InsertApproval, ResetApproval,
       RequestDies, Move, Take, ApiTypeOK
<1>8. CASE Commit(r)
  <2>1. req'[r].pc = "signal"
    BY <1>8, <1>2 DEF Commit, Move, ApiTypeOK
  <2> QED BY <2>1, <1>2 DEF NoAnswerIsLost
<1>9. CASE SendSignal(r, WorkflowRunning)
  <2>1. signal' # "none"
    BY <1>9, <1>2 DEF SendSignal, ApiInv, StoreTypeOK
  <2> QED BY <2>1 DEF NoAnswerIsLost
<1>10. CASE SignalNotSent(r, WorkflowRunning)
  <2>1. ~WorkflowRunning' \/ apiFaults' > 0
    BY <1>10, <1>3, <1>4 DEF SignalNotSent, WorkflowRunning
  <2> QED BY <2>1 DEF NoAnswerIsLost
<1>11. CASE RequestDies(r)
  BY <1>11, <1>4 DEF RequestDies, NoAnswerIsLost
<1>12. CASE ListRead(r) \/ ReadApproval(r) \/ EnsurePlan(r) \/ EnsureApproval(r) \/ Resolve(r)
  BY <1>12, <1>2, <1>6, <1>7 DEF ListRead, ReadApproval, EnsurePlan, EnsureApproval, Resolve, storeVars,
       rowVars, Answered
<1>13. CASE ListHeal(r)
  <2>1. Answered' => Answered
    BY <1>13, <1>2 DEF ListHeal, InsertPending, SetPending, Answered, StoreTypeOK, ApprovalRows
  <2> QED BY <1>13, <2>1, <1>6, <1>7 DEF ListHeal
<1>14. CASE InsertApproval(r)
  <2>1. Answered' => Answered
    BY <1>14, <1>2 DEF InsertApproval, InsertPending, Answered, StoreTypeOK
  <2> QED BY <1>14, <2>1, <1>6, <1>7 DEF InsertApproval
<1>15. CASE ResetApproval(r)
  <2>1. Answered' => Answered
    BY <1>15, <1>2 DEF ResetApproval, SetPending, Answered, StoreTypeOK
  <2> QED BY <1>15, <2>1, <1>6, <1>7 DEF ResetApproval
<1> QED
  BY <1>1, <1>8, <1>9, <1>10, <1>11, <1>12, <1>13, <1>14, <1>15 DEF RequestStep

LEMMA FallbackAnswer == CoreInv /\ AnswerInv /\ FallbackMoves => AnswerInv'
<1> SUFFICES ASSUME CoreInv, AnswerInv, FallbackMoves PROVE AnswerInv'
  OBVIOUS
<1>1. UNCHANGED <<req, apiFaults, step>>
  BY DEF FallbackMoves, apiVars, workflowVars
<1>2. UNCHANGED signal
  BY DEF FallbackMoves, FallbackNext, SyncMarkInvestigating, SyncDiagnose, SyncExecute, SyncAsk,
       SyncDeny, SyncWithoutPlan, SyncRaises, SyncFailed, SyncDies
<1>3. approvals'[WorkflowRow] = approvals[WorkflowRow]
  <2>1. CASE SyncAsk
    BY <2>1, StoreAssumption DEF SyncAsk, InsertPending, CoreInv, TypeOK, StoreTypeOK, RowId
  <2>2. CASE ~SyncAsk
    BY <2>2 DEF FallbackMoves, FallbackNext, SyncMarkInvestigating, SyncDiagnose, SyncExecute,
         SyncDeny, SyncWithoutPlan, SyncRaises, SyncFailed, SyncDies, storeVars, rowVars
  <2> QED BY <2>1, <2>2
<1> QED BY <1>1, <1>2, <1>3 DEF AnswerInv, NoAnswerIsLost, WorkflowRunning, ApprovalRows
-----------------------------------------------------------------------------
(* The theorems.                                                           *)

LEMMA NextFallbackInv ==
    FallbackInv /\ [LifecycleMoves \/ FallbackMoves]_allVars => FallbackInv'
<1> SUFFICES ASSUME FallbackInv, [LifecycleMoves \/ FallbackMoves]_allVars PROVE FallbackInv'
  OBVIOUS
<1>1. CASE LifecycleMoves
  <2>1. CoreInv' /\ SyncTypeOK'
    BY <1>1, NextCoreInv DEF FallbackInv, LifecycleMoves, SyncTypeOK, syncVars
  <2>2. TraceInv'
    BY <1>1, LifecycleTrace DEF FallbackInv
  <2>3. AskInv' /\ UndecidedInv' /\ AnswerInv'
    BY <1>1, WorkflowAsk, ApiAsk, WorkflowUndecided, ApiUndecided, WorkflowAnswer, ApiAnswer
       DEF FallbackInv, LifecycleMoves, Next
  <2> QED BY <2>1, <2>2, <2>3 DEF FallbackInv
<1>2. CASE FallbackMoves
  BY <1>2, FallbackCore, FallbackTrace, FallbackAsk, FallbackUndecided, FallbackAnswer
     DEF FallbackInv
<1>3. CASE UNCHANGED allVars
  <2>1. UNCHANGED vars /\ UNCHANGED syncVars
    BY <1>3 DEF allVars
  <2>2. CoreInv'
    BY <2>1, NextCoreInv DEF FallbackInv
  <2> QED BY <2>1, <2>2 DEF vars, storeVars, apiVars, workflowVars, syncVars, FallbackInv,
              SyncTypeOK, TraceInv, NoTrace, AskInv, CallsStand, AwaitingHasApproval,
              UndecidedInv, ApprovalRows, AnswerInv, NoAnswerIsLost, WorkflowRunning
<1> QED BY <1>1, <1>2, <1>3

LEMMA SpecFallbackInv == FallbackSpec => []FallbackInv
BY InitFallbackInv, NextFallbackInv, PTL DEF FallbackSpec

(* Rows, workflow, calls and fallback stay well-typed beside each other.   *)
THEOREM FallbackSpecTypeOK == FallbackSpec => []FallbackTypeOK
<1>1. FallbackInv => FallbackTypeOK
  BY DEF FallbackInv, CoreInv, FallbackTypeOK
<1> QED BY <1>1, SpecFallbackInv, PTL

(* Until a fallback begins, the incident is left as an undisturbed         *)
(* workflow meant to leave it.                                             *)
THEOREM SpecOutcomeStands == FallbackSpec => []OutcomeStands
<1> DEFINE Stands == syncStage = "idle" => OutcomeInv
<1>1. FallbackInit => Stands
  BY InitIInv DEF FallbackInit, IInv
<1>2. FallbackInv /\ Stands /\ [LifecycleMoves \/ FallbackMoves]_allVars => Stands'
  <2> SUFFICES ASSUME FallbackInv, Stands, [LifecycleMoves \/ FallbackMoves]_allVars,
                      (syncStage = "idle")'
               PROVE  OutcomeInv'
    OBVIOUS
  <2>1. ~FallbackMoves
    BY DEF FallbackMoves, FallbackNext, SyncMarkInvestigating, SyncDiagnose, SyncExecute, SyncAsk,
           SyncDeny, SyncWithoutPlan, SyncRaises, SyncFailed, SyncDies
  <2>2. IInv /\ [Next]_vars
    BY <2>1 DEF LifecycleMoves, allVars, syncVars, IInv, FallbackInv
  <2> QED BY <2>2, NextIInv DEF IInv
<1>3. Stands => OutcomeStands
  BY DEF OutcomeInv, OutcomeStands
<1> QED BY <1>1, <1>2, <1>3, SpecFallbackInv, PTL DEF FallbackSpec

(* An incident that says AWAITING_APPROVAL has an approval row.            *)
THEOREM SpecAwaitingHasApproval == FallbackSpec => []AwaitingHasApproval
<1>1. FallbackInv => AwaitingHasApproval
  BY DEF FallbackInv, AskInv
<1> QED BY <1>1, SpecFallbackInv, PTL

(* Nobody but an operator takes away the question the workflow waits on.   *)
THEOREM SpecQuestionStaysOpen == FallbackSpec => []QuestionStaysOpen
<1>1. FallbackInv => QuestionStaysOpen
  <2> SUFFICES ASSUME FallbackInv, step = "wait", decisions = {}
               PROVE  approvals[WorkflowRow] = [status |-> "PENDING", plan |-> WorkflowRow]
    BY DEF QuestionStaysOpen
  <2>1. WorkflowRow \in ApprovalRows
    BY DEF FallbackInv, AskInv
  <2>2. approvals[WorkflowRow].status = "PENDING" /\ approvals[WorkflowRow].plan = WorkflowRow
    BY <2>1 DEF FallbackInv, UndecidedInv
  <2>3. approvals[WorkflowRow] \in
           [status: {"none", "PENDING", "APPROVED", "REJECTED"}, plan: RowId]
    BY DEF FallbackInv, CoreInv, TypeOK, StoreTypeOK, RowId
  <2> QED BY <2>2, <2>3
<1> QED BY <1>1, SpecFallbackInv, PTL

(* While no call dies and no signal fails, an answer given to the workflow *)
(* that still runs has reached it or is on its way.                        *)
THEOREM SpecNoAnswerIsLost == FallbackSpec => []NoAnswerIsLost
<1>1. FallbackInv => NoAnswerIsLost
  BY DEF FallbackInv, AnswerInv
<1> QED BY <1>1, SpecFallbackInv, PTL

\* The fallback never gets to write RESOLVED.
LEMMA FallbackReason == ReasonInv /\ TraceInv /\ FallbackMoves => ReasonInv'
<1> SUFFICES ASSUME ReasonInv, TraceInv, FallbackMoves PROVE ReasonInv'
  OBVIOUS
<1>1. /\ UNCHANGED <<step, outcome, plan, verification, req, execution, decisions>>
      /\ status' = "RESOLVED" => status = "RESOLVED"
  BY DEF FallbackMoves, workflowVars, apiVars, FallbackNext, SyncMarkInvestigating, SyncDiagnose,
         SyncExecute, SyncRecordAccepted, TraceInv, NoTrace, SyncAsk, SyncDeny, SyncWithoutPlan,
         SyncRaises, SyncFailed, SyncDies, storeVars, rowVars
<1> QED BY <1>1 DEF ReasonInv, ResolvedHasReason, NothingLeft

(* What the workflow and the API keep to, they keep to beside the fallback *)
(* as well: it shares their rows and breaks none of it.  (It does write    *)
(* the status: see OutcomeStands.)                                         *)
THEOREM FallbackKeepsLifecycle ==
    FallbackSpec =>
        /\ [](ApprovedBeforeExecution /\ SignalIsCommitted)
        /\ [](OnlyAllowedPlansRun /\ VerifiedRunsAreRecorded)
        /\ []ResolvedHasReason
        /\ RecordedNeverRepeated
<1>1. FallbackInv => ApprovedBeforeExecution /\ SignalIsCommitted
  BY DEF FallbackInv, CoreInv, GateInv, Cleared, ApprovedBeforeExecution, ApiInv,
         SignalIsCommitted
<1>2. FallbackInv => OnlyAllowedPlansRun /\ VerifiedRunsAreRecorded
  BY CoreOnlyAllowed DEF FallbackInv, CoreInv, ExecutionInv, VerifiedRunsAreRecorded
<1>3. FallbackInv /\ [LifecycleMoves \/ FallbackMoves]_allVars
         => [execution = "SUCCESS" => UNCHANGED k8sRuns]_vars
  BY CoreRecordedNeverRepeated
     DEF FallbackInv, LifecycleMoves, FallbackMoves, workflowVars, allVars
<1>4. FallbackInit => ReasonInv
  BY InitReasonInv DEF FallbackInit
<1>5. FallbackInv /\ ReasonInv /\ [LifecycleMoves \/ FallbackMoves]_allVars => ReasonInv'
  BY NextReasonInv, FallbackReason DEF FallbackInv, LifecycleMoves, allVars
<1>6. ReasonInv => ResolvedHasReason
  BY DEF ReasonInv
<1> QED
  BY <1>1, <1>2, <1>3, <1>4, <1>5, <1>6, SpecFallbackInv, PTL
     DEF FallbackSpec, RecordedNeverRepeated

(* With the fallback beside them the workflow, the executor and the API    *)
(* still implement the gate: it writes none of what the gate is made of.   *)
THEOREM FallbackImplementsGate == FallbackSpec => ImplementsGate
<1>1. FallbackInv /\ [LifecycleMoves \/ FallbackMoves]_allVars
         => [Gate!GateNext]_(Gate!gateVars)
  <2> SUFFICES ASSUME FallbackInv, [LifecycleMoves \/ FallbackMoves]_allVars
               PROVE  [Gate!GateNext]_(Gate!gateVars)
    OBVIOUS
  <2>1. CASE LifecycleMoves \/ UNCHANGED allVars
    BY <2>1, NextRefines DEF FallbackInv, LifecycleMoves, allVars
  <2>2. CASE FallbackMoves
    <3>1. UNCHANGED <<verdict, k8sRuns, execution, decisions>>
      BY <2>2 DEF FallbackMoves, workflowVars, FallbackNext, SyncMarkInvestigating, SyncDiagnose,
           SyncExecute, SyncAsk, SyncDeny, SyncWithoutPlan, SyncRaises, SyncFailed, SyncDies,
           storeVars, rowVars
    <3> QED BY <3>1 DEF Gate!gateVars, Judged
  <2> QED BY <2>1, <2>2
<1>2. FallbackInit => Gate!GateInit
  BY InitRefines DEF FallbackInit
<1> QED
  BY <1>1, <1>2, SpecFallbackInv, PTL DEF FallbackSpec, ImplementsGate, Gate!GateSpec
=============================================================================
