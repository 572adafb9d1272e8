CONSTANTS
    Absent = Absent
    Null = Null
    NotAnInt = NotAnInt
    Target = {"payment"}
    Namespace = {"production"}
    AllowedDeployments = {"payment"}
    AllowedNamespaces = {"production"}
    Service = "payment"
    ServiceNamespace = "production"
    Responses <- MCAllResponses
    SyncService = "payment"
    SyncNamespace = "production"
    SyncResponses <- MCSyncResponses
    r1 = r1
    r2 = r2
    Request = {r1, r2}
    WorkflowRow = wf
    SyncRow = sync
    MaximumAttempts = 3
    MaxWorkerFaults = 3
    MaxApiFaults = 1
    MaxSyncFaults = 1

SPECIFICATION FairFallbackSpec

CONSTRAINT FewDisturbances

\* The workflow closes, the calls return, the fallback ends.
CHECK_DEADLOCK FALSE

INVARIANTS
    FallbackTypeOK
    ApprovedBeforeExecution
    SignalIsCommitted
    OnlyAllowedPlansRun
    VerifiedRunsAreRecorded
    OutcomeStands
    ResolvedHasReason
    AwaitingHasApproval
    QuestionStaysOpen
    NoAnswerIsLost

PROPERTIES
    RecordedNeverRepeated
    ImplementsGate
    DecisionIsHonoured
    WorkflowGetsSomewhere
