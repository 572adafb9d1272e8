CONSTANTS
    Absent = Absent
    Null = Null
    NotAnInt = NotAnInt
    Target = {"payment"}
    Namespace = {"production"}
    AllowedDeployments = {"payment"}
    AllowedNamespaces = {"production"}
    Service = "payment"
    ServiceNamespace = "production"
    Responses <- MCAskOnly
    Request = {r1}
    WorkflowRow = wf
    SyncRow = sync
    MaximumAttempts = 3
    MaxWorkerFaults = 0
    MaxApiFaults = 0

SPECIFICATION Spec

\* The workflow closes and the calls return: the last state has no successor.
CHECK_DEADLOCK FALSE

INVARIANTS
    VerifiedBeforeResolved
