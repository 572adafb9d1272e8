CONSTANTS
    Absent = Absent
    Null = Null
    NotAnInt = NotAnInt
    Target <- MCTarget
    Namespace <- MCNamespace
    AllowedDeployments <- MCAllowedDeployments
    AllowedNamespaces <- MCAllowedNamespaces
    Responses <- MCResponses

SPECIFICATION Spec

\* A decision ends: the last state has no successor.
CHECK_DEADLOCK FALSE

INVARIANTS
    TypeOK
    AllowedPlansAreSafe
    PlannerAgreesWithPolicy
    DiagnosedOnlyOnlyWhen
