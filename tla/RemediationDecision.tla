------------------------- MODULE RemediationDecision -------------------------
(***************************************************************************)
(* The pure decision functions of Aegis, shared by every path that turns   *)
(* an LLM answer into a change of the cluster:                             *)
(*                                                                         *)
(*   run_rca           agents/root_cause_agent.py    LLM answer -> actions *)
(*   plan_remediation  agents/remediation_agent.py   action -> plan        *)
(*   evaluate_policy   policies/remediation_policy.py plan -> verdict      *)
(*   CanDispatch       services/remediation/k8s_executor.py                *)
(*                                                                         *)
(* Names of services and namespaces are members of small sets; free text   *)
(* (root cause, reasons) is left out, no decision reads it.  A list of     *)
(* recommended actions is represented by its head: the planner reads       *)
(* nothing else of it.                                                     *)
(***************************************************************************)
EXTENDS Integers, Sequences

CONSTANTS
    Target,              \* deployment names that can appear in a plan
    Namespace,           \* namespaces that can appear in a plan
    AllowedDeployments,  \* settings.allowed_deployments
    AllowedNamespaces,   \* settings.allowed_namespaces
    Absent,              \* a key the LLM's object does not have
    Null,                \* a key whose JSON value is not a string
    NotAnInt             \* a "replicas" value that is not a Python int

ASSUME DecisionAssumption ==
    /\ AllowedDeployments \subseteq Target
    /\ AllowedNamespaces \subseteq Namespace
    /\ Absent \notin Target \cup Namespace \cup Int
    /\ Null \notin Target \cup Namespace
    /\ NotAnInt \notin Int
    /\ Absent # NotAnInt
-----------------------------------------------------------------------------
(* Enumerations and tables.                                                *)

RemediationAction ==
    {"RESTART_POD", "SCALE_DEPLOYMENT", "ROLLBACK_DEPLOYMENT",
     "CHANGE_CONFIG", "DELETE_RESOURCE", "DATABASE_MUTATION"}

RiskLevel == {"LOW", "MEDIUM", "HIGH", "FORBIDDEN"}

\* The policy engine's own table ...
RISK_TABLE ==
    [a \in RemediationAction |->
        CASE a \in {"RESTART_POD", "SCALE_DEPLOYMENT"} -> "LOW"
          [] a = "ROLLBACK_DEPLOYMENT" -> "MEDIUM"
          [] a = "CHANGE_CONFIG" -> "HIGH"
          [] a \in {"DELETE_RESOURCE", "DATABASE_MUTATION"} -> "FORBIDDEN"]

\* Mutant: the two tables drift apart.
RiskMapDrift ==
    [RISK_TABLE EXCEPT !["ROLLBACK_DEPLOYMENT"] = "LOW"]

\* ... and the planner's copy of it, kept by hand in another file.
ACTION_RISK_MAP ==
    [a \in RemediationAction |->
        CASE a \in {"RESTART_POD", "SCALE_DEPLOYMENT"} -> "LOW"
          [] a = "ROLLBACK_DEPLOYMENT" -> "MEDIUM"
          [] a = "CHANGE_CONFIG" -> "HIGH"
          [] a \in {"DELETE_RESOURCE", "DATABASE_MUTATION"} -> "FORBIDDEN"]

FORBIDDEN_ACTIONS == {"DELETE_RESOURCE", "DATABASE_MUTATION"}
REQUIRES_APPROVAL == {"ROLLBACK_DEPLOYMENT", "CHANGE_CONFIG"}

MAX_AUTO_SCALE_REPLICAS == 10
MIN_AUTO_SCALE_REPLICAS == 1
-----------------------------------------------------------------------------
(* Root-cause agent: what survives of the LLM's recommended actions.       *)

Keyword == {"ROLLBACK", "RESTART", "SCALE"}

\* One element of the LLM's list is an object or a sentence.  `action` is the
\* name once upper-cased ("OTHER": none of the enumeration), `upper` tells
\* whether the LLM spelled it in upper case; `words` are the keywords the
\* sentence contains.  An element of any other type is dropped by the loop,
\* as a sentence with no keyword is.
DictItem ==
    [form: {"dict"}, action: RemediationAction \cup {"OTHER"}, upper: BOOLEAN,
     target: Target \cup {Absent, Null},
     namespace: Namespace \cup {Absent, Null},
     replicas: Int \cup {Absent, NotAnInt}]

TextItem == [form: {"text"}, words: SUBSET Keyword]

\* The provider's answer: JSON object, JSON of another type, or no JSON
\* (or values its conversions refuse).
LlmResponse ==
    [kind: {"object", "notObject", "malformed"},
     items: Seq(DictItem \cup TextItem), suspected: Target]

RCA_ALLOWED_ACTIONS == {"RESTART_POD", "SCALE_DEPLOYMENT", "ROLLBACK_DEPLOYMENT"}

NoAction == [action |-> "NONE"]

\* The object run_rca builds itself, for a sentence and for the default.
Recommend(action, component, ns) ==
    [form |-> "dict", action |-> action, upper |-> TRUE, target |-> component,
     namespace |-> ns, replicas |-> Absent]

\* Mutant: every action that is not forbidden is kept.
KeptUnlessForbidden(item) ==
    \/ item.form = "dict" /\ item.action \in RemediationAction \ FORBIDDEN_ACTIONS
    \/ item.form = "text" /\ item.words # {}

\* Is this element appended to safe_actions?
KeptByRca(item) ==
    \/ item.form = "dict" /\ item.action \in RCA_ALLOWED_ACTIONS
    \/ item.form = "text" /\ item.words # {}

FromText(words, component, ns) ==
    Recommend(IF "ROLLBACK" \in words THEN "ROLLBACK_DEPLOYMENT"
              ELSE IF "RESTART" \in words THEN "RESTART_POD"
              ELSE "SCALE_DEPLOYMENT", component, ns)

\* An object is kept as it is, its action name in the LLM's own spelling.
Normalised(item, component, ns) ==
    IF item.form = "text" THEN FromText(item.words, component, ns) ELSE item

\* run_rca raises on JSON that is not an object, or whose lists are not lists:
\* AttributeError and TypeError are not among the exceptions its fallback catches.
RcaRaises(response) == response.kind = "notObject"

\* Mutant: the filter on action names is bypassed.
RunRcaKeepsFirst(response, ns) ==
    IF response.kind = "malformed" \/ response.items = <<>> THEN NoAction
    ELSE Normalised(response.items[1], response.suspected, ns)

\* recommended_actions[0] of the RootCauseAnalysis, or NoAction when it is empty.
run_rca(response, ns) ==
    LET kept == {i \in DOMAIN response.items : KeptByRca(response.items[i])}
    IN  IF response.kind = "malformed" THEN NoAction
        ELSE IF kept = {}
        THEN Recommend("ROLLBACK_DEPLOYMENT", response.suspected, ns)
        ELSE LET first == CHOOSE i \in kept : \A j \in kept : i <= j
             IN  Normalised(response.items[first], response.suspected, ns)
-----------------------------------------------------------------------------
(* Remediation planner.                                                    *)

NoPlan == [action |-> "NONE"]

Plan ==
    [action: RemediationAction, target: Target, namespace: Namespace,
     replicas: Int \cup {Absent, NotAnInt}, risk_level: RiskLevel,
     requires_approval: BOOLEAN]

\* Mutant: a missing key is passed on.
OrElseNothing(value, default) == value

OrElse(value, default) == IF value = Absent THEN default ELSE value

\* RemediationAction(action_str) succeeds and the action is not forbidden.
Recognised(rec) ==
    /\ rec # NoAction
    /\ rec.upper
    /\ rec.action \in RemediationAction
    /\ ACTION_RISK_MAP[rec.action] # "FORBIDDEN"

\* pydantic refuses a target or namespace that is not a string: the activity
\* raises instead of returning a plan.  (A "reason" that is not a string, which
\* the planner slices, ends the same way and is not told apart.)
PlanRaises(rec) ==
    Recognised(rec) /\ (rec.target = Null \/ rec.namespace = Null)

plan_remediation(rec, service, ns) ==
    IF ~Recognised(rec) THEN NoPlan
    ELSE [action |-> rec.action,
          target |-> OrElse(rec.target, service),
          namespace |-> OrElse(rec.namespace, ns),
          replicas |-> IF rec.action = "SCALE_DEPLOYMENT"
                       THEN OrElse(rec.replicas, 3) ELSE Absent,
          risk_level |-> ACTION_RISK_MAP[rec.action],
          requires_approval |-> ACTION_RISK_MAP[rec.action] \in {"MEDIUM", "HIGH"}]
-----------------------------------------------------------------------------
(* Policy engine.                                                          *)

Reason ==
    {"forbidden_action", "namespace_not_allowed", "target_not_allowed",
     "invalid_parameter", "replica_limit_exceeded", "replica_minimum_violated"}

Verdict ==
    [allowed: BOOLEAN, requires_approval: BOOLEAN, risk_level: RiskLevel,
     reason: Reason \cup {"none"}]

Rejected(reason, risk) ==
    [allowed |-> FALSE, requires_approval |-> FALSE, risk_level |-> risk,
     reason |-> reason]

\* plan.parameters.get("replicas", 2)
RequestedReplicas(plan) == OrElse(plan.replicas, 2)

\* The bounds rule, for SCALE_DEPLOYMENT only: the reason it gives, or "none".
ParameterRule(plan) ==
    IF plan.action # "SCALE_DEPLOYMENT" THEN "none"
    ELSE IF RequestedReplicas(plan) \notin Int THEN "invalid_parameter"
    ELSE IF RequestedReplicas(plan) > MAX_AUTO_SCALE_REPLICAS
         THEN "replica_limit_exceeded"
    ELSE IF RequestedReplicas(plan) < MIN_AUTO_SCALE_REPLICAS
         THEN "replica_minimum_violated"
    ELSE "none"

\* The checks in the order of their early returns.
evaluate_policy(plan) ==
    IF plan.action \in FORBIDDEN_ACTIONS
    THEN Rejected("forbidden_action", "FORBIDDEN")
    ELSE IF plan.namespace \notin AllowedNamespaces
    THEN Rejected("namespace_not_allowed", "HIGH")
    ELSE IF plan.target \notin AllowedDeployments
    THEN Rejected("target_not_allowed", "HIGH")
    ELSE IF ParameterRule(plan) # "none"
    THEN Rejected(ParameterRule(plan), "HIGH")
    ELSE [allowed |-> TRUE,
          requires_approval |-> plan.action \in REQUIRES_APPROVAL,
          risk_level |-> RISK_TABLE[plan.action], reason |-> "none"]
-----------------------------------------------------------------------------
(* Executor: _execute_k8s_action has a branch for the action, and          *)
(* int(replicas) does not raise.                                           *)
CanDispatch(plan) ==
    \/ plan.action \in {"RESTART_POD", "ROLLBACK_DEPLOYMENT"}
    \/ plan.action = "SCALE_DEPLOYMENT" /\ RequestedReplicas(plan) \in Int
=============================================================================
