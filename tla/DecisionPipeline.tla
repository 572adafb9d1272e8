-------------------------- MODULE DecisionPipeline ---------------------------
(***************************************************************************)
(* The three decision functions in the order every caller applies them     *)
(* (workflow activities and the investigator's synchronous path): run_rca, *)
(* plan_remediation, evaluate_policy.  One behaviour decides one incident. *)
(***************************************************************************)
EXTENDS RemediationDecision

CONSTANTS Responses   \* the LLM answers considered, a subset of LlmResponse

ASSUME ResponsesAssumption == Responses \subseteq LlmResponse

VARIABLES
    stage,      \* "rca", "planning", "policy" or how the decision ended
    service,    \* the incident's service
    namespace,  \* the incident's namespace
    response,   \* the LLM's answer
    action,     \* recommended_actions[0], or NoAction
    plan,       \* the planner's plan, or NoPlan
    verdict     \* evaluate_policy's result

vars == <<stage, service, namespace, response, action, plan, verdict>>

NoVerdict == [allowed |-> FALSE]

Ended == {"raised", "diagnosedOnly", "denied", "auto", "ask"}

TypeOK ==
    /\ stage \in {"rca", "planning", "policy"} \cup Ended
    /\ service \in Target /\ namespace \in Namespace
    /\ response \in Responses
    /\ action \in {NoAction} \cup DictItem
    /\ plan \in {NoPlan} \cup Plan
    /\ verdict \in {NoVerdict} \cup Verdict

Init ==
    /\ stage = "rca"
    /\ service \in Target /\ namespace \in Namespace
    /\ response \in Responses
    /\ action = NoAction /\ plan = NoPlan /\ verdict = NoVerdict

RunRca ==
    /\ stage = "rca"
    /\ IF RcaRaises(response)
       THEN stage' = "raised" /\ UNCHANGED action
       ELSE stage' = "planning" /\ action' = run_rca(response, namespace)
    /\ UNCHANGED <<service, namespace, response, plan, verdict>>

PlanRemediation ==
    /\ stage = "planning"
    /\ IF PlanRaises(action)
       THEN stage' = "raised" /\ UNCHANGED plan
       ELSE /\ plan' = plan_remediation(action, service, namespace)
            /\ stage' = IF plan' = NoPlan THEN "diagnosedOnly" ELSE "policy"
    /\ UNCHANGED <<service, namespace, response, action, verdict>>

PolicyCheck ==
    /\ stage = "policy"
    /\ verdict' = evaluate_policy(plan)
    /\ stage' = IF ~verdict'.allowed THEN "denied"
                ELSE IF verdict'.requires_approval THEN "ask" ELSE "auto"
    /\ UNCHANGED <<service, namespace, response, action, plan>>

Next == RunRca \/ PlanRemediation \/ PolicyCheck

Spec == Init /\ [][Next]_vars
-----------------------------------------------------------------------------
(* Whatever the LLM answered, a plan that reaches the executor names a     *)
(* whitelisted deployment and namespace, one of the three actions the      *)
(* executor can dispatch and, when it scales, between one and ten          *)
(* replicas.  CHANGE_CONFIG passes the policy engine but has no branch in  *)
(* the executor: only the root-cause agent's filter keeps it out.          *)
AllowedPlansAreSafe ==
    stage \in {"auto", "ask"} =>
        /\ CanDispatch(plan)
        /\ plan.target \in AllowedDeployments
        /\ plan.namespace \in AllowedNamespaces
        /\ plan.action = "SCALE_DEPLOYMENT" =>
              RequestedReplicas(plan) \in MIN_AUTO_SCALE_REPLICAS .. MAX_AUTO_SCALE_REPLICAS

(* The planner stores its own risk level and approval flag on the plan     *)
(* (they go to the database and to the approval screen) and the policy     *)
(* engine recomputes both from its own tables: on a plan that is allowed   *)
(* to run they agree, so an operator never sees "no approval needed" on a  *)
(* plan the workflow is waiting for, or the reverse.                       *)
PlannerAgreesWithPolicy ==
    stage \in {"auto", "ask"} =>
        /\ plan.requires_approval = verdict.requires_approval
        /\ plan.risk_level = verdict.risk_level

(* An incident is closed as "diagnosed only" for one of two reasons: the   *)
(* answer could not be parsed, or the first action that passed the         *)
(* root-cause agent's case-insensitive filter is refused by the planner's  *)
(* case-sensitive one.  An answer that recommends nothing usable still     *)
(* gets the default rollback.                                              *)
DiagnosedOnlyOnlyWhen ==
    stage = "diagnosedOnly" =>
        \/ response.kind = "malformed"
        \/ \E i \in DOMAIN response.items :
              /\ response.items[i].form = "dict"
              /\ ~response.items[i].upper
              /\ response.items[i].action \in RCA_ALLOWED_ACTIONS
=============================================================================
