----------------------- MODULE DecisionPipelineProofs ------------------------
(***************************************************************************)
(* The properties of DecisionPipeline for every set of names, every        *)
(* whitelist and every set of LLM answers.                                 *)
(***************************************************************************)
EXTENDS DecisionPipeline, RemediationDecisionProofs

(* What is known when a decision is at each stage: where the action came   *)
(* from, that the plan is the planner's for that action, and that the      *)
(* verdict is the policy engine's on that plan.                            *)
ActionKnown ==
    stage \in {"planning", "diagnosedOnly", "policy", "denied", "auto", "ask"} =>
        action = run_rca(response, namespace)

PlanKnown ==
    /\ stage = "diagnosedOnly" => ~Recognised(action)
    /\ stage \in {"policy", "denied", "auto", "ask"} =>
          plan # NoPlan /\ plan = plan_remediation(action, service, namespace)

VerdictKnown ==
    stage \in {"auto", "ask"} => verdict = evaluate_policy(plan) /\ verdict.allowed

IInv == TypeOK /\ ActionKnown /\ PlanKnown /\ VerdictKnown

LEMMA InitIInv == Init => IInv
BY DEF Init, IInv, TypeOK, ActionKnown, PlanKnown, VerdictKnown, Ended

(* plan_remediation answers "no plan" exactly for an unrecognised action.  *)
LEMMA NoPlanOnlyUnrecognised ==
    ASSUME NEW rec, NEW s, NEW n, Recognised(rec)
    PROVE  plan_remediation(rec, s, n) # NoPlan
BY DEF plan_remediation, Recognised, NoPlan, RemediationAction

LEMMA NextIInv == IInv /\ [Next]_vars => IInv'
<1> SUFFICES ASSUME IInv, [Next]_vars PROVE IInv'
  OBVIOUS
<1> USE DEF IInv
<1>1. CASE RunRca
  <2>1. TypeOK'
    <3>1. response \in LlmResponse /\ namespace \in Namespace
      BY ResponsesAssumption DEF TypeOK
    <3>2. run_rca(response, namespace) \in {NoAction} \cup DictItem
      BY <3>1, RcaKeepsThreeActions
    <3> QED BY <1>1, <3>2 DEF RunRca, TypeOK, Ended
  <2>2. (ActionKnown /\ PlanKnown /\ VerdictKnown)'
    BY <1>1 DEF RunRca, ActionKnown, PlanKnown, VerdictKnown
  <2> QED BY <2>1, <2>2
<1>2. CASE PlanRemediation
  <2>1. TypeOK'
    <3>1. ~PlanRaises(action) =>
             plan_remediation(action, service, namespace) \in {NoPlan} \cup Plan
      BY PlanType DEF TypeOK
    <3> QED BY <1>2, <3>1 DEF PlanRemediation, TypeOK, Ended
  <2>2. PlanKnown'
    BY <1>2, NoPlanOnlyUnrecognised DEF PlanRemediation, PlanKnown
  <2>3. (ActionKnown /\ VerdictKnown)'
    BY <1>2 DEF PlanRemediation, ActionKnown, VerdictKnown
  <2> QED BY <2>1, <2>2, <2>3
<1>3. CASE PolicyCheck
  <2>1. TypeOK'
    <3>1. plan \in Plan
      BY <1>3 DEF PolicyCheck, TypeOK, PlanKnown
    <3>2. evaluate_policy(plan) \in Verdict
      BY <3>1, VerdictType
    <3> QED BY <1>3, <3>2 DEF PolicyCheck, TypeOK, Ended
  <2>2. (ActionKnown /\ PlanKnown /\ VerdictKnown)'
    BY <1>3 DEF PolicyCheck, ActionKnown, PlanKnown, VerdictKnown
  <2> QED BY <2>1, <2>2
<1>4. CASE UNCHANGED vars
  BY <1>4 DEF vars, TypeOK, ActionKnown, PlanKnown, VerdictKnown
<1> QED BY <1>1, <1>2, <1>3, <1>4 DEF Next

LEMMA SpecIInv == Spec => []IInv
BY InitIInv, NextIInv, PTL DEF Spec

(* Every decision has the types it should have, for every set of answers.  *)
THEOREM SpecTypeOK == Spec => []TypeOK
<1>1. IInv => TypeOK
  BY DEF IInv
<1> QED BY <1>1, SpecIInv, PTL

(* On a plan that may run, what the operator is shown is what the policy   *)
(* engine decided.                                                         *)
THEOREM SpecPlannerAgrees == Spec => []PlannerAgreesWithPolicy
<1>1. IInv => PlannerAgreesWithPolicy
  <2> SUFFICES ASSUME IInv, stage \in {"auto", "ask"}
               PROVE  /\ plan.requires_approval = verdict.requires_approval
                      /\ plan.risk_level = verdict.risk_level
    BY DEF PlannerAgreesWithPolicy
  <2>1. plan \in Plan /\ plan.action \in RemediationAction
    BY DEF IInv, TypeOK, PlanKnown, Plan
  <2>2. /\ plan.risk_level = ACTION_RISK_MAP[plan.action]
        /\ plan.requires_approval = (ACTION_RISK_MAP[plan.action] \in {"MEDIUM", "HIGH"})
    BY PlanFields DEF IInv, PlanKnown
  <2>3. /\ plan.action \notin FORBIDDEN_ACTIONS
        /\ verdict.requires_approval = (plan.action \in REQUIRES_APPROVAL)
        /\ verdict.risk_level = RISK_TABLE[plan.action]
    BY <2>1, AllowedIsSafe DEF IInv, VerdictKnown
  <2> QED BY <2>1, <2>2, <2>3, TablesAgree
<1> QED BY <1>1, SpecIInv, PTL

(* Whatever the LLM answers, a plan that reaches the executor is on the    *)
(* whitelists, can be dispatched and stays within the replica bounds.      *)
THEOREM SpecAllowedPlansAreSafe == Spec => []AllowedPlansAreSafe
<1>1. IInv => AllowedPlansAreSafe
  <2> SUFFICES ASSUME IInv, stage \in {"auto", "ask"}
               PROVE  /\ CanDispatch(plan)
                      /\ plan.target \in AllowedDeployments
                      /\ plan.namespace \in AllowedNamespaces
                      /\ plan.action = "SCALE_DEPLOYMENT" =>
                            RequestedReplicas(plan) \in
                                MIN_AUTO_SCALE_REPLICAS .. MAX_AUTO_SCALE_REPLICAS
    BY DEF AllowedPlansAreSafe
  <2>1. plan \in Plan /\ evaluate_policy(plan).allowed
    BY DEF IInv, TypeOK, PlanKnown, VerdictKnown
  <2>2. plan.action \in RCA_ALLOWED_ACTIONS
    <3>1. Recognised(action) /\ plan.action = action.action
      BY PlanFields DEF IInv, PlanKnown
    <3>2. response \in LlmResponse /\ namespace \in Namespace
      BY ResponsesAssumption DEF IInv, TypeOK
    <3>3. action # NoAction /\ action = run_rca(response, namespace)
      BY <3>1 DEF Recognised, IInv, ActionKnown
    <3> QED BY <3>1, <3>2, <3>3, RcaKeepsThreeActions
  <2>3. CanDispatch(plan)
    BY <2>1, <2>2, AllowedIsSafe
       DEF CanDispatch, RCA_ALLOWED_ACTIONS, MIN_AUTO_SCALE_REPLICAS, MAX_AUTO_SCALE_REPLICAS
  <2> QED BY <2>1, <2>3, AllowedIsSafe
<1> QED BY <1>1, SpecIInv, PTL

(* "Diagnosed only" has no other cause than an answer that is not JSON or  *)
(* an action name the LLM did not spell in upper case.                     *)
THEOREM SpecDiagnosedOnly == Spec => []DiagnosedOnlyOnlyWhen
<1>1. IInv => DiagnosedOnlyOnlyWhen
  <2> SUFFICES ASSUME IInv, stage = "diagnosedOnly", response.kind # "malformed"
               PROVE  \E i \in DOMAIN response.items :
                         /\ response.items[i].form = "dict"
                         /\ ~response.items[i].upper
                         /\ response.items[i].action \in RCA_ALLOWED_ACTIONS
    BY DEF DiagnosedOnlyOnlyWhen
  <2>1. /\ response \in LlmResponse /\ namespace \in Namespace
        /\ action = run_rca(response, namespace) /\ ~Recognised(action)
    BY ResponsesAssumption DEF IInv, TypeOK, ActionKnown, PlanKnown
  <2>2. /\ action \in DictItem /\ action.action \in RCA_ALLOWED_ACTIONS
        /\ \/ action.upper
           \/ \E i \in DOMAIN response.items :
                 response.items[i].form = "dict" /\ action = response.items[i]
    BY <2>1, RcaKeepsThreeActions
  <2>3. ~action.upper
    <3>1. action # NoAction
      BY <2>2 DEF NoAction, RCA_ALLOWED_ACTIONS
    <3>2. action.action \in RemediationAction /\ ACTION_RISK_MAP[action.action] # "FORBIDDEN"
      BY <2>2 DEF RCA_ALLOWED_ACTIONS, RemediationAction, ACTION_RISK_MAP
    <3> QED BY <2>1, <3>1, <3>2 DEF Recognised
  <2> QED BY <2>2, <2>3
<1> QED BY <1>1, SpecIInv, PTL
=============================================================================
