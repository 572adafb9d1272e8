---------------------- MODULE RemediationDecisionProofs ----------------------
(***************************************************************************)
(* What the decision functions return, for every LLM answer, every action  *)
(* and every plan.  DecisionPipelineProofs and IncidentLifecycleProofs     *)
(* rest on these lemmas.                                                   *)
(***************************************************************************)
EXTENDS RemediationDecision, WellFoundedInduction, TLAPS

(* A non-empty set of positions has a first one: the CHOOSE in run_rca     *)
(* picks an element of the list.                                           *)
LEMMA FirstExists ==
    ASSUME NEW S \in SUBSET Nat, S # {}
    PROVE  \E i \in S : \A j \in S : i <= j
<1> DEFINE R == OpToRel(<, Nat)
<1>1. IsWellFoundedOn(R, Nat)
  BY NatLessThanWellFounded
<1>2. PICK x \in S : \A y \in S : <<y, x>> \notin R
  <2> HIDE DEF R
  <2> QED BY <1>1, WFMin, Zenon
<1>3. R = {p \in Nat \X Nat : p[1] < p[2]}
  BY DEF R, OpToRel
<1>4. ASSUME NEW y \in S PROVE x <= y
  <2> HIDE DEF R
  <2>1. <<y, x>> \in Nat \X Nat /\ <<y, x>> \notin R
    BY <1>2
  <2> QED BY <2>1, <1>3
<1> QED BY <1>4

(* An element the root-cause agent keeps is turned into an object whose    *)
(* action is one of its three (run_rca's safe_actions loop).               *)
LEMMA NormalisedType ==
    ASSUME NEW item \in DictItem \cup TextItem, KeptByRca(item),
           NEW component \in Target, NEW ns \in Namespace
    PROVE  /\ Normalised(item, component, ns) \in DictItem
           /\ Normalised(item, component, ns).action \in RCA_ALLOWED_ACTIONS
           /\ \/ Normalised(item, component, ns).upper
              \/ item.form = "dict" /\ Normalised(item, component, ns) = item
<1>1. CASE item \in DictItem
  BY <1>1 DEF Normalised, KeptByRca, DictItem
<1>2. CASE item \in TextItem
  BY <1>2 DEF Normalised, FromText, Recommend, DictItem, TextItem,
              RCA_ALLOWED_ACTIONS, RemediationAction
<1> QED BY <1>1, <1>2

(* The object run_rca recommends by itself.                                *)
LEMMA RecommendType ==
    ASSUME NEW a \in RCA_ALLOWED_ACTIONS, NEW component \in Target, NEW ns \in Namespace
    PROVE  /\ Recommend(a, component, ns) \in DictItem
           /\ Recommend(a, component, ns).action = a
           /\ Recommend(a, component, ns).upper
BY DEF Recommend, DictItem, RCA_ALLOWED_ACTIONS, RemediationAction

(* run_rca's recommended_actions[0] is missing (only for an answer that    *)
(* is not JSON) or one of three actions: no other of the six action names  *)
(* gets past the root-cause agent, and a name that is not in upper case    *)
(* comes from the LLM's own list.                                          *)
THEOREM RcaKeepsThreeActions ==
    ASSUME NEW response \in LlmResponse, NEW ns \in Namespace
    PROVE  \/ response.kind = "malformed" /\ run_rca(response, ns) = NoAction
           \/ /\ run_rca(response, ns) \in DictItem
              /\ run_rca(response, ns).action \in RCA_ALLOWED_ACTIONS
              /\ \/ run_rca(response, ns).upper
                 \/ \E i \in DOMAIN response.items :
                       response.items[i].form = "dict"
                       /\ run_rca(response, ns) = response.items[i]
<1> DEFINE kept == {i \in DOMAIN response.items : KeptByRca(response.items[i])}
           first == CHOOSE i \in kept : \A j \in kept : i <= j
<1>1. /\ response.items \in Seq(DictItem \cup TextItem)
      /\ response.suspected \in Target
  BY DEF LlmResponse
<1>2. CASE response.kind = "malformed"
  BY <1>2 DEF run_rca
<1>3. CASE response.kind # "malformed" /\ kept = {}
  BY <1>1, <1>3, RecommendType DEF run_rca, RCA_ALLOWED_ACTIONS
<1>4. CASE response.kind # "malformed" /\ kept # {}
  <2>1. first \in kept
    <3>1. kept \in SUBSET Nat
      BY <1>1
    <3> QED BY <3>1, <1>4, FirstExists
  <2>2. response.items[first] \in DictItem \cup TextItem /\ KeptByRca(response.items[first])
    <3> HIDE DEF first
    <3>1. first \in DOMAIN response.items /\ KeptByRca(response.items[first])
      BY <2>1, Zenon
    <3> QED BY <1>1, <3>1
  <2>3. run_rca(response, ns) = Normalised(response.items[first], response.suspected, ns)
    BY <1>4 DEF run_rca
  <2>4. first \in DOMAIN response.items
    BY <2>1
  <2> HIDE DEF first
  <2> QED BY <1>1, <2>2, <2>3, <2>4, NormalisedType
<1> QED BY <1>2, <1>3, <1>4

(* plan_remediation returns a well-formed plan, or none, for every action  *)
(* it does not raise on.                                                   *)
LEMMA PlanType ==
    ASSUME NEW rec \in {NoAction} \cup DictItem, ~PlanRaises(rec),
           NEW service \in Target, NEW ns \in Namespace
    PROVE  plan_remediation(rec, service, ns) \in {NoPlan} \cup Plan
<1>1. CASE ~Recognised(rec)
  BY <1>1 DEF plan_remediation
<1>2. CASE Recognised(rec)
  <2>1. rec \in DictItem /\ rec.action \in RemediationAction
    BY <1>2 DEF Recognised
  <2>2. OrElse(rec.target, service) \in Target /\ OrElse(rec.namespace, ns) \in Namespace
    BY <1>2, <2>1 DEF PlanRaises, OrElse, DictItem
  <2>3. (IF rec.action = "SCALE_DEPLOYMENT" THEN OrElse(rec.replicas, 3) ELSE Absent)
            \in Int \cup {Absent, NotAnInt}
    BY <2>1 DEF OrElse, DictItem
  <2>4. ACTION_RISK_MAP[rec.action] \in RiskLevel
    BY <2>1 DEF ACTION_RISK_MAP, RiskLevel, RemediationAction
  <2> QED BY <1>2, <2>1, <2>2, <2>3, <2>4 DEF plan_remediation, Plan
<1> QED BY <1>1, <1>2

(* The plan carries the action it was made from, and the planner's own     *)
(* risk level for it.                                                      *)
LEMMA PlanFields ==
    ASSUME NEW rec, NEW service, NEW ns,
           plan_remediation(rec, service, ns) # NoPlan
    PROVE  LET p == plan_remediation(rec, service, ns)
           IN  /\ Recognised(rec)
               /\ p.action = rec.action
               /\ p.risk_level = ACTION_RISK_MAP[rec.action]
               /\ p.requires_approval = (ACTION_RISK_MAP[rec.action] \in {"MEDIUM", "HIGH"})
BY DEF plan_remediation

(* The planner's copy of the risk table and the policy engine's tables     *)
(* agree on every action.                                                  *)
LEMMA TablesAgree ==
    ASSUME NEW a \in RemediationAction
    PROVE  /\ ACTION_RISK_MAP[a] = RISK_TABLE[a]
           /\ a \notin FORBIDDEN_ACTIONS =>
                 ((ACTION_RISK_MAP[a] \in {"MEDIUM", "HIGH"}) = (a \in REQUIRES_APPROVAL))
BY DEF ACTION_RISK_MAP, RISK_TABLE, RemediationAction, REQUIRES_APPROVAL, FORBIDDEN_ACTIONS

(* evaluate_policy always answers, and with a well-formed verdict.         *)
LEMMA VerdictType ==
    ASSUME NEW plan \in Plan
    PROVE  evaluate_policy(plan) \in Verdict
<1>1. plan.action \in RemediationAction
  BY DEF Plan
<1>2. RISK_TABLE[plan.action] \in RiskLevel
  BY <1>1 DEF RISK_TABLE, RiskLevel, RemediationAction
<1>3. ParameterRule(plan) \in Reason \cup {"none"}
  BY DEF ParameterRule, Reason
<1>4. \A why \in Reason, risk \in RiskLevel : Rejected(why, risk) \in Verdict
  BY DEF Rejected, Verdict
<1>5. {"forbidden_action", "namespace_not_allowed", "target_not_allowed"} \subseteq Reason
      /\ {"FORBIDDEN", "HIGH"} \subseteq RiskLevel
  BY DEF Reason, RiskLevel
<1>6. [allowed |-> TRUE, requires_approval |-> plan.action \in REQUIRES_APPROVAL,
       risk_level |-> RISK_TABLE[plan.action], reason |-> "none"] \in Verdict
  BY <1>2 DEF Verdict
<1> QED BY <1>3, <1>4, <1>5, <1>6 DEF evaluate_policy

(* A plan evaluate_policy allows is not forbidden, names a whitelisted     *)
(* deployment and namespace and, when it scales, asks for one to ten       *)
(* replicas; its verdict is computed from the policy engine's own tables.  *)
THEOREM AllowedIsSafe ==
    ASSUME NEW plan \in Plan, evaluate_policy(plan).allowed
    PROVE  /\ plan.action \notin FORBIDDEN_ACTIONS
           /\ plan.target \in AllowedDeployments
           /\ plan.namespace \in AllowedNamespaces
           /\ plan.action = "SCALE_DEPLOYMENT" =>
                 RequestedReplicas(plan) \in MIN_AUTO_SCALE_REPLICAS .. MAX_AUTO_SCALE_REPLICAS
           /\ evaluate_policy(plan).requires_approval = (plan.action \in REQUIRES_APPROVAL)
           /\ evaluate_policy(plan).risk_level = RISK_TABLE[plan.action]
<1>1. \A why, risk : ~Rejected(why, risk).allowed
  BY DEF Rejected
<1>2. /\ plan.action \notin FORBIDDEN_ACTIONS
      /\ plan.target \in AllowedDeployments
      /\ plan.namespace \in AllowedNamespaces
      /\ ParameterRule(plan) = "none"
  BY <1>1 DEF evaluate_policy
<1>3. evaluate_policy(plan) =
        [allowed |-> TRUE, requires_approval |-> plan.action \in REQUIRES_APPROVAL,
         risk_level |-> RISK_TABLE[plan.action], reason |-> "none"]
  BY <1>2 DEF evaluate_policy
<1>4. plan.action = "SCALE_DEPLOYMENT" =>
        RequestedReplicas(plan) \in MIN_AUTO_SCALE_REPLICAS .. MAX_AUTO_SCALE_REPLICAS
  BY <1>2 DEF ParameterRule, MIN_AUTO_SCALE_REPLICAS, MAX_AUTO_SCALE_REPLICAS
<1> QED BY <1>2, <1>3, <1>4
=============================================================================
