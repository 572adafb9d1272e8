------------------------- MODULE MCDecisionPipeline --------------------------
(* Small inputs for DecisionPipeline: lists of up to two elements drawn    *)
(* from objects and sentences that exercise every rule once.  The second   *)
(* element is read only when the first is dropped, so a few suffice.       *)
EXTENDS DecisionPipeline, FiniteSets

MCTarget == {"payment", "kube-proxy"}
MCNamespace == {"production", "kube-system"}
MCAllowedDeployments == {"payment"}
MCAllowedNamespaces == {"production"}

Obj(name, upper, target, ns, replicas) ==
    [form |-> "dict", action |-> name, upper |-> upper, target |-> target,
     namespace |-> ns, replicas |-> replicas]

\* One object per action, per refused field, and per replica bound: 0, 1,
\* 10 and 11 are the edges of the policy's interval.
MCObjects ==
    {Obj(a, TRUE, "payment", "production", Absent) :
        a \in RemediationAction \cup {"OTHER"}}
    \cup {Obj("SCALE_DEPLOYMENT", TRUE, "payment", "production", r) :
        r \in {0, 1, 10, 11, NotAnInt}}
    \cup {Obj("RESTART_POD", u, t, n, Absent) :
        u \in BOOLEAN, t \in {Absent, "kube-proxy", Null},
        n \in {Absent, "kube-system", Null}}

MCTexts == [form: {"text"}, words: SUBSET Keyword]

MCItems == MCObjects \cup MCTexts

MCSecond ==
    {Obj("RESTART_POD", u, Absent, Absent, Absent) : u \in BOOLEAN}
    \cup {Obj("CHANGE_CONFIG", TRUE, Absent, Absent, Absent),
          [form |-> "text", words |-> {"SCALE"}]}

MCResponses ==
    {[kind |-> "object", items |-> its, suspected |-> t] :
        its \in {<<>>} \cup {<<a>> : a \in MCItems}
                      \cup {<<a, b>> : a \in MCItems, b \in MCSecond},
        t \in MCTarget}
    \cup {[kind |-> k, items |-> <<>>, suspected |-> "payment"] :
        k \in {"notObject", "malformed"}}
=============================================================================
