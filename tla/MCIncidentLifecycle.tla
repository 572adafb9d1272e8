------------------------ MODULE MCIncidentLifecycle --------------------------
(* Instances of IncidentLifecycle in which one statement fails.            *)
EXTENDS IncidentLifecycle

MCAnswer(items) == [kind |-> "object", items |-> items, suspected |-> Service]

MCRestartPod ==
    [form |-> "dict", action |-> "RESTART_POD", upper |-> TRUE, target |-> Absent,
     namespace |-> Absent, replicas |-> Absent]

\* Answers whose plan needs an operator, and needs none.
MCAskOnly == {MCAnswer(<<>>)}
MCAutoOnly == {MCAnswer(<<MCRestartPod>>)}
=============================================================================
