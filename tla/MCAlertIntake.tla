----------------------------- MODULE MCAlertIntake -----------------------------
(***************************************************************************)
(* Small instances of AlertIntake: three events on two partitions, posted  *)
(* by a webhook of two alerts and a manual call.                           *)
(***************************************************************************)
EXTENDS AlertIntake, TLC

CONSTANTS e1, e2, e3, p1, p2, m1, m2, webhook, manual

CONSTANT MaxDisturbances

\* Bound on how many things go wrong, time passes or incidents close in one run.
FewDisturbances ==
    consumerFaults + sendFaults + now
        + Cardinality({i \in DOMAIN incidents : ~incidents[i].open}) <= MaxDisturbances

MCSymmetry == Permutations(Member)

OneGroup == {"aegis-correlator"}
Correlators == [m \in Member |-> "aegis-correlator"]
Handler == {"handle", "mark", "lookup", "write"}

TwoPartitions == (e1 :> p1) @@ (e2 :> p1) @@ (e3 :> p2)
Posted == (webhook :> <<e1, e2>>) @@ (manual :> <<e3>>)

Firing(name, service, label) ==
    [alert_name |-> name, service |-> service, namespace |-> "production",
     label |-> label, firing |-> TRUE]

\* A cascade whose three alerts may meet in one incident.
Cascade ==
    (e1 :> Firing("Errors", "checkout", "info"))
    @@ (e2 :> Firing("Errors", "payment", "critical"))
    @@ (e3 :> Firing("Errors", "inventory", "warning"))

\* The same alert twice, and one that is over.
Repetition ==
    (e1 :> Firing("Latency", "payment", "error"))
    @@ (e2 :> [Firing("Latency", "payment", "error") EXCEPT !.firing = FALSE])
    @@ (e3 :> Firing("Latency", "payment", "other"))

AllScenarios == {Cascade, Repetition}
CascadeOnly == {Cascade}
==============================================================================
