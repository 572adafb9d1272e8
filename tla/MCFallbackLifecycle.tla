-------------------------- MODULE MCFallbackLifecycle --------------------------
(* A small instance of FallbackLifecycle.                                  *)
EXTENDS FallbackLifecycle, FiniteSets

CONSTANTS r1, r2

MCRec(name, t, r) ==
    [form |-> "dict", action |-> name, upper |-> TRUE, target |-> t,
     namespace |-> Absent, replicas |-> r]

MCAnswer(kind, items) == [kind |-> kind, items |-> items, suspected |-> Service]

\* One answer for each way a decision can end.
MCAuto == MCAnswer("object", <<MCRec("RESTART_POD", Absent, Absent)>>)
MCAsk == MCAnswer("object", <<>>)
MCDenied == MCAnswer("object", <<MCRec("SCALE_DEPLOYMENT", Absent, 11)>>)
MCRefused == MCAnswer("object", <<MCRec("RESTART_POD", Null, Absent)>>)
MCNoPlan == MCAnswer("malformed", <<>>)
MCRaises == MCAnswer("notObject", <<>>)

MCAllResponses == {MCAuto, MCAsk, MCDenied, MCRefused, MCNoPlan, MCRaises}
MCSyncResponses == {MCAuto, MCAsk, MCDenied, MCNoPlan, MCRaises}

Calls == Cardinality({r \in Request : req[r].pc # "idle"})
Faults == workerFaults + apiFaults + syncFaults

\* Three calls and faults, in any mixture, before the fallback begins; one of
\* each beside it.  The calls differ in nothing but their names: r1 is made first.
FewDisturbances ==
    /\ IF syncStage = "idle" THEN Calls + Faults <= 3 ELSE Calls <= 1 /\ Faults <= 1
    /\ req[r2].pc # "idle" => req[r1].pc # "idle"
=============================================================================
