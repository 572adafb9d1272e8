--------------------------- MODULE RemediationGate ---------------------------
(***************************************************************************)
(* What Aegis promises about one remediation, without workflows, rows,     *)
(* signals or retries: a plan is judged once; a plan that needs a human is *)
(* run only after one said yes; it is run a bounded number of times, and   *)
(* never again once its success is on record.  IncidentLifecycle is shown  *)
(* to implement this.                                                      *)
(***************************************************************************)
EXTENDS Naturals

CONSTANT MaxRuns    \* how often a remediation may be attempted

VARIABLES
    judged,     \* "none", then "denied", "auto" or "ask"
    approved,   \* an operator's approval is on record
    runs,       \* number of times the cluster was changed
    recorded    \* success is on record

gateVars == <<judged, approved, runs, recorded>>

GateInit == judged = "none" /\ approved = FALSE /\ runs = 0 /\ recorded = FALSE

MayRun == judged = "auto" \/ (judged = "ask" /\ approved)

Judge ==
    /\ judged = "none"
    /\ judged' \in {"denied", "auto", "ask"}
    /\ UNCHANGED <<approved, runs, recorded>>

Approve ==
    /\ ~approved /\ approved' = TRUE
    /\ UNCHANGED <<judged, runs, recorded>>

Run ==
    /\ MayRun /\ ~recorded /\ runs < MaxRuns
    /\ runs' = runs + 1
    /\ UNCHANGED <<judged, approved, recorded>>

Record ==
    /\ runs > 0 /\ ~recorded /\ recorded' = TRUE
    /\ UNCHANGED <<judged, approved, runs>>

GateNext == Judge \/ Approve \/ Run \/ Record

GateSpec == GateInit /\ [][GateNext]_gateVars
=============================================================================
