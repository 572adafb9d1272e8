---------------------------- MODULE AlertIngestor ----------------------------
(***************************************************************************)
(* The alert ingestor (services/alert_ingestor/main.py): an HTTP call      *)
(* carries alerts; each becomes an event that is sent before the next one  *)
(* is looked at.  A failed send is counted and the call goes on; only the  *)
(* manual endpoint lets the exception through.                             *)
(***************************************************************************)
EXTENDS KafkaTopic

CONSTANTS
    Call,             \* HTTP calls that are made, each once
    Alerts,           \* per call: its alerts, each by the event it becomes
    Manual            \* calls of POST /api/v1/alerts, which carry one alert

ASSUME IngestorAssumption ==
    /\ Alerts \in [Call -> Seq(Event)]
    /\ \A c, d \in Call : \A i \in DOMAIN Alerts[c], j \in DOMAIN Alerts[d] :
          Alerts[c][i] = Alerts[d][j] => c = d /\ i = j
    /\ Manual \subseteq Call /\ \A c \in Manual : Len(Alerts[c]) = 1

VARIABLES
    looked,       \* per call: how many of its alerts were looked at
    failed,       \* per call: failed_count
    answer        \* per call: "none", "accepted" (202), "error" (500 or no answer)

ingestorVars == <<looked, failed, answer>>

IngestorTypeOK ==
    /\ looked \in [Call -> Nat] /\ failed \in [Call -> Nat]
    /\ answer \in [Call -> {"none", "accepted", "error"}]

IngestorInit ==
    /\ looked = [c \in Call |-> 0] /\ failed = [c \in Call |-> 0]
    /\ answer = [c \in Call |-> "none"]
-----------------------------------------------------------------------------
(* alertmanager_webhook and manual_alert.                                  *)

Pending(c) == answer[c] = "none" /\ looked[c] < Len(Alerts[c])
NextAlert(c) == Alerts[c][looked[c] + 1]
Look(c) == looked' = [looked EXCEPT ![c] = @ + 1]

PublishAlert(c) ==
    /\ Pending(c) /\ Look(c)
    /\ SendSucceeds(NextAlert(c))
    /\ UNCHANGED <<failed, answer>>

\* Mutant: the exception ends the loop and the call is answered as accepted.
CountFailureAndStop(c) ==
    /\ Pending(c) /\ c \notin Manual
    /\ SendFails(NextAlert(c))
    /\ looked' = [looked EXCEPT ![c] = Len(Alerts[c])]
    /\ failed' = [failed EXCEPT ![c] = @ + 1]
    /\ UNCHANGED answer

\* The webhook counts a failure and takes the next alert.
CountFailure(c) ==
    /\ Pending(c) /\ Look(c) /\ c \notin Manual
    /\ SendFails(NextAlert(c))
    /\ failed' = [failed EXCEPT ![c] = @ + 1]
    /\ UNCHANGED answer

\* The manual endpoint answers 500.
ManualFails(c) ==
    /\ Pending(c) /\ Look(c) /\ c \in Manual
    /\ SendFails(NextAlert(c))
    /\ answer' = [answer EXCEPT ![c] = "error"]
    /\ UNCHANGED failed

Answer(c) ==
    /\ answer[c] = "none" /\ looked[c] = Len(Alerts[c])
    /\ answer' = [answer EXCEPT ![c] = "accepted"]
    /\ UNCHANGED <<looked, failed, topicVars>>

\* The ingestor dies in the middle of a call.
CallDies(c) ==
    /\ Pending(c) /\ looked[c] > 0
    /\ SendFaults(1)
    /\ answer' = [answer EXCEPT ![c] = "error"]
    /\ UNCHANGED <<log, looked, failed>>

CallStep(c) ==
    PublishAlert(c) \/ CountFailure(c) \/ ManualFails(c) \/ Answer(c)

IngestorNext == \E c \in Call : CallStep(c) \/ CallDies(c)
=============================================================================
