------------------------------ MODULE AlertIntake ------------------------------
(***************************************************************************)
(* From an HTTP call to an incident: the ingestor, the topic alerts.raw,   *)
(* the correlator's consumers and their transactions.                      *)
(***************************************************************************)
EXTENDS AlertIngestor, Correlator, FiniteSets

vars == <<topicVars, ingestorVars, consumerVars, correlatorVars>>

TypeOK == TopicTypeOK /\ IngestorTypeOK /\ ConsumerTypeOK /\ CorrelatorTypeOK

Init == TopicInit /\ IngestorInit /\ ConsumerInit /\ CorrelatorInit

IngestorMoves == IngestorNext /\ UNCHANGED <<consumerVars, correlatorVars>>

MemberStep(m) ==
    /\ \/ LoopMoves(m) /\ UNCHANGED correlatorVars
       \/ handle_raw_alert(m)
    /\ UNCHANGED <<topicVars, ingestorVars>>

GroupStep == GroupMoves /\ UNCHANGED <<topicVars, ingestorVars, correlatorVars>>

MemberDisturbed(m) ==
    /\ \/ Expel(m) /\ UNCHANGED correlatorVars
       \/ HandlerEnds(m) /\ UNCHANGED tableVars
    /\ UNCHANGED <<topicVars, ingestorVars>>

World ==
    /\ Tick \/ \E i \in DOMAIN incidents : CloseIncident(i)
    /\ UNCHANGED <<topicVars, ingestorVars, consumerVars>>

Next ==
    \/ IngestorMoves
    \/ \E m \in Member : MemberStep(m) \/ MemberDisturbed(m)
    \/ GroupStep
    \/ World

Spec == Init /\ [][Next]_vars
-----------------------------------------------------------------------------
Ignored(e) == ~alertOf[e].firing
Handled(e) == e \in processed \/ Ignored(e)

(* The loop commits positions, not records.  Still no committed offset ever *)
(* passes a record that was neither handled nor failed in its handler: not  *)
(* after a crash in the middle of it, a rebalance during it, or a commit by *)
(* a member that had been expelled.                                         *)
SkippedOnlyAfterFailure ==
    \A g \in Group, p \in Partition : \A o \in 1 .. committed[g][p] :
        LET r == [partition |-> p, offset |-> o]
        IN  o <= Len(log[p]) /\ (Handled(EventAt(r)) \/ r \in raised)

(* The offsets of a group never go back, whoever commits last.             *)
OffsetsNeverFall ==
    [][\A g \in Group, p \in Partition : committed'[g][p] >= committed[g][p]]_vars

(* Effects are exactly-once: however often a record is sent, delivered and  *)
(* processed, also by two members at a time, it leaves at most one alert    *)
(* row, and the row and the mark stand and fall together.                   *)
AppliedOnce ==
    /\ \A i, j \in DOMAIN alerts : alerts[i].event = alerts[j].event => i = j
    /\ \A i \in DOMAIN alerts : alerts[i].event \in processed

(* No firing alert is marked and forgotten: it is on an incident, or the    *)
(* same alert of the same service and namespace is.                         *)
NoAlertIsForgotten ==
    \A e \in processed : \E i \in DOMAIN alerts :
        /\ alertOf[alerts[i].event].alert_name = alertOf[e].alert_name
        /\ alertOf[alerts[i].event].service = alertOf[e].service
        /\ alertOf[alerts[i].event].namespace = alertOf[e].namespace
        /\ alerts[i].incident \in DOMAIN incidents

(* 202 means published or counted: of the alerts of an accepted call, those *)
(* that are not in the topic are among failed_count.                        *)
AcceptedIsPublishedOrCounted ==
    \A c \in Call : answer[c] = "accepted" =>
        \E missing \in SUBSET DOMAIN Alerts[c] :
            /\ Cardinality(missing) <= failed[c]
            /\ \A i \in DOMAIN Alerts[c] \ missing : Logged(Alerts[c][i])

(* An incident loses severity, or an alert of its list, only to a lost      *)
(* update: a transaction that had read the row before it last changed.      *)
LosesOnlyToStaleWrite ==
    [][\A i \in DOMAIN incidents :
          \/ /\ Rank(incidents'[i].severity) >= Rank(incidents[i].severity)
             /\ incidents[i].alert_ids \subseteq incidents'[i].alert_ids
          \/ \E m \in Member :
                pc[m] = "write" /\ found[m].row = i /\ found[m] # Read(i)]_vars
-----------------------------------------------------------------------------
(* What the tables say of the alerts that were decided about.              *)

Entries == {[event |-> alerts[i].event, incident |-> alerts[i].incident] : i \in DOMAIN alerts}
Repeated == {e \in processed : \A i \in DOMAIN alerts : alerts[i].event # e}

Ledger == INSTANCE AlertLedger WITH
    kind <- [e \in Event |-> Fingerprint(e)],
    firing <- {e \in Event : alertOf[e].firing},
    filed <- Entries, repeated <- Repeated,
    opened <- Len(incidents), announced <- outbox

(* The correlator keeps the books of AlertLedger: whatever is redelivered,  *)
(* processed by two members at a time or cut off by a crash, row, incident, *)
(* mark and outbox event of a decision come in one step, once per event,    *)
(* never for a resolved alert, and nothing takes them back.                 *)
ImplementsLedger == Ledger!LedgerSpec

(* Each incident has an alert, and its incidents.created row stands in the  *)
(* outbox once and before every incidents.updated row about it, though two  *)
(* members may open and change incidents at the same time.                  *)
CreatedComesFirst == Ledger!IncidentsAnnounced
-----------------------------------------------------------------------------
(* What the documentation says and the code does not do.                   *)

(* consumer.py: after an exception "the record will be redelivered": its    *)
(* group's offset does not pass it before it was handled.                   *)
FailedIsRedelivered ==
    \A r \in raised : \A g \in Group :
        r.offset <= committed[g][r.partition] => Handled(EventAt(r))

(* README: cascading failures, "e.g. checkout failing due to upstream       *)
(* payment", are grouped into a single incident: within the window, and     *)
(* with no incident closed, alerts of a service and of one it depends on    *)
(* are on the same one.                                                     *)
CascadeIsOneIncident ==
    \A i, j \in DOMAIN alerts :
        LET a == alertOf[alerts[i].event]
            b == alertOf[alerts[j].event]
        IN  /\ DependsOn(a.service, b.service) /\ a.namespace = b.namespace
            /\ now <= CorrelationWindow
            /\ \A k \in DOMAIN incidents : incidents[k].open
            => alerts[i].incident = alerts[j].incident
=============================================================================
