------------------------------ MODULE Correlator ------------------------------
(***************************************************************************)
(* The correlator (services/correlator/main.py): the handler that turns a  *)
(* record of alerts.raw into an alert row, an incident or a change of one, *)
(* an outbox row and a processed mark, in one READ COMMITTED transaction.  *)
(*                                                                         *)
(* Nothing is locked, so what the transaction read may be out of date when *)
(* it commits; the primary key of processed_events is the only thing that  *)
(* can stop the commit.  The check for the mark and the fingerprint lookup *)
(* are one step: a commit between them ends as one before or after both.   *)
(* Rows are kept in the order of their creation.                           *)
(***************************************************************************)
EXTENDS AegisConsumer

CONSTANTS
    Scenarios,           \* the alerts the events may carry: functions on Event
    DedupWindow,         \* 60 seconds, in ticks of the clock
    CorrelationWindow,   \* settings.correlation_time_window_seconds, in ticks
    MaxTime              \* bound on the clock

ASSUME CorrelatorAssumption ==
    /\ ~DrawsGroup
    /\ HandlerPc = {"handle", "mark", "lookup", "write"}
    /\ DatabasePc = HandlerPc
    /\ DedupWindow \in Nat /\ CorrelationWindow \in Nat /\ MaxTime \in Nat

VARIABLES
    alertOf,      \* per event: the alert it carries (never changes)
    now,          \* the clock
    alerts,       \* alerts rows: [event, incident, at]
    incidents,    \* incidents rows: [service, namespace, severity, open, at, alert_ids]
    outbox,       \* outbox_events rows: [topic, incident]
    found         \* per member: the incident its transaction read, as it read it

correlatorVars == <<alertOf, now, alerts, incidents, outbox, found>>
tableVars == <<alertOf, now, alerts, incidents, outbox>>
-----------------------------------------------------------------------------
(* Alerts.  Two ingestor calls about the same failure are two events.      *)

Label == {"critical", "error", "warning", "info", "other"}
AlertSeverity == {"critical", "high", "warning", "info"}
IncidentSeverity == {"critical", "high", "medium", "low"}

\* Mutant: an unknown label is passed on.
NormalizeSeverityPassOn(label) == IF label = "error" THEN "high" ELSE label

\* The ingestor's reading of the severity label.
NormalizeSeverity(label) ==
    CASE label = "error" -> "high"
      [] label = "other" -> "warning"
      [] OTHER -> label

Alert ==
    [alert_name: STRING, service: STRING, namespace: STRING,
     label: Label, firing: BOOLEAN]

ASSUME ScenarioAssumption == Scenarios \subseteq [Event -> Alert]

Severity(e) == NormalizeSeverity(alertOf[e].label)

\* Mutant: the fingerprint is the alert's name.
FingerprintName(e) == alertOf[e].alert_name

\* The correlator draws a fingerprint of its own, labels left aside.
Fingerprint(e) ==
    <<alertOf[e].alert_name, alertOf[e].service, alertOf[e].namespace>>

SERVICE_DEPENDENCY_GRAPH ==
    [s \in {"checkout", "payment", "inventory"} |->
        CASE s = "checkout" -> {"payment", "inventory"}
          [] s = "payment" -> {"postgres", "demo-postgres"}
          [] s = "inventory" -> {"redis", "demo-redis"}]

DependsOn(s, t) ==
    s \in DOMAIN SERVICE_DEPENDENCY_GRAPH /\ t \in SERVICE_DEPENDENCY_GRAPH[s]

\* _get_root_services: the service and those that call it, one level up.
Related(service, other) == other = service \/ DependsOn(other, service)

\* _severity_rank: one table for alerts and incidents.
Rank(severity) ==
    CASE severity = "critical" -> 4
      [] severity = "high" -> 3
      [] severity \in {"medium", "warning"} -> 2
      [] severity = "low" -> 1
      [] severity = "info" -> 0

\* _incident_severity.
Mapped(severity) ==
    CASE severity = "warning" -> "medium"
      [] severity = "info" -> "low"
      [] OTHER -> severity

\* Mutant: the latest alert decides.
EscalatedToLatest(old, severity) == Mapped(severity)

Escalated(old, severity) ==
    IF Rank(severity) > Rank(old) THEN Mapped(severity) ELSE old
-----------------------------------------------------------------------------
NoIncident == [row |-> 0]

Incident ==
    [service: STRING, namespace: STRING, severity: IncidentSeverity, open: BOOLEAN,
     at: 0 .. MaxTime, alert_ids: SUBSET Event]

CorrelatorTypeOK ==
    /\ alertOf \in [Event -> Alert]
    /\ now \in 0 .. MaxTime
    /\ alerts \in Seq([event: Event, incident: Nat \ {0}, at: 0 .. MaxTime])
    /\ incidents \in Seq(Incident)
    /\ outbox \in Seq([topic: {"incidents.created", "incidents.updated"},
                       incident: Nat \ {0}])
    /\ found \in [Member -> {NoIncident} \cup
          [row: Nat \ {0}, severity: IncidentSeverity, alert_ids: SUBSET Event]]

CorrelatorInit ==
    /\ alertOf \in Scenarios
    /\ now = 0
    /\ alerts = <<>> /\ incidents = <<>> /\ outbox = <<>>
    /\ found = [m \in Member |-> NoIncident]

Tick ==
    /\ now < MaxTime /\ now' = now + 1
    /\ UNCHANGED <<alertOf, alerts, incidents, outbox, found>>

\* The workflow or an operator closes an incident (RESOLVED or FAILED).
CloseIncident(i) ==
    /\ incidents[i].open
    /\ incidents' = [incidents EXCEPT ![i].open = FALSE]
    /\ UNCHANGED <<alertOf, now, alerts, outbox, found>>
-----------------------------------------------------------------------------
(* handle_raw_alert.                                                       *)

CurrentEvent(m) == EventAt(current[m])

\* _is_duplicate_alert
HasRecentDuplicate(e) ==
    \E i \in DOMAIN alerts :
        /\ Fingerprint(alerts[i].event) = Fingerprint(e)
        /\ alerts[i].at >= now - DedupWindow

\* _find_open_incident: the candidates, of which the newest is taken.
OpenIncidents(e) ==
    {i \in DOMAIN incidents :
        /\ Related(alertOf[e].service, incidents[i].service)
        /\ incidents[i].namespace = alertOf[e].namespace
        /\ incidents[i].open
        /\ incidents[i].at >= now - CorrelationWindow}

Read(i) ==
    [row |-> i, severity |-> incidents[i].severity, alert_ids |-> incidents[i].alert_ids]

\* A RESOLVED alert is skipped without a mark.
IgnoreResolved(m) ==
    /\ At(m, "handle") /\ ~alertOf[CurrentEvent(m)].firing
    /\ Return(m)
    /\ UNCHANGED <<processed, tableVars, found>>

Deduplicate(m) ==
    /\ At(m, "handle") /\ alertOf[CurrentEvent(m)].firing
    /\ IF CurrentEvent(m) \in processed THEN Return(m)
       ELSE GoTo(m, IF HasRecentDuplicate(CurrentEvent(m)) THEN "mark" ELSE "lookup")
    /\ UNCHANGED <<processed, tableVars, found>>

FindOpenIncident(m) ==
    /\ At(m, "lookup")
    /\ LET open == OpenIncidents(CurrentEvent(m))
       IN  \/ open = {} /\ found' = [found EXCEPT ![m] = NoIncident]
           \/ \E i \in open : /\ \A j \in open : j <= i
                             /\ found' = [found EXCEPT ![m] = Read(i)]
    /\ GoTo(m, "write")
    /\ UNCHANGED <<processed, tableVars>>

\* Mutant: processed_events has a key of its own.
MarkWithoutKey(e) == processed' = processed \cup {e}

\* INSERT INTO processed_events: the key (event_id, consumer_group).
Mark(e) == e \notin processed /\ processed' = processed \cup {e}

MarkDuplicate(m) ==
    /\ At(m, "mark") /\ Mark(CurrentEvent(m)) /\ Return(m)
    /\ UNCHANGED <<tableVars, found>>

\* Mutant: only new incidents are announced.
InsertUnannounced(e, incident, topic) ==
    /\ alerts' = Append(alerts, [event |-> e, incident |-> incident, at |-> now])
    /\ outbox' = IF topic = "incidents.updated" THEN outbox
                 ELSE Append(outbox, [topic |-> topic, incident |-> incident])

\* Mutant: one topic for all.
InsertCreated(e, incident, topic) ==
    /\ alerts' = Append(alerts, [event |-> e, incident |-> incident, at |-> now])
    /\ outbox' = Append(outbox, [topic |-> "incidents.created", incident |-> incident])

\* Row `incident` of incidents gets the alert, the outbox an event about it.
Insert(e, incident, topic) ==
    /\ alerts' = Append(alerts, [event |-> e, incident |-> incident, at |-> now])
    /\ outbox' = Append(outbox, [topic |-> topic, incident |-> incident])

\* The whole list is written, as it was read; the severity only when it rises.
AttachAlert(m) ==
    LET e == CurrentEvent(m)
        old == found[m]
        severity == Escalated(old.severity, Severity(e))
    IN  /\ At(m, "write") /\ old # NoIncident
        /\ Mark(e)
        /\ Insert(e, old.row, "incidents.updated")
        /\ incidents' = [incidents EXCEPT
               ![old.row].alert_ids = old.alert_ids \cup {e},
               ![old.row].severity = IF severity # old.severity THEN severity ELSE @]
        /\ found' = [found EXCEPT ![m] = NoIncident]
        /\ Return(m)
        /\ UNCHANGED <<alertOf, now>>

CreateIncident(m) ==
    LET e == CurrentEvent(m)
    IN  /\ At(m, "write") /\ found[m] = NoIncident
        /\ Mark(e)
        /\ Insert(e, Len(incidents) + 1, "incidents.created")
        /\ incidents' = Append(incidents,
               [service |-> alertOf[e].service, namespace |-> alertOf[e].namespace,
                severity |-> Mapped(Severity(e)), open |-> TRUE, at |-> now,
                alert_ids |-> {e}])
        /\ Return(m)
        /\ UNCHANGED <<alertOf, now, found>>

\* Another transaction marked the event first: IntegrityError, rolled back.
MarkConflicts(m) ==
    /\ At(m, "mark") \/ At(m, "write")
    /\ CurrentEvent(m) \in processed
    /\ Raise(m)
    /\ found' = [found EXCEPT ![m] = NoIncident]
    /\ UNCHANGED <<processed, tableVars>>

handle_raw_alert(m) ==
    /\ \/ IgnoreResolved(m) \/ Deduplicate(m) \/ FindOpenIncident(m)
       \/ MarkDuplicate(m) \/ AttachAlert(m) \/ CreateIncident(m) \/ MarkConflicts(m)
    /\ UNCHANGED <<groupVars, consumerFaults>>

\* A crash or a database error ends the transaction.
HandlerEnds(m) ==
    (Crash(m) \/ DatabaseFails(m)) /\ found' = [found EXCEPT ![m] = NoIncident]
=============================================================================
