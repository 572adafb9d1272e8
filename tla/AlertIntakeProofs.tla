-------------------------- MODULE AlertIntakeProofs --------------------------
(***************************************************************************)
(* The properties of AlertIntake for any number of calls, events, alerts,  *)
(* correlators and faults.                                                 *)
(***************************************************************************)
EXTENDS AlertIntake, AegisConsumerProofs
-----------------------------------------------------------------------------
(* The inductive invariant.                                                *)

Remembered(e) ==
    \E i \in DOMAIN alerts : Fingerprint(alerts[i].event) = Fingerprint(e)

(* A row that another row, or a transaction, refers to is there, and no    *)
(* alert row is without the mark of its event.                             *)
TablesInv ==
    /\ AppliedOnce
    /\ \A i \in DOMAIN alerts : alerts[i].incident \in DOMAIN incidents
    /\ \A m \in Member : found[m] # NoIncident => found[m].row \in DOMAIN incidents

(* What a handler goes on to do has its reason in the tables.              *)
HandlingInv ==
    /\ \A e \in processed : Remembered(e)
    /\ \A m \in Member : pc[m] = "mark" => Remembered(CurrentEvent(m))
    /\ \A m \in Member : pc[m] = "commit" => Handled(CurrentEvent(m))

(* A record the group may leave behind.                                    *)
Done(r) == Handled(EventAt(r)) \/ r \in raised
DoneRecords == {r \in Record : Valid(r) /\ Done(r)}

(* Offsets and positions pass nothing but what is done.                    *)
OffsetsInv == Offsets(DoneRecords)

(* Of the alerts a call looked at, failed_count covers those that are not  *)
(* in the topic.                                                           *)
Covered(c, missing) ==
    /\ Cardinality(missing) <= failed[c]
    /\ \A i \in (1 .. looked[c]) \ missing : Logged(Alerts[c][i])

CallsInv ==
    \A c \in Call :
        /\ looked[c] <= Len(Alerts[c])
        /\ answer[c] = "accepted" => looked[c] = Len(Alerts[c])
        /\ answer[c] # "error" => \E missing \in SUBSET (1 .. looked[c]) : Covered(c, missing)

TypesInv == TypeOK /\ KeysInPlace /\ RecordsExist

IntakeInv == TypesInv /\ TablesInv /\ HandlingInv /\ OffsetsInv /\ CallsInv
-----------------------------------------------------------------------------
(* Severities and rows.                                                    *)

LEMMA SeverityTypes ==
    ASSUME CorrelatorTypeOK, NEW e \in Event
    PROVE  /\ Severity(e) \in AlertSeverity
           /\ Mapped(Severity(e)) \in IncidentSeverity
BY DEF CorrelatorTypeOK, Alert, Label, Severity, NormalizeSeverity, AlertSeverity, Mapped,
       IncidentSeverity

\* An escalation is never a step down.
LEMMA EscalationRises ==
    ASSUME NEW old \in IncidentSeverity, NEW severity \in AlertSeverity
    PROVE  /\ Escalated(old, severity) \in IncidentSeverity
           /\ Rank(Escalated(old, severity)) >= Rank(old)
BY DEF Escalated, Rank, Mapped, IncidentSeverity, AlertSeverity

LEMMA RowWritten ==
    ASSUME NEW i \in DOMAIN incidents, incidents \in Seq(Incident), NEW r \in Incident,
           incidents' = [incidents EXCEPT ![i] = r]
    PROVE  /\ incidents' \in Seq(Incident) /\ DOMAIN incidents' = DOMAIN incidents
           /\ incidents'[i] = r
           /\ \A j \in DOMAIN incidents : j # i => incidents'[j] = incidents[j]
BY ExceptSeq, LenProperties

\* What CloseIncident leaves.
LEMMA CloseWrites ==
    ASSUME CorrelatorTypeOK, NEW i \in DOMAIN incidents, CloseIncident(i)
    PROVE  /\ incidents' \in Seq(Incident) /\ DOMAIN incidents' = DOMAIN incidents
           /\ \A j \in DOMAIN incidents : /\ incidents'[j].severity = incidents[j].severity
                                         /\ incidents'[j].alert_ids = incidents[j].alert_ids
<1> DEFINE r == [incidents[i] EXCEPT !.open = FALSE]
<1>1. incidents \in Seq(Incident) /\ incidents[i] \in Incident
  BY DEF CorrelatorTypeOK
<1>2. r \in Incident /\ r.severity = incidents[i].severity /\ r.alert_ids = incidents[i].alert_ids
  BY <1>1 DEF Incident
<1>3. incidents' = [incidents EXCEPT ![i] = r]
  BY DEF CloseIncident
<1> HIDE DEF r
<1> QED BY <1>1, <1>2, <1>3, RowWritten

\* What AttachAlert leaves.
LEMMA AttachWrites ==
    ASSUME CorrelatorTypeOK, TablesInv, NEW m \in Member, CurrentEvent(m) \in Event,
           AttachAlert(m)
    PROVE  /\ found[m].row \in DOMAIN incidents
           /\ incidents' \in Seq(Incident) /\ DOMAIN incidents' = DOMAIN incidents
           /\ \A j \in DOMAIN incidents : j # found[m].row => incidents'[j] = incidents[j]
           /\ incidents'[found[m].row].alert_ids = found[m].alert_ids \cup {CurrentEvent(m)}
           /\ incidents'[found[m].row].severity \in
                 {incidents[found[m].row].severity,
                  Escalated(found[m].severity, Severity(CurrentEvent(m)))}
           /\ Escalated(found[m].severity, Severity(CurrentEvent(m))) = found[m].severity
                 => incidents'[found[m].row].severity = incidents[found[m].row].severity
<1> DEFINE e == CurrentEvent(m)
           i == found[m].row
           s == Escalated(found[m].severity, Severity(e))
           r == [incidents[i] EXCEPT
                    !.alert_ids = found[m].alert_ids \cup {e},
                    !.severity = IF s # found[m].severity THEN s ELSE @]
<1>1. found[m] # NoIncident /\ i \in DOMAIN incidents
  BY DEF AttachAlert, TablesInv
<1>2. /\ found[m].severity \in IncidentSeverity /\ found[m].alert_ids \subseteq Event
      /\ incidents \in Seq(Incident) /\ incidents[i] \in Incident
  BY <1>1 DEF CorrelatorTypeOK
<1>3. s \in IncidentSeverity
  BY <1>2, SeverityTypes, EscalationRises
<1> HIDE DEF s
<1>4. /\ r \in Incident
      /\ r.alert_ids = found[m].alert_ids \cup {e}
      /\ r.severity = (IF s # found[m].severity THEN s ELSE incidents[i].severity)
  BY <1>2, <1>3 DEF Incident
<1>5. incidents' = [incidents EXCEPT ![i] = r]
  BY <1>1, <1>2 DEF AttachAlert, s
<1> HIDE DEF r
<1>6. /\ incidents' \in Seq(Incident) /\ DOMAIN incidents' = DOMAIN incidents
      /\ incidents'[i] = r
      /\ \A j \in DOMAIN incidents : j # i => incidents'[j] = incidents[j]
  BY <1>1, <1>2, <1>4, <1>5, RowWritten
<1> QED BY <1>1, <1>4, <1>6 DEF s
-----------------------------------------------------------------------------
(* The handler.                                                            *)

TablesGrow ==
    /\ alertOf' = alertOf /\ processed \subseteq processed'
    /\ DOMAIN alerts \subseteq DOMAIN alerts' /\ DOMAIN incidents \subseteq DOMAIN incidents'
    /\ \A i \in DOMAIN alerts : alerts'[i] = alerts[i]

LEMMA HandlerMoves ==
    ASSUME NEW m \in Member, handle_raw_alert(m)
    PROVE  /\ pc[m] \in {"handle", "mark", "lookup", "write"}
           /\ UNCHANGED <<committed, mode, assigned, position, consumerFaults, alertOf, now>>
           /\ \/ /\ Raise(m) /\ UNCHANGED processed
              \/ \E place \in {"commit", "mark", "lookup", "write"} : GoTo(m, place)
BY DEF handle_raw_alert, IgnoreResolved, Deduplicate, FindOpenIncident, MarkDuplicate,
       AttachAlert, CreateIncident, MarkConflicts, At, Return, groupVars, tableVars

LEMMA AppendEffect ==
    ASSUME NEW S, NEW s \in Seq(S), NEW x \in S
    PROVE  /\ Append(s, x) \in Seq(S)
           /\ DOMAIN Append(s, x) = DOMAIN s \cup {Len(s) + 1}
           /\ \A j \in DOMAIN s : Append(s, x)[j] = s[j]
           /\ Append(s, x)[Len(s) + 1] = x
OBVIOUS

\* One row more in alerts and in the outbox.
LEMMA InsertTypes ==
    ASSUME CorrelatorTypeOK, NEW e \in Event, NEW i \in Nat \ {0},
           NEW topic \in {"incidents.created", "incidents.updated"}, Insert(e, i, topic)
    PROVE  /\ alerts' \in Seq([event: Event, incident: Nat \ {0}, at: 0 .. MaxTime])
           /\ outbox' \in Seq([topic: {"incidents.created", "incidents.updated"},
                              incident: Nat \ {0}])
           /\ DOMAIN alerts' = DOMAIN alerts \cup {Len(alerts) + 1}
           /\ \A j \in DOMAIN alerts : alerts'[j] = alerts[j]
           /\ alerts'[Len(alerts) + 1] = [event |-> e, incident |-> i, at |-> now]
<1> DEFINE row == [event |-> e, incident |-> i, at |-> now]
           out == [topic |-> topic, incident |-> i]
           Rows == [event: Event, incident: Nat \ {0}, at: 0 .. MaxTime]
           Outs == [topic: {"incidents.created", "incidents.updated"}, incident: Nat \ {0}]
<1>1. row \in Rows /\ alerts \in Seq(Rows)
  BY DEF CorrelatorTypeOK
<1>2. out \in Outs /\ outbox \in Seq(Outs)
  BY DEF CorrelatorTypeOK
<1>3. alerts' = Append(alerts, row) /\ outbox' = Append(outbox, out)
  BY DEF Insert
<1> HIDE DEF row, out, Rows, Outs
<1>4. /\ alerts' \in Seq(Rows)
      /\ DOMAIN alerts' = DOMAIN alerts \cup {Len(alerts) + 1}
      /\ \A j \in DOMAIN alerts : alerts'[j] = alerts[j]
      /\ alerts'[Len(alerts) + 1] = row
  BY <1>1, <1>3, AppendEffect
<1>5. outbox' \in Seq(Outs)
  BY <1>2, <1>3, AppendEffect
<1> QED BY <1>4, <1>5 DEF row, Rows, Outs

\* A marked event that got a row of its own leaves the tables in order.
LEMMA InsertKeeps ==
    ASSUME TypeOK, TablesInv, HandlingInv, NEW e \in Event, Mark(e), UNCHANGED alertOf,
           NEW i \in Nat \ {0}, NEW topic \in {"incidents.created", "incidents.updated"},
           Insert(e, i, topic), DOMAIN incidents \subseteq DOMAIN incidents',
           i \in DOMAIN incidents'
    PROVE  /\ AppliedOnce' /\ TablesGrow
           /\ \A j \in DOMAIN alerts' : alerts'[j].incident \in DOMAIN incidents'
           /\ \A f \in processed' : Remembered(f)'
<1> DEFINE n == Len(alerts) + 1
<1>1. /\ DOMAIN alerts' = DOMAIN alerts \cup {n}
      /\ \A j \in DOMAIN alerts : alerts'[j] = alerts[j]
      /\ alerts'[n].event = e /\ alerts'[n].incident = i
  <2>1. CorrelatorTypeOK
    BY DEF TypeOK
  <2>2. /\ DOMAIN alerts' = DOMAIN alerts \cup {n}
        /\ \A j \in DOMAIN alerts : alerts'[j] = alerts[j]
        /\ alerts'[n] = [event |-> e, incident |-> i, at |-> now]
    BY <2>1, InsertTypes
  <2> QED BY <2>2
<1>2. n \notin DOMAIN alerts
  BY DEF TypeOK, CorrelatorTypeOK
<1> HIDE DEF n
<1>3. e \notin processed /\ processed' = processed \cup {e}
  BY DEF Mark
<1>4. \A j \in DOMAIN alerts : alerts[j].event # e
  BY <1>3 DEF TablesInv, AppliedOnce
<1>5. AppliedOnce'
  BY <1>1, <1>2, <1>3, <1>4 DEF TablesInv, AppliedOnce
<1>6. TablesGrow
  BY <1>1, <1>3 DEF TablesGrow
<1>7. \A j \in DOMAIN alerts' : alerts'[j].incident \in DOMAIN incidents'
  BY <1>1 DEF TablesInv
<1>8. \A f : Fingerprint(f)' = Fingerprint(f)
  BY DEF Fingerprint
<1>9. \A f \in processed' : Remembered(f)'
  BY <1>1, <1>3, <1>8 DEF HandlingInv, Remembered
<1> QED BY <1>5, <1>6, <1>7, <1>9

LEMMA HandlerTables ==
    ASSUME TypesInv, TablesInv, HandlingInv, NEW m \in Member, UNCHANGED log,
           handle_raw_alert(m)
    PROVE  /\ CorrelatorTypeOK' /\ TablesGrow /\ TablesInv' /\ processed' \subseteq Event
           /\ \A e \in processed' : Remembered(e)'
<1>0. TypeOK /\ CorrelatorTypeOK /\ ConsumerTypeOK
  BY DEF TypesInv, TypeOK
<1>1. PICK e \in Event : e = CurrentEvent(m)
  <2>1. pc[m] # "poll"
    BY HandlerMoves
  <2> QED BY <2>1, ValidEvent DEF TypesInv, TypeOK, RecordsExist, CurrentEvent
<1>2. CASE /\ UNCHANGED <<alertOf, now, alerts, incidents, outbox>>
           /\ \/ UNCHANGED found
              \/ found' = [found EXCEPT ![m] = NoIncident]
              \/ \E i \in DOMAIN incidents : found' = [found EXCEPT ![m] = Read(i)]
           /\ \/ UNCHANGED processed
              \/ processed' = processed \cup {e} /\ Remembered(e)
  <2>1. \A i \in DOMAIN incidents :
           /\ Read(i) \in [row: Nat \ {0}, severity: IncidentSeverity, alert_ids: SUBSET Event]
           /\ Read(i).row = i
    <3> TAKE i \in DOMAIN incidents
    <3>1. incidents[i] \in Incident /\ i \in Nat \ {0}
      BY <1>0 DEF CorrelatorTypeOK
    <3> QED BY <3>1 DEF Incident, Read
  <2>2. CorrelatorTypeOK'
    BY <1>0, <1>2, <2>1 DEF CorrelatorTypeOK
  <2>3. \A f : Remembered(f)' <=> Remembered(f)
    BY <1>2 DEF Remembered, Fingerprint
  <2>4. TablesGrow
    BY <1>2 DEF TablesGrow
  <2>5. TablesInv'
    <3>1. \A n \in Member : found'[n] # NoIncident => found'[n].row \in DOMAIN incidents
      BY <1>0, <1>2, <2>1 DEF TablesInv, CorrelatorTypeOK
    <3>2. AppliedOnce'
      BY <1>2 DEF TablesInv, AppliedOnce
    <3> QED BY <1>2, <3>1, <3>2 DEF TablesInv
  <2>6. processed' \subseteq Event /\ \A f \in processed' : Remembered(f)'
    BY <1>0, <1>2, <2>3 DEF HandlingInv, ConsumerTypeOK
  <2> QED BY <2>2, <2>4, <2>5, <2>6
<1>3. CASE IgnoreResolved(m) \/ Deduplicate(m)
  BY <1>2, <1>3 DEF IgnoreResolved, Deduplicate, tableVars
<1>4. CASE FindOpenIncident(m)
  <2>1. OpenIncidents(CurrentEvent(m)) \subseteq DOMAIN incidents
    BY DEF OpenIncidents
  <2> QED BY <1>2, <1>4, <2>1 DEF FindOpenIncident, tableVars
<1>5. CASE MarkDuplicate(m)
  <2>1. Remembered(e)
    BY <1>1, <1>5 DEF MarkDuplicate, At, HandlingInv
  <2> QED BY <1>1, <1>2, <1>5, <2>1 DEF MarkDuplicate, Mark, tableVars
<1>6. CASE MarkConflicts(m)
  BY <1>2, <1>6 DEF MarkConflicts, tableVars
<1>7. CASE AttachAlert(m)
  <2>1. /\ found[m].row \in DOMAIN incidents
        /\ incidents' \in Seq(Incident) /\ DOMAIN incidents' = DOMAIN incidents
    BY <1>0, <1>1, <1>7, AttachWrites
  <2>2. found[m].row \in Nat \ {0}
    BY <1>0, <2>1 DEF CorrelatorTypeOK
  <2>3. /\ Insert(e, found[m].row, "incidents.updated") /\ Mark(e)
        /\ found' = [found EXCEPT ![m] = NoIncident] /\ UNCHANGED <<alertOf, now>>
        /\ UNCHANGED alertOf
    BY <1>1, <1>7 DEF AttachAlert
  <2>4. CorrelatorTypeOK'
    <3>1. /\ alerts' \in Seq([event: Event, incident: Nat \ {0}, at: 0 .. MaxTime])
          /\ outbox' \in Seq([topic: {"incidents.created", "incidents.updated"},
                             incident: Nat \ {0}])
      BY <1>0, <2>2, <2>3, InsertTypes
    <3> QED BY <1>0, <2>1, <2>3, <3>1 DEF CorrelatorTypeOK
  <2>5. /\ AppliedOnce' /\ TablesGrow
        /\ \A j \in DOMAIN alerts' : alerts'[j].incident \in DOMAIN incidents'
        /\ \A f \in processed' : Remembered(f)'
    BY <1>0, <2>1, <2>2, <2>3, InsertKeeps
  <2>6. \A n \in Member : found'[n] # NoIncident => found'[n].row \in DOMAIN incidents'
    BY <1>0, <2>1, <2>3 DEF TablesInv, CorrelatorTypeOK
  <2>7. processed' \subseteq Event
    BY <1>0, <2>3 DEF Mark, ConsumerTypeOK
  <2> QED BY <2>4, <2>5, <2>6, <2>7 DEF TablesInv
<1>8. CASE CreateIncident(m)
  <2> DEFINE r == [service |-> alertOf[e].service, namespace |-> alertOf[e].namespace,
                   severity |-> Mapped(Severity(e)), open |-> TRUE, at |-> now,
                   alert_ids |-> {e}]
             i == Len(incidents) + 1
  <2>1. r \in Incident
    BY <1>0, SeverityTypes DEF CorrelatorTypeOK, Alert, Incident
  <2>2. /\ incidents' = Append(incidents, r)
        /\ Insert(e, i, "incidents.created") /\ Mark(e)
        /\ UNCHANGED <<alertOf, now, found>> /\ UNCHANGED alertOf
    BY <1>1, <1>8 DEF CreateIncident
  <2> HIDE DEF r
  <2>3. /\ incidents' \in Seq(Incident) /\ i \in Nat \ {0}
        /\ DOMAIN incidents' = DOMAIN incidents \cup {i}
    BY <1>0, <2>1, <2>2 DEF CorrelatorTypeOK
  <2> HIDE DEF i
  <2>4. CorrelatorTypeOK'
    <3>1. /\ alerts' \in Seq([event: Event, incident: Nat \ {0}, at: 0 .. MaxTime])
          /\ outbox' \in Seq([topic: {"incidents.created", "incidents.updated"},
                             incident: Nat \ {0}])
      BY <1>0, <2>2, <2>3, InsertTypes
    <3> QED BY <1>0, <2>2, <2>3, <3>1 DEF CorrelatorTypeOK
  <2>5. /\ AppliedOnce' /\ TablesGrow
        /\ \A j \in DOMAIN alerts' : alerts'[j].incident \in DOMAIN incidents'
        /\ \A f \in processed' : Remembered(f)'
    BY <1>0, <2>2, <2>3, InsertKeeps
  <2>6. \A n \in Member : found'[n] # NoIncident => found'[n].row \in DOMAIN incidents'
    BY <2>2, <2>3 DEF TablesInv
  <2>7. processed' \subseteq Event
    BY <1>0, <2>2 DEF Mark, ConsumerTypeOK
  <2> QED BY <2>4, <2>5, <2>6, <2>7 DEF TablesInv
<1> QED BY <1>3, <1>4, <1>5, <1>6, <1>7, <1>8 DEF handle_raw_alert
-----------------------------------------------------------------------------
(* What a growing topic and growing tables leave true.                     *)

LEMMA Growth ==
    ASSUME TypesInv, log' \in [Partition -> Seq(Event)], LogGrows, TablesGrow, raised \subseteq raised'
    PROVE  /\ \A r : Valid(r) => Valid(r)' /\ EventAt(r)' = EventAt(r)
           /\ \A e : Remembered(e) => Remembered(e)'
           /\ \A e : Handled(e) => Handled(e)'
           /\ \A r : Valid(r) /\ Done(r) => Done(r)'
<1>1. \A r : Valid(r) => Valid(r)' /\ EventAt(r)' = EventAt(r)
  BY GrowthKeeps DEF TypesInv, TypeOK, TopicTypeOK
<1>2. \A e : Remembered(e) => Remembered(e)'
  BY DEF Remembered, Fingerprint, TablesGrow
<1>3. \A e : Handled(e) => Handled(e)'
  BY DEF Handled, Ignored, TablesGrow
<1>4. \A r : Valid(r) /\ Done(r) => Done(r)'
  <2> TAKE r
  <2>1. CASE Valid(r) /\ r \in raised
    BY <2>1 DEF Done
  <2>2. CASE Valid(r) /\ Handled(EventAt(r))
    BY <1>1, <1>3, <2>2 DEF Done
  <2> QED BY <2>1, <2>2 DEF Done
<1> QED BY <1>1, <1>2, <1>3, <1>4

\* What a member may do without a reason of its own.
Plainly(n) ==
    \/ pc'[n] = pc[n] /\ current'[n] = current[n]
    \/ pc'[n] \notin {"mark", "commit"}

LEMMA HandlingKept ==
    ASSUME TypesInv, HandlingInv, log' \in [Partition -> Seq(Event)], LogGrows, TablesGrow,
           raised \subseteq raised', \A e \in processed' : Remembered(e)',
           \A n \in Member :
              \/ Plainly(n)
              \/ /\ pc[n] # "poll" /\ current'[n] = current[n]
                 /\ pc'[n] = "mark" => Remembered(CurrentEvent(n))
                 /\ pc'[n] = "commit" => Handled(CurrentEvent(n)) \/ CurrentEvent(n) \in processed'
    PROVE  HandlingInv'
<1> SUFFICES ASSUME NEW n \in Member
             PROVE  /\ pc'[n] = "mark" => Remembered(CurrentEvent(n))'
                    /\ pc'[n] = "commit" => Handled(CurrentEvent(n))'
  BY DEF HandlingInv
<1>1. CASE pc'[n] \notin {"mark", "commit"}
  BY <1>1
<1>2. CASE pc'[n] \in {"mark", "commit"}
  <2>1. /\ pc[n] # "poll" /\ current'[n] = current[n]
        /\ pc'[n] = "mark" => Remembered(CurrentEvent(n))
        /\ pc'[n] = "commit" => Handled(CurrentEvent(n)) \/ CurrentEvent(n) \in processed'
    BY <1>2 DEF Plainly, HandlingInv
  <2>2. PICK e : e = CurrentEvent(n)
    OBVIOUS
  <2>3. CurrentEvent(n)' = e
    BY <2>1, <2>2, Growth DEF TypesInv, RecordsExist, CurrentEvent
  <2>4. pc'[n] = "mark" => Remembered(e)'
    BY <2>1, <2>2, Growth
  <2>5. pc'[n] = "commit" => Handled(e)'
    <3>1. Handled(e) => Handled(e)'
      BY Growth
    <3>2. e \in processed' => Handled(e)'
      BY DEF Handled
    <3> QED BY <2>1, <2>2, <3>1, <3>2
  <2>6. pc'[n] = "mark" => Remembered(CurrentEvent(n))'
    BY <2>3, <2>4 DEF Remembered, Fingerprint
  <2>7. pc'[n] = "commit" => Handled(CurrentEvent(n))'
    BY <2>3, <2>5 DEF Handled, Ignored
  <2> QED BY <2>6, <2>7
<1> QED BY <1>1, <1>2
-----------------------------------------------------------------------------
(* Types, tables and handlers, step by step.                               *)

StepKeeps ==
    /\ TypesInv' /\ TablesInv' /\ HandlingInv'
    /\ log' \in [Partition -> Seq(Event)] /\ LogGrows /\ TablesGrow /\ raised \subseteq raised'

\* A step that leaves log and tables alone.
LEMMA StillGrows ==
    ASSUME TypesInv
    PROVE  /\ UNCHANGED log => /\ log' \in [Partition -> Seq(Event)] /\ LogGrows
                               /\ KeysInPlace' /\ (sendFaults' = sendFaults => TopicTypeOK')
           /\ UNCHANGED <<tableVars, processed>> => TablesGrow
           /\ UNCHANGED <<tableVars, processed, found>> /\ TablesInv /\ HandlingInv
                 => TablesInv' /\ \A e \in processed' : Remembered(e)'
<1>1. UNCHANGED log => /\ log' \in [Partition -> Seq(Event)] /\ LogGrows
                       /\ KeysInPlace' /\ (sendFaults' = sendFaults => TopicTypeOK')
  BY DEF TypesInv, TypeOK, TopicTypeOK, LogGrows, KeysInPlace
<1>2. UNCHANGED <<tableVars, processed>> => TablesGrow
  BY DEF tableVars, TablesGrow
<1>3. UNCHANGED <<tableVars, processed, found>> /\ TablesInv /\ HandlingInv
         => TablesInv' /\ \A e \in processed' : Remembered(e)'
  BY DEF tableVars, TablesInv, AppliedOnce, HandlingInv, Remembered, Fingerprint
<1> QED BY <1>1, <1>2, <1>3

LEMMA NextAlertIsEvent ==
    ASSUME TypesInv, NEW c \in Call, Pending(c)
    PROVE  NextAlert(c) \in Event /\ looked[c] + 1 \in 1 .. Len(Alerts[c]) /\ looked[c] \in Nat
<1>1. looked[c] \in Nat /\ Alerts[c] \in Seq(Event)
  BY IngestorAssumption DEF TypesInv, TypeOK, IngestorTypeOK
<1> QED BY <1>1 DEF Pending, NextAlert

LEMMA IngestorGrows ==
    ASSUME TypesInv, IngestorNext
    PROVE  TopicTypeOK' /\ IngestorTypeOK' /\ KeysInPlace' /\ LogGrows
<1>0. TopicTypeOK /\ IngestorTypeOK /\ KeysInPlace
  BY DEF TypesInv, TypeOK
<1>1. PICK c \in Call : CallStep(c) \/ CallDies(c)
  BY DEF IngestorNext
<1>2. CASE \/ PublishAlert(c) \/ CountFailure(c) \/ ManualFails(c)
  <2>1. /\ Pending(c) /\ (SendSucceeds(NextAlert(c)) \/ SendFails(NextAlert(c)))
        /\ looked' = [looked EXCEPT ![c] = @ + 1]
        /\ failed' = failed \/ failed' = [failed EXCEPT ![c] = @ + 1]
        /\ answer' = answer \/ answer' = [answer EXCEPT ![c] = "error"]
    BY <1>2 DEF PublishAlert, CountFailure, ManualFails, Look
  <2>2. TopicTypeOK' /\ LogGrows /\ KeysInPlace'
    BY <1>0, <2>1, NextAlertIsEvent, SendGrows
  <2>3. IngestorTypeOK'
    BY <1>0, <2>1 DEF IngestorTypeOK
  <2> QED BY <2>2, <2>3
<1>3. CASE Answer(c)
  BY <1>0, <1>3, StillGrows DEF Answer, topicVars, IngestorTypeOK
<1>4. CASE CallDies(c)
  <2>1. TopicTypeOK'
    BY <1>0, <1>4, TopicAssumption DEF CallDies, SendFaults, TopicTypeOK
  <2> QED BY <1>0, <1>4, <2>1, StillGrows DEF CallDies, IngestorTypeOK
<1> QED BY <1>1, <1>2, <1>3, <1>4 DEF CallStep

LEMMA IngestorStep ==
    ASSUME TypesInv, TablesInv, HandlingInv, IngestorMoves
    PROVE  StepKeeps
<1>0. ConsumerTypeOK /\ CorrelatorTypeOK /\ RecordsExist
  BY DEF TypesInv, TypeOK
<1>1. /\ TopicTypeOK' /\ IngestorTypeOK' /\ KeysInPlace' /\ LogGrows
      /\ log' \in [Partition -> Seq(Event)]
  BY IngestorGrows DEF IngestorMoves, TopicTypeOK
<1>2. /\ UNCHANGED <<tableVars, processed, found>> /\ UNCHANGED <<tableVars, processed>>
      /\ raised \subseteq raised' /\ \A n \in Member : Plainly(n)
      /\ UNCHANGED <<consumerVars, correlatorVars>>
  BY DEF IngestorMoves, consumerVars, loopVars, correlatorVars, tableVars, Plainly
<1>3. TablesGrow /\ TablesInv' /\ \A e \in processed' : Remembered(e)'
  BY <1>2, StillGrows
<1>4. HandlingInv'
  BY <1>1, <1>2, <1>3, HandlingKept
<1>5. RecordsExist'
  BY <1>0, <1>1, <1>2, <1>3, Growth DEF RecordsExist, consumerVars, loopVars
<1>6. ConsumerTypeOK' /\ CorrelatorTypeOK'
  BY <1>0, <1>2 DEF ConsumerTypeOK, CorrelatorTypeOK, consumerVars, groupVars, loopVars,
                    correlatorVars
<1> QED BY <1>1, <1>2, <1>3, <1>4, <1>5, <1>6 DEF StepKeeps, TypesInv, TypeOK

\* Steps of members, of their groups and of the world leave calls and topic alone.
LEMMA QuietStep ==
    ASSUME TypesInv, UNCHANGED <<topicVars, ingestorVars>>
    PROVE  /\ TopicTypeOK' /\ IngestorTypeOK' /\ KeysInPlace' /\ LogGrows
           /\ log' \in [Partition -> Seq(Event)] /\ UNCHANGED log
BY StillGrows DEF TypesInv, TypeOK, IngestorTypeOK, topicVars, ingestorVars

LEMMA LoopStep ==
    ASSUME TypesInv, TablesInv, HandlingInv, NEW m \in Member, LoopMoves(m),
           UNCHANGED correlatorVars, UNCHANGED <<topicVars, ingestorVars>>
    PROVE  StepKeeps
<1>0. TopicTypeOK /\ ConsumerTypeOK /\ CorrelatorTypeOK /\ RecordsExist
  BY DEF TypesInv, TypeOK
<1>1. /\ TopicTypeOK' /\ IngestorTypeOK' /\ KeysInPlace' /\ LogGrows
      /\ log' \in [Partition -> Seq(Event)] /\ UNCHANGED log
  BY QuietStep
<1>2. ConsumerTypeOK' /\ RecordsExist'
  BY <1>0, <1>1, LoopTypes
<1>3. /\ UNCHANGED <<tableVars, processed, found>> /\ UNCHANGED <<tableVars, processed>>
      /\ raised \subseteq raised'
  BY DEF LoopMoves, Poll, CheckProcessed, CommitOffsets, Return, GoTo, correlatorVars, tableVars
<1>4. TablesGrow /\ TablesInv' /\ CorrelatorTypeOK' /\ \A e \in processed' : Remembered(e)'
  BY <1>0, <1>3, StillGrows DEF CorrelatorTypeOK, correlatorVars
<1>5. ASSUME NEW n \in Member
      PROVE  \/ Plainly(n)
             \/ /\ pc[n] # "poll" /\ current'[n] = current[n]
                /\ pc'[n] = "mark" => Remembered(CurrentEvent(n))
                /\ pc'[n] = "commit" => Handled(CurrentEvent(n)) \/ CurrentEvent(n) \in processed'
  <2>1. CASE Poll(m)
    BY <1>0, <2>1 DEF Poll, ConsumerTypeOK, Plainly
  <2>2. CASE CommitOffsets(m)
    BY <1>0, <2>2 DEF CommitOffsets, ConsumerTypeOK, Plainly
  <2>3. CASE CheckProcessed(m)
    BY <1>0, <1>3, <2>3 DEF CheckProcessed, At, Return, GoTo, ConsumerTypeOK, Plainly, CurrentEvent
  <2> QED BY <2>1, <2>2, <2>3 DEF LoopMoves
<1>6. HandlingInv'
  BY <1>1, <1>3, <1>4, <1>5, HandlingKept
<1> QED BY <1>1, <1>2, <1>3, <1>4, <1>6 DEF StepKeeps, TypesInv, TypeOK

LEMMA HandlerStep ==
    ASSUME TypesInv, TablesInv, HandlingInv, NEW m \in Member, handle_raw_alert(m),
           UNCHANGED <<topicVars, ingestorVars>>
    PROVE  StepKeeps
<1>0. TopicTypeOK /\ ConsumerTypeOK /\ CorrelatorTypeOK /\ RecordsExist
  BY DEF TypesInv, TypeOK
<1>1. /\ TopicTypeOK' /\ IngestorTypeOK' /\ KeysInPlace' /\ LogGrows
      /\ log' \in [Partition -> Seq(Event)] /\ UNCHANGED log
  BY QuietStep
<1>2. /\ CorrelatorTypeOK' /\ TablesGrow /\ TablesInv' /\ processed' \subseteq Event
      /\ \A e \in processed' : Remembered(e)'
  BY <1>1, HandlerTables
<1>3. /\ pc[m] \in {"handle", "mark", "lookup", "write"}
      /\ UNCHANGED <<committed, mode, assigned, position, consumerFaults>>
      /\ Raise(m) \/ \E place \in {"commit", "mark", "lookup", "write"} : GoTo(m, place)
  BY HandlerMoves
<1>4. {"poll", "commit", "mark", "lookup", "write"} \subseteq Pc /\ pc[m] # "poll"
  BY <1>3, CorrelatorAssumption DEF Pc
<1>5. Valid(current[m])
  BY <1>0, <1>4 DEF RecordsExist
<1>6. /\ pc' \in [Member -> Pc] /\ RecordsExist' /\ raised \subseteq raised'
      /\ current' \in [Member -> Record \cup {NoRecord}] /\ raised' \subseteq Record
  <2>1. CASE Raise(m)
    BY <1>0, <1>1, <1>4, <1>5, <2>1 DEF Raise, RecordsExist, ConsumerTypeOK, Valid
  <2>2. CASE \E place \in {"commit", "mark", "lookup", "write"} : GoTo(m, place)
    <3>1. PICK place \in {"commit", "mark", "lookup", "write"} : GoTo(m, place)
      BY <2>2
    <3>2. place \in Pc
      BY <1>4
    <3>3. raised' = raised
      BY <3>1 DEF GoTo
    <3> QED BY <1>0, <1>1, <1>4, <3>1, <3>2, <3>3, StepTypes
  <2> QED BY <1>3, <2>1, <2>2
<1>7. ConsumerTypeOK'
  BY <1>0, <1>2, <1>3, <1>6 DEF ConsumerTypeOK
<1>8. ASSUME NEW n \in Member
      PROVE  \/ Plainly(n)
             \/ /\ pc[n] # "poll" /\ current'[n] = current[n]
                /\ pc'[n] = "mark" => Remembered(CurrentEvent(n))
                /\ pc'[n] = "commit" => Handled(CurrentEvent(n)) \/ CurrentEvent(n) \in processed'
  <2>1. CASE n # m
    BY <1>0, <1>3, <2>1 DEF Raise, GoTo, ConsumerTypeOK, Plainly
  <2>2. CASE n = m /\ Raise(m)
    BY <1>0, <2>2 DEF Raise, ConsumerTypeOK, Plainly
  <2>3. CASE n = m /\ \E place \in {"commit", "mark", "lookup", "write"} : GoTo(m, place)
    <3>1. current' = current
      BY <2>3 DEF GoTo
    <3>2. pc'[m] = "mark" => Remembered(CurrentEvent(m))
      <4> SUFFICES ASSUME pc'[m] = "mark" PROVE Remembered(CurrentEvent(m))
        OBVIOUS
      <4>1. Deduplicate(m)
        BY <1>0 DEF handle_raw_alert, IgnoreResolved, FindOpenIncident, MarkDuplicate,
                    AttachAlert, CreateIncident, MarkConflicts, Raise, Return, GoTo, ConsumerTypeOK
      <4>2. HasRecentDuplicate(CurrentEvent(m))
        BY <1>0, <4>1 DEF Deduplicate, Return, GoTo, ConsumerTypeOK
      <4> QED BY <4>2 DEF HasRecentDuplicate, Remembered
    <3>3. pc'[m] = "commit" => Handled(CurrentEvent(m)) \/ CurrentEvent(m) \in processed'
      <4> SUFFICES ASSUME pc'[m] = "commit"
                   PROVE  Handled(CurrentEvent(m)) \/ CurrentEvent(m) \in processed'
        OBVIOUS
      <4>1. CASE IgnoreResolved(m)
        BY <4>1 DEF IgnoreResolved, Handled, Ignored
      <4>2. CASE Deduplicate(m)
        BY <1>0, <4>2 DEF Deduplicate, Return, GoTo, ConsumerTypeOK, Handled
      <4>3. CASE FindOpenIncident(m) \/ MarkConflicts(m)
        BY <1>0, <4>3 DEF FindOpenIncident, MarkConflicts, Raise, GoTo, ConsumerTypeOK
      <4>4. CASE MarkDuplicate(m) \/ AttachAlert(m) \/ CreateIncident(m)
        BY <4>4 DEF MarkDuplicate, AttachAlert, CreateIncident, Mark
      <4> QED BY <4>1, <4>2, <4>3, <4>4 DEF handle_raw_alert
    <3> QED BY <1>4, <2>3, <3>1, <3>2, <3>3
  <2> QED BY <1>3, <2>1, <2>2, <2>3
<1>9. HandlingInv'
  BY <1>1, <1>2, <1>6, <1>8, HandlingKept
<1> QED BY <1>1, <1>2, <1>6, <1>7, <1>9 DEF StepKeeps, TypesInv, TypeOK

LEMMA GroupsStep == TypesInv /\ TablesInv /\ HandlingInv /\ GroupStep => StepKeeps
<1> SUFFICES ASSUME TypesInv, TablesInv, HandlingInv, GroupStep PROVE StepKeeps
  OBVIOUS
<1>0. ConsumerTypeOK /\ CorrelatorTypeOK /\ RecordsExist
  BY DEF TypesInv, TypeOK
<1>1. /\ TopicTypeOK' /\ IngestorTypeOK' /\ KeysInPlace' /\ LogGrows
      /\ log' \in [Partition -> Seq(Event)] /\ UNCHANGED log
  BY QuietStep DEF GroupStep
<1>2. /\ UNCHANGED <<pc, current, raised, processed, consumerFaults>> /\ GroupMoves
      /\ UNCHANGED correlatorVars
  BY GroupKeepsRecords DEF GroupStep
<1>3. ConsumerTypeOK' /\ CorrelatorTypeOK' /\ RecordsExist'
  BY <1>0, <1>1, <1>2, GroupTypes DEF CorrelatorTypeOK, correlatorVars, RecordsExist, Valid
<1>4. /\ UNCHANGED <<tableVars, processed, found>> /\ UNCHANGED <<tableVars, processed>>
      /\ raised \subseteq raised' /\ \A n \in Member : Plainly(n)
  BY <1>2 DEF correlatorVars, tableVars, Plainly
<1>5. TablesGrow /\ TablesInv' /\ \A e \in processed' : Remembered(e)'
  BY <1>4, StillGrows
<1>6. HandlingInv'
  BY <1>1, <1>4, <1>5, HandlingKept
<1> QED BY <1>1, <1>3, <1>4, <1>5, <1>6 DEF StepKeeps, TypesInv, TypeOK

LEMMA DisturbedStep ==
    ASSUME TypesInv, TablesInv, HandlingInv, NEW m \in Member, MemberDisturbed(m)
    PROVE  StepKeeps
<1>0. ConsumerTypeOK /\ CorrelatorTypeOK /\ RecordsExist
  BY DEF TypesInv, TypeOK
<1>1. /\ TopicTypeOK' /\ IngestorTypeOK' /\ KeysInPlace' /\ LogGrows
      /\ log' \in [Partition -> Seq(Event)] /\ UNCHANGED log
  BY QuietStep DEF MemberDisturbed
<1>2. ConsumerTypeOK' /\ RecordsExist'
  BY <1>0, <1>1, FailTypes DEF MemberDisturbed, HandlerEnds, MemberFails
<1>3. /\ UNCHANGED <<tableVars, processed>> /\ raised \subseteq raised'
      /\ found' = found \/ found' = [found EXCEPT ![m] = NoIncident]
      /\ \A n \in Member : Plainly(n)
  BY <1>0 DEF MemberDisturbed, Expel, HandlerEnds, Crash, DatabaseFails, Raise, tableVars,
              correlatorVars, loopVars, Plainly, ConsumerTypeOK
<1>4. CorrelatorTypeOK' /\ TablesGrow
  BY <1>0, <1>3, StillGrows DEF CorrelatorTypeOK, tableVars
<1>5. TablesInv' /\ \A e \in processed' : Remembered(e)'
  <2>1. \A n \in Member : found'[n] # NoIncident => found'[n] = found[n]
    BY <1>0, <1>3 DEF CorrelatorTypeOK
  <2> QED BY <1>3, <2>1 DEF tableVars, TablesInv, AppliedOnce, HandlingInv, Remembered, Fingerprint
<1>6. HandlingInv'
  BY <1>1, <1>3, <1>4, <1>5, HandlingKept
<1> QED BY <1>1, <1>2, <1>3, <1>4, <1>5, <1>6 DEF StepKeeps, TypesInv, TypeOK

LEMMA WorldStep == TypesInv /\ TablesInv /\ HandlingInv /\ World => StepKeeps
<1> SUFFICES ASSUME TypesInv, TablesInv, HandlingInv, World PROVE StepKeeps
  OBVIOUS
<1>0. ConsumerTypeOK /\ CorrelatorTypeOK /\ RecordsExist
  BY DEF TypesInv, TypeOK
<1>1. /\ TopicTypeOK' /\ IngestorTypeOK' /\ KeysInPlace' /\ LogGrows
      /\ log' \in [Partition -> Seq(Event)] /\ UNCHANGED log
  BY QuietStep DEF World
<1>2. /\ UNCHANGED <<committed, mode, assigned, position, pc, current, processed, raised, consumerFaults>>
      /\ raised \subseteq raised' /\ \A n \in Member : Plainly(n)
  BY DEF World, consumerVars, groupVars, loopVars, Plainly
<1>3. ConsumerTypeOK' /\ RecordsExist'
  BY <1>0, <1>1, <1>2 DEF ConsumerTypeOK, RecordsExist, Valid
<1>4. /\ UNCHANGED <<alertOf, alerts, outbox, found>> /\ now' \in 0 .. MaxTime
      /\ incidents' \in Seq(Incident) /\ DOMAIN incidents' = DOMAIN incidents
  <2>1. CASE Tick
    BY <1>0, <2>1, CorrelatorAssumption DEF Tick, CorrelatorTypeOK
  <2>2. CASE \E i \in DOMAIN incidents : CloseIncident(i)
    <3>1. PICK i \in DOMAIN incidents : CloseIncident(i)
      BY <2>2
    <3>2. incidents' \in Seq(Incident) /\ DOMAIN incidents' = DOMAIN incidents
      BY <1>0, <3>1, CloseWrites
    <3> QED BY <1>0, <3>1, <3>2 DEF CloseIncident, CorrelatorTypeOK
  <2> QED BY <2>1, <2>2 DEF World
<1>5. CorrelatorTypeOK' /\ TablesGrow
  BY <1>0, <1>2, <1>4 DEF CorrelatorTypeOK, TablesGrow
<1>6. TablesInv' /\ \A e \in processed' : Remembered(e)'
  BY <1>2, <1>4 DEF TablesInv, AppliedOnce, HandlingInv, Remembered, Fingerprint
<1>7. HandlingInv'
  BY <1>1, <1>2, <1>5, <1>6, HandlingKept
<1> QED BY <1>1, <1>2, <1>3, <1>5, <1>6, <1>7 DEF StepKeeps, TypesInv, TypeOK

LEMMA NextKeeps == TypesInv /\ TablesInv /\ HandlingInv /\ Next => StepKeeps
<1> SUFFICES ASSUME TypesInv, TablesInv, HandlingInv, Next PROVE StepKeeps
  OBVIOUS
<1>1. CASE IngestorMoves
  BY <1>1, IngestorStep
<1>2. CASE \E m \in Member : MemberStep(m) \/ MemberDisturbed(m)
  BY <1>2, LoopStep, HandlerStep, DisturbedStep DEF MemberStep
<1>3. CASE GroupStep \/ World
  BY <1>3, GroupsStep, WorldStep
<1> QED BY <1>1, <1>2, <1>3 DEF Next
-----------------------------------------------------------------------------
(* Offsets.                                                                *)

\* What is done stays done.
LEMMA DoneRecordsGrow ==
    ASSUME TypesInv, StepKeeps
    PROVE  DoneRecords \subseteq DoneRecords'
<1> SUFFICES ASSUME NEW r \in DoneRecords PROVE r \in DoneRecords'
  OBVIOUS
<1>1. r \in Record /\ Valid(r) /\ Done(r)
  BY DEF DoneRecords
<1>2. Valid(r)' /\ Done(r)'
  BY <1>1, Growth DEF StepKeeps
<1> QED BY <1>1, <1>2 DEF DoneRecords

LEMMA NextOffsets ==
    ASSUME IntakeInv, Next, StepKeeps
    PROVE  OffsetsInv' /\ CommittedGrows
<1> PICK D, E : D = DoneRecords /\ E = DoneRecords'
  OBVIOUS
<1>0. TypesInv /\ ConsumerTypeOK /\ HandlingInv /\ Offsets(D) /\ D \subseteq E
  BY DoneRecordsGrow DEF IntakeInv, TypesInv, TypeOK, OffsetsInv, Offsets
<1>1. raised' \subseteq E
  BY DEF StepKeeps, TypesInv, TypeOK, ConsumerTypeOK, RecordsExist, DoneRecords, Done
<1> SUFFICES Offsets(E)' /\ CommittedGrows
  BY DEF OffsetsInv, Offsets
<1>2. CASE IngestorMoves \/ World
  <2>1. UNCHANGED <<committed, mode, assigned, position, pc, current>> /\ UNCHANGED committed
    BY <1>2 DEF IngestorMoves, World, consumerVars, groupVars, loopVars
  <2> QED BY <1>0, <2>1, OffsetsKept
<1>3. CASE GroupStep
  <2>1. Offsets(E)' /\ UNCHANGED committed
    BY <1>0, <1>3, CorrelatorAssumption, GroupOffsets DEF GroupStep
  <2> QED BY <1>0, <2>1 DEF CommittedGrows, ConsumerTypeOK
<1>4. ASSUME NEW m \in Member, MemberStep(m) PROVE Offsets(E)' /\ CommittedGrows
  <2>1. CASE handle_raw_alert(m)
    <3>1. /\ UNCHANGED groupVars
          /\ Raise(m) \/ \E place : place # "poll" /\ GoTo(m, place)
      BY <2>1, HandlerMoves DEF groupVars
    <3> QED BY <1>0, <1>1, <3>1, HandlerOffsets
  <2>2. CASE LoopMoves(m)
    <3>1. pc[m] = "commit" => current[m] \in D
      BY <1>0, ConsumerAssumption
         DEF HandlingInv, CurrentEvent, Done, DoneRecords, TypesInv, RecordsExist, Valid
    <3>2. pc[m] = "commit" => current[m] \in E
      BY <1>0, <3>1
    <3> QED BY <1>0, <2>2, <3>2, LoopOffsets
  <2> QED BY <1>4, <2>1, <2>2 DEF MemberStep
<1>5. ASSUME NEW m \in Member, MemberDisturbed(m) PROVE Offsets(E)' /\ CommittedGrows
  <2>1. MemberFails(m)
    BY <1>5 DEF MemberDisturbed, HandlerEnds, MemberFails
  <2> QED BY <1>0, <1>1, <2>1, FailOffsets
<1> QED BY <1>2, <1>3, <1>4, <1>5 DEF Next
-----------------------------------------------------------------------------
(* Calls.                                                                  *)

LEMMA CallsKept ==
    ASSUME TypesInv, CallsInv, TopicTypeOK', LogGrows, UNCHANGED ingestorVars
    PROVE  CallsInv'
<1>1. \A e \in Event : Logged(e) => Logged(e)'
  BY GrowthKeepsLogged DEF TypesInv, TypeOK
<1> SUFFICES ASSUME NEW c \in Call, answer[c] # "error",
                    NEW missing \in SUBSET (1 .. looked[c]), Covered(c, missing)
             PROVE  Covered(c, missing)'
  BY DEF CallsInv, ingestorVars
<1>2. /\ Alerts[c] \in Seq(Event) /\ looked[c] \in Nat /\ looked[c] <= Len(Alerts[c])
  BY IngestorAssumption DEF CallsInv, TypesInv, TypeOK, IngestorTypeOK
<1>3. \A i \in 1 .. looked[c] : Alerts[c][i] \in Event
  BY <1>2
<1> QED BY <1>1, <1>3 DEF Covered, ingestorVars

LEMMA CallSteps ==
    ASSUME TypesInv, CallsInv, IngestorNext
    PROVE  CallsInv'
<1>0. TopicTypeOK /\ IngestorTypeOK
  BY DEF TypesInv, TypeOK
<1>1. TopicTypeOK' /\ LogGrows /\ IngestorTypeOK'
  BY IngestorGrows
<1>2. \A e \in Event : Logged(e) => Logged(e)'
  BY <1>0, <1>1, GrowthKeepsLogged
<1>3. \A d \in Call : /\ Alerts[d] \in Seq(Event) /\ looked[d] \in Nat /\ failed[d] \in Nat
                     /\ looked[d] <= Len(Alerts[d])
  BY <1>0, IngestorAssumption DEF CallsInv, IngestorTypeOK
<1>4. \A d \in Call : \A i \in 1 .. looked[d] : Logged(Alerts[d][i]) => Logged(Alerts[d][i])'
  BY <1>2, <1>3
<1>5. PICK c \in Call : CallStep(c) \/ CallDies(c)
  BY DEF IngestorNext
<1>6. ASSUME NEW d \in Call \ {c}
      PROVE  /\ looked'[d] = looked[d] /\ failed'[d] = failed[d] /\ answer'[d] = answer[d]
  BY <1>0, <1>5 DEF CallStep, CallDies, PublishAlert, CountFailure, ManualFails, Answer, Look,
                    IngestorTypeOK
<1>7. ASSUME NEW d \in Call \ {c}
      PROVE  /\ looked'[d] <= Len(Alerts[d])
             /\ answer'[d] = "accepted" => looked'[d] = Len(Alerts[d])
             /\ answer'[d] # "error" => \E missing \in SUBSET (1 .. looked'[d]) : Covered(d, missing)'
  <2>1. \A missing \in SUBSET (1 .. looked[d]) : Covered(d, missing) => Covered(d, missing)'
    BY <1>4, <1>6 DEF Covered
  <2> QED BY <1>6, <2>1 DEF CallsInv
<1>8. /\ looked'[c] <= Len(Alerts[c])
      /\ answer'[c] = "accepted" => looked'[c] = Len(Alerts[c])
      /\ answer'[c] # "error" => \E missing \in SUBSET (1 .. looked'[c]) : Covered(c, missing)'
  <2>0. PICK n \in Nat : n = looked[c] + 1
    BY <1>3
  <2>1. CASE PublishAlert(c)
    <3>1. /\ Pending(c) /\ SendSucceeds(NextAlert(c)) /\ looked'[c] = n
          /\ failed' = failed /\ answer'[c] = "none" /\ answer[c] = "none"
      BY <1>0, <2>0, <2>1 DEF PublishAlert, Look, Pending, IngestorTypeOK
    <3>2. NextAlert(c) \in Event /\ n \in 1 .. Len(Alerts[c])
      BY <2>0, <3>1, NextAlertIsEvent
    <3>3. Logged(Alerts[c][n])'
      <4>1. PICK e \in Event : e = NextAlert(c)
        BY <3>2
      <4>2. Logged(e)'
        BY <1>0, <3>1, <4>1, SendLogs
      <4>3. Alerts[c][n] = e
        BY <2>0, <4>1 DEF NextAlert
      <4> QED BY <4>2, <4>3
    <3>4. PICK missing \in SUBSET (1 .. looked[c]) : Covered(c, missing)
      BY <3>1 DEF CallsInv
    <3>5. \A i \in 1 .. n : i = n \/ i \in 1 .. looked[c]
      BY <1>3, <2>0
    <3>6. Covered(c, missing)' /\ missing \in SUBSET (1 .. n)
      <4>1. \A i \in (1 .. n) \ missing : Logged(Alerts[c][i])'
        BY <1>4, <3>3, <3>4, <3>5 DEF Covered
      <4>2. Cardinality(missing) <= failed'[c]
        BY <3>1, <3>4 DEF Covered
      <4>3. missing \in SUBSET (1 .. n)
        BY <1>3, <2>0, <3>4
      <4> QED BY <3>1, <4>1, <4>2, <4>3 DEF Covered
    <3> QED BY <1>3, <3>1, <3>2, <3>6
  <2>2. CASE CountFailure(c)
    <3>1. /\ Pending(c) /\ looked'[c] = n /\ failed'[c] = failed[c] + 1
          /\ answer'[c] = "none" /\ answer[c] = "none"
      BY <1>0, <2>0, <2>2 DEF CountFailure, Look, Pending, IngestorTypeOK
    <3>2. n \in 1 .. Len(Alerts[c])
      BY <2>0, <3>1, NextAlertIsEvent
    <3>3. PICK missing \in SUBSET (1 .. looked[c]) : Covered(c, missing)
      BY <3>1 DEF CallsInv
    <3>4. IsFiniteSet(missing)
      <4>1. looked[c] \in Int
        BY <1>3
      <4>2. IsFiniteSet(1 .. looked[c])
        BY <4>1, FS_Interval
      <4> QED BY <3>3, <4>2, FS_Subset
    <3>5. /\ Cardinality(missing) \in Nat
          /\ Cardinality(missing \cup {n}) \in {Cardinality(missing), Cardinality(missing) + 1}
      BY <3>4, FS_AddElement, FS_CardinalityType
    <3>6. Cardinality(missing \cup {n}) <= failed'[c]
      BY <1>3, <3>1, <3>3, <3>5 DEF Covered
    <3>7. \A i \in (1 .. n) \ (missing \cup {n}) : Logged(Alerts[c][i])'
      <4>1. \A i \in 1 .. n : i = n \/ i \in 1 .. looked[c]
        BY <1>3, <2>0
      <4> QED BY <1>4, <3>3, <4>1 DEF Covered
    <3>8. missing \cup {n} \in SUBSET (1 .. n)
      BY <1>3, <2>0, <3>3
    <3>9. Covered(c, missing \cup {n})'
      BY <3>1, <3>6, <3>7 DEF Covered
    <3> QED BY <1>3, <3>1, <3>2, <3>8, <3>9
  <2>3. CASE ManualFails(c) \/ CallDies(c)
    <3>1. answer'[c] = "error" /\ (looked'[c] = looked[c] \/ (looked'[c] = n /\ Pending(c)))
      BY <1>0, <2>0, <2>3 DEF ManualFails, CallDies, Look, IngestorTypeOK
    <3> QED BY <1>3, <2>0, <3>1 DEF Pending
  <2>4. CASE Answer(c)
    <3>1. /\ UNCHANGED <<looked, failed, log>> /\ looked[c] = Len(Alerts[c]) /\ answer[c] = "none"
      BY <2>4 DEF Answer, topicVars
    <3>2. PICK missing \in SUBSET (1 .. looked[c]) : Covered(c, missing)
      BY <3>1 DEF CallsInv
    <3>3. Covered(c, missing)'
      BY <1>4, <3>1, <3>2 DEF Covered
    <3> QED BY <1>3, <3>1, <3>2, <3>3
  <2> QED BY <1>5, <2>1, <2>2, <2>3, <2>4 DEF CallStep
<1> QED BY <1>7, <1>8 DEF CallsInv
-----------------------------------------------------------------------------
(* The invariant.                                                          *)

LEMMA InitIntakeInv == Init => IntakeInv
<1> SUFFICES ASSUME Init PROVE IntakeInv
  OBVIOUS
<1> USE DEF Init, TopicInit, IngestorInit, ConsumerInit, CorrelatorInit
<1>1. TypeOK
  <2>1. TopicTypeOK /\ IngestorTypeOK
    BY TopicAssumption DEF TopicTypeOK, IngestorTypeOK
  <2>2. ConsumerTypeOK
    BY ConsumerAssumption DEF ConsumerTypeOK, FromStart, Pc
  <2>3. CorrelatorTypeOK
    <3>1. 0 \in 0 .. MaxTime
      BY CorrelatorAssumption
    <3> QED BY <3>1, ScenarioAssumption DEF CorrelatorTypeOK
  <2> QED BY <2>1, <2>2, <2>3 DEF TypeOK
<1>2. \A p \in Partition : DOMAIN log[p] = {} /\ Len(log[p]) = 0
  OBVIOUS
<1>3. TypesInv
  BY <1>1, <1>2 DEF TypesInv, KeysInPlace, RecordsExist
<1>4. DOMAIN alerts = {}
  OBVIOUS
<1>5. TablesInv
  BY <1>4 DEF TablesInv, AppliedOnce
<1>6. HandlingInv
  BY DEF HandlingInv
<1>7. OffsetsInv
  BY <1>2 DEF OffsetsInv, Offsets, FromStart
<1>8. CallsInv
  <2> SUFFICES ASSUME NEW c \in Call
               PROVE  0 <= Len(Alerts[c]) /\ Covered(c, {})
    BY DEF CallsInv
  <2>1. Len(Alerts[c]) \in Nat
    BY IngestorAssumption
  <2>2. Cardinality({}) = 0
    BY FS_EmptySet
  <2>3. 1 .. looked[c] = {}
    OBVIOUS
  <2> QED BY <2>1, <2>2, <2>3 DEF Covered
<1> QED BY <1>3, <1>5, <1>6, <1>7, <1>8 DEF IntakeInv

LEMMA NextIntakeInv == IntakeInv /\ [Next]_vars => IntakeInv'
<1> SUFFICES ASSUME IntakeInv, [Next]_vars PROVE IntakeInv'
  OBVIOUS
<1>0. TypesInv /\ TablesInv /\ HandlingInv /\ OffsetsInv /\ CallsInv
  BY DEF IntakeInv
<1>1. CASE Next
  <2>1. StepKeeps
    BY <1>0, <1>1, NextKeeps
  <2>2. OffsetsInv'
    BY <1>1, <2>1, NextOffsets
  <2>3. TopicTypeOK' /\ LogGrows
    BY <2>1 DEF StepKeeps, TypesInv, TypeOK
  <2>4. IngestorNext \/ UNCHANGED ingestorVars
    BY <1>1 DEF Next, IngestorMoves, MemberStep, MemberDisturbed, GroupStep, World
  <2>5. CallsInv'
    BY <1>0, <2>3, <2>4, CallsKept, CallSteps
  <2> QED BY <2>1, <2>2, <2>5 DEF StepKeeps, IntakeInv
<1>2. CASE UNCHANGED vars
  <2> USE <1>2 DEF vars, topicVars, ingestorVars, consumerVars, groupVars, loopVars, correlatorVars
  <2>1. TypesInv'
    BY <1>0 DEF TypesInv, TypeOK, TopicTypeOK, IngestorTypeOK, ConsumerTypeOK, CorrelatorTypeOK,
                KeysInPlace, RecordsExist, Valid
  <2>2. TablesInv'
    BY <1>0 DEF TablesInv, AppliedOnce
  <2>3. HandlingInv'
    BY <1>0 DEF HandlingInv, Remembered, Fingerprint, Handled, Ignored, CurrentEvent, EventAt
  <2>4. OffsetsInv'
    BY <1>0 DEF OffsetsInv, Offsets, DoneRecords, Valid, Done, Handled, Ignored, EventAt
  <2>5. CallsInv'
    <3>1. LogGrows /\ TopicTypeOK' /\ UNCHANGED ingestorVars
      BY <1>0, <2>1 DEF LogGrows, TypesInv, TypeOK, TopicTypeOK
    <3> QED BY <1>0, <3>1, CallsKept
  <2> QED BY <2>1, <2>2, <2>3, <2>4, <2>5 DEF IntakeInv
<1> QED BY <1>1, <1>2

\* The inductive invariant of the intake holds in every reachable state.
THEOREM SpecIntakeInv == Spec => []IntakeInv
<1>1. Init => IntakeInv
  BY InitIntakeInv
<1>2. IntakeInv /\ [Next]_vars => IntakeInv'
  BY NextIntakeInv
<1> QED BY <1>1, <1>2, PTL DEF Spec

\* Every variable of ingestor, topic, correlators and tables keeps its type.
THEOREM SpecTypeOK == Spec => []TypeOK
<1>1. IntakeInv => TypeOK
  BY DEF IntakeInv, TypesInv
<1> QED BY <1>1, SpecIntakeInv, PTL

\* No committed offset of the correlator's group passes a record that was
\* neither handled nor failed in its handler.
THEOREM SpecSkippedOnlyAfterFailure == Spec => []SkippedOnlyAfterFailure
<1>1. IntakeInv => SkippedOnlyAfterFailure
  <2> SUFFICES ASSUME IntakeInv, NEW g \in Group, NEW p \in Partition,
                      NEW o \in 1 .. committed[g][p]
               PROVE  /\ o <= Len(log[p])
                      /\ \/ Handled(EventAt([partition |-> p, offset |-> o]))
                         \/ [partition |-> p, offset |-> o] \in raised
    BY DEF SkippedOnlyAfterFailure
  <2>1. Valid(RecordAt(p, o)) /\ Done(RecordAt(p, o))
    BY DEF IntakeInv, OffsetsInv, Offsets, DoneRecords
  <2> QED BY <2>1 DEF Done, Valid, RecordAt
<1> QED BY <1>1, SpecIntakeInv, PTL

\* A commit, whoever makes it and however late, takes no offset back.
THEOREM SpecOffsetsNeverFall == Spec => OffsetsNeverFall
<1>1. IntakeInv /\ [Next]_vars
         => [\A g \in Group, p \in Partition : committed'[g][p] >= committed[g][p]]_vars
  <2> SUFFICES ASSUME IntakeInv, Next
               PROVE  \A g \in Group, p \in Partition : committed'[g][p] >= committed[g][p]
    OBVIOUS
  <2>1. StepKeeps
    BY NextKeeps DEF IntakeInv
  <2> QED BY <2>1, NextOffsets DEF CommittedGrows
<1> QED BY <1>1, SpecIntakeInv, PTL DEF Spec, OffsetsNeverFall

\* However often a record is delivered, it leaves one alert row at the most, and
\* none without its mark.
THEOREM SpecAppliedOnce == Spec => []AppliedOnce
<1>1. IntakeInv => AppliedOnce
  BY DEF IntakeInv, TablesInv
<1> QED BY <1>1, SpecIntakeInv, PTL

\* A marked alert, or the same alert of its service and namespace, is on an incident.
THEOREM SpecNoAlertIsForgotten == Spec => []NoAlertIsForgotten
<1>1. IntakeInv => NoAlertIsForgotten
  <2> SUFFICES ASSUME IntakeInv, NEW e \in processed
               PROVE  \E i \in DOMAIN alerts :
                         /\ alertOf[alerts[i].event].alert_name = alertOf[e].alert_name
                         /\ alertOf[alerts[i].event].service = alertOf[e].service
                         /\ alertOf[alerts[i].event].namespace = alertOf[e].namespace
                         /\ alerts[i].incident \in DOMAIN incidents
    BY DEF NoAlertIsForgotten
  <2>1. PICK i \in DOMAIN alerts : Fingerprint(alerts[i].event) = Fingerprint(e)
    BY DEF IntakeInv, HandlingInv, Remembered
  <2>2. alerts[i].incident \in DOMAIN incidents
    BY DEF IntakeInv, TablesInv
  <2> QED BY <2>1, <2>2 DEF Fingerprint
<1> QED BY <1>1, SpecIntakeInv, PTL

\* Of the alerts of a call answered 202, failed_count covers those that are not
\* in the topic.
THEOREM SpecAcceptedIsPublishedOrCounted == Spec => []AcceptedIsPublishedOrCounted
<1>1. IntakeInv => AcceptedIsPublishedOrCounted
  <2> SUFFICES ASSUME IntakeInv, NEW c \in Call, answer[c] = "accepted"
               PROVE  \E missing \in SUBSET DOMAIN Alerts[c] :
                         /\ Cardinality(missing) <= failed[c]
                         /\ \A i \in DOMAIN Alerts[c] \ missing : Logged(Alerts[c][i])
    BY DEF AcceptedIsPublishedOrCounted
  <2>1. looked[c] = Len(Alerts[c])
    BY DEF IntakeInv, CallsInv
  <2>2. DOMAIN Alerts[c] = 1 .. looked[c]
    BY <2>1, IngestorAssumption
  <2>3. PICK missing \in SUBSET (1 .. looked[c]) : Covered(c, missing)
    BY DEF IntakeInv, CallsInv
  <2> QED BY <2>2, <2>3 DEF Covered
<1> QED BY <1>1, SpecIntakeInv, PTL
-----------------------------------------------------------------------------
(* Lost updates.                                                           *)

LEMMA RankOrder == \A s \in IncidentSeverity : Rank(s) >= Rank(s)
BY DEF Rank, IncidentSeverity

LEMMA AttachLoses ==
    ASSUME IntakeInv, NEW m \in Member, AttachAlert(m), NEW i \in DOMAIN incidents
    PROVE  \/ /\ Rank(incidents'[i].severity) >= Rank(incidents[i].severity)
              /\ incidents[i].alert_ids \subseteq incidents'[i].alert_ids
           \/ pc[m] = "write" /\ found[m].row = i /\ found[m] # Read(i)
<1>0. CorrelatorTypeOK /\ TablesInv /\ incidents[i] \in Incident
  BY DEF IntakeInv, TypesInv, TypeOK, CorrelatorTypeOK
<1>1. pc[m] = "write"
  BY DEF AttachAlert, At
<1>2. CurrentEvent(m) \in Event
  BY <1>1, ValidEvent DEF IntakeInv, TypesInv, TypeOK, RecordsExist, CurrentEvent
<1>3. /\ \A j \in DOMAIN incidents : j # found[m].row => incidents'[j] = incidents[j]
      /\ incidents'[found[m].row].alert_ids = found[m].alert_ids \cup {CurrentEvent(m)}
      /\ incidents'[found[m].row].severity \in
            {incidents[found[m].row].severity,
             Escalated(found[m].severity, Severity(CurrentEvent(m)))}
  BY <1>0, <1>2, AttachWrites
<1>4. incidents[i].severity \in IncidentSeverity
  BY <1>0 DEF Incident
<1>5. CASE found[m].row # i
  BY <1>3, <1>4, <1>5, RankOrder
<1>6. CASE found[m] = Read(i)
  <2>1. /\ found[m].row = i /\ found[m].severity = incidents[i].severity
        /\ found[m].alert_ids = incidents[i].alert_ids
    BY <1>6 DEF Read
  <2>2. Rank(Escalated(found[m].severity, Severity(CurrentEvent(m)))) >= Rank(incidents[i].severity)
    BY <1>0, <1>2, <1>4, <2>1, SeverityTypes, EscalationRises
  <2> QED BY <1>3, <1>4, <2>1, <2>2, RankOrder
<1> QED BY <1>1, <1>5, <1>6

LEMMA CreateLosesNothing ==
    ASSUME IntakeInv, NEW m \in Member, CreateIncident(m), NEW i \in DOMAIN incidents
    PROVE  incidents'[i] = incidents[i]
<1>1. PICK r : incidents' = Append(incidents, r)
  BY DEF CreateIncident
<1>2. incidents \in Seq(Incident)
  BY DEF IntakeInv, TypesInv, TypeOK, CorrelatorTypeOK
<1> QED BY <1>1, <1>2

\* An incident loses severity or alerts only to a transaction that had read its
\* row before the row last changed.
THEOREM SpecLosesOnlyToStaleWrite == Spec => LosesOnlyToStaleWrite
<1>1. IntakeInv /\ [Next]_vars
         => [\A i \in DOMAIN incidents :
                \/ /\ Rank(incidents'[i].severity) >= Rank(incidents[i].severity)
                   /\ incidents[i].alert_ids \subseteq incidents'[i].alert_ids
                \/ \E m \in Member :
                      pc[m] = "write" /\ found[m].row = i /\ found[m] # Read(i)]_vars
  <2> DEFINE Kept(i) == /\ Rank(incidents'[i].severity) >= Rank(incidents[i].severity)
                        /\ incidents[i].alert_ids \subseteq incidents'[i].alert_ids
             Stale(i) == \E m \in Member :
                            pc[m] = "write" /\ found[m].row = i /\ found[m] # Read(i)
  <2> SUFFICES ASSUME IntakeInv, Next, NEW i \in DOMAIN incidents
               PROVE  Kept(i) \/ Stale(i)
    OBVIOUS
  <2>0. CorrelatorTypeOK /\ incidents[i].severity \in IncidentSeverity
    <3>1. CorrelatorTypeOK
      BY DEF IntakeInv, TypesInv, TypeOK
    <3>2. incidents[i] \in Incident
      BY <3>1 DEF CorrelatorTypeOK
    <3> QED BY <3>1, <3>2 DEF Incident
  <2>1. CASE incidents'[i] = incidents[i]
    BY <2>0, <2>1, RankOrder
  <2>2. ASSUME NEW m \in Member, AttachAlert(m) PROVE Kept(i) \/ Stale(i)
    BY <2>2, AttachLoses
  <2>3. ASSUME NEW m \in Member, CreateIncident(m) PROVE incidents'[i] = incidents[i]
    BY <2>3, CreateLosesNothing
  <2>4. ASSUME NEW j \in DOMAIN incidents, CloseIncident(j) PROVE Kept(i)
    <3>1. /\ incidents'[i].severity = incidents[i].severity
          /\ incidents'[i].alert_ids = incidents[i].alert_ids
      BY <2>0, <2>4, CloseWrites
    <3> QED BY <2>0, <3>1, RankOrder
  <2> HIDE DEF Kept, Stale
  <2>5. CASE IngestorMoves \/ GroupStep
    BY <2>1, <2>5 DEF IngestorMoves, GroupStep, correlatorVars
  <2>6. CASE World
    BY <2>1, <2>4, <2>6 DEF World, Tick
  <2>7. ASSUME NEW m \in Member, MemberStep(m) PROVE Kept(i) \/ Stale(i)
    <3>1. CASE handle_raw_alert(m)
      BY <2>1, <2>2, <2>3, <3>1 DEF handle_raw_alert, IgnoreResolved, Deduplicate,
         FindOpenIncident, MarkDuplicate, MarkConflicts, tableVars
    <3> QED BY <2>1, <2>7, <3>1 DEF MemberStep, correlatorVars
  <2>8. ASSUME NEW m \in Member, MemberDisturbed(m) PROVE Kept(i) \/ Stale(i)
    BY <2>1, <2>8 DEF MemberDisturbed, correlatorVars, tableVars
  <2> QED BY <2>5, <2>6, <2>7, <2>8 DEF Next
<1> QED BY <1>1, SpecIntakeInv, PTL DEF Spec, LosesOnlyToStaleWrite
-----------------------------------------------------------------------------
(* The books of AlertLedger.                                               *)

(* What a transaction goes on to decide about is firing.                   *)
Deciding == {"mark", "lookup", "write"}
FiringInv == \A m \in Member : pc[m] \in Deciding => alertOf[CurrentEvent(m)].firing

LEMMA NextFiringInv == IntakeInv /\ IntakeInv' /\ FiringInv /\ [Next]_vars => FiringInv'
<1> SUFFICES ASSUME IntakeInv, FiringInv, [Next]_vars PROVE FiringInv'
  OBVIOUS
<1>0. ConsumerTypeOK /\ RecordsExist
  BY DEF IntakeInv, TypesInv, TypeOK
<1>1. CASE UNCHANGED vars
  BY <1>1 DEF vars, topicVars, consumerVars, loopVars, correlatorVars, FiringInv, CurrentEvent,
              EventAt
<1>2. CASE Next
  <2>1. /\ alertOf' = alertOf
        /\ \A n \in Member : pc[n] # "poll" /\ current'[n] = current[n]
              => CurrentEvent(n)' = CurrentEvent(n)
    BY <1>0, <1>2, NextKeeps, Growth
       DEF IntakeInv, StepKeeps, TablesGrow, RecordsExist, CurrentEvent
  <2> SUFFICES \A n \in Member : pc'[n] \in Deciding =>
                  /\ pc[n] # "poll" /\ current'[n] = current[n]
                  /\ pc[n] \in Deciding \/ alertOf[CurrentEvent(n)].firing
    BY <2>1 DEF FiringInv
  <2>2. CASE UNCHANGED <<pc, current>>
    BY <2>2 DEF Deciding
  <2>3. CASE IngestorMoves \/ World
    BY <2>2, <2>3 DEF IngestorMoves, World, consumerVars, loopVars
  <2>4. CASE GroupStep
    BY <2>2, <2>4, GroupKeepsRecords DEF GroupStep
  <2>5. CASE \E m \in Member : LoopMoves(m) \/ MemberDisturbed(m)
    BY <1>0, <2>5, CorrelatorAssumption
       DEF LoopMoves, Poll, CheckProcessed, CommitOffsets, MemberDisturbed, HandlerEnds, Crash,
           Expel, DatabaseFails, Raise, Return, GoTo, loopVars, Deciding, ConsumerTypeOK
  <2>6. CASE \E m \in Member : handle_raw_alert(m)
    BY <1>0, <2>6 DEF handle_raw_alert, IgnoreResolved, Deduplicate, FindOpenIncident,
       MarkDuplicate, AttachAlert, CreateIncident, MarkConflicts, At, Return, GoTo, Raise,
       Deciding, ConsumerTypeOK
  <2> QED BY <1>2, <2>3, <2>4, <2>5, <2>6 DEF Next, MemberStep
<1> QED BY <1>1, <1>2

\* A firing alert passes the handler as one: whichever member decides what to do
\* with an event, the alert it holds is a firing one.
THEOREM SpecFiringInv == Spec => []FiringInv
<1>1. Init => FiringInv
  BY DEF Init, ConsumerInit, FiringInv, Deciding
<1> QED BY <1>1, NextFiringInv, SpecIntakeInv, PTL DEF Spec

\* What a decided event leaves: its entry, or its repetition.
LEMMA FiledWithMark ==
    ASSUME TypesInv, TablesInv, NEW e \in Event, Mark(e), UNCHANGED alertOf,
           NEW i \in Nat \ {0}, NEW topic \in {"incidents.created", "incidents.updated"},
           Insert(e, i, topic), alertOf[e].firing,
           \/ i = Len(incidents) + 1 /\ topic = "incidents.created" /\ Len(incidents') = i
           \/ /\ i \in 1 .. Len(incidents) /\ topic = "incidents.updated"
              /\ Len(incidents') = Len(incidents)
    PROVE  Ledger!File(e, i)
<1>1. /\ DOMAIN alerts' = DOMAIN alerts \cup {Len(alerts) + 1}
      /\ \A j \in DOMAIN alerts : alerts'[j] = alerts[j]
      /\ alerts'[Len(alerts) + 1] = [event |-> e, incident |-> i, at |-> now]
  BY InsertTypes DEF TypesInv, TypeOK
<1>2. e \notin processed /\ processed' = processed \cup {e}
  BY DEF Mark
<1>3. \A j \in DOMAIN alerts : alerts[j].event \in processed
  BY DEF TablesInv, AppliedOnce
<1>4. Entries' = Entries \cup {[event |-> e, incident |-> i]}
  BY <1>1 DEF Entries
<1>5. Repeated' = Repeated
  BY <1>1, <1>2 DEF Repeated
<1>6. Ledger!Undecided(e)
  BY <1>2, <1>3 DEF Ledger!Undecided, Entries, Repeated
<1>7. outbox' = Append(outbox, [topic |-> topic, incident |-> i])
  BY DEF Insert
<1>8. \A f : Fingerprint(f)' = Fingerprint(f)
  BY DEF Fingerprint
<1> QED BY <1>4, <1>5, <1>6, <1>7, <1>8 DEF Ledger!File

LEMMA Repeats ==
    ASSUME TypesInv, TablesInv, NEW e \in Event, Mark(e), UNCHANGED tableVars,
           Remembered(e), alertOf[e].firing
    PROVE  Ledger!Repeat(e)
<1>1. e \notin processed /\ processed' = processed \cup {e}
  BY DEF Mark
<1>2. \A j \in DOMAIN alerts : alerts[j].event \in processed
  BY DEF TablesInv, AppliedOnce
<1>3. Ledger!Undecided(e)
  BY <1>1, <1>2 DEF Ledger!Undecided, Entries, Repeated
<1>4. UNCHANGED <<alertOf, alerts, incidents, outbox>>
  BY DEF tableVars
<1>5. Repeated' = Repeated \cup {e}
  BY <1>1, <1>2, <1>4 DEF Repeated
<1>6. /\ Entries' = Entries /\ \A f : Fingerprint(f)' = Fingerprint(f)
  BY <1>4 DEF Entries, Fingerprint
<1>7. \E f \in Entries : Fingerprint(f.event) = Fingerprint(e)
  <2>1. PICK i \in DOMAIN alerts : Fingerprint(alerts[i].event) = Fingerprint(e)
    BY DEF Remembered
  <2>2. [event |-> alerts[i].event, incident |-> alerts[i].incident] \in Entries
    BY DEF Entries
  <2> QED BY <2>1, <2>2
<1>8. \A f \in Entries : f.event \in Event
  <2>1. processed \subseteq Event
    BY DEF TypesInv, TypeOK, ConsumerTypeOK
  <2>2. \A i \in DOMAIN alerts : alerts[i].event \in Event
    BY <1>2, <2>1
  <2>3. ASSUME NEW f \in Entries PROVE f.event \in Event
    <3>1. PICK i \in DOMAIN alerts :
            f = [event |-> alerts[i].event, incident |-> alerts[i].incident]
      BY <2>3 DEF Entries
    <3> QED BY <2>2, <3>1
  <2> QED BY <2>3
<1> QED BY <1>3, <1>4, <1>5, <1>6, <1>7, <1>8 DEF Ledger!Repeat

\* The books are as they were.
LEMMA LedgerStutters ==
    ASSUME UNCHANGED <<alertOf, alerts, processed, outbox>>, Len(incidents') = Len(incidents)
    PROVE  UNCHANGED Ledger!ledgerVars
BY DEF Ledger!ledgerVars, Entries, Repeated, Fingerprint

LEMMA LedgerStep == IntakeInv /\ FiringInv /\ [Next]_vars => [Ledger!LedgerNext]_(Ledger!ledgerVars)
<1> SUFFICES ASSUME IntakeInv, FiringInv, [Next]_vars
             PROVE  Ledger!LedgerNext \/ UNCHANGED Ledger!ledgerVars
  OBVIOUS
<1>0. TypesInv /\ TablesInv /\ HandlingInv /\ CorrelatorTypeOK /\ ConsumerTypeOK
  BY DEF IntakeInv, TypesInv, TypeOK
<1>1. CASE UNCHANGED <<alertOf, alerts, processed, outbox, incidents>>
  BY <1>1, LedgerStutters
<1>2. CASE \/ UNCHANGED vars \/ IngestorMoves
           \/ \E m \in Member : (LoopMoves(m) /\ UNCHANGED correlatorVars) \/ MemberDisturbed(m)
  BY <1>1, <1>2 DEF vars, IngestorMoves, consumerVars, correlatorVars, LoopMoves, Poll,
     CheckProcessed, CommitOffsets, MemberDisturbed, HandlerEnds, Expel, Crash, DatabaseFails,
     tableVars
<1>3. CASE GroupStep
  BY <1>1, <1>3, GroupKeepsRecords DEF GroupStep, correlatorVars
<1>4. CASE World
  <2>1. CASE Tick
    BY <1>1, <1>4, <2>1 DEF World, Tick, consumerVars
  <2>2. CASE \E i \in DOMAIN incidents : CloseIncident(i)
    <3>1. PICK i \in DOMAIN incidents : CloseIncident(i)
      BY <2>2
    <3>2. incidents' \in Seq(Incident) /\ DOMAIN incidents' = DOMAIN incidents
      BY <1>0, <3>1, CloseWrites
    <3>3. Len(incidents') = Len(incidents)
      BY <1>0, <3>2 DEF CorrelatorTypeOK
    <3> QED BY <1>4, <3>1, <3>3, LedgerStutters DEF World, CloseIncident, consumerVars
  <2> QED BY <1>4, <2>1, <2>2 DEF World
<1>5. CASE \E m \in Member : handle_raw_alert(m)
  <2>1. PICK m \in Member : handle_raw_alert(m)
    BY <1>5
  <2>2. CASE IgnoreResolved(m) \/ Deduplicate(m) \/ FindOpenIncident(m) \/ MarkConflicts(m)
    BY <1>1, <2>2 DEF IgnoreResolved, Deduplicate, FindOpenIncident, MarkConflicts, tableVars
  <2>3. pc[m] # "poll" /\ (pc[m] \in Deciding => alertOf[CurrentEvent(m)].firing)
    BY <2>1, HandlerMoves DEF FiringInv
  <2>4. PICK e \in Event : e = CurrentEvent(m)
    BY <1>0, <2>3, ValidEvent DEF TypesInv, TypeOK, RecordsExist, CurrentEvent
  <2>5. e \in DOMAIN [f \in Event |-> Fingerprint(f)] /\ Len(incidents) \in Nat
    BY <1>0 DEF CorrelatorTypeOK
  <2>6. CASE MarkDuplicate(m)
    <3>1. /\ Mark(e) /\ UNCHANGED tableVars /\ Remembered(e) /\ alertOf[e].firing
      BY <1>0, <2>3, <2>4, <2>6 DEF MarkDuplicate, At, Deciding, HandlingInv
    <3>2. Ledger!Repeat(e)
      BY <1>0, <3>1, Repeats
    <3> QED BY <2>5, <3>2 DEF Ledger!LedgerNext
  <2>7. CASE AttachAlert(m)
    <3> PICK i : i = found[m].row
      OBVIOUS
    <3>1. /\ Mark(e) /\ UNCHANGED alertOf /\ Insert(e, i, "incidents.updated")
          /\ alertOf[e].firing
      BY <2>3, <2>4, <2>7 DEF AttachAlert, At, Deciding
    <3>2. /\ i \in DOMAIN incidents /\ DOMAIN incidents' = DOMAIN incidents
          /\ incidents' \in Seq(Incident)
      BY <1>0, <2>4, <2>7, AttachWrites
    <3>3. i \in 1 .. Len(incidents) /\ Len(incidents') = Len(incidents) /\ i \in Nat \ {0}
      BY <1>0, <3>2 DEF CorrelatorTypeOK
    <3>4. Ledger!File(e, i)
      BY <1>0, <3>1, <3>3, FiledWithMark
    <3> QED BY <2>5, <3>3, <3>4 DEF Ledger!LedgerNext
  <2>8. CASE CreateIncident(m)
    <3> PICK i : i = Len(incidents) + 1
      OBVIOUS
    <3>1. /\ Mark(e) /\ UNCHANGED alertOf /\ Insert(e, i, "incidents.created")
          /\ alertOf[e].firing /\ \E r : incidents' = Append(incidents, r)
      BY <2>3, <2>4, <2>8 DEF CreateIncident, At, Deciding
    <3>2. i \in Nat \ {0} /\ Len(incidents') = i
      BY <1>0, <3>1 DEF CorrelatorTypeOK
    <3>3. Ledger!File(e, i)
      BY <1>0, <3>1, <3>2, FiledWithMark
    <3> QED BY <2>5, <3>2, <3>3 DEF Ledger!LedgerNext
  <2> QED BY <2>1, <2>2, <2>6, <2>7, <2>8 DEF handle_raw_alert
<1> QED BY <1>2, <1>3, <1>4, <1>5 DEF Next, MemberStep

\* Ingestor, topic, correlators and crashes notwithstanding, the tables are the
\* books of AlertLedger.
THEOREM SpecImplementsLedger == Spec => ImplementsLedger
<1>1. Init => Ledger!LedgerInit
  BY DEF Init, ConsumerInit, CorrelatorInit, Ledger!LedgerInit, Entries, Repeated
<1> QED BY <1>1, LedgerStep, SpecIntakeInv, SpecFiringInv, PTL
        DEF Spec, ImplementsLedger, Ledger!LedgerSpec

\* Whoever keeps the books announces first.
Books == INSTANCE AlertLedgerProofs WITH
    kind <- [e \in Event |-> Fingerprint(e)],
    firing <- {e \in Event : alertOf[e].firing},
    filed <- Entries, repeated <- Repeated,
    opened <- Len(incidents), announced <- outbox

\* Each incident has an alert, and its incidents.created row comes once and first.
THEOREM SpecCreatedComesFirst == Spec => []CreatedComesFirst
<1>1. Ledger!LedgerInit => Books!LedgerInit
  BY DEF Ledger!LedgerInit, Books!LedgerInit
<1>2. [Ledger!LedgerNext]_(Ledger!ledgerVars) => [Books!LedgerNext]_(Books!ledgerVars)
  BY DEF Ledger!LedgerNext, Ledger!File, Ledger!Repeat, Ledger!Undecided, Ledger!ledgerVars,
         Books!LedgerNext, Books!File, Books!Repeat, Books!Undecided, Books!ledgerVars
<1>3. Books!IncidentsAnnounced => CreatedComesFirst
  BY DEF Books!IncidentsAnnounced, CreatedComesFirst, Ledger!IncidentsAnnounced
<1> QED BY <1>1, <1>2, <1>3, SpecImplementsLedger, Books!LedgerAnnouncesFirst, PTL
        DEF ImplementsLedger, Ledger!LedgerSpec, Books!LedgerSpec
=============================================================================
