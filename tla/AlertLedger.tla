------------------------------ MODULE AlertLedger ------------------------------
(***************************************************************************)
(* What the correlator promises about the alerts it is given, without      *)
(* topic, consumers, transactions or retries: each firing alert is decided *)
(* about once.  It is filed under an incident, an old one or a new one, or *)
(* taken for the repetition of a filed alert; and what is told about an    *)
(* incident is entered together with the decision.  AlertIntake is shown   *)
(* to implement this.                                                      *)
(***************************************************************************)
EXTENDS Integers, Sequences

VARIABLES
    kind,        \* per event: what alert it carries (never changes)
    firing,      \* the events whose alert is firing (never changes)
    filed,       \* entries [event, incident]
    repeated,    \* events taken for a repetition
    opened,      \* number of incidents
    announced    \* what is told about incidents, in this order: [topic, incident]

ledgerVars == <<kind, firing, filed, repeated, opened, announced>>

LedgerInit == filed = {} /\ repeated = {} /\ opened = 0 /\ announced = <<>>

Undecided(e) == e \notin repeated /\ \A f \in filed : f.event # e

File(e, i) ==
    /\ e \in firing /\ Undecided(e)
    /\ filed' = filed \cup {[event |-> e, incident |-> i]}
    /\ \/ /\ i = opened + 1 /\ opened' = i
          /\ announced' = Append(announced, [topic |-> "incidents.created", incident |-> i])
       \/ /\ i \in 1 .. opened /\ opened' = opened
          /\ announced' = Append(announced, [topic |-> "incidents.updated", incident |-> i])
    /\ UNCHANGED <<kind, firing, repeated>>

Repeat(e) ==
    /\ e \in firing /\ Undecided(e)
    /\ \E f \in filed : kind[f.event] = kind[e]
    /\ repeated' = repeated \cup {e}
    /\ UNCHANGED <<kind, firing, filed, opened, announced>>

LedgerNext == \E e \in DOMAIN kind : Repeat(e) \/ \E i \in 1 .. opened + 1 : File(e, i)

LedgerSpec == LedgerInit /\ [][LedgerNext]_ledgerVars
-----------------------------------------------------------------------------
(* Each incident has an alert, and is announced as created once, before     *)
(* anything else is told about it.                                         *)
IncidentsAnnounced ==
    \A i \in 1 .. opened :
        /\ \E f \in filed : f.incident = i
        /\ \E k \in DOMAIN announced :
              /\ announced[k] = [topic |-> "incidents.created", incident |-> i]
              /\ \A l \in DOMAIN announced :
                    announced[l].incident = i /\ l # k
                       => l > k /\ announced[l].topic = "incidents.updated"
=============================================================================
