----------------------------- MODULE Investigator ------------------------------
(***************************************************************************)
(* The investigator (services/investigator/main.py): the handler that      *)
(* starts a Temporal workflow for each incidents.created event, or, when   *)
(* the start raises for whatever reason, investigates by itself; the       *)
(* processed mark comes last, in a transaction whose failure is ignored.   *)
(* Every instance draws a consumer group of its own at each start, so each *)
(* reads the whole topic, from its beginning.  What the fallback does to   *)
(* the incident is the subject of InvestigatorFallback.                    *)
(***************************************************************************)
EXTENDS AegisConsumer

ASSUME InvestigatorAssumption ==
    /\ HandlerPc = {"handle", "start", "fallback", "mark"}
    /\ DatabasePc = {"handle", "fallback"}
    /\ DrawsGroup

VARIABLES
    workflow,    \* per event: the workflow "incident-<id>" at the Temporal server:
                 \* "none", "running", "closed"
    starts,      \* per event: workflows started
    fallbacks    \* per event: synchronous investigations begun

investigatorVars == <<workflow, starts, fallbacks>>

InvestigatorTypeOK ==
    /\ workflow \in [Event -> {"none", "running", "closed"}]
    /\ starts \in [Event -> Nat] /\ fallbacks \in [Event -> Nat]

InvestigatorInit ==
    /\ workflow = [e \in Event |-> "none"]
    /\ starts = [e \in Event |-> 0] /\ fallbacks = [e \in Event |-> 0]

Handling(m) == EventAt(current[m])

\* The handler repeats the consumer's check.
HandleIncidentCreated(m) ==
    /\ At(m, "handle")
    /\ IF Handling(m) \in processed THEN Return(m) ELSE GoTo(m, "start")
    /\ UNCHANGED <<processed, consumerFaults, investigatorVars>>

Started(e) ==
    /\ workflow[e] # "running"
    /\ workflow' = [workflow EXCEPT ![e] = "running"]
    /\ starts' = [starts EXCEPT ![e] = @ + 1]

\* Temporal refuses the id of a running workflow; that of a closed one it takes.
StartWorkflow(m) ==
    /\ At(m, "start")
    /\ Started(Handling(m))
    /\ GoTo(m, "mark")
    /\ UNCHANGED <<processed, consumerFaults, fallbacks>>

\* Mutant: an error of the start is logged, and nobody investigates.
StartErrorLogged(m) ==
    /\ At(m, "start")
    /\ \/ workflow[Handling(m)] = "running" /\ UNCHANGED <<workflow, starts, consumerFaults>>
       \/ ConsumerFault /\ (Started(Handling(m)) \/ UNCHANGED <<workflow, starts>>)
    /\ GoTo(m, "mark")
    /\ UNCHANGED <<processed, fallbacks>>

\* WorkflowAlreadyStartedError, or Temporal cannot be reached (and may yet have
\* got the request): both are "Temporal unavailable" to the handler.
StartRaises(m) ==
    /\ At(m, "start")
    /\ \/ workflow[Handling(m)] = "running" /\ UNCHANGED <<workflow, starts, consumerFaults>>
       \/ ConsumerFault /\ (Started(Handling(m)) \/ UNCHANGED <<workflow, starts>>)
    /\ fallbacks' = [fallbacks EXCEPT ![Handling(m)] = @ + 1]
    /\ GoTo(m, "fallback")
    /\ UNCHANGED processed

FallbackEnds(m) ==
    /\ At(m, "fallback") /\ GoTo(m, "mark")
    /\ UNCHANGED <<processed, consumerFaults, investigatorVars>>

\* Mutant: the mark is only kept in the session.
MarkProcessedNot(m) ==
    /\ At(m, "mark") /\ Return(m)
    /\ UNCHANGED <<processed, consumerFaults, investigatorVars>>

\* A mark that is there already raises; that exception is passed over, too.
MarkProcessed(m) ==
    /\ At(m, "mark") /\ Return(m)
    /\ processed' = processed \cup {Handling(m)}
    /\ UNCHANGED <<consumerFaults, investigatorVars>>

MarkFails(m) ==
    /\ At(m, "mark") /\ Return(m)
    /\ ConsumerFault
    /\ UNCHANGED <<processed, investigatorVars>>

handle_incident_created(m) ==
    /\ \/ HandleIncidentCreated(m) \/ StartWorkflow(m) \/ StartRaises(m)
       \/ FallbackEnds(m) \/ MarkProcessed(m)
    /\ UNCHANGED groupVars

WorkflowEnds(e) ==
    /\ workflow[e] = "running"
    /\ workflow' = [workflow EXCEPT ![e] = "closed"]
    /\ UNCHANGED <<starts, fallbacks, consumerVars>>
=============================================================================
