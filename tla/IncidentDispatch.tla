---------------------------- MODULE IncidentDispatch ---------------------------
(***************************************************************************)
(* From the correlator's commit to an investigation: outbox publishers,    *)
(* the topic incidents.created and the investigators, each in as many      *)
(* processes as the deployment runs, any of which may die at any point.    *)
(***************************************************************************)
EXTENDS OutboxPublisher, Investigator

vars == <<topicVars, outboxVars, consumerVars, investigatorVars>>

Init == TopicInit /\ OutboxInit /\ ConsumerInit /\ InvestigatorInit

Accept(e) == RowInserted(e) /\ UNCHANGED <<consumerVars, investigatorVars>>

Publisher(p) == PollerStep(p) /\ UNCHANGED <<consumerVars, investigatorVars>>

PublisherFails(p) == PollFails(p) /\ UNCHANGED <<consumerVars, investigatorVars>>

Groups == GroupMoves /\ UNCHANGED <<topicVars, outboxVars, investigatorVars>>

Loop(m) == LoopMoves(m) /\ UNCHANGED <<topicVars, outboxVars, investigatorVars>>

Handler(m) == handle_incident_created(m) /\ UNCHANGED <<topicVars, outboxVars>>

InvestigatorFails(m) ==
    /\ \/ MemberFails(m) /\ UNCHANGED investigatorVars
       \/ MarkFails(m) /\ UNCHANGED groupVars
    /\ UNCHANGED <<topicVars, outboxVars>>

Closes(e) == WorkflowEnds(e) /\ UNCHANGED <<topicVars, outboxVars>>

Next ==
    \/ \E e \in Event : Accept(e) \/ Closes(e)
    \/ \E p \in Poller : Publisher(p) \/ PublisherFails(p)
    \/ Groups
    \/ \E m \in Member : Loop(m) \/ Handler(m) \/ InvestigatorFails(m)

\* Publishers poll, groups settle and investigators work as long as their
\* processes live, and a dead process is started again.
Fairness ==
    /\ \A p \in Poller : WF_vars(Publisher(p))
    /\ WF_vars(Groups)
    /\ \A m \in Member : WF_vars(Loop(m) \/ Handler(m))

Spec == Init /\ [][Next]_vars /\ Fairness
-----------------------------------------------------------------------------
\* Every variable has its type.
TypeOK ==
    TopicTypeOK /\ OutboxTypeOK /\ ConsumerTypeOK /\ InvestigatorTypeOK

\* SKIP LOCKED keeps two publishers off one row: an event is in the topic more
\* than once only if an acknowledgement was lost, or a publisher died between
\* its send and its commit, once for each further record.
DuplicatesArePaidFor ==
    \A e \in Event : Cardinality(Copies(e)) <= 1 + sendFaults

\* What is left of OneWorkflowPerIncident below.  However many records there are
\* of an event, and however often instances are restarted and read the topic
\* from its beginning again: the processed mark keeps an incident from being
\* investigated more than once by each instance, and once more for each failure.
InvestigationsAreBounded ==
    \A e \in Event :
        starts[e] + fallbacks[e] <= Cardinality(Member) + consumerFaults

Begun(e) == starts[e] + fallbacks[e] > 0
GoneWrong(e) == \E r \in raised : EventAt(r) = e

\* An investigator's committed offset, whoever of its loop moved it, passes no
\* incident that nobody began to investigate, unless its handler raised: not
\* after a crash in the middle of it, nor by way of the mark of another instance,
\* nor by a commit that takes along every position of the member.
PassedIsInvestigated ==
    \A g \in Group, p \in Partition : \A o \in 1 .. committed[g][p] :
        LET r == [partition |-> p, offset |-> o]
        IN  o <= Len(log[p]) /\ (Begun(EventAt(r)) \/ r \in raised)

OutboxStage(e) ==
    CASE row[e] = "absent" -> "new"
      [] row[e] = "pending" -> IF attempts[e] < MaxRetries THEN "accepted" ELSE "dropped"
      [] row[e] = "published" -> "missing"    \* not a stage

Stage(e) ==
    IF Begun(e) THEN "handled" ELSE
    IF GoneWrong(e) THEN "lost" ELSE
    IF Logged(e) THEN "sent" ELSE OutboxStage(e)

Delivery == INSTANCE EventDelivery WITH stage <- [e \in Event |-> Stage(e)]

\* An event goes through the stages of EventDelivery: nothing is investigated
\* that was not committed, nothing is marked published that is not in the
\* topic, and what ran out of attempts is never sent by another publisher.
ImplementsDelivery == Delivery!Spec

\* What is left of EventsAreNeverLost below: while fewer than MaxRetries sends
\* failed and publishers died, every committed event is investigated, or an
\* exception made an investigator's loop go on without it.
DeliveredUnlessKafkaIsAway == \A e \in Event :
    (row[e] = "pending") ~> (Begun(e) \/ GoneWrong(e) \/ sendFaults >= MaxRetries)
-----------------------------------------------------------------------------
(* What the documentation says and the code does not do.                   *)

\* investigator/main.py: "Uses idempotency to ensure each incident only gets one
\* workflow started, even with duplicate events."
OneWorkflowPerIncident == \A e \in Event : starts[e] <= 1

\* outbox_publisher/main.py: "This ensures events are never lost even if Kafka is
\* temporarily unavailable".  Here it is, whenever the bound on failed sends is
\* used up, and a committed event gets into the topic.
EventsAreNeverLost == \A e \in Event : (row[e] = "pending") ~> Logged(e)
=============================================================================
