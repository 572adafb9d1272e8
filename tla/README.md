# Aegis: specification and verification

TLA+ models of Aegis, the autonomous SRE platform in this repository: an alert
becomes an incident, an LLM proposes a remediation, deterministic rules judge
it, a human approves it where the rules ask for one, Kubernetes is changed, and
the incident is closed. The modules below are written from the Python source;
`PROJECT.json` maps every definition to the lines it stands for.

The way of an alert is modelled from end to end, in three compositions that
meet at the tables and the topic they share: **intake** (HTTP call, topic
`alerts.raw`, consumer group, correlator's transaction), **dispatch** (outbox
row, publishers, topic `incidents.created`, investigators, Temporal's workflow
ids) and **lifecycle** (one incident's rows under its workflow, the approval
endpoints and the investigator's own fallback). Each is model-checked on small
instances, and each safety property is proved for every value of the constants.

## 1. Inventory

| Component | State it keeps | Operations | Interacts with |
|---|---|---|---|
| Alert ingestor (`services/alert_ingestor`) | none | webhook: one send per alert, failures counted, 202 | Kafka `alerts.raw` |
| Kafka consumer (`common/kafka/consumer.py`) | committed offsets, position | idempotency check, handler, commit; on an exception neither commit nor rewind | every worker |
| Kafka producer (`common/kafka/producer.py`) | none | three attempts per send | ingestor, outbox publisher |
| Correlator (`services/correlator`) | alerts, incidents, outbox rows, processed marks | `handle_raw_alert`, one transaction | consumer, outbox |
| Outbox publisher (`services/outbox_publisher`) | `published`, `attempts` of outbox rows | `publish_pending`, batch under row locks | Kafka `incidents.*` |
| Investigator (`services/investigator`) | processed marks; incident, plan, approval rows in its fallback | start the workflow, else `_run_investigation_sync` | Temporal, incident rows |
| Incident workflow (`workflows/incident_workflow.py`) | the workflow's history; incident, investigation, plan, approval rows through activities | investigate, plan, policy, request approval, wait, execute, verify, set status | Temporal, API (signal), executor |
| Decision functions (`agents/root_cause_agent.py`, `agents/remediation_agent.py`, `policies/remediation_policy.py`) | none | `run_rca`, `plan_remediation`, `evaluate_policy` | workflow, investigator |
| Kubernetes executor (`services/remediation/k8s_executor.py`) | `remediation_executions` | `execute_remediation` | workflow, investigator, cluster |
| REST API (`services/api/main.py`) | approval, plan, incident rows | pending list with self-healing, two approve endpoints | workflow (signal), demo services |
| Database (`database/`) | all rows; primary, foreign, unique keys | transactions at READ COMMITTED, no row locks except in the outbox publisher | all |
| Telemetry tools, LLM provider, RAG (`agents/`) | none | outside calls | `run_rca` |
| Demo services, frontend, scripts, infrastructure | failure flags, held connections | outside the platform's logic | API's recovery hook |

### What is hard here

* Two writers, the workflow and the API, update the same incident, plan and
  approval rows and meet in one Temporal signal; nothing is locked.
* Activities are retried: a worker can be lost between any two transactions of
  one, and after the last one before Temporal learns of it.
* The executor changes the cluster first and records it afterwards, under keys
  that another component has to have created.
* Four components in four files decide whether a plan may run; two of them keep
  their own risk table and two spell action names differently.
* Delivery is at least once only if offsets, processed marks, outbox rows and
  workflow ids agree across crashes, rebalances and lost acknowledgements. The
  loop commits positions, not records; the publisher sends before it commits;
  the investigator marks last and ignores a mark that fails.
* The correlator's transaction locks nothing and writes lists it read earlier:
  two members that work on alerts of one cascade overwrite each other.
* The fallback runs the executor inside a transaction whose plan row the
  executor's own session cannot see.

`PROJECT.json` lists each hazard at its line with the properties that watch it.

### What makes each component correct

* Decision functions: nothing but whitelisted, bounded, dispatchable plans is
  allowed; the row an operator sees agrees with the gate; an incident is closed
  without a plan only for a known reason.
* Workflow, executor and API: no change of the cluster without the policy
  engine's consent and, where it asks, a committed approval; no change after a
  recorded success; verification only of a recorded success; the outcome the
  workflow decided is the one on the row when nobody interfered; RESOLVED has an
  approval, a verified recovery or nothing to do behind it; a decision that
  arrived is acted on.
* Ingestor: of an accepted call, every alert is published or counted as failed.
* Consumer: an offset passes a record only when it was handled or its handler
  failed, and never goes back.
* Correlator: an event leaves at most one alert row, and none without its mark;
  a marked event is on an incident, or the alert it repeats is; an incident is
  announced as created before anything else about it, and is weakened only by a transaction that read it before it last changed.
* Outbox publisher and investigator: an event is sent once, and once more for
  each acknowledgement or publisher lost; its incident is investigated once by
  each instance at the most, and once more for each failure; an offset passes no
  incident that nobody began to investigate; while fewer than `MAX_RETRIES` sends
  failed, every committed event is investigated or its handler raised.
* Fallback: whatever moment it runs at, it takes away neither the workflow's
  question, nor the answer to it, nor its gate, and it resolves nothing.

## 2. Modules

    RemediationDecision            run_rca, plan_remediation, evaluate_policy as operators
      DecisionPipeline             one decision: rca -> planning -> policy
    IncidentStore                  the rows workflow, API and fallback share
      IncidentWorkflow             workflow, activities, executor  (+ RemediationDecision)
      ApprovalApi                  approval endpoints
      InvestigatorFallback         _run_investigation_sync  (+ RemediationDecision)
        IncidentLifecycle          workflow and API over the same rows
          FallbackLifecycle        the same with the fallback as a third writer
    RemediationGate                abstract: implemented by both of these

    KafkaTopic                     one topic and AegisProducer.send
      AlertIngestor                POST endpoints
      OutboxPublisher              publish_pending
      AegisConsumer                the loop of every worker, its group, its faults
        Correlator                 handle_raw_alert
          AlertIntake              ingestor, topic, consumer, correlator
        Investigator               handle_incident_created
          IncidentDispatch         publishers, topic, consumer, investigator
    AlertLedger                    abstract: implemented by AlertIntake
    EventDelivery                  abstract: implemented by IncidentDispatch

Each composition has a `Proofs` module and an `MC` module with its small
instance (`MCFallbackLifecycle` is that of the whole lifecycle,
`MCIncidentLifecycle` holds the instances without the fallback in which a
documented statement fails); `RemediationDecisionProofs` and `AegisConsumerProofs` hold lemmas on the
modules they are named for, `AlertLedgerProofs` what follows from that abstract
specification alone.

**RemediationDecision.** One operator per function, in the code's order of early
returns. The LLM's answer is a list of objects and sentences. Names are members
of small sets; `Absent` is a missing key, `Null` a value of the wrong type,
`NotAnInt` a replica count that is no Python `int`. An object's action name is
kept as its upper-cased form and whether it was spelled in upper case, which is
all that the two filters (`.upper()` in the root-cause agent, the enumeration's
constructor in the planner) tell apart. A `reason` that is not a string makes
the planner raise as a target of the wrong type does, and is covered by that
case. Confidence, evidence and reasoning steps decide nothing and are left out.

**DecisionPipeline.** `stage` runs through the three functions and ends in one
of five ways. `raised` is the exception the activity lets through.

**IncidentStore.** One incident's rows. Incidents share no row, so one shows
every interleaving. `plans` is the set of primary keys; `approvals` maps a row
to its status and `plan_id`; `execution` is the status of the row under the
workflow's execution id; `decisions` the APPROVAL_DECIDED entries of the
timeline. `PlanIdFree` is the unique constraint on `approvals.plan_id`,
`CanInsertExecution` the keys of `remediation_executions`.

**IncidentWorkflow.** `step` is the activity awaited, `stage` how far the current
attempt of it is. Each database transaction of an activity is one action; an
attempt whose work is committed and not yet reported is at `done`, so
`AttemptLost` can strike between any two transactions and after the last. The
actions follow the code: `MarkInvestigating`/`Diagnose`/`InvestigationFails` are
`investigate_activity`; `CheckExecuted`, `ActOnCluster`, `RecordSuccess`,
`RecordSuccessRaises`, `RecordFailure` are `execute_remediation`;
`UpdateIncidentStatus` is the unconditional write each transition makes.
`plan_remediation_activity`, `policy_check_activity` and
`verify_recovery_activity` write nothing a guard reads (verify appends a timeline
entry) and are one action each.

**ApprovalApi.** Each member of `Request` is one HTTP call with its session:
where it is, the decision, the approval and the plan it holds. The check for
PENDING and the commit are separate actions, as are the commit, the signal and
the final RESOLVED. `POST /incidents/{id}/approve` looks for a plan, then for an
approval, in two actions, and a plan it has to add is inserted with whatever the
call commits next.

**InvestigatorFallback.** It follows the code's commits: the INVESTIGATING
status, the diagnosis that touches no row, and one transaction with plan,
status, approval and (for a plan that needs no human) the executor's call in
the middle. That call runs in a session of its own, which sees committed rows
only (`SyncRecordAccepted`): if the plan row is there, the record is written and
the incident RESOLVED; if it is not, the foreign key refuses the SUCCESS row and
the FAILURE row after it, and the exception rolls the outer transaction back.
The transaction being the one that adds the plan row, the second is what always
happens (`TraceInv` in the proofs): the incident becomes FAILED and the change
of the cluster has no row. A plan that
needs approval is asked for, but nobody executes it when it is approved, unless
the workflow waits at that moment; the API marks the incident RESOLVED anyway.

**IncidentLifecycle** interleaves workflow and API and holds their properties;
**FallbackLifecycle** adds the fallback. **RemediationGate** is the abstract
specification: judge once, approve, run a bounded number of times, record, and
never run again.

**KafkaTopic.** `log` is a sequence of events per partition. A send makes up to
three attempts; one that fails may have reached the log before its
acknowledgement was lost, so a send that succeeds leaves one record or more and
one that fails leaves any number up to its attempts. A failed attempt counts in
`sendFaults`.

**AlertIngestor.** `looked` is the place in the loop over a call's alerts. A
failed send is counted and the loop goes on; the manual endpoint answers 500; a
call can die half way.

**AegisConsumer.** `mode` is what the coordinator thinks of a member, `position`
what it was handed out, `pc` where `_process_record` is. `CommitOffsets` commits
the position of every assigned partition, as `commit()` without arguments does.
`Raise` is the except branch: no commit, no seek. Between `handle` and `commit`
the extending module moves `pc`. A group is dealt out anew (`Reassign`, `Start`,
`Rejoin`), all positions going back to the committed offsets; an expelled member
works on with what it fetched until it notices, and its commits fail.

**Correlator.** Rows are sequences in the order of creation. A transaction is at
most three steps: mark check and fingerprint lookup, incident lookup (`found`
keeps the row as it was read), and the commit that writes the alert row, the
outbox row, the mark, and the incident. The list written is the one that was
read with the alert added; the severity is written only if it rises over the one
that was read. Time is a bounded clock; the two windows are numbers of ticks.
`HandlerEnds` is a crash or a database error in the middle.

**OutboxPublisher.** One poll is a transaction: `SelectBatch` locks, `Send` is
one row's send, `CommitBatch` writes flags and counters. `PollFails` is a dead
process or a failed commit: what was sent stays sent. Events are numbered by
`created_at`, in which their transactions need not commit.

**Investigator.** `workflow` is what the Temporal server knows under the
incident's id: a running id is refused (the handler reads this as "Temporal
unavailable" and investigates by itself beside the workflow), a closed one is
taken again. The mark comes last and its failure is passed over. Every instance
draws a new group at each start, so it reads the topic from its beginning.

**AlertIntake** and **IncidentDispatch** put these side by side, leaving
everything a step does not touch unchanged. They meet in the outbox: a row that
the correlator's transaction inserts there is a `RowInserted` of the dispatch.
**EventDelivery** is the abstract specification of the second: the stages of an
event, `dropped` (out of attempts) and `lost` (its handler raised) among them.
**AlertLedger** is that of the first,
seen from the tables: an event with a firing alert is filed under an incident,
or counts as the repetition of one that is, once, and the announcement of the
incident (the outbox row) is entered in the same step. Its `filed` is read off
the alert rows, its `repeated` are the marks without a row, its `announced` is
the outbox.

### Assumptions and abstractions

* Temporal (external): activities are retried; `RetryPolicy` limits attempts,
  calls without one are retried without limit; a signal is delivered while the
  workflow runs and refused afterwards; `wait_condition` with a timeout raises
  `asyncio.TimeoutError` when it expires, which fails the workflow.
* An attempt that is replaced is over. An attempt that timed out and keeps
  running beside its retry is not modelled (listed as a hazard).
* Kubernetes errors: each branch of `_execute_k8s_action` turns them into a
  simulated success, so `k8sRuns` counts calls that returned.
* The self-healing of the pending list reads and writes one incident in one
  action. `Commit` reads the incident and writes it in one action.
* An answer of 404 or 409 changes nothing and is no action.
* `LIMIT 1` without `ORDER BY` is a free choice of the row.
* In `IncidentLifecycle` the fallback is absent; `FallbackLifecycle` has one
  run of it, started at any moment the workflow runs, or after a fault.
* Kafka (external): records keep their order in a partition and are never
  removed (retention is longer than any run); a group's offsets survive every
  member; commits of an expelled member are refused.
* PostgreSQL at READ COMMITTED: a transaction is the step of its commit, what it
  read earlier is kept in `found`, `batch` or the like. Two unmarked inserts of
  one `processed_events` key: the later commit fails.
* An incident is closed by `CloseIncident` at any moment: the intake does not
  say who does it. Likewise `WorkflowEnds` in the dispatch.

## 3. Runs

| Run | Configuration | What it asks |
|---|---|---|
| `decision` | MCDecisionPipeline.cfg | AllowedPlansAreSafe, PlannerAgreesWithPolicy, DiagnosedOnlyOnlyWhen over all answers of up to two elements |
| `lifecycle` | MCFallbackLifecycle.cfg | workflow, two API calls, the fallback and faults of all three: ApprovedBeforeExecution, SignalIsCommitted, OnlyAllowedPlansRun, VerifiedRunsAreRecorded, OutcomeStands, ResolvedHasReason, RecordedNeverRepeated, AwaitingHasApproval, QuestionStaysOpen, NoAnswerIsLost, ImplementsGate, and under fairness DecisionIsHonoured and WorkflowGetsSomewhere (627 thousand states) |
| `resolved_unverified` | ResolvedUnverified.cfg | violated: RESOLVED before anything was executed or verified |
| `auto_repeats` | AutoApprovedRepeats.cfg | violated: an auto-approved remediation changes the cluster on each of three attempts |
| `approval_timeout` | ApprovalTimeout.cfg | violated: a timed-out approval leaves AWAITING_APPROVAL |
| `request_stuck` | RequestStuck.cfg | violated: a crash after the approval was requested blocks the workflow for ever |
| `intake` | MCAlertIntake.cfg | SkippedOnlyAfterFailure, OffsetsNeverFall, AppliedOnce, NoAlertIsForgotten, AcceptedIsPublishedOrCounted, LosesOnlyToStaleWrite, CreatedComesFirst, ImplementsLedger |
| `dispatch` | MCIncidentDispatch.cfg | DuplicatesArePaidFor, InvestigationsAreBounded, PassedIsInvestigated, ImplementsDelivery, and DeliveredUnlessKafkaIsAway under fairness |
| `second_workflow` | SecondWorkflow.cfg | violated: an investigator that dies before its mark starts a second workflow once the first is closed |
| `event_lost` | EventLost.cfg | violated: an event whose attempts failed while Kafka was away is not sent when it is back |
| `record_skipped` | RecordSkipped.cfg | violated: a failed record is passed by the next commit and not redelivered |
| `cascade_split` | CascadeSplit.cfg | violated: the dependent service's alert opens an incident of its own when the cause fires first |

The eight violated properties quote a sentence of the documentation or the code;
`findings` in `PROJECT.json` has the quotation and the line.

**Bounds and why they are enough.** `decision`: only the first kept element is
read, so a list of two shows "first kept, second kept, none kept"; the replica
values are the edges 0, 1, 10, 11 and a non-integer. `lifecycle`: an approve and
a reject, or a decision and a self-healing list, need two calls; a third can
only repeat one of their steps, and the proofs cover any number. Three worker
faults use up the attempts of an activity; `MaximumAttempts = 3` is the code's
value. One LLM answer per way a decision can end (auto, ask, denied, refused
name, no plan, raises). The CONSTRAINT `FewDisturbances` allows calls and
faults in any mixture, three together, as long as the fallback has not begun,
and one call and one fault beside it. The two calls differ in nothing but their names, so `r1` is the one
made first; a symmetry set would say the same and is not sound for the liveness
properties checked in this run. The constraint cuts only steps that fairness
does not ask for: calls, faults and the beginning of the fallback.
`intake`: three events, of which two share a partition, so that a commit can
pass a record it did not handle; two members, so that transactions overlap and a
rebalance moves a partition; a cascade of three services, and a repeated alert
beside one that is over. Its constraint allows one disturbance (fault, lost
acknowledgement, tick, closed incident); the proofs have no such bound.
`dispatch`: two publishers contend for one row and two rows fit one batch; two
investigators meet at one workflow id. `MaxRetries = 2` for 10 and
`MaxBatchSize = 2` for 50: what matters is the attempt that is the last, and a
batch of more than one. Two disturbances with one event, one failed send or dead
publisher with two. The constraint cuts only steps that fairness does not ask
for (faults, an event's arrival, a workflow's end), so the liveness it leaves is
that of every behaviour with so few disturbances. Deadlock is not checked: the
workflow closes, the calls return, the topic is read, and the system stops there.

**Fairness.** In the lifecycle: weak fairness of the workflow's own steps and of
nothing else (the server reschedules an activity and the worker polls its queue
for ever, timers fire). An API call may die anywhere and the fallback may stop
anywhere; neither keeps the workflow from going on. No fairness for faults or a
lost attempt. DecisionIsHonoured wants an outcome on the row after at most one
lost attempt, and the end of the workflow after any number: three lost attempts
of one activity fail it. Faults are bounded, so the liveness properties are
about a system that is eventually left alone. In the dispatch: weak fairness of
each publisher's poll (a loop that sleeps a second and goes on), of the groups
(the coordinator settles, a dead process is restarted) and of each
investigator's loop and handler; none for faults, for a commit of the correlator or for the end of a
workflow. Strong fairness is not needed: a lock is taken away or a member
expelled only a bounded number of times. WorkflowGetsSomewhere stops at
`request_approval_activity` because the workflow may never get past it: that is
the run `request_stuck`.

Each property has a mutant, a plausible bug in a mapped definition under which
the run finds the property violated (a dropped approval test, a signal before
the commit, a forgotten idempotency check, tables that drift apart, a missing
row lock, a mark that is not committed, a severity that follows the latest
alert...).

## 4. Proofs

Checked by TLAPS for every value of the constants: any whitelists, any set of
LLM answers of any length, any number of API calls, any bound on attempts and
faults.

* `RemediationDecisionProofs`: which actions survive `run_rca`; types of plans
  and verdicts; an allowed plan is not forbidden, is whitelisted and bounded.
  The choice of the first kept element rests on the well-ordering of `Nat`.
* `DecisionPipelineProofs`: TypeOK and the three properties of the run
  `decision`. The inductive invariant says, stage by stage, where each value
  came from (`ActionKnown`, `PlanKnown`, `VerdictKnown`); the properties then
  follow from the lemmas on the operators. They are not inductive alone: that
  the plan is dispatchable depends on the root-cause filter two steps earlier.
* `IncidentLifecycleProofs`: the safety properties of `IncidentLifecycle`, the
  action property and the refinement of `RemediationGate`. The inductive
  invariant has four parts besides TypeOK. `GateInv` ties the workflow's step to
  what planner, policy engine and operator have said. `ExecutionInv` relates the
  attempt and its stage to the number of changes and the record: before a change
  there are fewer changes than attempts, which is why the three attempts bound
  the changes even though a lost record is not counted. `ApiInv` says that a
  call signals and resolves only what it committed. `OutcomeInv` says the last
  status write is the outcome while no decision is on the timeline. Two frame
  lemmas (`WorkflowFrame`, `ApiFrame`) state what each side never touches, so
  each part is preserved by one side for that reason alone. ResolvedHasReason has
  an invariant of its own beside these (`ReasonInv`): the outcome RESOLVED is
  chosen on the way out only and its grounds are not touched any more, and a call
  on its way to write RESOLVED carries an approval.
* `FallbackLifecycleProofs`: the safety properties of the run `lifecycle`, with
  the fallback as the third writer, and the refinement again. It reuses
  `CoreInv`, the part of the lifecycle's invariant that a third writer of the
  rows cannot disturb. `OutcomeInv` it can: the fallback overwrites the status,
  so that SpecOutcomeStands carries `OutcomeInv` only up to its beginning. To it
  come `TraceInv` (until the fallback ends its transaction nothing in the
  database refers to its plan: the executor's record never finds the plan it
  needs, so the fallback never gets to write RESOLVED),
  `AskInv` (approval rows stay, the newest is one of them, a call holds the key
  of a row that exists) and `UndecidedInv` (before the first decision every
  approval is PENDING and no call wants to reset one). QuestionStaysOpen is not
  inductive without the last: a call resets an approval some steps after it read
  what another had decided. `AnswerInv` is NoAnswerIsLost together with the
  fact that the approval row belongs to a workflow that was started: a row decided
  before the start would be an answer that no workflow could be told. That needs
  `AskInv`: a call decides only a row that exists.
  FallbackKeepsLifecycle restates six properties of `IncidentLifecycle` under
  the specification with the third writer.
* `AegisConsumerProofs`: records stay where they are while a topic grows, each
  step of loop, handler and group keeps the consumer's types, and what a send
  leaves in the topic. Its second half is about offsets: `Offsets(D)` says of any
  set D of records that are done with that committed offsets pass only those,
  that a joined member's position is ahead of its group's offset and passes only
  those and the record in hand, and that two joined members of a group share no
  partition. One lemma per kind of step (a commit, a poll, a new assignment, a
  member that leaves, a record that ends) shows that it stays, with D growing.
  Intake and dispatch use the same lemmas with a D of their own.
* `AlertIntakeProofs`: every property of the run `intake`, the two action
  properties among them. `IntakeInv` has five parts. `TypesInv` adds to the types
  that every record a member holds exists. `TablesInv`: references between rows
  stand, and no alert row is without its mark. `HandlingInv`: a member goes to
  its mark only for an alert that is remembered, and to its commit only when the
  record is handled. `OffsetsInv` is the heart, `Offsets` of the records that
  were handled or whose handler raised. That is why a commit of all positions is safe but for failures, and why no offset
  falls. `CallsInv`: of the alerts a call looked at, those that are not in the
  topic are at most `failed`. The refinement of `AlertLedger` needs, beyond
  `IntakeInv`, that the alert a member decides about is firing (`FiringInv`): the
  check is made once, steps before the commit. A commit is then a `File` or a
  `Repeat` of an event that is still undecided, for a marked one makes the insert
  of the mark fail, and every other step is a stutter. CreatedComesFirst is not
  proved on the tables but carried over: `AlertLedgerProofs` proves it of the
  abstract books, which know but two kinds of step, and the refinement brings it
  to every interleaving of members and crashes.
* `AlertLedgerProofs`: IncidentsAnnounced, with the invariant that each opened
  incident has an entry and an announcement that comes first, and that an event
  is filed under one incident or repeated, never both.
* `IncidentDispatchProofs`: the types, both bounds and the refinement of
  `EventDelivery`. `PollerInv`: a locked row has one holder and was eligible.
  `RowInv`: a row never says more than the topic. `CopiesInv`: the copies of an
  event are bounded by the faults, and by one more once a send was acknowledged.
  `RunsInv`: without the mark every investigation is still running or was ended
  by a fault; with it only those about to start can begin one. PassedIsInvestigated
  is proved from two further parts that hold beside this invariant: `BegunInv`
  (a mark, and a member on its way to one, says that the investigation began) and
  `Offsets` of the records that were investigated or whose handler raised. It is
  here that marks made by one instance and offsets moved by another meet: the
  second skips the record because of the mark, and the offset passes it.
  SpecBatchIsLimited (`BatchInv`) counts the rows of a publisher's transaction:
  numbering the oldest by how many are older is an injection into the batch size.
  No run checks it: with two rows and a batch of two, it could not fail there.

The proofs use the assumptions named in the modules (`DecisionAssumption`,
`ResponsesAssumption`, `StoreAssumption`, `WorkflowAssumption`, `ApiAssumption`,
`SyncAssumption`, `TopicAssumption`, `IngestorAssumption`, `ConsumerAssumption`,
`CorrelatorAssumption`, `ScenarioAssumption`, `OutboxAssumption`,
`InvestigatorAssumption`); TLC evaluates them in the runs. The set of members is
assumed finite, since a bound on investigations counts them. Nothing bounds the
number of events, partitions, calls, publishers or faults.

Only model-checked: the liveness properties (DecisionIsHonoured,
WorkflowGetsSomewhere, DeliveredUnlessKafkaIsAway) and the runs that end in a violation;
fairness and ENABLED are outside the prover. The fairness in `IncidentDispatch`'s
`Spec` plays no part in its proofs.

## 5. What the runs say about the code

Eight statements of documentation or comments that the code does not keep, with
the run that shows each; `findings` has the lines.

* `resolved_unverified`: approving marks the incident RESOLVED, with a timeline
  entry that recovery was verified, before anything ran.
* `auto_repeats`: a remediation that needs no approval has no plan row, cannot
  be recorded, and is executed once per attempt. The fallback meets the same key
  with its plan row uncommitted: its change of the cluster has no record either.
* `approval_timeout`: the branch for a timed-out approval is dead code.
* `request_stuck`: `request_approval_activity` is not idempotent and is retried
  without limit.
* `second_workflow`: the processed mark comes after the start of the workflow, in
  a transaction of its own; what is lost in between is started again.
* `event_lost`: an unavailable broker uses up an event's attempts, one per poll,
  and nothing gives them back.
* `record_skipped`: an exception in a handler does not lead to a redelivery
  when another record of the group is committed after it.
* `cascade_split`: the dependency walk groups an alert with incidents of its
  dependents only, so the order of a cascade's alerts decides.

Some properties that hold state facts a reader may want to know:
ResolvedHasReason says what is left of the promise `resolved_unverified` breaks,
InvestigationsAreBounded what is left of that of `second_workflow`,
DeliveredUnlessKafkaIsAway of that of `event_lost`; LosesOnlyToStaleWrite says
that updates are lost to overlapping transactions and to nothing else.
NoAnswerIsLost has the reservation it needs: once a signal
fails, or a call dies between its commit and its signal, nothing tells the
workflow what the rows say.

## 6. Not modelled

* Overlapping attempts of `execute_remediation_activity`: a timed-out attempt is
  over in the model. How long its call lives on depends on the Kubernetes
  client's defaults, outside this code.
* Telemetry tools, LLM provider, RAG: outside calls; what they return enters as
  any member of `Responses`. Prompt building and the normalisation of confidence
  and evidence decide nothing.
* The read-only endpoints, metrics and logging, the frontend, the scripts and
  deployment files change no state the properties speak of. Creation of topics
  (`common/kafka/admin.py`) runs once before everything else.
* The demo services are targets of the platform. The payment service's list of
  held connections has an interleaving of its own (a hazard in `PROJECT.json`),
  which no guard of the platform reads.
* Audit, runbook, evidence and benchmark tables, which no guard reads.

## 7. What could follow

1. The two halves joined: `outbox` of AlertIntake as the source of
   IncidentDispatch's rows, one specification from an accepted call to an
   investigation. The state space is the product, so this is work for the
   prover: the halves write different variables, and each invariant should
   carry over.
2. Overlapping attempts, if the client is given a timeout to reason with.
3. The payment service's connections.
