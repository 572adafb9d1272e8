---------------------------- MODULE OutboxPublisher ----------------------------
(***************************************************************************)
(* The outbox publisher (services/outbox_publisher/main.py): every second  *)
(* a transaction locks a batch of unpublished rows, sends them one by one, *)
(* and writes what became of each when it commits.  Kafka keeps what was   *)
(* sent; the database keeps nothing of a transaction that did not commit.  *)
(* Events are numbered in the order of created_at, in which their own      *)
(* transactions need not commit.                                           *)
(***************************************************************************)
EXTENDS KafkaTopic, FiniteSets

CONSTANTS
    Poller,         \* publisher processes
    MaxRetries,     \* MAX_RETRIES (10 in the code)
    MaxBatchSize    \* MAX_BATCH_SIZE (50 in the code)

ASSUME OutboxAssumption ==
    /\ Event \subseteq Nat
    /\ MaxRetries \in Nat \ {0} /\ MaxBatchSize \in Nat \ {0}

VARIABLES
    row,        \* outbox_events: "absent", "pending", "published"
    attempts,   \* outbox_events.attempts
    polling,    \* per poller: is its transaction open?
    batch,      \* per poller: rows it locked and has not sent yet
    sent,       \* per poller: rows of the transaction that were sent ...
    missed      \* ... and rows that could not be

outboxVars == <<row, attempts, polling, batch, sent, missed>>

OutboxTypeOK ==
    /\ row \in [Event -> {"absent", "pending", "published"}]
    /\ attempts \in [Event -> 0 .. MaxRetries]
    /\ polling \in [Poller -> BOOLEAN]
    /\ batch \in [Poller -> SUBSET Event]
    /\ sent \in [Poller -> SUBSET Event]
    /\ missed \in [Poller -> SUBSET Event]

OutboxInit ==
    /\ row = [e \in Event |-> "absent"]
    /\ attempts = [e \in Event |-> 0]
    /\ polling = [p \in Poller |-> FALSE]
    /\ batch = [p \in Poller |-> {}]
    /\ sent = [p \in Poller |-> {}]
    /\ missed = [p \in Poller |-> {}]
-----------------------------------------------------------------------------
\* The correlator's transaction commits an incident with its outbox row.
RowInserted(e) ==
    /\ row[e] = "absent"
    /\ row' = [row EXCEPT ![e] = "pending"]
    /\ UNCHANGED <<topicVars, attempts, polling, batch, sent, missed>>

\* Mutant: without FOR UPDATE SKIP LOCKED.
LockedNothing(e) == FALSE

Locked(e) == \E p \in Poller : e \in batch[p] \cup sent[p] \cup missed[p]

\* The WHERE clause.
Eligible(e) == row[e] = "pending" /\ attempts[e] < MaxRetries

\* The oldest eligible rows nobody locked, as many as fit.  (An empty result
\* is a poll that does nothing.)
SelectBatch(p) ==
    LET free == {e \in Event : Eligible(e) /\ ~Locked(e)}
        oldest == {e \in free : Cardinality({f \in free : f < e}) < MaxBatchSize}
    IN  /\ ~polling[p] /\ free # {}
        /\ polling' = [polling EXCEPT ![p] = TRUE]
        /\ batch' = [batch EXCEPT ![p] = oldest]
        /\ UNCHANGED <<topicVars, row, attempts, sent, missed>>

\* The row the loop is at.
Oldest(p, e) == e \in batch[p] /\ \A f \in batch[p] : e <= f

Send(p) ==
    \E e \in Event :
        /\ Oldest(p, e)
        /\ batch' = [batch EXCEPT ![p] = @ \ {e}]
        /\ \/ SendSucceeds(e) /\ sent' = [sent EXCEPT ![p] = @ \cup {e}] /\ UNCHANGED missed
           \/ SendFails(e) /\ missed' = [missed EXCEPT ![p] = @ \cup {e}] /\ UNCHANGED sent
        /\ UNCHANGED <<row, attempts, polling>>

\* The transaction is over and its locks are released.
Release(p) ==
    /\ polling' = [polling EXCEPT ![p] = FALSE]
    /\ batch' = [batch EXCEPT ![p] = {}]
    /\ sent' = [sent EXCEPT ![p] = {}]
    /\ missed' = [missed EXCEPT ![p] = {}]

\* Mutant: a row that could not be sent is taken for published as well.
CommitBatchOptimistic(p) ==
    /\ polling[p] /\ batch[p] = {}
    /\ row' = [e \in Event |->
                  IF e \in sent[p] \cup missed[p] THEN "published" ELSE row[e]]
    /\ Release(p)
    /\ UNCHANGED <<topicVars, attempts>>

\* Mutant: the producer's own attempts are counted as well.
CommitBatchRecounted(p) ==
    /\ polling[p] /\ batch[p] = {}
    /\ row' = [e \in Event |-> IF e \in sent[p] THEN "published" ELSE row[e]]
    /\ attempts' = [e \in Event |->
                       IF e \in missed[p] THEN attempts[e] + SendAttempts ELSE attempts[e]]
    /\ Release(p)
    /\ UNCHANGED topicVars

CommitBatch(p) ==
    /\ polling[p] /\ batch[p] = {}
    /\ row' = [e \in Event |-> IF e \in sent[p] THEN "published" ELSE row[e]]
    /\ attempts' = [e \in Event |->
                       IF e \in missed[p] THEN attempts[e] + 1 ELSE attempts[e]]
    /\ Release(p)
    /\ UNCHANGED topicVars

\* The publisher dies, or the commit fails and main() logs a poll error.
PollFails(p) ==
    /\ polling[p]
    /\ SendFaults(1)
    /\ Release(p)
    /\ UNCHANGED <<log, row, attempts>>

PollerStep(p) == SelectBatch(p) \/ Send(p) \/ CommitBatch(p)

OutboxNext ==
    \/ \E e \in Event : RowInserted(e)
    \/ \E p \in Poller : PollerStep(p) \/ PollFails(p)
=============================================================================
