----------------------------- MODULE KafkaTopic ------------------------------
(***************************************************************************)
(* One Kafka topic, and AegisProducer (common/kafka/producer.py), the only *)
(* way records get into it.  Records are never removed: how far a consumer *)
(* has read is its own affair.                                             *)
(***************************************************************************)
EXTENDS Integers, Sequences

CONSTANTS
    Event,            \* events (their event_id)
    Partition,        \* partitions of the topic
    PartitionOf,      \* where the hash of an event's key puts it
    MaxSendFaults     \* bound on failed send attempts and sender crashes

ASSUME TopicAssumption ==
    /\ PartitionOf \in [Event -> Partition]
    /\ MaxSendFaults \in Nat

VARIABLES
    log,           \* records per partition, in the order of their offsets
    sendFaults     \* failed send attempts so far

topicVars == <<log, sendFaults>>

TopicTypeOK ==
    /\ log \in [Partition -> Seq(Event)]
    /\ sendFaults \in 0 .. MaxSendFaults

TopicInit == log = [p \in Partition |-> <<>>] /\ sendFaults = 0

Logged(e) == \E i \in DOMAIN log[PartitionOf[e]] : log[PartitionOf[e]][i] = e

\* Records of an event: each send attempt can leave one.
Copies(e) == {i \in DOMAIN log[PartitionOf[e]] : log[PartitionOf[e]][i] = e}

\* Up to three attempts.  One that fails may have reached the log before its
\* acknowledgement was lost.  A connection error is tried again, any other error
\* is raised at once, and so is the third connection error.
SendAttempts == 3

Publish(e, copies) ==
    log' = [log EXCEPT ![PartitionOf[e]] = @ \o [i \in 1 .. copies |-> e]]

SendFaults(n) == sendFaults + n <= MaxSendFaults /\ sendFaults' = sendFaults + n

SendSucceeds(e) ==
    \E lost \in 0 .. (SendAttempts - 1) : \E copies \in 1 .. (lost + 1) :
        SendFaults(lost) /\ Publish(e, copies)

SendFails(e) ==
    \E lost \in 1 .. SendAttempts : \E copies \in 0 .. lost :
        SendFaults(lost) /\ Publish(e, copies)
=============================================================================
