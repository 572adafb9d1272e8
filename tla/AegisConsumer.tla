---------------------------- MODULE AegisConsumer ----------------------------
(***************************************************************************)
(* AegisConsumer (common/kafka/consumer.py): the loop of every worker over *)
(* one topic, its consumer group, and the restarts and rebalances that     *)
(* happen to it.  What a handler does with a record is left to the module  *)
(* that extends this one: between "handle" and "commit" it moves pc        *)
(* itself, and ends with Return or Raise.                                  *)
(*                                                                         *)
(* aiokafka's part, as the loop relies on it: a record that was handed out *)
(* moves the position of its partition; commit() without arguments commits *)
(* the position of every assigned partition; a rebalance deals all         *)
(* partitions out anew and takes every position back to the committed      *)
(* offset; a member the coordinator has expelled goes on with the records  *)
(* it fetched until it notices, and its commits fail.                      *)
(***************************************************************************)
EXTENDS KafkaTopic, FiniteSets

CONSTANTS
    Member,              \* worker processes
    Group, GroupOf,      \* consumer groups, and each member's
    DrawsGroup,          \* does a member draw a new group id at each start?
    HandlerPc,           \* places in the handler, given by the extending module
    DatabasePc,          \* those at which a database error leaves the handler
    MaxConsumerFaults    \* bound on crashes, expulsions and failed operations

ASSUME ConsumerAssumption ==
    /\ IsFiniteSet(Member)
    /\ GroupOf \in [Member -> Group]
    /\ DrawsGroup \in BOOLEAN
    /\ DrawsGroup => \A m, n \in Member : GroupOf[m] = GroupOf[n] => m = n
    /\ HandlerPc \cap {"poll", "check", "commit"} = {}
    /\ "handle" \in HandlerPc /\ DatabasePc \subseteq HandlerPc
    /\ MaxConsumerFaults \in Nat

VARIABLES
    committed,     \* per group and partition: number of records committed
    mode,          \* per member: "down", "joined" (in its group), "fenced"
                   \* (expelled, and it does not know yet)
    assigned,      \* per member: partitions it reads
    position,      \* per member and partition: number of records handed out
    pc,            \* per member: where _process_record is
    current,       \* per member: the record it processes
    processed,     \* processed_events: event ids marked by these workers
    raised,        \* records for which _process_record caught an exception
    consumerFaults

loopVars == <<pc, current, raised>>
groupVars == <<committed, mode, assigned, position>>
consumerVars == <<groupVars, loopVars, processed, consumerFaults>>

NoRecord == [offset |-> 0]
Record == [partition : Partition, offset : Nat \ {0}]
EventAt(r) == log[r.partition][r.offset]

Pc == {"poll", "check", "commit"} \cup HandlerPc
FromStart == [p \in Partition |-> 0]

ConsumerTypeOK ==
    /\ committed \in [Group -> [Partition -> Nat]]
    /\ mode \in [Member -> {"down", "joined", "fenced"}]
    /\ assigned \in [Member -> SUBSET Partition]
    /\ position \in [Member -> [Partition -> Nat]]
    /\ pc \in [Member -> Pc]
    /\ current \in [Member -> Record \cup {NoRecord}]
    /\ processed \subseteq Event
    /\ raised \subseteq Record
    /\ consumerFaults \in 0 .. MaxConsumerFaults

ConsumerInit ==
    /\ committed = [g \in Group |-> FromStart]
    /\ mode = [m \in Member |-> "down"]
    /\ assigned = [m \in Member |-> {}]
    /\ position = [m \in Member |-> FromStart]
    /\ pc = [m \in Member |-> "poll"]
    /\ current = [m \in Member |-> NoRecord]
    /\ processed = {}
    /\ raised = {}
    /\ consumerFaults = 0

ConsumerFault ==
    /\ consumerFaults < MaxConsumerFaults
    /\ consumerFaults' = consumerFaults + 1
-----------------------------------------------------------------------------
(* The group.                                                              *)

Joined(g) == {m \in Member : GroupOf[m] = g /\ mode[m] = "joined"}

Share(owner, m) == {p \in Partition : owner[p] = m}

\* The coordinator deals the partitions out evenly among `ms`, at these offsets.
Balance(ms, offsets) ==
    \E owner \in [Partition -> ms] :
        /\ \A m, n \in ms :
              Cardinality(Share(owner, m)) <= Cardinality(Share(owner, n)) + 1
        /\ assigned' = [m \in Member |->
                           IF m \in ms THEN Share(owner, m) ELSE assigned[m]]
        /\ position' = [m \in Member |->
                           IF m \in ms
                           THEN [p \in Partition |-> IF owner[p] = m THEN offsets[p] ELSE 0]
                           ELSE position[m]]

\* Mutant: auto_offset_reset="latest".
StartsAtEnd(m) ==
    IF DrawsGroup THEN [p \in Partition |-> Len(log[p])] ELSE committed[GroupOf[m]]

\* Without a committed offset, as in a new group, a member reads from the
\* beginning (auto_offset_reset="earliest").
StartsAt(m) == IF DrawsGroup THEN FromStart ELSE committed[GroupOf[m]]

\* A process (re)starts, subscribes and joins.
Start(m) ==
    LET g == GroupOf[m]
    IN  /\ mode[m] = "down"
        /\ mode' = [mode EXCEPT ![m] = "joined"]
        /\ Balance(Joined(g) \cup {m}, StartsAt(m))
        /\ committed' = [committed EXCEPT ![g] = StartsAt(m)]
        /\ UNCHANGED <<loopVars, processed, consumerFaults>>

Crash(m) ==
    /\ mode[m] # "down" /\ ConsumerFault
    /\ mode' = [mode EXCEPT ![m] = "down"]
    /\ assigned' = [assigned EXCEPT ![m] = {}]
    /\ position' = [position EXCEPT ![m] = FromStart]
    /\ pc' = [pc EXCEPT ![m] = "poll"]
    /\ current' = [current EXCEPT ![m] = NoRecord]
    /\ UNCHANGED <<committed, processed, raised>>

\* Session timeout, or a handler slower than max_poll_interval_ms.
Expel(m) ==
    /\ mode[m] = "joined" /\ ConsumerFault
    /\ mode' = [mode EXCEPT ![m] = "fenced"]
    /\ UNCHANGED <<committed, assigned, position, loopVars, processed>>

\* The expelled member notices and joins again, also in the middle of a record.
Rejoin(m) ==
    /\ mode[m] = "fenced"
    /\ mode' = [mode EXCEPT ![m] = "joined"]
    /\ Balance(Joined(GroupOf[m]) \cup {m}, committed[GroupOf[m]])
    /\ UNCHANGED <<committed, loopVars, processed, consumerFaults>>

\* Partitions whose owner is gone go to the members that are left.
Reassign(g) ==
    /\ Joined(g) # {}
    /\ \E p \in Partition : \A m \in Joined(g) : p \notin assigned[m]
    /\ Balance(Joined(g), committed[g])
    /\ UNCHANGED <<committed, mode, loopVars, processed, consumerFaults>>
-----------------------------------------------------------------------------
(* run and _process_record.                                                *)

At(m, place) == mode[m] # "down" /\ pc[m] = place

GoTo(m, place) == pc' = [pc EXCEPT ![m] = place] /\ UNCHANGED <<current, raised>>

NextRecord(m, p) == [partition |-> p, offset |-> position[m][p] + 1]

Poll(m) ==
    /\ At(m, "poll")
    /\ \E p \in assigned[m] :
          /\ position[m][p] < Len(log[p])
          /\ current' = [current EXCEPT ![m] = NextRecord(m, p)]
          /\ position' = [position EXCEPT ![m][p] = @ + 1]
    /\ pc' = [pc EXCEPT ![m] = "check"]
    /\ UNCHANGED <<committed, mode, assigned, processed, raised, consumerFaults>>

\* The handler returned: the offsets are committed next.
Return(m) == GoTo(m, "commit")

\* It raised: logged, a second's pause, and on to the next record.  Nothing is
\* committed, and nothing takes the position back.
Raise(m) ==
    /\ pc' = [pc EXCEPT ![m] = "poll"]
    /\ current' = [current EXCEPT ![m] = NoRecord]
    /\ raised' = raised \cup {current[m]}

\* The idempotency check, a database session of its own.
CheckProcessed(m) ==
    /\ At(m, "check")
    /\ IF EventAt(current[m]) \in processed THEN Return(m) ELSE GoTo(m, "handle")
    /\ UNCHANGED <<groupVars, processed, consumerFaults>>

\* A database error in the check or in the handler's transaction.
DatabaseFails(m) ==
    /\ mode[m] # "down" /\ pc[m] \in {"check"} \cup DatabasePc
    /\ ConsumerFault
    /\ Raise(m)
    /\ UNCHANGED <<groupVars, processed>>

\* Mutant: what was fetched is committed, and not what was handed out.
CommitOffsetsAhead(m) ==
    /\ At(m, "commit")
    /\ committed' = IF mode[m] # "joined" THEN committed
                    ELSE [committed EXCEPT ![GroupOf[m]] =
                             [p \in Partition |->
                                 IF p \in assigned[m] THEN Len(log[p]) ELSE @[p]]]
    /\ pc' = [pc EXCEPT ![m] = "poll"]
    /\ current' = [current EXCEPT ![m] = NoRecord]
    /\ UNCHANGED <<mode, assigned, position, processed, raised, consumerFaults>>

\* Mutant: the record's own offset is committed, whoever owns its partition now.
CommitOffsetOfRecord(m) ==
    /\ At(m, "commit")
    /\ committed' = IF mode[m] # "joined" THEN committed
                    ELSE [committed EXCEPT
                             ![GroupOf[m]][current[m].partition] = current[m].offset]
    /\ pc' = [pc EXCEPT ![m] = "poll"]
    /\ current' = [current EXCEPT ![m] = NoRecord]
    /\ UNCHANGED <<mode, assigned, position, processed, raised, consumerFaults>>

\* commit(): every assigned partition's position.  A member that is no longer
\* in the group gets CommitFailedError, which is caught and logged.
CommitOffsets(m) ==
    /\ At(m, "commit")
    /\ committed' = IF mode[m] # "joined" THEN committed
                    ELSE [committed EXCEPT ![GroupOf[m]] =
                             [p \in Partition |->
                                 IF p \in assigned[m] THEN position[m][p] ELSE @[p]]]
    /\ pc' = [pc EXCEPT ![m] = "poll"]
    /\ current' = [current EXCEPT ![m] = NoRecord]
    /\ UNCHANGED <<mode, assigned, position, processed, raised, consumerFaults>>
-----------------------------------------------------------------------------
MemberFails(m) == Crash(m) \/ Expel(m) \/ DatabaseFails(m)
GroupMoves == (\E g \in Group : Reassign(g)) \/ \E m \in Member : Start(m) \/ Rejoin(m)
LoopMoves(m) == Poll(m) \/ CheckProcessed(m) \/ CommitOffsets(m)
=============================================================================
