------------------------- MODULE AegisConsumerProofs -------------------------
(***************************************************************************)
(* What the consumer loop and its group preserve, whatever the handler     *)
(* does with a record: lemmas for the proofs about the workers.            *)
(***************************************************************************)
EXTENDS AegisConsumer, FiniteSetTheorems, SequenceTheorems, TLAPS
-----------------------------------------------------------------------------
(* Records.                                                                *)

Valid(r) == r \in Record /\ r.offset <= Len(log[r.partition])

(* What a worker processes, or failed to process, is a record of the topic.*)
RecordsExist ==
    /\ \A m \in Member : pc[m] # "poll" => Valid(current[m])
    /\ \A r \in raised : Valid(r)

(* Every record is in the partition its key belongs to.                    *)
KeysInPlace ==
    \A p \in Partition : \A i \in DOMAIN log[p] : PartitionOf[log[p][i]] = p

LogGrows ==
    \A p \in Partition : /\ Len(log[p]) <= Len(log'[p])
                         /\ \A i \in DOMAIN log[p] : log'[p][i] = log[p][i]

\* A topic that grew holds every record it held.
LEMMA GrowthKeeps ==
    ASSUME log \in [Partition -> Seq(Event)], log' \in [Partition -> Seq(Event)], LogGrows
    PROVE  \A r : Valid(r) => Valid(r)' /\ EventAt(r)' = EventAt(r)
BY DEF Valid, EventAt, LogGrows, Record

LEMMA ValidEvent ==
    ASSUME TopicTypeOK, KeysInPlace, NEW r, Valid(r)
    PROVE  EventAt(r) \in Event /\ Logged(EventAt(r))
BY DEF Valid, EventAt, TopicTypeOK, KeysInPlace, Logged, Record

\* What k copies of e at the end of its partition are.
LEMMA PublishEffect ==
    ASSUME TopicTypeOK, NEW e \in Event, NEW k \in Nat, Publish(e, k)
    PROVE  LET q == PartitionOf[e]
           IN  /\ log' \in [Partition -> Seq(Event)]
               /\ \A p \in Partition \ {q} : log'[p] = log[p]
               /\ Len(log'[q]) = Len(log[q]) + k
               /\ \A i \in 1 .. Len(log[q]) : log'[q][i] = log[q][i]
               /\ \A i \in Len(log[q]) + 1 .. Len(log[q]) + k : log'[q][i] = e
<1> DEFINE q == PartitionOf[e]
           c == [i \in 1 .. k |-> e]
<1>1. q \in Partition /\ log[q] \in Seq(Event)
  BY TopicAssumption DEF TopicTypeOK
<1>2. c \in Seq(Event) /\ Len(c) = k
  BY DEF c
<1>3. log' = [log EXCEPT ![q] = log[q] \o c]
  BY DEF Publish
<1> HIDE DEF c
<1>4. /\ log[q] \o c \in Seq(Event)
      /\ Len(log[q] \o c) = Len(log[q]) + k
      /\ \A i \in 1 .. Len(log[q]) + k :
            (log[q] \o c)[i] = IF i <= Len(log[q]) THEN log[q][i] ELSE c[i - Len(log[q])]
  BY <1>1, <1>2, ConcatProperties
<1>5. \A i \in Len(log[q]) + 1 .. Len(log[q]) + k : (log[q] \o c)[i] = e
  BY <1>1, <1>4, <1>2 DEF c
<1>6. log'[q] = log[q] \o c
  BY <1>1, <1>3 DEF TopicTypeOK
<1>7. \A i \in 1 .. Len(log[q]) : log'[q][i] = log[q][i]
  BY <1>1, <1>4, <1>6
<1> QED BY <1>1, <1>3, <1>4, <1>5, <1>6, <1>7 DEF TopicTypeOK

LEMMA PublishGrows ==
    ASSUME TopicTypeOK, KeysInPlace, NEW e \in Event, NEW k \in Nat, Publish(e, k)
    PROVE  log' \in [Partition -> Seq(Event)] /\ LogGrows /\ KeysInPlace'
<1> DEFINE q == PartitionOf[e]
<1>1. q \in Partition
  BY TopicAssumption
<1>2. /\ log' \in [Partition -> Seq(Event)]
      /\ \A p \in Partition \ {q} : log'[p] = log[p]
      /\ Len(log'[q]) = Len(log[q]) + k
      /\ \A i \in 1 .. Len(log[q]) : log'[q][i] = log[q][i]
      /\ \A i \in Len(log[q]) + 1 .. Len(log[q]) + k : log'[q][i] = e
  BY PublishEffect
<1>3. \A p \in Partition : /\ log[p] \in Seq(Event) /\ log'[p] \in Seq(Event)
                           /\ DOMAIN log[p] = 1 .. Len(log[p]) /\ Len(log[p]) \in Nat
                           /\ DOMAIN log'[p] = 1 .. Len(log'[p]) /\ Len(log'[p]) \in Nat
  BY <1>2 DEF TopicTypeOK
<1>4. LogGrows
  <2> SUFFICES ASSUME NEW p \in Partition
               PROVE  /\ Len(log[p]) <= Len(log'[p])
                      /\ \A i \in DOMAIN log[p] : log'[p][i] = log[p][i]
    BY DEF LogGrows
  <2>1. CASE p # q
    BY <1>2, <1>3, <2>1
  <2>2. CASE p = q
    <3>1. DOMAIN log[q] = 1 .. Len(log[q]) /\ Len(log[q]) \in Nat
      BY <1>1, <1>3
    <3>2. Len(log'[q]) = Len(log[q]) + k
      BY <1>2
    <3>3. \A i \in DOMAIN log[q] : log'[q][i] = log[q][i]
      BY <1>2, <3>1
    <3> QED BY <2>2, <3>1, <3>2, <3>3
  <2> QED BY <2>1, <2>2
<1>5. ASSUME NEW p \in Partition, NEW i \in DOMAIN log'[p] PROVE PartitionOf[log'[p][i]] = p
  <2>1. CASE p # q
    BY <1>2, <1>3, <2>1 DEF KeysInPlace
  <2>2. CASE p = q
    <3>1. i \in 1 .. Len(log[q]) \/ i \in Len(log[q]) + 1 .. Len(log[q]) + k
      BY <1>1, <1>2, <1>3, <2>2
    <3> QED BY <1>1, <1>2, <1>3, <2>2, <3>1 DEF KeysInPlace
  <2> QED BY <2>1, <2>2
<1> QED BY <1>2, <1>4, <1>5 DEF KeysInPlace

\* Both outcomes of a send.
LEMMA SendGrows ==
    ASSUME TopicTypeOK, KeysInPlace, NEW e \in Event, SendSucceeds(e) \/ SendFails(e)
    PROVE  TopicTypeOK' /\ LogGrows /\ KeysInPlace'
<1>1. PICK lost \in 0 .. SendAttempts, k \in 0 .. SendAttempts :
        SendFaults(lost) /\ Publish(e, k)
  BY DEF SendSucceeds, SendFails, SendAttempts
<1>2. k \in Nat
  BY DEF SendAttempts
<1>3. sendFaults' \in 0 .. MaxSendFaults
  BY <1>1, TopicAssumption DEF SendFaults, TopicTypeOK, SendAttempts
<1> QED BY <1>1, <1>2, <1>3, PublishGrows DEF TopicTypeOK
\* A topic that grew still has every event it had.
LEMMA GrowthKeepsLogged ==
    ASSUME TopicTypeOK, TopicTypeOK', LogGrows
    PROVE  \A e \in Event : Logged(e) => Logged(e)'
<1>1. \A p \in Partition : DOMAIN log[p] \subseteq DOMAIN log'[p]
  BY DEF TopicTypeOK, LogGrows
<1>2. \A e \in Event : PartitionOf[e] \in Partition
  BY TopicAssumption
<1> QED BY <1>1, <1>2 DEF LogGrows, Logged

\* A send that succeeds leaves the event in the topic.
LEMMA SendLogs ==
    ASSUME TopicTypeOK, NEW e \in Event, SendSucceeds(e)
    PROVE  Logged(e)'
<1> DEFINE q == PartitionOf[e]
<1>1. PICK k \in 1 .. SendAttempts : Publish(e, k)
  BY DEF SendSucceeds, SendAttempts
<1>2. k \in Nat /\ k > 0
  BY <1>1 DEF SendAttempts
<1>3. /\ log' \in [Partition -> Seq(Event)] /\ Len(log'[q]) = Len(log[q]) + k
      /\ \A i \in Len(log[q]) + 1 .. Len(log[q]) + k : log'[q][i] = e
  BY <1>1, <1>2, PublishEffect
<1>4. q \in Partition /\ Len(log[q]) \in Nat
  BY TopicAssumption DEF TopicTypeOK
<1>5. /\ Len(log[q]) + 1 \in DOMAIN log'[q]
      /\ Len(log[q]) + 1 \in Len(log[q]) + 1 .. Len(log[q]) + k
  BY <1>2, <1>3, <1>4
<1> QED BY <1>3, <1>5 DEF Logged
-----------------------------------------------------------------------------
(* The group and the loop.                                                 *)

\* Dealing out partitions gives every member a share and offsets.
LEMMA BalanceTypes ==
    ASSUME ConsumerTypeOK, NEW ms \in SUBSET Member, NEW offsets \in [Partition -> Nat],
           Balance(ms, offsets)
    PROVE  assigned' \in [Member -> SUBSET Partition] /\ position' \in [Member -> [Partition -> Nat]]
<1>1. PICK owner \in [Partition -> ms] :
        /\ assigned' = [m \in Member |->
                           IF m \in ms THEN Share(owner, m) ELSE assigned[m]]
        /\ position' = [m \in Member |->
                           IF m \in ms
                           THEN [p \in Partition |-> IF owner[p] = m THEN offsets[p] ELSE 0]
                           ELSE position[m]]
  BY DEF Balance
<1>2. \A m \in Member : Share(owner, m) \subseteq Partition
  BY DEF Share
<1>3. \A m \in Member : [p \in Partition |-> IF owner[p] = m THEN offsets[p] ELSE 0]
                           \in [Partition -> Nat]
  OBVIOUS
<1> QED BY <1>1, <1>2, <1>3 DEF ConsumerTypeOK

LEMMA GroupTypes == ConsumerTypeOK /\ GroupMoves => ConsumerTypeOK'
<1> SUFFICES ASSUME ConsumerTypeOK, GroupMoves PROVE ConsumerTypeOK'
  OBVIOUS
<1>1. UNCHANGED <<pc, current, raised, processed, consumerFaults>>
  BY DEF GroupMoves, Start, Rejoin, Reassign, loopVars
<1>2. committed' \in [Group -> [Partition -> Nat]] /\ mode' \in [Member -> {"down", "joined", "fenced"}]
      /\ assigned' \in [Member -> SUBSET Partition] /\ position' \in [Member -> [Partition -> Nat]]
  <2>1. ASSUME NEW g \in Group, Reassign(g) PROVE <1>2!:
    <3>1. Joined(g) \in SUBSET Member /\ committed[g] \in [Partition -> Nat]
      BY DEF Joined, ConsumerTypeOK
    <3>2. Balance(Joined(g), committed[g])
      BY <2>1 DEF Reassign
    <3> QED BY <2>1, <3>1, <3>2, BalanceTypes DEF Reassign, ConsumerTypeOK
  <2>2. ASSUME NEW m \in Member, Start(m) \/ Rejoin(m) PROVE <1>2!:
    <3>1. GroupOf[m] \in Group
      BY ConsumerAssumption
    <3>2. /\ Joined(GroupOf[m]) \cup {m} \in SUBSET Member
          /\ committed[GroupOf[m]] \in [Partition -> Nat]
          /\ StartsAt(m) \in [Partition -> Nat]
      BY <3>1 DEF Joined, ConsumerTypeOK, StartsAt, FromStart
    <3>3. CASE Start(m)
      <4>1. Balance(Joined(GroupOf[m]) \cup {m}, StartsAt(m))
        BY <3>3 DEF Start
      <4>2. committed' = [committed EXCEPT ![GroupOf[m]] = StartsAt(m)]
            /\ mode' = [mode EXCEPT ![m] = "joined"]
        BY <3>3 DEF Start
      <4> HIDE DEF ConsumerTypeOK
      <4>3. assigned' \in [Member -> SUBSET Partition] /\ position' \in [Member -> [Partition -> Nat]]
        BY <4>1, <3>2, BalanceTypes
      <4> QED BY <4>2, <4>3, <3>2 DEF ConsumerTypeOK
    <3>4. CASE Rejoin(m)
      <4>1. Balance(Joined(GroupOf[m]) \cup {m}, committed[GroupOf[m]])
            /\ UNCHANGED committed /\ mode' = [mode EXCEPT ![m] = "joined"]
        BY <3>4 DEF Rejoin
      <4>2. assigned' \in [Member -> SUBSET Partition] /\ position' \in [Member -> [Partition -> Nat]]
        BY <4>1, <3>2, BalanceTypes
      <4> QED BY <4>1, <4>2 DEF ConsumerTypeOK
    <3> QED BY <2>2, <3>3, <3>4
  <2> QED BY <2>1, <2>2 DEF GroupMoves
<1> QED BY <1>1, <1>2 DEF ConsumerTypeOK

\* What the group does to a member leaves its record alone.
LEMMA GroupKeepsRecords ==
    GroupMoves => UNCHANGED <<pc, current, raised, processed, consumerFaults>>
BY DEF GroupMoves, Start, Rejoin, Reassign, loopVars

LEMMA LoopTypes ==
    ASSUME TopicTypeOK, ConsumerTypeOK, RecordsExist, UNCHANGED log, NEW m \in Member, LoopMoves(m)
    PROVE  ConsumerTypeOK' /\ RecordsExist'
<1>1. "poll" \in Pc /\ "check" \in Pc /\ "commit" \in Pc /\ "handle" \in Pc
  BY ConsumerAssumption DEF Pc
<1>2. \A r : Valid(r) <=> Valid(r)'
  BY DEF Valid
<1>3. CASE Poll(m)
  <2>1. PICK p \in assigned[m] :
          /\ position[m][p] < Len(log[p])
          /\ current' = [current EXCEPT ![m] = NextRecord(m, p)]
          /\ position' = [position EXCEPT ![m][p] = @ + 1]
    BY <1>3 DEF Poll
  <2>2. p \in Partition /\ position[m][p] \in Nat /\ Len(log[p]) \in Nat
    BY DEF ConsumerTypeOK, TopicTypeOK
  <2>3. Valid(NextRecord(m, p)) /\ NextRecord(m, p) \in Record
    BY <2>1, <2>2 DEF Valid, NextRecord, Record
  <2>4. position' \in [Member -> [Partition -> Nat]]
    BY <2>1, <2>2 DEF ConsumerTypeOK
  <2>5. ConsumerTypeOK'
    BY <1>1, <1>3, <2>1, <2>3, <2>4 DEF Poll, ConsumerTypeOK
  <2>6. RecordsExist'
    BY <1>2, <1>3, <2>1, <2>3 DEF Poll, RecordsExist, ConsumerTypeOK
  <2> QED BY <2>5, <2>6
<1>4. CASE CheckProcessed(m)
  BY <1>1, <1>2, <1>4 DEF CheckProcessed, At, Return, GoTo, groupVars, ConsumerTypeOK, RecordsExist
<1>5. CASE CommitOffsets(m)
  <2>1. GroupOf[m] \in Group
    BY ConsumerAssumption
  <2>2. committed' \in [Group -> [Partition -> Nat]]
    BY <1>5, <2>1 DEF CommitOffsets, ConsumerTypeOK
  <2>3. ConsumerTypeOK'
    BY <1>1, <1>5, <2>2 DEF CommitOffsets, ConsumerTypeOK
  <2>4. RecordsExist'
    BY <1>2, <1>5 DEF CommitOffsets, RecordsExist, ConsumerTypeOK
  <2> QED BY <2>3, <2>4
<1> QED BY <1>3, <1>4, <1>5 DEF LoopMoves

LEMMA FailTypes ==
    ASSUME ConsumerTypeOK, RecordsExist, UNCHANGED log, NEW m \in Member, MemberFails(m)
    PROVE  ConsumerTypeOK' /\ RecordsExist'
<1>1. "poll" \in Pc /\ "poll" \notin HandlerPc
  BY ConsumerAssumption DEF Pc
<1>2. \A r : Valid(r) <=> Valid(r)'
  BY DEF Valid
<1>3. consumerFaults' \in 0 .. MaxConsumerFaults
  BY ConsumerAssumption
     DEF MemberFails, Crash, Expel, DatabaseFails, ConsumerFault, ConsumerTypeOK
<1>4. CASE Crash(m)
  BY <1>1, <1>2, <1>3, <1>4 DEF Crash, ConsumerTypeOK, RecordsExist, FromStart
<1>5. CASE Expel(m)
  BY <1>2, <1>3, <1>5 DEF Expel, loopVars, ConsumerTypeOK, RecordsExist
<1>6. CASE DatabaseFails(m)
  <2>1. Valid(current[m])
    BY <1>1, <1>6, ConsumerAssumption DEF DatabaseFails, RecordsExist
  <2> QED BY <1>1, <1>2, <1>3, <1>6, <2>1
          DEF DatabaseFails, Raise, groupVars, ConsumerTypeOK, RecordsExist, Valid
<1> QED BY <1>4, <1>5, <1>6 DEF MemberFails

\* A handler that goes on or returns: still at its record.
LEMMA StepTypes ==
    ASSUME ConsumerTypeOK, RecordsExist, UNCHANGED log, NEW m \in Member, pc[m] # "poll",
           NEW place \in Pc, GoTo(m, place)
    PROVE  /\ pc' \in [Member -> Pc] /\ RecordsExist'
           /\ current' \in [Member -> Record \cup {NoRecord}] /\ raised' \subseteq Record
BY DEF GoTo, ConsumerTypeOK, RecordsExist, Valid
-----------------------------------------------------------------------------
(* Offsets.  D and E stand for the records that are done before and after  *)
(* a step: what the handler of the extending module, or a caught           *)
(* exception, leaves behind.                                               *)

RecordAt(p, o) == [partition |-> p, offset |-> o]

(* The positions of a joined member run ahead of its group's offsets, and  *)
(* what they passed is done, but for the record the member is at.  No two  *)
(* joined members of a group read the same partition.                      *)
Offsets(D) ==
    /\ \A g \in Group, p \in Partition : \A o \in 1 .. committed[g][p] : RecordAt(p, o) \in D
    /\ \A m \in Member : mode[m] = "joined" =>
          \A p \in assigned[m] :
             /\ committed[GroupOf[m]][p] <= position[m][p]
             /\ \A o \in 1 .. position[m][p] :
                   RecordAt(p, o) \in D \/ (pc[m] # "poll" /\ current[m] = RecordAt(p, o))
    /\ \A m, n \in Member :
          mode[m] = "joined" /\ mode[n] = "joined" /\ GroupOf[m] = GroupOf[n] /\ m # n
             => assigned[m] \cap assigned[n] = {}

CommittedGrows == \A g \in Group, p \in Partition : committed'[g][p] >= committed[g][p]

\* A member goes on with its record, or leaves it done; no offset moves.
LEMMA OffsetsKept ==
    ASSUME ConsumerTypeOK, NEW D, NEW E, D \subseteq E, Offsets(D), UNCHANGED committed,
           \A n \in Member : mode'[n] = "joined" =>
              /\ mode[n] = "joined" /\ assigned'[n] = assigned[n] /\ position'[n] = position[n]
              /\ pc[n] # "poll" =>
                    \/ pc'[n] # "poll" /\ current'[n] = current[n]
                    \/ current[n] \in E
    PROVE  Offsets(E)' /\ CommittedGrows
<1>1. \A g \in Group, p \in Partition : \A o \in 1 .. committed'[g][p] : RecordAt(p, o) \in E
  BY DEF Offsets
<1>2. ASSUME NEW n \in Member, mode'[n] = "joined", NEW p \in assigned'[n]
      PROVE  /\ committed'[GroupOf[n]][p] <= position'[n][p]
             /\ \A o \in 1 .. position'[n][p] :
                   RecordAt(p, o) \in E \/ (pc'[n] # "poll" /\ current'[n] = RecordAt(p, o))
  BY <1>2 DEF Offsets
<1>3. \A m, n \in Member :
         mode'[m] = "joined" /\ mode'[n] = "joined" /\ GroupOf[m] = GroupOf[n] /\ m # n
            => assigned'[m] \cap assigned'[n] = {}
  BY DEF Offsets
<1>4. CommittedGrows
  BY DEF CommittedGrows, ConsumerTypeOK
<1> QED BY <1>1, <1>2, <1>3, <1>4 DEF Offsets, RecordAt

LEMMA PollOffsets ==
    ASSUME ConsumerTypeOK, NEW D, NEW E, D \subseteq E, Offsets(D), NEW m \in Member, Poll(m)
    PROVE  Offsets(E)' /\ CommittedGrows
<1>1. PICK q \in assigned[m] :
        /\ current' = [current EXCEPT ![m] = RecordAt(q, position[m][q] + 1)]
        /\ position' = [position EXCEPT ![m][q] = @ + 1]
  BY DEF Poll, NextRecord, RecordAt
<1>2. /\ pc[m] = "poll" /\ pc' = [pc EXCEPT ![m] = "check"]
      /\ UNCHANGED <<committed, mode, assigned>>
  BY DEF Poll, At
<1>3. ASSUME NEW n \in Member, mode'[n] = "joined", NEW p \in assigned'[n]
      PROVE  /\ committed'[GroupOf[n]][p] <= position'[n][p]
             /\ \A o \in 1 .. position'[n][p] :
                   RecordAt(p, o) \in E \/ (pc'[n] # "poll" /\ current'[n] = RecordAt(p, o))
  <2>1. /\ mode[n] = "joined" /\ p \in assigned[n] /\ p \in Partition /\ q \in Partition
        /\ committed[GroupOf[n]][p] \in Nat /\ position[n][p] \in Nat
    <3>1. mode[n] = "joined" /\ p \in assigned[n]
      BY <1>2, <1>3
    <3>2. GroupOf[n] \in Group /\ p \in Partition /\ q \in Partition
      BY <3>1, ConsumerAssumption DEF ConsumerTypeOK
    <3> QED BY <3>1, <3>2 DEF ConsumerTypeOK
  <2>2. /\ committed[GroupOf[n]][p] <= position[n][p]
        /\ \A o \in 1 .. position[n][p] :
              RecordAt(p, o) \in E \/ (pc[n] # "poll" /\ current[n] = RecordAt(p, o))
    BY <2>1 DEF Offsets
  <2>3. CASE n # m
    BY <1>1, <1>2, <2>1, <2>2, <2>3 DEF ConsumerTypeOK
  <2>4. CASE n = m /\ p # q
    <3>1. position'[m][p] = position[m][p]
      BY <1>1, <2>1, <2>4 DEF ConsumerTypeOK
    <3> QED BY <1>2, <2>1, <2>2, <2>4, <3>1
  <2>5. CASE n = m /\ p = q
    <3>1. position'[m][q] = position[m][q] + 1
      BY <1>1, <2>1 DEF ConsumerTypeOK
    <3>2. pc'[m] # "poll" /\ current'[m] = RecordAt(q, position[m][q] + 1)
      BY <1>1, <1>2 DEF ConsumerTypeOK
    <3>3. \A o \in 1 .. position'[m][q] : o = position[m][q] + 1 \/ o \in 1 .. position[m][q]
      BY <2>1, <2>5, <3>1
    <3> QED BY <1>2, <2>1, <2>2, <2>5, <3>1, <3>2, <3>3
  <2> QED BY <2>3, <2>4, <2>5
<1>4. \A g \in Group, p \in Partition : \A o \in 1 .. committed'[g][p] : RecordAt(p, o) \in E
  BY <1>2 DEF Offsets
<1>5. \A k, n \in Member :
        mode'[k] = "joined" /\ mode'[n] = "joined" /\ GroupOf[k] = GroupOf[n] /\ k # n
           => assigned'[k] \cap assigned'[n] = {}
  BY <1>2 DEF Offsets
<1>6. CommittedGrows
  BY <1>2 DEF CommittedGrows, ConsumerTypeOK
<1> QED BY <1>3, <1>4, <1>5, <1>6 DEF Offsets, RecordAt

\* commit() takes the group to the member's positions: its own record is done,
\* and so is what it passed before.
LEMMA CommitOffsetsKeep ==
    ASSUME ConsumerTypeOK, NEW D, NEW E, D \subseteq E, Offsets(D), NEW m \in Member,
           CommitOffsets(m), current[m] \in E
    PROVE  Offsets(E)' /\ CommittedGrows
<1>1. /\ pc' = [pc EXCEPT ![m] = "poll"] /\ current' = [current EXCEPT ![m] = NoRecord]
      /\ UNCHANGED <<mode, assigned, position>>
  BY DEF CommitOffsets
<1>2. CASE mode[m] # "joined"
  <2>1. UNCHANGED committed
    BY <1>2 DEF CommitOffsets
  <2>2. \A n \in Member \ {m} : pc'[n] = pc[n] /\ current'[n] = current[n]
    BY <1>1 DEF ConsumerTypeOK
  <2> QED BY <1>1, <2>1, <2>2, OffsetsKept
<1>3. CASE mode[m] = "joined"
  <2>1. \A g \in Group, p \in Partition :
          committed'[g][p] = (IF g = GroupOf[m] /\ p \in assigned[m] THEN position[m][p]
                              ELSE committed[g][p])
    BY <1>3 DEF CommitOffsets, ConsumerTypeOK
  <2>2. \A p \in assigned[m] : \A o \in 1 .. position[m][p] : RecordAt(p, o) \in E
    BY <1>3 DEF Offsets
  <2>3. \A n \in Member : \A p \in assigned[n] :
          /\ p \in Partition /\ GroupOf[n] \in Group
          /\ position[n][p] \in Nat /\ committed[GroupOf[n]][p] \in Nat
    BY ConsumerAssumption DEF ConsumerTypeOK
  <2>4. \A g \in Group, p \in Partition : \A o \in 1 .. committed'[g][p] : RecordAt(p, o) \in E
    BY <2>1, <2>2 DEF Offsets
  <2>5. CommittedGrows
    <3> SUFFICES ASSUME NEW g \in Group, NEW p \in Partition
                 PROVE  committed'[g][p] >= committed[g][p]
      BY DEF CommittedGrows
    <3>1. committed[g][p] \in Nat
      BY DEF ConsumerTypeOK
    <3>2. p \in assigned[m] =>
             committed[GroupOf[m]][p] <= position[m][p] /\ position[m][p] \in Nat
      BY <1>3, <2>3 DEF Offsets
    <3> QED BY <2>1, <3>1, <3>2
  <2>6. ASSUME NEW n \in Member, mode'[n] = "joined", NEW p \in assigned'[n]
        PROVE  /\ committed'[GroupOf[n]][p] <= position'[n][p]
               /\ \A o \in 1 .. position'[n][p] :
                     RecordAt(p, o) \in E \/ (pc'[n] # "poll" /\ current'[n] = RecordAt(p, o))
    <3>1. mode[n] = "joined" /\ p \in assigned[n] /\ position' = position
      BY <1>1, <2>6
    <3>2. p \in Partition /\ GroupOf[n] \in Group /\ position[n][p] \in Nat
      BY <2>3, <3>1
    <3>3. CASE n = m
      BY <2>1, <2>2, <3>1, <3>2, <3>3
    <3>4. CASE n # m
      <4>1. GroupOf[n] = GroupOf[m] => p \notin assigned[m]
        BY <1>3, <3>1, <3>4 DEF Offsets
      <4>2. committed'[GroupOf[n]][p] = committed[GroupOf[n]][p]
        BY <2>1, <3>2, <4>1
      <4>3. pc'[n] = pc[n] /\ current'[n] = current[n]
        BY <1>1, <3>4 DEF ConsumerTypeOK
      <4> QED BY <3>1, <4>2, <4>3 DEF Offsets
    <3> QED BY <3>3, <3>4
  <2>7. \A k, n \in Member :
          mode'[k] = "joined" /\ mode'[n] = "joined" /\ GroupOf[k] = GroupOf[n] /\ k # n
             => assigned'[k] \cap assigned'[n] = {}
    BY <1>1 DEF Offsets
  <2> QED BY <2>4, <2>5, <2>6, <2>7 DEF Offsets, RecordAt
<1> QED BY <1>2, <1>3

\* A rebalance takes the members that are left, or have come, to the offsets of
\* the group, or of its beginning.
LEMMA BalanceOffsets ==
    ASSUME ConsumerTypeOK, NEW D, NEW E, D \subseteq E, Offsets(D), NEW g \in Group,
           NEW ms \in SUBSET Member,
           ms = {n \in Member : GroupOf[n] = g /\ mode'[n] = "joined"},
           NEW offsets \in [Partition -> Nat], Balance(ms, offsets),
           \A p \in Partition : offsets[p] <= committed[g][p],
           committed' = [committed EXCEPT ![g] = offsets],
           UNCHANGED <<pc, current>>,
           \A n \in Member \ ms : mode'[n] = "joined" => mode[n] = "joined"
    PROVE  Offsets(E)'
<1>1. PICK owner \in [Partition -> ms] :
        /\ assigned' = [m \in Member |->
                           IF m \in ms THEN Share(owner, m) ELSE assigned[m]]
        /\ position' = [m \in Member |->
                           IF m \in ms
                           THEN [p \in Partition |-> IF owner[p] = m THEN offsets[p] ELSE 0]
                           ELSE position[m]]
  BY DEF Balance
<1>2. \A h \in Group : committed'[h] = IF h = g THEN offsets ELSE committed[h]
  BY DEF ConsumerTypeOK
<1>3. ASSUME NEW h \in Group, NEW p \in Partition, NEW o \in 1 .. committed'[h][p]
      PROVE  RecordAt(p, o) \in E
  <2>1. o \in 1 .. committed[h][p]
    BY <1>2, <1>3 DEF ConsumerTypeOK
  <2> QED BY <2>1 DEF Offsets
<1>4. ASSUME NEW n \in Member, mode'[n] = "joined", NEW p \in assigned'[n]
      PROVE  /\ committed'[GroupOf[n]][p] <= position'[n][p]
             /\ \A o \in 1 .. position'[n][p] :
                   RecordAt(p, o) \in E \/ (pc'[n] # "poll" /\ current'[n] = RecordAt(p, o))
  <2>1. CASE n \in ms
    <3>1. p \in Partition /\ owner[p] = n /\ GroupOf[n] = g
      BY <1>1, <1>4, <2>1 DEF Share
    <3>2. position'[n][p] = offsets[p] /\ committed'[g][p] = offsets[p] /\ offsets[p] \in Nat
      BY <1>1, <1>2, <2>1, <3>1
    <3> QED BY <1>3, <3>1, <3>2
  <2>2. CASE n \notin ms
    <3>1. p \in assigned[n] /\ position'[n] = position[n] /\ mode[n] = "joined"
      BY <1>1, <1>4, <2>2
    <3>2. committed'[GroupOf[n]] = committed[GroupOf[n]]
      BY <1>2, <1>4, <2>2, ConsumerAssumption
    <3> QED BY <3>1, <3>2 DEF Offsets
  <2> QED BY <2>1, <2>2
<1>5. ASSUME NEW k \in Member, NEW n \in Member, mode'[k] = "joined", mode'[n] = "joined",
             GroupOf[k] = GroupOf[n], k # n
      PROVE  assigned'[k] \cap assigned'[n] = {}
  <2>1. CASE k \in ms
    BY <1>1, <1>5, <2>1 DEF Share
  <2>2. CASE k \notin ms
    BY <1>1, <1>5, <2>2 DEF Offsets
  <2> QED BY <2>1, <2>2
<1> QED BY <1>3, <1>4, <1>5 DEF Offsets, RecordAt

LEMMA GroupOffsets ==
    ASSUME ConsumerTypeOK, NEW D, NEW E, D \subseteq E, Offsets(D), GroupMoves
    PROVE  Offsets(E)' /\ (~DrawsGroup => UNCHANGED committed)
<1>0. ConsumerTypeOK /\ D \subseteq E /\ Offsets(D)
  OBVIOUS
<1>1. UNCHANGED <<pc, current>>
  BY GroupKeepsRecords
<1>2. CASE \E g \in Group : Reassign(g)
  <2>1. PICK g \in Group : Reassign(g)
    BY <1>2
  <2>2. /\ Joined(g) \in SUBSET Member /\ Balance(Joined(g), committed[g])
        /\ Joined(g) = {n \in Member : GroupOf[n] = g /\ mode'[n] = "joined"}
        /\ UNCHANGED committed /\ UNCHANGED mode
    BY <2>1 DEF Reassign, Joined
  <2>3. /\ committed[g] \in [Partition -> Nat] /\ committed' = [committed EXCEPT ![g] = committed[g]]
        /\ \A p \in Partition : committed[g][p] <= committed[g][p]
    BY <2>2 DEF ConsumerTypeOK
  <2> QED BY <1>1, <2>2, <2>3, BalanceOffsets
<1>3. CASE \E m \in Member : Start(m) \/ Rejoin(m)
  <2>1. PICK m \in Member : Start(m) \/ Rejoin(m)
    BY <1>3
  <2> PICK g, ms, offsets :
        /\ g = GroupOf[m] /\ ms = Joined(g) \cup {m}
        /\ offsets = IF Start(m) THEN StartsAt(m) ELSE committed[g]
    OBVIOUS
  <2>2. g \in Group /\ committed[g] \in [Partition -> Nat]
    BY ConsumerAssumption DEF ConsumerTypeOK
  <2>3. /\ offsets \in [Partition -> Nat] /\ \A p \in Partition : offsets[p] <= committed[g][p]
        /\ ~DrawsGroup => offsets = committed[g]
    BY <2>2 DEF StartsAt, FromStart
  <2>4. /\ Balance(ms, offsets) /\ mode' = [mode EXCEPT ![m] = "joined"]
        /\ committed' = [committed EXCEPT ![g] = offsets]
    <3>1. CASE Start(m)
      BY <3>1 DEF Start
    <3>2. CASE ~Start(m)
      <4>1. Rejoin(m) /\ offsets = committed[g]
        BY <2>1, <3>2
      <4> QED BY <2>2, <4>1 DEF Rejoin, ConsumerTypeOK
    <3> QED BY <3>1, <3>2
  <2>5. ~DrawsGroup => UNCHANGED committed
    BY <2>2, <2>3, <2>4 DEF ConsumerTypeOK
  <2>6. /\ ms \in SUBSET Member /\ ms = {n \in Member : GroupOf[n] = g /\ mode'[n] = "joined"}
        /\ \A n \in Member \ ms : mode'[n] = "joined" => mode[n] = "joined"
    BY <2>4 DEF Joined, ConsumerTypeOK
  <2>7. Offsets(E)'
    BY ONLY <1>0, <1>1, <2>2, <2>3, <2>4, <2>6, BalanceOffsets, Zenon
  <2> QED BY <2>5, <2>7
<1> QED BY <1>2, <1>3 DEF GroupMoves

LEMMA LoopOffsets ==
    ASSUME ConsumerTypeOK, NEW D, NEW E, D \subseteq E, Offsets(D), NEW m \in Member,
           LoopMoves(m), pc[m] = "commit" => current[m] \in E
    PROVE  Offsets(E)' /\ CommittedGrows
<1>1. CASE Poll(m)
  BY <1>1, PollOffsets
<1>2. CASE CommitOffsets(m)
  BY <1>2, CommitOffsetsKeep DEF CommitOffsets, At
<1>3. CASE CheckProcessed(m)
  <2>1. /\ UNCHANGED <<committed, mode, assigned, position, current>> /\ UNCHANGED committed
        /\ \A n \in Member : pc[n] # "poll" => pc'[n] # "poll"
    BY <1>3 DEF CheckProcessed, Return, GoTo, groupVars, ConsumerTypeOK
  <2> QED BY <2>1, OffsetsKept
<1> QED BY <1>1, <1>2, <1>3 DEF LoopMoves

\* A handler goes on with its record, or raises.
LEMMA HandlerOffsets ==
    ASSUME ConsumerTypeOK, NEW D, NEW E, D \subseteq E, Offsets(D), NEW m \in Member,
           UNCHANGED groupVars, raised' \subseteq E,
           Raise(m) \/ \E place : place # "poll" /\ GoTo(m, place)
    PROVE  Offsets(E)' /\ CommittedGrows
<1>1. UNCHANGED <<committed, mode, assigned, position>> /\ UNCHANGED committed
  BY DEF groupVars
<1>2. ASSUME NEW n \in Member
      PROVE  \/ pc'[n] # "poll" /\ current'[n] = current[n]
             \/ pc[n] = "poll"
             \/ current[n] \in E
  BY DEF Raise, GoTo, ConsumerTypeOK
<1> QED BY <1>1, <1>2, OffsetsKept

LEMMA FailOffsets ==
    ASSUME ConsumerTypeOK, NEW D, NEW E, D \subseteq E, Offsets(D), NEW m \in Member,
           MemberFails(m), raised' \subseteq E
    PROVE  Offsets(E)' /\ CommittedGrows
<1>1. UNCHANGED committed
  BY DEF MemberFails, Crash, Expel, DatabaseFails, groupVars
<1>2. ASSUME NEW n \in Member, mode'[n] = "joined"
      PROVE  /\ mode[n] = "joined" /\ assigned'[n] = assigned[n] /\ position'[n] = position[n]
             /\ \/ pc'[n] = pc[n] /\ current'[n] = current[n]
                \/ current[n] \in E
  <2>1. CASE Expel(m)
    BY <1>2, <2>1 DEF Expel, loopVars, ConsumerTypeOK
  <2>2. CASE Crash(m)
    BY <1>2, <2>2 DEF Crash, ConsumerTypeOK
  <2>3. CASE DatabaseFails(m)
    BY <1>2, <2>3 DEF DatabaseFails, Raise, groupVars, ConsumerTypeOK
  <2> QED BY <2>1, <2>2, <2>3 DEF MemberFails
<1> QED BY <1>1, <1>2, OffsetsKept
=============================================================================
