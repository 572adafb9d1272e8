------------------------ MODULE IncidentDispatchProofs ------------------------
(***************************************************************************)
(* The safety properties of IncidentDispatch for any number of events,     *)
(* publishers, investigators and faults.                                   *)
(***************************************************************************)
EXTENDS IncidentDispatch, AegisConsumerProofs
-----------------------------------------------------------------------------
(* The inductive invariant.                                                *)

\* The rows a publisher's transaction locked.
Held(p) == batch[p] \cup sent[p] \cup missed[p]

(* A locked row belongs to one publisher, which holds it in one of three   *)
(* places, and was eligible when it was locked.                            *)
PollerInv ==
    /\ \A p \in Poller :
          /\ ~polling[p] => Held(p) = {}
          /\ \A e \in Held(p) : Eligible(e)
          /\ \A e \in sent[p] : Logged(e) /\ e \notin batch[p] \cup missed[p]
          /\ batch[p] \cap missed[p] = {}
    /\ \A p, q \in Poller : p # q => Held(p) \cap Held(q) = {}

(* The row never says more than the topic.                                 *)
RowInv ==
    \A e \in Event :
        /\ row[e] = "absent" => attempts[e] = 0
        /\ Logged(e) => row[e] # "absent"
        /\ row[e] = "published" => Logged(e)
        /\ Begun(e) => Logged(e)

\* Sent, and the publisher knows.
Acked(e) == row[e] = "published" \/ \E p \in Poller : e \in sent[p]

CopiesInv ==
    \A e \in Event :
        /\ Acked(e) => Cardinality(Copies(e)) <= sendFaults + 1
        /\ ~Acked(e) => Cardinality(Copies(e)) <= sendFaults

\* Investigators between the start of an investigation and its mark, and those
\* about to start one.
Running(e) == {m \in Member : pc[m] \in {"fallback", "mark"} /\ Handling(m) = e}
Starting(e) == {m \in Member : pc[m] = "start" /\ Handling(m) = e}

(* An investigation without a mark is still running, or a fault ended it;  *)
(* after the mark no further one is begun but by those about to.           *)
RunsInv ==
    \A e \in Event :
        /\ e \notin processed =>
              starts[e] + fallbacks[e] <= Cardinality(Running(e)) + consumerFaults
        /\ e \in processed =>
              starts[e] + fallbacks[e] + Cardinality(Starting(e))
                  <= Cardinality(Member) + consumerFaults

DispatchInv ==
    TypeOK /\ KeysInPlace /\ RecordsExist /\ PollerInv /\ RowInv /\ CopiesInv /\ RunsInv

LEMMA MembersFinite ==
    \A e : /\ IsFiniteSet(Running(e)) /\ IsFiniteSet(Starting(e)) /\ IsFiniteSet(Member)
           /\ Cardinality(Running(e)) \in Nat /\ Cardinality(Starting(e)) \in Nat
           /\ Cardinality(Member) \in Nat
           /\ Cardinality(Running(e)) <= Cardinality(Member)
<1> TAKE e
<1>1. Running(e) \in SUBSET Member /\ Starting(e) \in SUBSET Member
  BY DEF Running, Starting
<1>2. IsFiniteSet(Member)
  BY ConsumerAssumption
<1> QED BY <1>1, <1>2, FS_Subset, FS_CardinalityType

LEMMA InitDispatchInv == Init => DispatchInv
<1> SUFFICES ASSUME Init PROVE DispatchInv
  OBVIOUS
<1> USE DEF Init, TopicInit, OutboxInit, ConsumerInit, InvestigatorInit
<1>1. TypeOK
  <2>1. TopicTypeOK
    BY TopicAssumption DEF TopicTypeOK
  <2>2. OutboxTypeOK
    BY OutboxAssumption DEF OutboxTypeOK
  <2>3. ConsumerTypeOK
    BY ConsumerAssumption DEF ConsumerTypeOK, FromStart, Pc
  <2>4. InvestigatorTypeOK
    BY DEF InvestigatorTypeOK
  <2> QED BY <2>1, <2>2, <2>3, <2>4 DEF TypeOK
<1>2. \A p \in Partition : DOMAIN log[p] = {}
  OBVIOUS
<1>3. ASSUME NEW e \in Event
      PROVE  Copies(e) = {} /\ ~Logged(e) /\ ~Begun(e) /\ Running(e) = {}
  <2>1. DOMAIN log[PartitionOf[e]] = {}
    BY <1>2, TopicAssumption
  <2>2. starts[e] = 0 /\ fallbacks[e] = 0 /\ Running(e) = {}
    BY DEF Running
  <2> QED BY <2>1, <2>2 DEF Copies, Logged, Begun
<1>4. KeysInPlace /\ RecordsExist
  BY <1>2 DEF KeysInPlace, RecordsExist
<1>5. PollerInv /\ RowInv
  BY <1>3 DEF PollerInv, Held, RowInv
<1>6. CopiesInv /\ RunsInv
  <2>1. \A e \in Event : Cardinality(Copies(e)) = 0 /\ Cardinality(Running(e)) = 0
    BY <1>3, FS_EmptySet
  <2>2. \A e \in Event : starts[e] = 0 /\ fallbacks[e] = 0
    OBVIOUS
  <2>3. processed = {} /\ consumerFaults = 0 /\ sendFaults = 0
    OBVIOUS
  <2> QED BY ONLY <2>1, <2>2, <2>3 DEF CopiesInv, RunsInv
<1> QED BY <1>1, <1>4, <1>5, <1>6 DEF DispatchInv
-----------------------------------------------------------------------------
(* Publishing.                                                             *)

LEMMA CopiesFinite ==
    ASSUME TopicTypeOK, NEW e \in Event
    PROVE  IsFiniteSet(Copies(e)) /\ Cardinality(Copies(e)) \in Nat
<1>1. /\ Len(log[PartitionOf[e]]) \in Nat
      /\ DOMAIN log[PartitionOf[e]] = 1 .. Len(log[PartitionOf[e]])
  BY TopicAssumption DEF TopicTypeOK
<1>2. IsFiniteSet(1 .. Len(log[PartitionOf[e]]))
  BY <1>1, FS_Interval
<1>3. Copies(e) \in SUBSET (1 .. Len(log[PartitionOf[e]]))
  BY <1>1 DEF Copies
<1> QED BY <1>2, <1>3, FS_Subset, FS_CardinalityType

\* Copies of e at the end of its partition are copies of e and of nothing else.
LEMMA PublishCopies ==
    ASSUME TopicTypeOK, NEW e \in Event, NEW k \in Nat, Publish(e, k)
    PROVE  /\ \A f \in Event \ {e} : Copies(f)' = Copies(f)
           /\ Cardinality(Copies(e)') = Cardinality(Copies(e)) + k
           /\ Cardinality(Copies(e)) \in Nat
<1> DEFINE q == PartitionOf[e]
           new == Len(log[q]) + 1 .. Len(log[q]) + k
<1>1. /\ log' \in [Partition -> Seq(Event)]
      /\ \A p \in Partition \ {q} : log'[p] = log[p]
      /\ Len(log'[q]) = Len(log[q]) + k
      /\ \A i \in 1 .. Len(log[q]) : log'[q][i] = log[q][i]
      /\ \A i \in Len(log[q]) + 1 .. Len(log[q]) + k : log'[q][i] = e
  BY PublishEffect
<1>2. /\ q \in Partition /\ Len(log[q]) \in Nat
      /\ DOMAIN log[q] = 1 .. Len(log[q]) /\ DOMAIN log'[q] = 1 .. Len(log[q]) + k
  BY <1>1, TopicAssumption DEF TopicTypeOK
<1>3. DOMAIN log'[q] = DOMAIN log[q] \cup new /\ DOMAIN log[q] \cap new = {}
  BY <1>2
<1>4. ASSUME NEW f \in Event \ {e} PROVE Copies(f)' = Copies(f)
  <2>1. CASE PartitionOf[f] = q
    <3>1. \A i \in DOMAIN log'[q] : log'[q][i] = f <=> i \in DOMAIN log[q] /\ log[q][i] = f
      BY <1>1, <1>2, <1>3, <1>4
    <3> QED BY <2>1, <1>3, <3>1 DEF Copies
  <2>2. CASE PartitionOf[f] # q
    BY <1>1, <2>2, TopicAssumption DEF Copies
  <2> QED BY <2>1, <2>2
<1>5. Copies(e)' = Copies(e) \cup new /\ Copies(e) \cap new = {}
  BY <1>1, <1>2, <1>3 DEF Copies
<1>6. IsFiniteSet(new) /\ Cardinality(new) = k
  <2>1. Len(log[q]) + 1 \in Int /\ Len(log[q]) + k \in Int
    BY <1>2
  <2>2. /\ IsFiniteSet(new)
        /\ Cardinality(new) = IF Len(log[q]) + 1 > Len(log[q]) + k THEN 0
                              ELSE (Len(log[q]) + k) - (Len(log[q]) + 1) + 1
    BY <2>1, FS_Interval
  <2> QED BY <1>2, <2>2
<1>7. IsFiniteSet(Copies(e)) /\ Cardinality(Copies(e)) \in Nat
  BY CopiesFinite
<1>8. Cardinality(Copies(e) \cup new) = Cardinality(Copies(e)) + k
  <2>1. Cardinality(Copies(e) \cup new)
           = Cardinality(Copies(e)) + Cardinality(new) - Cardinality(Copies(e) \cap new)
    BY <1>6, <1>7, FS_Union
  <2>2. Cardinality(Copies(e) \cap new) = 0
    BY <1>5, FS_EmptySet
  <2> QED BY <2>1, <2>2, <1>6, <1>7
<1> QED BY <1>4, <1>5, <1>7, <1>8

LEMMA LoggedIsCopies == \A e : Logged(e) <=> Copies(e) # {}
BY DEF Logged, Copies

\* Investigators do not notice that their topic grew.
LEMMA GrowthUnnoticed ==
    ASSUME DispatchInv, TopicTypeOK', LogGrows, UNCHANGED <<consumerVars, investigatorVars>>
    PROVE  ConsumerTypeOK' /\ InvestigatorTypeOK' /\ RecordsExist' /\ RunsInv'
<1> USE DEF consumerVars, groupVars, loopVars, investigatorVars
<1>1. \A r : Valid(r) => Valid(r)' /\ EventAt(r)' = EventAt(r)
  BY GrowthKeeps DEF DispatchInv, TypeOK, TopicTypeOK
<1>2. ConsumerTypeOK' /\ InvestigatorTypeOK'
  BY DEF DispatchInv, TypeOK, ConsumerTypeOK, InvestigatorTypeOK
<1>3. RecordsExist'
  BY <1>1 DEF DispatchInv, RecordsExist
<1>4. \A m \in Member : pc[m] # "poll" => Handling(m)' = Handling(m)
  BY <1>1 DEF DispatchInv, RecordsExist, Handling
<1>5. \A e : Running(e)' = Running(e) /\ Starting(e)' = Starting(e)
  BY <1>4 DEF Running, Starting
<1>6. RunsInv'
  BY <1>5 DEF DispatchInv, RunsInv
<1> QED BY <1>2, <1>3, <1>6
-----------------------------------------------------------------------------
(* The outbox.                                                             *)

LEMMA AcceptKeeps == \A e \in Event : DispatchInv /\ Accept(e) => DispatchInv'
<1> SUFFICES ASSUME NEW e \in Event, DispatchInv, Accept(e) PROVE DispatchInv'
  OBVIOUS
<1>1. /\ row[e] = "absent" /\ row' = [row EXCEPT ![e] = "pending"]
      /\ UNCHANGED <<log, sendFaults, attempts, polling, batch, sent, missed>>
      /\ UNCHANGED <<consumerVars, investigatorVars>>
  BY DEF Accept, RowInserted, topicVars
<1>2. TopicTypeOK' /\ OutboxTypeOK' /\ KeysInPlace' /\ LogGrows
  BY <1>1 DEF DispatchInv, TypeOK, TopicTypeOK, OutboxTypeOK, KeysInPlace, LogGrows
<1>3. ConsumerTypeOK' /\ InvestigatorTypeOK' /\ RecordsExist' /\ RunsInv'
  BY <1>1, <1>2, GrowthUnnoticed
<1>4. \A f \in Event : row'[f] = IF f = e THEN "pending" ELSE row[f]
  BY <1>1 DEF DispatchInv, TypeOK, OutboxTypeOK
<1>5. \A f : Logged(f)' = Logged(f) /\ Copies(f)' = Copies(f) /\ Begun(f)' = Begun(f)
  BY <1>1 DEF Logged, Copies, Begun, investigatorVars
<1>6. PollerInv'
  <2>1. \A p \in Poller : Held(p)' = Held(p) /\ Held(p) \subseteq Event
    BY <1>1 DEF Held, DispatchInv, TypeOK, OutboxTypeOK
  <2>2. \A f \in Event : Eligible(f) => Eligible(f)'
    BY <1>1, <1>4 DEF Eligible
  <2> QED BY <1>1, <1>5, <2>1, <2>2 DEF PollerInv, DispatchInv
<1>7. RowInv'
  BY <1>1, <1>4, <1>5 DEF RowInv, DispatchInv
<1>8. CopiesInv'
  BY <1>1, <1>4, <1>5 DEF CopiesInv, Acked, DispatchInv
<1> QED BY <1>2, <1>3, <1>6, <1>7, <1>8 DEF DispatchInv, TypeOK

\* A transaction is opened, ends, or dies: the topic is as it was.
LEMMA SelectKeeps ==
    ASSUME DispatchInv, NEW p \in Poller, SelectBatch(p), UNCHANGED investigatorVars
    PROVE  OutboxTypeOK' /\ PollerInv' /\ RowInv' /\ CopiesInv'
<1>0. OutboxTypeOK /\ PollerInv /\ RowInv /\ CopiesInv
  BY DEF DispatchInv, TypeOK
<1>1. PICK new \in SUBSET {e \in Event : Eligible(e) /\ ~Locked(e)} :
        /\ ~polling[p]
        /\ polling' = [polling EXCEPT ![p] = TRUE]
        /\ batch' = [batch EXCEPT ![p] = new]
        /\ UNCHANGED <<log, sendFaults, row, attempts, sent, missed>>
  BY DEF SelectBatch, topicVars
<1>2. Held(p) = {}
  BY <1>0, <1>1 DEF PollerInv
<1>3. \A q \in Poller :
        /\ batch'[q] = (IF q = p THEN new ELSE batch[q])
        /\ Held(q)' = (IF q = p THEN new ELSE Held(q))
  BY <1>0, <1>1, <1>2 DEF OutboxTypeOK, Held
<1>4. \A q \in Poller : new \cap Held(q) = {}
  BY DEF Locked, Held
<1>5. \A e : /\ Eligible(e)' = Eligible(e) /\ Logged(e)' = Logged(e)
             /\ Copies(e)' = Copies(e) /\ Begun(e)' = Begun(e) /\ Acked(e)' = Acked(e)
  BY <1>1 DEF Eligible, Logged, Copies, Begun, Acked, investigatorVars
<1>6. OutboxTypeOK'
  BY <1>0, <1>1 DEF OutboxTypeOK
<1>7. PollerInv'
  <2>1. \A q \in Poller :
          /\ ~polling'[q] => Held(q)' = {}
          /\ \A e \in Held(q)' : Eligible(e)'
          /\ \A e \in sent'[q] : Logged(e)' /\ e \notin batch'[q] \cup missed'[q]
          /\ batch'[q] \cap missed'[q] = {}
    BY <1>0, <1>1, <1>2, <1>3, <1>5 DEF PollerInv, Held, OutboxTypeOK
  <2>2. \A q, r \in Poller : q # r => Held(q)' \cap Held(r)' = {}
    BY <1>0, <1>3, <1>4 DEF PollerInv
  <2> QED BY <2>1, <2>2 DEF PollerInv
<1>8. RowInv' /\ CopiesInv'
  BY <1>0, <1>1, <1>5 DEF RowInv, CopiesInv
<1> QED BY <1>6, <1>7, <1>8

\* Nothing of a released transaction is held.
LEMMA ReleaseHeld ==
    ASSUME OutboxTypeOK, NEW p \in Poller, Release(p)
    PROVE  /\ polling' \in [Poller -> BOOLEAN] /\ batch' \in [Poller -> SUBSET Event]
           /\ sent' \in [Poller -> SUBSET Event] /\ missed' \in [Poller -> SUBSET Event]
           /\ \A q \in Poller :
                 /\ Held(q)' = IF q = p THEN {} ELSE Held(q)
                 /\ polling'[q] = IF q = p THEN FALSE ELSE polling[q]
                 /\ sent'[q] = IF q = p THEN {} ELSE sent[q]
                 /\ missed'[q] = IF q = p THEN {} ELSE missed[q]
                 /\ batch'[q] = IF q = p THEN {} ELSE batch[q]
BY DEF OutboxTypeOK, Release, Held

LEMMA CommitKeeps ==
    ASSUME DispatchInv, NEW p \in Poller, CommitBatch(p), UNCHANGED investigatorVars
    PROVE  OutboxTypeOK' /\ PollerInv' /\ RowInv' /\ CopiesInv'
<1>0. OutboxTypeOK /\ PollerInv /\ RowInv /\ CopiesInv
  BY DEF DispatchInv, TypeOK
<1>1. /\ Release(p) /\ UNCHANGED <<log, sendFaults>>
      /\ row' = [e \in Event |-> IF e \in sent[p] THEN "published" ELSE row[e]]
      /\ attempts' = [e \in Event |-> IF e \in missed[p] THEN attempts[e] + 1 ELSE attempts[e]]
  BY DEF CommitBatch, topicVars
<1>2. \A e \in sent[p] \cup missed[p] : e \in Event /\ row[e] = "pending" /\ attempts[e] < MaxRetries
  BY <1>0 DEF PollerInv, Held, Eligible, OutboxTypeOK
<1>3. \A e : Logged(e)' = Logged(e) /\ Copies(e)' = Copies(e) /\ Begun(e)' = Begun(e)
  BY <1>1 DEF Logged, Copies, Begun, investigatorVars
<1>4. OutboxTypeOK'
  <2>1. attempts' \in [Event -> 0 .. MaxRetries]
    BY <1>0, <1>1, <1>2, OutboxAssumption DEF OutboxTypeOK
  <2>2. row' \in [Event -> {"absent", "pending", "published"}]
    BY <1>0, <1>1 DEF OutboxTypeOK
  <2> QED BY <1>0, <1>1, <2>1, <2>2, ReleaseHeld DEF OutboxTypeOK
<1>5. PollerInv'
  <2>1. ASSUME NEW q \in Poller, NEW e \in Held(q)' PROVE Eligible(e)'
    <3>1. q # p /\ e \in Held(q) /\ e \notin Held(p) /\ e \in Event
      BY <1>0, <1>1, <2>1, ReleaseHeld DEF PollerInv, Held, OutboxTypeOK
    <3>2. row'[e] = row[e] /\ attempts'[e] = attempts[e]
      BY <1>1, <3>1 DEF Held
    <3> QED BY <1>0, <3>1, <3>2 DEF PollerInv, Eligible
  <2>2. \A q \in Poller :
          /\ ~polling'[q] => Held(q)' = {}
          /\ \A e \in sent'[q] : Logged(e)' /\ e \notin batch'[q] \cup missed'[q]
          /\ batch'[q] \cap missed'[q] = {}
    BY <1>0, <1>1, <1>3, ReleaseHeld DEF PollerInv
  <2>3. \A q, r \in Poller : q # r => Held(q)' \cap Held(r)' = {}
    <3>1. \A q \in Poller : Held(q)' \subseteq Held(q)
      BY <1>0, <1>1, ReleaseHeld
    <3> QED BY <1>0, <3>1 DEF PollerInv
  <2> QED BY <2>1, <2>2, <2>3 DEF PollerInv
<1>6. RowInv'
  <2>1. \A e \in sent[p] : Logged(e)
    BY <1>0 DEF PollerInv
  <2> QED BY <1>0, <1>1, <1>2, <1>3, <2>1 DEF RowInv
<1>7. CopiesInv'
  <2>1. \A e \in Event : Acked(e)' <=> Acked(e)
    <3> TAKE e \in Event
    <3>1. row'[e] = "published" <=> row[e] = "published" \/ e \in sent[p]
      BY <1>1
    <3>2. (\E q \in Poller : e \in sent'[q]) <=> \E q \in Poller \ {p} : e \in sent[q]
      BY <1>0, <1>1, ReleaseHeld
    <3> QED BY <3>1, <3>2 DEF Acked
  <2> QED BY <1>0, <1>1, <1>3, <2>1 DEF CopiesInv
<1> QED BY <1>4, <1>5, <1>6, <1>7

LEMMA PollFailsKeeps ==
    ASSUME DispatchInv, NEW p \in Poller, PollFails(p), UNCHANGED investigatorVars
    PROVE  OutboxTypeOK' /\ TopicTypeOK' /\ PollerInv' /\ RowInv' /\ CopiesInv'
<1>0. OutboxTypeOK /\ TopicTypeOK /\ PollerInv /\ RowInv /\ CopiesInv
  BY DEF DispatchInv, TypeOK
<1>1. Release(p) /\ UNCHANGED <<log, row, attempts>> /\ SendFaults(1)
  BY DEF PollFails
<1>2. \A e : /\ Logged(e)' = Logged(e) /\ Copies(e)' = Copies(e) /\ Begun(e)' = Begun(e)
             /\ Eligible(e)' = Eligible(e)
  BY <1>1 DEF Logged, Copies, Begun, Eligible, investigatorVars
<1>3. OutboxTypeOK'
  BY <1>0, <1>1, ReleaseHeld DEF OutboxTypeOK
<1>4. TopicTypeOK' /\ sendFaults' = sendFaults + 1
  BY <1>0, <1>1, TopicAssumption DEF SendFaults, TopicTypeOK
<1>5. PollerInv'
  <2>1. ASSUME NEW q \in Poller, NEW e \in Held(q)' PROVE Eligible(e)'
    <3>1. q # p /\ e \in Held(q)
      BY <1>0, <1>1, <2>1, ReleaseHeld
    <3> QED BY <1>0, <1>2, <3>1 DEF PollerInv
  <2>2. \A q \in Poller :
          /\ ~polling'[q] => Held(q)' = {}
          /\ \A e \in sent'[q] : Logged(e)' /\ e \notin batch'[q] \cup missed'[q]
          /\ batch'[q] \cap missed'[q] = {}
    BY <1>0, <1>1, <1>2, ReleaseHeld DEF PollerInv
  <2>3. \A q, r \in Poller : q # r => Held(q)' \cap Held(r)' = {}
    <3>1. \A q \in Poller : Held(q)' \subseteq Held(q)
      BY <1>0, <1>1, ReleaseHeld
    <3> QED BY <1>0, <3>1 DEF PollerInv
  <2> QED BY <2>1, <2>2, <2>3 DEF PollerInv
<1>6. RowInv'
  BY <1>0, <1>1, <1>2 DEF RowInv
<1>7. CopiesInv'
  <2> SUFFICES ASSUME NEW e \in Event
               PROVE  /\ Acked(e)' => Cardinality(Copies(e)') <= sendFaults' + 1
                      /\ ~Acked(e)' => Cardinality(Copies(e)') <= sendFaults'
    BY DEF CopiesInv
  <2>1. Cardinality(Copies(e)) \in Nat /\ sendFaults \in Nat
    BY <1>0, CopiesFinite DEF TopicTypeOK
  <2>2. Cardinality(Copies(e)) <= sendFaults + 1
    BY <1>0, <2>1 DEF CopiesInv
  <2> QED BY <1>2, <1>4, <2>1, <2>2
<1> QED BY <1>3, <1>4, <1>5, <1>6, <1>7

\* The row the loop is at is sent, perhaps more than once, or missed.
LEMMA SendKeeps ==
    ASSUME DispatchInv, NEW p \in Poller, Send(p), UNCHANGED investigatorVars
    PROVE  /\ OutboxTypeOK' /\ PollerInv' /\ RowInv' /\ CopiesInv'
           /\ TopicTypeOK' /\ KeysInPlace' /\ LogGrows
<1>0. OutboxTypeOK /\ TopicTypeOK /\ KeysInPlace /\ PollerInv /\ RowInv /\ CopiesInv
  BY DEF DispatchInv, TypeOK
<1>1. PICK e \in Event :
        /\ e \in batch[p]
        /\ batch' = [batch EXCEPT ![p] = @ \ {e}]
        /\ \/ /\ SendSucceeds(e)
              /\ sent' = [sent EXCEPT ![p] = @ \cup {e}]
              /\ missed' = missed
           \/ /\ SendFails(e)
              /\ missed' = [missed EXCEPT ![p] = @ \cup {e}]
              /\ sent' = sent
        /\ UNCHANGED <<row, attempts, polling>>
  BY DEF Send, Oldest
<1>2. PICK lost \in 0 .. SendAttempts, k \in 0 .. SendAttempts :
        /\ SendFaults(lost) /\ Publish(e, k)
        /\ \/ SendSucceeds(e) /\ k > 0 /\ k <= lost + 1 /\ sent' = [sent EXCEPT ![p] = @ \cup {e}]
              /\ missed' = missed
           \/ SendFails(e) /\ k <= lost /\ missed' = [missed EXCEPT ![p] = @ \cup {e}]
              /\ sent' = sent
  <2>1. CASE SendSucceeds(e) /\ sent' = [sent EXCEPT ![p] = @ \cup {e}] /\ missed' = missed
    BY <2>1 DEF SendSucceeds, SendAttempts
  <2>2. CASE SendFails(e) /\ missed' = [missed EXCEPT ![p] = @ \cup {e}] /\ sent' = sent
    BY <2>2 DEF SendFails, SendAttempts
  <2> QED BY <1>1, <2>1, <2>2
<1>3. lost \in Nat /\ k \in Nat /\ sendFaults \in Nat /\ sendFaults' = sendFaults + lost
  BY <1>0, <1>2, TopicAssumption DEF SendAttempts, SendFaults, TopicTypeOK
<1>4. TopicTypeOK' /\ KeysInPlace' /\ LogGrows
  BY <1>0, <1>1, SendGrows
<1>5. /\ \A f \in Event \ {e} : Copies(f)' = Copies(f)
      /\ Cardinality(Copies(e)') = Cardinality(Copies(e)) + k
      /\ Cardinality(Copies(e)) \in Nat
  BY <1>0, <1>2, <1>3, PublishCopies
<1>6. \A f \in Event : Logged(f) => Logged(f)'
  BY <1>0, <1>4, GrowthKeepsLogged
<1>7. \A f \in Event \ {e} : Logged(f)' => Logged(f)
  BY <1>5, LoggedIsCopies DEF Logged, Copies
<1>8. k > 0 => Logged(e)'
  <2>1. Logged(e)' <=> Copies(e)' # {}
    BY DEF Logged, Copies
  <2>2. k > 0 => Copies(e)' # {}
    BY <1>3, <1>5, FS_EmptySet
  <2> QED BY <2>1, <2>2
<1>9. OutboxTypeOK'
  BY <1>0, <1>1 DEF OutboxTypeOK
<1>10. /\ \A q \in Poller : Held(q)' = Held(q)
       /\ \A q \in Poller \ {p} : batch'[q] = batch[q] /\ sent'[q] = sent[q] /\ missed'[q] = missed[q]
       /\ batch'[p] = batch[p] \ {e}
       /\ \/ sent'[p] = sent[p] \cup {e} /\ missed'[p] = missed[p] /\ Logged(e)'
          \/ sent'[p] = sent[p] /\ missed'[p] = missed[p] \cup {e}
  BY <1>0, <1>1, <1>2, <1>3, <1>8 DEF Held, OutboxTypeOK
<1>11. PollerInv'
  <2>1. ASSUME NEW q \in Poller
        PROVE  /\ \A f \in sent'[q] : Logged(f)' /\ f \notin batch'[q] \cup missed'[q]
               /\ batch'[q] \cap missed'[q] = {}
    <3>1. \A f \in sent[q] : f \in Event /\ Logged(f)' /\ f \notin batch[q] \cup missed[q]
      BY <1>0, <1>6 DEF PollerInv, OutboxTypeOK
    <3>2. batch[q] \cap missed[q] = {}
      BY <1>0 DEF PollerInv
    <3>3. CASE q # p
      BY <1>10, <3>1, <3>2, <3>3
    <3>4. CASE q = p
      BY <1>1, <1>10, <3>1, <3>2, <3>4
    <3> QED BY <3>3, <3>4
  <2>2. \A q \in Poller : /\ ~polling'[q] => Held(q)' = {}
                          /\ \A f \in Held(q)' : Eligible(f)'
    BY <1>0, <1>1, <1>10 DEF PollerInv, Eligible
  <2>3. \A q, r \in Poller : q # r => Held(q)' \cap Held(r)' = {}
    BY <1>0, <1>10 DEF PollerInv
  <2> QED BY <2>1, <2>2, <2>3 DEF PollerInv
<1>12. row[e] = "pending" /\ ~Acked(e)
  <2>1. e \in Held(p)
    BY <1>1 DEF Held
  <2>2. row[e] = "pending" /\ e \notin sent[p]
    BY <1>0, <1>1, <2>1 DEF PollerInv, Eligible
  <2>3. \A q \in Poller : e \notin sent[q]
    BY <1>0, <2>1, <2>2 DEF PollerInv, Held
  <2> QED BY <2>2, <2>3 DEF Acked
<1>13. RowInv'
  <2>1. \A f \in Event : Begun(f)' = Begun(f)
    BY DEF Begun, investigatorVars
  <2> QED BY <1>0, <1>1, <1>6, <1>7, <1>12, <2>1 DEF RowInv
<1>14. CopiesInv'
  <2>1. ASSUME NEW f \in Event \ {e}
        PROVE  (Acked(f)' <=> Acked(f)) /\ Copies(f)' = Copies(f)
    BY <1>1, <1>5, <1>10 DEF Acked
  <2>2. ASSUME NEW f \in Event \ {e}
        PROVE  /\ Acked(f)' => Cardinality(Copies(f)') <= sendFaults' + 1
               /\ ~Acked(f)' => Cardinality(Copies(f)') <= sendFaults'
    <3>1. Cardinality(Copies(f)) \in Nat
      BY <1>0, CopiesFinite
    <3> QED BY <1>0, <1>3, <2>1, <3>1 DEF CopiesInv
  <2>3. Cardinality(Copies(e)) <= sendFaults
    BY <1>0, <1>12 DEF CopiesInv
  <2>4. CASE sent' = [sent EXCEPT ![p] = @ \cup {e}] /\ k <= lost + 1
    <3>1. Acked(e)'
      BY <1>0, <2>4 DEF Acked, OutboxTypeOK
    <3> QED BY <1>3, <1>5, <2>2, <2>3, <2>4, <3>1 DEF CopiesInv
  <2>5. CASE k <= lost
    BY <1>3, <1>5, <2>2, <2>3, <2>5 DEF CopiesInv
  <2> QED BY <1>2, <2>4, <2>5
<1> QED BY <1>4, <1>9, <1>11, <1>13, <1>14

LEMMA PublisherKeeps ==
    \A p \in Poller : DispatchInv /\ (Publisher(p) \/ PublisherFails(p)) => DispatchInv'
<1> SUFFICES ASSUME NEW p \in Poller, DispatchInv, Publisher(p) \/ PublisherFails(p)
             PROVE  DispatchInv'
  OBVIOUS
<1>1. UNCHANGED <<consumerVars, investigatorVars>> /\ UNCHANGED investigatorVars
  BY DEF Publisher, PublisherFails
<1>2. /\ OutboxTypeOK' /\ PollerInv' /\ RowInv' /\ CopiesInv'
      /\ TopicTypeOK' /\ KeysInPlace' /\ LogGrows
  <2>1. log' = log => KeysInPlace' /\ LogGrows
    BY DEF KeysInPlace, LogGrows, DispatchInv, TypeOK, TopicTypeOK
  <2>2. UNCHANGED topicVars => TopicTypeOK' /\ KeysInPlace' /\ LogGrows
    BY <2>1 DEF topicVars, TopicTypeOK, DispatchInv, TypeOK
  <2>3. CASE SelectBatch(p)
    BY <1>1, <2>2, <2>3, SelectKeeps DEF SelectBatch
  <2>4. CASE Send(p)
    BY <1>1, <2>4, SendKeeps
  <2>5. CASE CommitBatch(p)
    BY <1>1, <2>2, <2>5, CommitKeeps DEF CommitBatch
  <2>6. CASE PollFails(p)
    BY <1>1, <2>1, <2>6, PollFailsKeeps DEF PollFails
  <2> QED BY <2>3, <2>4, <2>5, <2>6 DEF Publisher, PublisherFails, PollerStep
<1>3. ConsumerTypeOK' /\ InvestigatorTypeOK' /\ RecordsExist' /\ RunsInv'
  BY <1>1, <1>2, GrowthUnnoticed
<1> QED BY <1>2, <1>3 DEF DispatchInv, TypeOK
-----------------------------------------------------------------------------
(* The investigators.                                                      *)

LEMMA CountWithout ==
    ASSUME NEW S, IsFiniteSet(S), NEW m
    PROVE  /\ Cardinality(S \ {m}) \in Nat
           /\ Cardinality(S) = (IF m \in S THEN Cardinality(S \ {m}) + 1
                                          ELSE Cardinality(S \ {m}))
<1>1. IsFiniteSet(S \ {m})
  BY FS_Difference
<1>2. CASE m \in S
  BY <1>1, <1>2, FS_RemoveElement, FS_CardinalityType
<1>3. CASE m \notin S
  <2>1. S \ {m} = S
    BY <1>3
  <2> QED BY <1>3, <2>1, FS_CardinalityType
<1> QED BY <1>2, <1>3

\* When one investigator moves, the others are where they were.
LEMMA OthersStay ==
    ASSUME UNCHANGED log, NEW m \in Member, NEW e,
           \A n \in Member \ {m} : pc'[n] = pc[n] /\ current'[n] = current[n]
    PROVE  \E r, s \in Nat :
              /\ Cardinality(Running(e)) = (IF m \in Running(e) THEN r + 1 ELSE r)
              /\ Cardinality(Running(e)') = (IF m \in Running(e)' THEN r + 1 ELSE r)
              /\ Cardinality(Starting(e)) = (IF m \in Starting(e) THEN s + 1 ELSE s)
              /\ Cardinality(Starting(e)') = (IF m \in Starting(e)' THEN s + 1 ELSE s)
              /\ m \in Running(e) => r + s + 1 <= Cardinality(Member)
<1> DEFINE r == Cardinality(Running(e) \ {m})
           s == Cardinality(Starting(e) \ {m})
<1>1. /\ IsFiniteSet(Running(e)) /\ IsFiniteSet(Starting(e))
      /\ IsFiniteSet(Running(e)') /\ IsFiniteSet(Starting(e)')
  <2>1. /\ Running(e) \subseteq Member /\ Starting(e) \subseteq Member
        /\ Running(e)' \subseteq Member /\ Starting(e)' \subseteq Member
    BY DEF Running, Starting
  <2> QED BY <2>1, FS_Subset, ConsumerAssumption
<1>2. Running(e)' \ {m} = Running(e) \ {m} /\ Starting(e)' \ {m} = Starting(e) \ {m}
  <2>1. \A n \in Member \ {m} : Handling(n)' = Handling(n)
    BY DEF Handling, EventAt
  <2> QED BY <2>1 DEF Running, Starting
<1>3. r \in Nat /\ Cardinality(Running(e)) = (IF m \in Running(e) THEN r + 1 ELSE r)
  BY <1>1, CountWithout
<1>4. s \in Nat /\ Cardinality(Starting(e)) = (IF m \in Starting(e) THEN s + 1 ELSE s)
  BY <1>1, CountWithout
<1>5. Cardinality(Running(e)') = (IF m \in Running(e)' THEN r + 1 ELSE r)
  BY <1>1, <1>2, CountWithout
<1>6. Cardinality(Starting(e)') = (IF m \in Starting(e)' THEN s + 1 ELSE s)
  BY <1>1, <1>2, CountWithout
<1>7. Cardinality(Running(e)) + Cardinality(Starting(e)) <= Cardinality(Member)
  <2>1. Running(e) \cap Starting(e) = {}
    BY DEF Running, Starting
  <2>2. Running(e) \cup Starting(e) \subseteq Member
    BY DEF Running, Starting
  <2>3. Cardinality(Running(e) \cup Starting(e))
           = Cardinality(Running(e)) + Cardinality(Starting(e))
               - Cardinality(Running(e) \cap Starting(e))
    BY <1>1, FS_Union
  <2>4. Cardinality(Running(e) \cap Starting(e)) = 0
    BY <2>1, FS_EmptySet
  <2>5. Cardinality(Running(e) \cup Starting(e)) <= Cardinality(Member)
    BY <2>2, FS_Subset, ConsumerAssumption
  <2>6. Cardinality(Running(e)) \in Nat /\ Cardinality(Starting(e)) \in Nat
    BY MembersFinite
  <2> QED BY <2>3, <2>4, <2>5, <2>6
<1>8. m \in Running(e) => m \notin Starting(e)
  BY DEF Running, Starting
<1>9. m \in Running(e) => r + s + 1 <= Cardinality(Member)
  BY <1>3, <1>4, <1>7, <1>8
<1> HIDE DEF r, s
<1> QED BY <1>3, <1>4, <1>5, <1>6, <1>9

\* Outbox and topic do not notice what investigators do, and an investigation
\* is only begun for what is in the topic.
LEMMA InvestigatorsUnnoticed ==
    ASSUME DispatchInv, UNCHANGED <<topicVars, outboxVars>>,
           ConsumerTypeOK', InvestigatorTypeOK', RecordsExist', RunsInv',
           \A e \in Event : Begun(e)' => Begun(e) \/ Logged(e)
    PROVE  DispatchInv'
<1> USE DEF topicVars, outboxVars
<1>1. TypeOK'
  BY DEF DispatchInv, TypeOK, TopicTypeOK, OutboxTypeOK
<1>2. \A e : /\ Logged(e)' = Logged(e) /\ Copies(e)' = Copies(e)
             /\ Acked(e)' = Acked(e) /\ Eligible(e)' = Eligible(e)
  BY DEF Logged, Copies, Acked, Eligible
<1>3. \A p : Held(p)' = Held(p)
  BY DEF Held
<1>4. KeysInPlace' /\ PollerInv' /\ CopiesInv'
  BY <1>2, <1>3 DEF DispatchInv, KeysInPlace, PollerInv, CopiesInv
<1>5. RowInv'
  BY <1>2 DEF DispatchInv, RowInv
<1> QED BY <1>1, <1>4, <1>5 DEF DispatchInv

LEMMA GroupsKeep == DispatchInv /\ Groups => DispatchInv'
<1> SUFFICES ASSUME DispatchInv, Groups PROVE DispatchInv'
  OBVIOUS
<1>1. /\ GroupMoves /\ UNCHANGED <<topicVars, outboxVars>> /\ UNCHANGED investigatorVars
      /\ UNCHANGED <<pc, current, raised, processed, consumerFaults>> /\ UNCHANGED log
  BY GroupKeepsRecords DEF Groups, topicVars
<1>2. ConsumerTypeOK' /\ InvestigatorTypeOK'
  BY <1>1, GroupTypes DEF DispatchInv, TypeOK, investigatorVars, InvestigatorTypeOK
<1>3. RecordsExist'
  BY <1>1 DEF DispatchInv, RecordsExist, Valid
<1>4. \A e : Running(e)' = Running(e) /\ Starting(e)' = Starting(e)
  BY <1>1 DEF Running, Starting, Handling, EventAt
<1>5. RunsInv' /\ \A e \in Event : Begun(e)' => Begun(e)
  BY <1>1, <1>4 DEF DispatchInv, RunsInv, Begun, investigatorVars
<1> QED BY <1>1, <1>2, <1>3, <1>5, InvestigatorsUnnoticed

LEMMA LoopKeeps == \A m \in Member : DispatchInv /\ Loop(m) => DispatchInv'
<1> SUFFICES ASSUME NEW m \in Member, DispatchInv, Loop(m) PROVE DispatchInv'
  OBVIOUS
<1>1. /\ LoopMoves(m) /\ UNCHANGED <<topicVars, outboxVars>> /\ UNCHANGED investigatorVars
      /\ UNCHANGED log
  BY DEF Loop, topicVars
<1>2. ConsumerTypeOK' /\ RecordsExist' /\ InvestigatorTypeOK'
  BY <1>1, LoopTypes DEF DispatchInv, TypeOK, investigatorVars, InvestigatorTypeOK
<1>3. /\ UNCHANGED <<processed, consumerFaults>>
      /\ \A n \in Member \ {m} : pc'[n] = pc[n] /\ current'[n] = current[n]
      /\ pc[m] \notin {"fallback", "mark", "start"} /\ pc'[m] \notin {"fallback", "mark", "start"}
  BY <1>1 DEF LoopMoves, Poll, CheckProcessed, CommitOffsets, At, Return, GoTo, groupVars,
              DispatchInv, TypeOK, ConsumerTypeOK
<1>4. \A e : Running(e)' = Running(e) /\ Starting(e)' = Starting(e)
  BY <1>1, <1>3 DEF Running, Starting, Handling, EventAt
<1>5. RunsInv' /\ \A e \in Event : Begun(e)' => Begun(e)
  BY <1>1, <1>3, <1>4 DEF DispatchInv, RunsInv, Begun, investigatorVars
<1> QED BY <1>1, <1>2, <1>5, InvestigatorsUnnoticed

LEMMA ClosesKeeps == \A e \in Event : DispatchInv /\ Closes(e) => DispatchInv'
<1> SUFFICES ASSUME NEW e \in Event, DispatchInv, Closes(e) PROVE DispatchInv'
  OBVIOUS
<1>1. /\ UNCHANGED <<topicVars, outboxVars>> /\ UNCHANGED log
      /\ workflow' = [workflow EXCEPT ![e] = "closed"]
      /\ UNCHANGED <<starts, fallbacks, consumerVars>>
  BY DEF Closes, WorkflowEnds, topicVars
<1>2. ConsumerTypeOK' /\ RecordsExist' /\ InvestigatorTypeOK'
  BY <1>1 DEF DispatchInv, TypeOK, consumerVars, groupVars, loopVars, InvestigatorTypeOK,
              ConsumerTypeOK, RecordsExist, Valid
<1>3. \A f : Running(f)' = Running(f) /\ Starting(f)' = Starting(f)
  BY <1>1 DEF Running, Starting, Handling, EventAt, consumerVars, loopVars
<1>4. RunsInv' /\ \A f \in Event : Begun(f)' => Begun(f)
  BY <1>1, <1>3 DEF DispatchInv, RunsInv, Begun, consumerVars
<1> QED BY <1>1, <1>2, <1>4, InvestigatorsUnnoticed

\* What a step of investigator m may do to the counts of the incident it is at.
Idles(m) == pc[m] = "handle" /\ pc'[m] = "commit"
Begins(m) == pc[m] = "start" /\ pc'[m] \in {"mark", "fallback"}
GoesOn(m) == pc[m] \in {"fallback", "mark"} /\ pc'[m] = "mark"
Finishes(m) == pc[m] \in {"fallback", "mark"} /\ pc'[m] = "commit"

Total(e) == starts[e] + fallbacks[e]

Investigates(m, e) ==
    \/ /\ Idles(m) \/ GoesOn(m)
       /\ Total(e)' = Total(e) /\ consumerFaults' = consumerFaults
       /\ (e \in processed' <=> e \in processed)
    \/ /\ pc[m] = "handle" /\ pc'[m] = "start" /\ Total(e)' = Total(e)
       /\ consumerFaults' = consumerFaults /\ e \notin processed' /\ e \notin processed
    \/ /\ Begins(m) /\ (e \in processed' <=> e \in processed)
       /\ Total(e)' + consumerFaults <= Total(e) + 1 + consumerFaults'
    \/ /\ Finishes(m) /\ Total(e)' = Total(e)
       /\ \/ consumerFaults' = consumerFaults /\ e \in processed'
          \/ consumerFaults' = consumerFaults + 1 /\ (e \in processed' <=> e \in processed)

LEMMA StepCounts ==
    ASSUME DispatchInv, InvestigatorTypeOK', consumerFaults' \in Nat, UNCHANGED log,
           NEW m \in Member, UNCHANGED current, NEW h \in Event, h = Handling(m),
           \A n \in Member \ {m} : pc'[n] = pc[n],
           Investigates(m, h), consumerFaults' >= consumerFaults,
           \A e \in Event \ {h} :
              Total(e)' = Total(e) /\ (e \in processed' <=> e \in processed)
    PROVE  RunsInv'
<1> SUFFICES ASSUME NEW e \in Event
             PROVE  /\ e \notin processed' =>
                          Total(e)' <= Cardinality(Running(e)') + consumerFaults'
                    /\ e \in processed' =>
                          Total(e)' + Cardinality(Starting(e)')
                              <= Cardinality(Member) + consumerFaults'
  BY DEF RunsInv, Total
<1>1. PICK r \in Nat, s \in Nat :
        /\ Cardinality(Running(e)) = (IF m \in Running(e) THEN r + 1 ELSE r)
        /\ Cardinality(Running(e)') = (IF m \in Running(e)' THEN r + 1 ELSE r)
        /\ Cardinality(Starting(e)) = (IF m \in Starting(e) THEN s + 1 ELSE s)
        /\ Cardinality(Starting(e)') = (IF m \in Starting(e)' THEN s + 1 ELSE s)
        /\ m \in Running(e) => r + s + 1 <= Cardinality(Member)
  BY OthersStay
<1>2. /\ Total(e) \in Nat /\ Total(e)' \in Nat
      /\ consumerFaults \in Nat /\ consumerFaults' \in Nat /\ Cardinality(Member) \in Nat
  <2>1. Total(e) \in Nat /\ Total(e)' \in Nat
    BY DEF DispatchInv, TypeOK, InvestigatorTypeOK, Total
  <2>2. consumerFaults \in Nat
    BY ConsumerAssumption DEF DispatchInv, TypeOK, ConsumerTypeOK
  <2> QED BY <2>1, <2>2, MembersFinite
<1>3. /\ m \in Running(e) <=> pc[m] \in {"fallback", "mark"} /\ e = h
      /\ m \in Running(e)' <=> pc'[m] \in {"fallback", "mark"} /\ e = h
      /\ m \in Starting(e) <=> pc[m] = "start" /\ e = h
      /\ m \in Starting(e)' <=> pc'[m] = "start" /\ e = h
  BY DEF Running, Starting, Handling, EventAt
<1>4. /\ e \notin processed => Total(e) <= Cardinality(Running(e)) + consumerFaults
      /\ e \in processed =>
            Total(e) + Cardinality(Starting(e)) <= Cardinality(Member) + consumerFaults
  BY DEF DispatchInv, RunsInv, Total
<1>5. CASE e # h
  BY <1>1, <1>2, <1>3, <1>4, <1>5
<1>6. CASE e = h
  <2>1. /\ m \in Running(e) <=> pc[m] \in {"fallback", "mark"}
        /\ m \in Running(e)' <=> pc'[m] \in {"fallback", "mark"}
        /\ m \in Starting(e) <=> pc[m] = "start"
        /\ m \in Starting(e)' <=> pc'[m] = "start"
    BY <1>3, <1>6
  <2>2. Investigates(m, e)
    BY <1>6
  <2>3. CASE (Idles(m) \/ GoesOn(m)) /\ Total(e)' = Total(e)
             /\ consumerFaults' = consumerFaults /\ (e \in processed' <=> e \in processed)
    <3>1. /\ m \in Running(e) <=> m \in Running(e)'
          /\ m \notin Starting(e) /\ m \notin Starting(e)'
      BY <2>1, <2>3 DEF Idles, GoesOn
    <3>2. /\ Cardinality(Running(e)') = Cardinality(Running(e))
          /\ Cardinality(Starting(e)') = Cardinality(Starting(e))
      BY <1>1, <3>1
    <3> QED BY <1>4, <2>3, <3>2
  <2>4. CASE /\ pc[m] = "handle" /\ pc'[m] = "start" /\ Total(e)' = Total(e)
             /\ consumerFaults' = consumerFaults /\ e \notin processed'
             /\ e \notin processed
    <3>1. Cardinality(Running(e)') = Cardinality(Running(e))
      BY <1>1, <2>1, <2>4
    <3> QED BY <1>4, <2>4, <3>1
  <2>5. CASE /\ Begins(m) /\ (e \in processed' <=> e \in processed)
             /\ Total(e)' + consumerFaults <= Total(e) + 1 + consumerFaults'
    <3>1. /\ Cardinality(Running(e)) = r /\ Cardinality(Running(e)') = r + 1
          /\ Cardinality(Starting(e)) = s + 1 /\ Cardinality(Starting(e)') = s
      BY <1>1, <2>1, <2>5 DEF Begins
    <3> QED BY <1>2, <1>4, <2>5, <3>1
  <2>6. CASE /\ Finishes(m) /\ Total(e)' = Total(e)
             /\ \/ consumerFaults' = consumerFaults /\ e \in processed'
                \/ /\ consumerFaults' = consumerFaults + 1
                   /\ (e \in processed' <=> e \in processed)
    <3>1. /\ Cardinality(Running(e)) = r + 1 /\ Cardinality(Running(e)') = r
          /\ Cardinality(Starting(e)) = s /\ Cardinality(Starting(e)') = s
          /\ r + s + 1 <= Cardinality(Member)
      BY <1>1, <2>1, <2>6 DEF Finishes
    <3> QED BY <1>2, <1>4, <2>6, <3>1
  <2> QED BY <2>2, <2>3, <2>4, <2>5, <2>6 DEF Investigates
<1> QED BY <1>5, <1>6

LEMMA HandlerKeeps == \A m \in Member : DispatchInv /\ Handler(m) => DispatchInv'
<1> SUFFICES ASSUME NEW m \in Member, DispatchInv, Handler(m) PROVE DispatchInv'
  OBVIOUS
<1>0. TopicTypeOK /\ KeysInPlace /\ ConsumerTypeOK /\ InvestigatorTypeOK /\ RecordsExist
  BY DEF DispatchInv, TypeOK
<1>1. /\ handle_incident_created(m) /\ UNCHANGED <<topicVars, outboxVars>> /\ UNCHANGED log
      /\ UNCHANGED <<committed, mode, assigned, position>>
  BY DEF Handler, topicVars, handle_incident_created, groupVars
<1>2. {"commit", "start", "fallback", "mark"} \subseteq Pc
  BY InvestigatorAssumption DEF Pc
<1>3. pc[m] # "poll"
  BY <1>1 DEF handle_incident_created, HandleIncidentCreated, StartWorkflow, StartRaises,
              FallbackEnds, MarkProcessed, At
<1>4. PICK h \in Event : h = Handling(m) /\ Logged(h)
  BY <1>0, <1>3, ValidEvent DEF RecordsExist, Handling
<1>5. PICK place \in {"commit", "start", "fallback", "mark"} : GoTo(m, place)
  BY <1>1 DEF handle_incident_created, HandleIncidentCreated, StartWorkflow, StartRaises,
              FallbackEnds, MarkProcessed, Return
<1>6. /\ pc' = [pc EXCEPT ![m] = place] /\ UNCHANGED <<current, raised>> /\ UNCHANGED current
      /\ pc'[m] = place /\ \A n \in Member \ {m} : pc'[n] = pc[n]
  BY <1>0, <1>5 DEF GoTo, ConsumerTypeOK
<1>7. consumerFaults' = consumerFaults \/ ConsumerFault
  BY <1>1 DEF handle_incident_created, HandleIncidentCreated, StartWorkflow, StartRaises,
              FallbackEnds, MarkProcessed
<1>8. /\ consumerFaults' \in 0 .. MaxConsumerFaults /\ consumerFaults' \in Nat
      /\ consumerFaults' >= consumerFaults
  BY <1>0, <1>7, ConsumerAssumption DEF ConsumerFault, ConsumerTypeOK
<1>9. /\ InvestigatorTypeOK' /\ processed' \subseteq Event
      /\ Investigates(m, h)
      /\ \A e \in Event \ {h} :
            Total(e)' = Total(e) /\ (e \in processed' <=> e \in processed)
  <2>0. pc'[m] = place /\ processed \subseteq Event /\ consumerFaults \in Nat
        /\ starts[h] \in Nat /\ fallbacks[h] \in Nat
    BY <1>0, <1>4, <1>6, ConsumerAssumption DEF ConsumerTypeOK, InvestigatorTypeOK
  <2>1. CASE HandleIncidentCreated(m)
    <3>1. UNCHANGED <<processed, consumerFaults, workflow, starts, fallbacks>> /\ pc[m] = "handle"
      BY <2>1 DEF HandleIncidentCreated, investigatorVars, At
    <3>2. pc'[m] = IF h \in processed THEN "commit" ELSE "start"
      BY <1>0, <1>4, <2>1 DEF HandleIncidentCreated, Return, GoTo, ConsumerTypeOK
    <3> QED BY <1>0, <2>0, <3>1, <3>2 DEF InvestigatorTypeOK, Investigates, Idles, Total
  <2>2. CASE StartWorkflow(m)
    <3>1. /\ UNCHANGED <<processed, consumerFaults, fallbacks>>
          /\ pc[m] = "start" /\ pc'[m] = "mark"
          /\ workflow' = [workflow EXCEPT ![h] = "running"]
          /\ starts' = [starts EXCEPT ![h] = @ + 1]
      BY <1>0, <1>4, <2>2 DEF StartWorkflow, At, Started, GoTo, ConsumerTypeOK
    <3>2. InvestigatorTypeOK'
      BY <1>0, <1>4, <3>1 DEF InvestigatorTypeOK
    <3>3. /\ Total(h)' = Total(h) + 1
          /\ \A e \in Event \ {h} : Total(e)' = Total(e)
      <4>1. /\ starts'[h] = starts[h] + 1 /\ fallbacks' = fallbacks
            /\ \A e \in Event \ {h} : starts'[e] = starts[e]
        BY <1>0, <1>4, <3>1 DEF InvestigatorTypeOK
      <4> QED BY <2>0, <4>1 DEF Total
    <3> QED BY <2>0, <3>1, <3>2, <3>3 DEF Investigates, Begins, Total
  <2>3. CASE StartRaises(m)
    <3>1. /\ UNCHANGED processed /\ pc[m] = "start" /\ pc'[m] = "fallback"
          /\ fallbacks' = [fallbacks EXCEPT ![h] = @ + 1]
          /\ \/ UNCHANGED <<workflow, starts, consumerFaults>>
             \/ consumerFaults' = consumerFaults + 1 /\ UNCHANGED <<workflow, starts>>
             \/ /\ consumerFaults' = consumerFaults + 1
                /\ workflow' = [workflow EXCEPT ![h] = "running"]
                /\ starts' = [starts EXCEPT ![h] = @ + 1]
      BY <1>0, <1>4, <2>3 DEF StartRaises, At, Started, GoTo, ConsumerTypeOK, ConsumerFault
    <3>2. InvestigatorTypeOK'
      BY <1>0, <1>4, <3>1 DEF InvestigatorTypeOK
    <3>3. \A e \in Event \ {h} : Total(e)' = Total(e)
      BY <1>0, <1>4, <3>1 DEF InvestigatorTypeOK, Total
    <3>4. Total(h)' + consumerFaults <= Total(h) + 1 + consumerFaults'
      <4>1. fallbacks'[h] = fallbacks[h] + 1
        BY <1>0, <1>4, <3>1 DEF InvestigatorTypeOK
      <4>2. CASE starts' = starts /\ consumerFaults' \in {consumerFaults, consumerFaults + 1}
        BY <2>0, <4>1, <4>2 DEF Total
      <4>3. CASE /\ consumerFaults' = consumerFaults + 1
                 /\ starts' = [starts EXCEPT ![h] = @ + 1]
        <5>1. starts'[h] = starts[h] + 1
          BY <1>0, <1>4, <4>3 DEF InvestigatorTypeOK
        <5> QED BY <2>0, <4>1, <4>3, <5>1 DEF Total
      <4> QED BY <3>1, <4>2, <4>3
    <3> QED BY <2>0, <3>1, <3>2, <3>3, <3>4 DEF Investigates, Begins
  <2>4. CASE FallbackEnds(m)
    <3>1. UNCHANGED <<processed, consumerFaults, workflow, starts, fallbacks>>
          /\ pc[m] = "fallback" /\ pc'[m] = "mark"
      BY <1>0, <2>4 DEF FallbackEnds, investigatorVars, At, GoTo, ConsumerTypeOK
    <3> QED BY <1>0, <2>0, <3>1 DEF InvestigatorTypeOK, Investigates, GoesOn, Total
  <2>5. CASE MarkProcessed(m)
    <3>1. UNCHANGED <<consumerFaults, workflow, starts, fallbacks>>
          /\ pc[m] = "mark" /\ pc'[m] = "commit" /\ processed' = processed \cup {h}
      BY <1>0, <1>4, <2>5 DEF MarkProcessed, investigatorVars, At, Return, GoTo, ConsumerTypeOK
    <3> QED BY <1>0, <1>4, <2>0, <3>1 DEF InvestigatorTypeOK, Investigates, Finishes, Total
  <2> QED BY <1>1, <2>1, <2>2, <2>3, <2>4, <2>5 DEF handle_incident_created
<1>10. RunsInv'
  BY <1>1, <1>4, <1>6, <1>8, <1>9, StepCounts
<1>11. /\ pc' \in [Member -> Pc] /\ RecordsExist'
       /\ current' \in [Member -> Record \cup {NoRecord}] /\ raised' \subseteq Record
  BY <1>0, <1>1, <1>2, <1>3, <1>5, StepTypes
<1>12. ConsumerTypeOK'
  BY <1>0, <1>1, <1>8, <1>9, <1>11 DEF ConsumerTypeOK
<1>13. \A e \in Event : Begun(e)' => Begun(e) \/ Logged(e)
  <2> TAKE e \in Event
  <2>1. CASE e = h
    BY <1>4, <2>1
  <2>2. CASE e # h
    <3>1. Total(e)' = Total(e)
      BY <1>9, <2>2
    <3> QED BY <3>1 DEF Begun, Total
  <2> QED BY <2>1, <2>2
<1> QED BY <1>1, <1>9, <1>10, <1>11, <1>12, <1>13, InvestigatorsUnnoticed

\* A fault pays for the investigation it ends before its mark.
LEMMA FailureCounts ==
    ASSUME DispatchInv, UNCHANGED <<log, processed, investigatorVars>>, NEW m \in Member,
           consumerFaults' = consumerFaults + 1,
           \A n \in Member \ {m} : pc'[n] = pc[n] /\ current'[n] = current[n],
           pc'[m] \in {"poll", "commit"} \/ (pc'[m] = pc[m] /\ current'[m] = current[m])
    PROVE  RunsInv'
<1> SUFFICES ASSUME NEW e \in Event
             PROVE  /\ e \notin processed' =>
                          Total(e)' <= Cardinality(Running(e)') + consumerFaults'
                    /\ e \in processed' =>
                          Total(e)' + Cardinality(Starting(e)')
                              <= Cardinality(Member) + consumerFaults'
  BY DEF RunsInv, Total
<1>1. PICK r \in Nat, s \in Nat :
        /\ Cardinality(Running(e)) = (IF m \in Running(e) THEN r + 1 ELSE r)
        /\ Cardinality(Running(e)') = (IF m \in Running(e)' THEN r + 1 ELSE r)
        /\ Cardinality(Starting(e)) = (IF m \in Starting(e) THEN s + 1 ELSE s)
        /\ Cardinality(Starting(e)') = (IF m \in Starting(e)' THEN s + 1 ELSE s)
        /\ m \in Running(e) => r + s + 1 <= Cardinality(Member)
  BY OthersStay
<1>2. Total(e) \in Nat /\ Total(e)' = Total(e) /\ consumerFaults \in Nat /\ Cardinality(Member) \in Nat
  <2>1. Total(e) \in Nat /\ Total(e)' = Total(e)
    BY DEF DispatchInv, TypeOK, InvestigatorTypeOK, Total, investigatorVars
  <2>2. consumerFaults \in Nat
    BY ConsumerAssumption DEF DispatchInv, TypeOK, ConsumerTypeOK
  <2> QED BY <2>1, <2>2, MembersFinite
<1>3. m \in Starting(e)' => m \in Starting(e)
  BY DEF Starting, Handling, EventAt
<1>4. /\ e \notin processed => Total(e) <= Cardinality(Running(e)) + consumerFaults
      /\ e \in processed =>
            Total(e) + Cardinality(Starting(e)) <= Cardinality(Member) + consumerFaults
  BY DEF DispatchInv, RunsInv, Total
<1>5. Cardinality(Running(e)) <= Cardinality(Running(e)') + 1
      /\ Cardinality(Starting(e)') <= Cardinality(Starting(e))
      /\ Cardinality(Running(e)) \in Nat /\ Cardinality(Running(e)') \in Nat
      /\ Cardinality(Starting(e)) \in Nat /\ Cardinality(Starting(e)') \in Nat
  BY <1>1, <1>3
<1> QED BY <1>2, <1>4, <1>5

LEMMA InvestigatorFailsKeeps ==
    \A m \in Member : DispatchInv /\ InvestigatorFails(m) => DispatchInv'
<1> SUFFICES ASSUME NEW m \in Member, DispatchInv, InvestigatorFails(m) PROVE DispatchInv'
  OBVIOUS
<1>0. ConsumerTypeOK /\ InvestigatorTypeOK /\ RecordsExist
  BY DEF DispatchInv, TypeOK
<1>1. /\ UNCHANGED <<topicVars, outboxVars>> /\ UNCHANGED log
      /\ UNCHANGED investigatorVars
  BY DEF InvestigatorFails, topicVars, MarkFails
<1>2. InvestigatorTypeOK' /\ \A e \in Event : Begun(e)' => Begun(e)
  BY <1>0, <1>1 DEF InvestigatorTypeOK, Begun, investigatorVars
<1>3. ConsumerTypeOK' /\ RecordsExist'
  <2>1. CASE MemberFails(m)
    BY <1>0, <1>1, <2>1, FailTypes
  <2>2. CASE MarkFails(m) /\ UNCHANGED groupVars
    <3>1. /\ "commit" \in Pc /\ GoTo(m, "commit") /\ pc[m] # "poll"
          /\ UNCHANGED <<committed, mode, assigned, position, processed>>
          /\ consumerFaults' \in 0 .. MaxConsumerFaults
      BY <1>0, <2>2, ConsumerAssumption
         DEF MarkFails, At, Return, groupVars, Pc, ConsumerFault, ConsumerTypeOK
    <3>2. /\ pc' \in [Member -> Pc] /\ RecordsExist'
          /\ current' \in [Member -> Record \cup {NoRecord}] /\ raised' \subseteq Record
      BY <1>0, <1>1, <3>1, StepTypes
    <3> QED BY <1>0, <3>1, <3>2 DEF ConsumerTypeOK
  <2> QED BY <2>1, <2>2 DEF InvestigatorFails
<1>4. /\ UNCHANGED <<log, processed, investigatorVars>>
      /\ consumerFaults' = consumerFaults + 1
      /\ \A n \in Member \ {m} : pc'[n] = pc[n] /\ current'[n] = current[n]
      /\ pc'[m] \in {"poll", "commit"} \/ (pc'[m] = pc[m] /\ current'[m] = current[m])
  BY <1>0, <1>1 DEF InvestigatorFails, MemberFails, Crash, Expel, DatabaseFails, MarkFails,
                    Raise, Return, GoTo, ConsumerFault, loopVars, ConsumerTypeOK
<1>5. RunsInv'
  BY <1>4, FailureCounts
<1> QED BY <1>1, <1>2, <1>3, <1>5, InvestigatorsUnnoticed

LEMMA NextDispatchInv == DispatchInv /\ [Next]_vars => DispatchInv'
<1> SUFFICES ASSUME DispatchInv, [Next]_vars PROVE DispatchInv'
  OBVIOUS
<1>1. CASE Next
  BY <1>1, AcceptKeeps, ClosesKeeps, PublisherKeeps, GroupsKeep, LoopKeeps, HandlerKeeps,
     InvestigatorFailsKeeps DEF Next
<1>2. CASE UNCHANGED vars
  <2> USE <1>2 DEF vars, consumerVars, groupVars, loopVars, investigatorVars, topicVars
  <2>1. UNCHANGED <<topicVars, outboxVars>>
    OBVIOUS
  <2>2. ConsumerTypeOK' /\ InvestigatorTypeOK' /\ RecordsExist'
    BY DEF DispatchInv, TypeOK, ConsumerTypeOK, InvestigatorTypeOK, RecordsExist, Valid
  <2>3. \A e : Running(e)' = Running(e) /\ Starting(e)' = Starting(e) /\ Begun(e)' = Begun(e)
    BY DEF Running, Starting, Handling, EventAt, Begun
  <2>4. RunsInv'
    BY <2>3 DEF DispatchInv, RunsInv
  <2> QED BY <2>1, <2>2, <2>3, <2>4, InvestigatorsUnnoticed
<1> QED BY <1>1, <1>2
-----------------------------------------------------------------------------
(* The stages of EventDelivery.                                            *)

LEMMA GoneWrongLogged == DispatchInv => \A f : GoneWrong(f) => Logged(f)
BY ValidEvent DEF DispatchInv, TypeOK, RecordsExist, GoneWrong

\* What a row and its topic may become in one step.
RowMoves(e) ==
    /\ \/ row'[e] = row[e] /\ attempts'[e] = attempts[e]
       \/ row[e] = "absent" /\ row'[e] = "pending" /\ attempts'[e] = attempts[e]
       \/ row[e] = "pending" /\ row'[e] \in {"pending", "published"} /\ attempts'[e] >= attempts[e]
    /\ Logged(e)' /\ ~Logged(e) => Eligible(e)

LEMMA OutboxMoves ==
    ASSUME DispatchInv, DispatchInv', [Next]_vars, NEW e \in Event
    PROVE  /\ RowMoves(e) /\ LogGrows
           /\ \/ UNCHANGED <<consumerVars, investigatorVars>>
              \/ UNCHANGED <<topicVars, outboxVars>> /\ UNCHANGED log
<1>0. /\ TopicTypeOK /\ OutboxTypeOK /\ KeysInPlace /\ PollerInv
      /\ TopicTypeOK' /\ OutboxTypeOK' /\ attempts[e] \in Nat
  BY OutboxAssumption DEF DispatchInv, TypeOK, OutboxTypeOK
<1>1. log' = log => LogGrows /\ (Logged(e)' <=> Logged(e))
  BY <1>0 DEF LogGrows, TopicTypeOK, Logged
<1>2. CASE UNCHANGED <<topicVars, outboxVars>>
  BY <1>1, <1>2 DEF topicVars, outboxVars, RowMoves
<1>3. CASE \E f \in Event : Accept(f)
  <2>1. PICK f \in Event : /\ row[f] = "absent" /\ row' = [row EXCEPT ![f] = "pending"]
                           /\ UNCHANGED <<log, attempts>>
                           /\ UNCHANGED <<consumerVars, investigatorVars>>
    BY <1>3 DEF Accept, RowInserted, topicVars
  <2>2. row'[e] = (IF e = f THEN "pending" ELSE row[e])
    BY <1>0, <2>1 DEF OutboxTypeOK
  <2> QED BY <1>1, <2>1, <2>2 DEF RowMoves
<1>4. CASE \E p \in Poller : Publisher(p) \/ PublisherFails(p)
  <2>1. PICK p \in Poller : Publisher(p) \/ PublisherFails(p)
    BY <1>4
  <2>2. UNCHANGED <<consumerVars, investigatorVars>>
    BY <2>1 DEF Publisher, PublisherFails
  <2>3. CASE SelectBatch(p) \/ PollFails(p)
    BY <1>1, <2>2, <2>3 DEF SelectBatch, PollFails, RowMoves, topicVars
  <2>4. CASE CommitBatch(p)
    <3>1. /\ UNCHANGED log
          /\ row'[e] = (IF e \in sent[p] THEN "published" ELSE row[e])
          /\ attempts'[e] = (IF e \in missed[p] THEN attempts[e] + 1 ELSE attempts[e])
      BY <2>4 DEF CommitBatch, topicVars
    <3>2. e \in sent[p] \cup missed[p] => row[e] = "pending"
      BY <1>0 DEF PollerInv, Held, Eligible
    <3>3. row[e] = "pending" => row'[e] \in {"pending", "published"} /\ attempts'[e] >= attempts[e]
      BY <1>0, <3>1
    <3> QED BY <1>1, <2>2, <3>1, <3>2, <3>3 DEF RowMoves
  <2>5. CASE Send(p)
    <3>1. PICK f \in Event : f \in batch[p] /\ (SendSucceeds(f) \/ SendFails(f))
      BY <2>5 DEF Send, Oldest
    <3>2. UNCHANGED <<row, attempts>>
      BY <2>5 DEF Send
    <3>3. LogGrows
      BY <1>0, <3>1, SendGrows
    <3>4. Eligible(f)
      BY <1>0, <3>1 DEF PollerInv, Held
    <3>5. e # f => (Logged(e)' <=> Logged(e))
      <4>1. PICK k \in 0 .. SendAttempts : Publish(f, k)
        BY <3>1 DEF SendSucceeds, SendFails, SendAttempts
      <4>2. k \in Nat
        BY DEF SendAttempts
      <4>3. e # f => Copies(e)' = Copies(e)
        BY <1>0, <4>1, <4>2, PublishCopies
      <4> QED BY <4>3 DEF Logged, Copies
    <3> QED BY <2>2, <3>2, <3>3, <3>4, <3>5 DEF RowMoves
  <2> QED BY <2>1, <2>3, <2>4, <2>5 DEF Publisher, PublisherFails, PollerStep
<1>5. CASE UNCHANGED vars
  BY <1>2, <1>5 DEF vars
<1>6. CASE Groups \/ (\E f \in Event : Closes(f)) \/ (\E m \in Member : Loop(m) \/ Handler(m) \/ InvestigatorFails(m))
  BY <1>2, <1>6 DEF Groups, Closes, Loop, Handler, InvestigatorFails
<1> QED BY <1>3, <1>4, <1>5, <1>6 DEF Next

\* A record that raised an exception stays on record, and an investigation is
\* not unmade.
LEMMA InvestigatorMoves ==
    ASSUME DispatchInv, [Next]_vars
    PROVE  raised \subseteq raised' /\ \A e \in Event : Begun(e) => Begun(e)'
<1>0. InvestigatorTypeOK
  BY DEF DispatchInv, TypeOK
<1>1. CASE UNCHANGED <<raised, starts, fallbacks>>
  BY <1>1 DEF Begun
<1>2. CASE \E m \in Member : Handler(m)
  <2>1. PICK m \in Member : handle_incident_created(m)
    BY <1>2 DEF Handler
  <2>2. UNCHANGED raised
    BY <2>1 DEF handle_incident_created, HandleIncidentCreated, StartWorkflow, StartRaises,
                FallbackEnds, MarkProcessed, Return, GoTo
  <2>3. /\ starts' = starts \/ starts' = [starts EXCEPT ![Handling(m)] = @ + 1]
        /\ fallbacks' = fallbacks \/ fallbacks' = [fallbacks EXCEPT ![Handling(m)] = @ + 1]
    BY <2>1 DEF handle_incident_created, HandleIncidentCreated, StartWorkflow, StartRaises,
                FallbackEnds, MarkProcessed, Started, investigatorVars
  <2>4. \A e \in Event : starts'[e] \in Nat /\ fallbacks'[e] \in Nat
                        /\ starts'[e] >= starts[e] /\ fallbacks'[e] >= fallbacks[e]
    BY <1>0, <2>3 DEF InvestigatorTypeOK
  <2> QED BY <1>0, <2>2, <2>4 DEF Begun, InvestigatorTypeOK
<1>3. CASE \E m \in Member : Loop(m) \/ InvestigatorFails(m)
  <2>1. PICK m \in Member : Loop(m) \/ InvestigatorFails(m)
    BY <1>3
  <2>2. UNCHANGED <<starts, fallbacks>> /\ raised \subseteq raised'
    BY <2>1 DEF Loop, LoopMoves, Poll, CheckProcessed, CommitOffsets, InvestigatorFails,
                MemberFails, Crash, Expel, DatabaseFails, MarkFails, Raise, Return, GoTo,
                loopVars, investigatorVars
  <2> QED BY <2>2 DEF Begun
<1>4. CASE Groups
  BY <1>1, <1>4, GroupKeepsRecords DEF Groups, investigatorVars
<1>5. CASE \/ \E e \in Event : Accept(e) \/ Closes(e)
           \/ \E p \in Poller : Publisher(p) \/ PublisherFails(p)
           \/ UNCHANGED vars
  BY <1>1, <1>5 DEF Accept, Closes, WorkflowEnds, Publisher, PublisherFails, vars, consumerVars,
                    loopVars, investigatorVars
<1> QED BY <1>2, <1>3, <1>4, <1>5 DEF Next

LEMMA StageMoves ==
    ASSUME DispatchInv, DispatchInv', [Next]_vars, NEW e \in Event
    PROVE  /\ Stage(e)' \in Delivery!Stages
           /\ Stage(e)' = Stage(e) \/ <<Stage(e), Stage(e)'>> \in Delivery!Moves
<1>1. /\ RowMoves(e) /\ LogGrows
      /\ \/ UNCHANGED <<consumerVars, investigatorVars>>
         \/ UNCHANGED <<topicVars, outboxVars>> /\ UNCHANGED log
  BY OutboxMoves
<1>2. \A r : Valid(r) => Valid(r)' /\ EventAt(r)' = EventAt(r)
  BY <1>1, GrowthKeeps DEF DispatchInv, TypeOK, TopicTypeOK
<1>3. Logged(e) => Logged(e)'
  BY <1>1, GrowthKeepsLogged DEF DispatchInv, TypeOK
<1>4. /\ Begun(e) => Logged(e) /\ Begun(e)'
      /\ Begun(e)' => Logged(e)'
  BY InvestigatorMoves DEF DispatchInv, RowInv
<1>5. /\ GoneWrong(e) => Logged(e) /\ GoneWrong(e)'
      /\ GoneWrong(e)' => Logged(e)'
  <2>1. (\A f : GoneWrong(f) => Logged(f))'
    BY GoneWrongLogged, PTL
  <2>2. GoneWrong(e) => GoneWrong(e)'
    BY <1>2, InvestigatorMoves DEF GoneWrong, DispatchInv, RecordsExist
  <2> QED BY <2>1, <2>2, GoneWrongLogged
<1>6. Logged(e)' /\ ~Logged(e) => ~Begun(e)' /\ ~GoneWrong(e)'
  <2>1. CASE UNCHANGED <<consumerVars, investigatorVars>>
    <3>1. Begun(e)' = Begun(e)
      BY <2>1 DEF Begun, investigatorVars
    <3>2. GoneWrong(e)' => GoneWrong(e)
      BY <1>2, <2>1 DEF GoneWrong, DispatchInv, RecordsExist, consumerVars, loopVars
    <3> QED BY <1>4, <1>5, <3>1, <3>2
  <2>2. CASE UNCHANGED log
    BY <2>2 DEF Logged
  <2> QED BY <1>1, <2>1, <2>2
<1>7. /\ row[e] \in {"absent", "pending", "published"} /\ attempts[e] \in Nat
      /\ row'[e] \in {"absent", "pending", "published"} /\ attempts'[e] \in Nat
      /\ row[e] = "absent" => attempts[e] = 0 /\ ~Logged(e)
      /\ row[e] = "published" => Logged(e)
      /\ row'[e] = "published" => Logged(e)'
      /\ row'[e] = "absent" => ~Logged(e)'
  BY OutboxAssumption DEF DispatchInv, TypeOK, OutboxTypeOK, RowInv
<1> USE DEF Delivery!Stages, Delivery!Moves
<1>8. CASE Logged(e)
  <2>1. Stage(e) = (IF Begun(e) THEN "handled" ELSE IF GoneWrong(e) THEN "lost" ELSE "sent")
    BY <1>8 DEF Stage
  <2>2. Stage(e)' = (IF Begun(e)' THEN "handled" ELSE IF GoneWrong(e)' THEN "lost" ELSE "sent")
    BY <1>3, <1>8 DEF Stage
  <2> QED BY <1>4, <1>5, <2>1, <2>2
<1>9. CASE ~Logged(e) /\ Logged(e)'
  <2>1. Stage(e)' = "sent"
    BY <1>6, <1>9 DEF Stage
  <2>2. Stage(e) = OutboxStage(e)
    BY <1>4, <1>5, <1>9 DEF Stage
  <2>3. OutboxStage(e) = "accepted"
    BY <1>1, <1>9 DEF RowMoves, Eligible, OutboxStage
  <2> QED BY <2>1, <2>2, <2>3
<1>10. CASE ~Logged(e) /\ ~Logged(e)'
  <2>1. Stage(e) = OutboxStage(e) /\ Stage(e)' = OutboxStage(e)'
    BY <1>4, <1>5, <1>10 DEF Stage
  <2>2. /\ row[e] \in {"absent", "pending"} /\ row'[e] \in {"absent", "pending"}
    BY <1>7, <1>10
  <2>3. OutboxStage(e) = IF row[e] = "absent" THEN "new" ELSE
                         IF attempts[e] < MaxRetries THEN "accepted" ELSE "dropped"
    BY <2>2 DEF OutboxStage
  <2>4. OutboxStage(e)' = IF row'[e] = "absent" THEN "new" ELSE
                          IF attempts'[e] < MaxRetries THEN "accepted" ELSE "dropped"
    BY <2>2 DEF OutboxStage
  <2> QED BY <1>1, <1>7, <2>1, <2>2, <2>3, <2>4, OutboxAssumption DEF RowMoves
<1> QED BY <1>8, <1>9, <1>10
-----------------------------------------------------------------------------
(* What the offsets passed.                                                *)

(* An investigation begins before its mark, and its mark or its commit says *)
(* that it began.                                                          *)
Past == {"fallback", "mark", "commit"}

BegunInv ==
    /\ \A e \in processed : Begun(e)
    /\ \A m \in Member : pc[m] \in Past => Begun(Handling(m))

(* Records a group may leave behind.                                       *)
Passable == {r \in Record : Valid(r) /\ (Begun(EventAt(r)) \/ r \in raised)}

PassedInv == BegunInv /\ Offsets(Passable)

LEMMA InitPassedInv == Init => PassedInv
<1> SUFFICES ASSUME Init PROVE PassedInv
  OBVIOUS
<1>1. BegunInv
  BY DEF Init, ConsumerInit, BegunInv, Past
<1>2. /\ \A g \in Group, p \in Partition : 1 .. committed[g][p] = {}
      /\ \A m \in Member : mode[m] = "down"
  BY DEF Init, ConsumerInit, FromStart
<1>3. Offsets(Passable)
  BY <1>2 DEF Offsets
<1> QED BY <1>1, <1>3 DEF PassedInv

\* What is begun stays begun, and a record stays at its offset.
LEMMA PassableGrows ==
    ASSUME DispatchInv, DispatchInv', [Next]_vars
    PROVE  /\ Passable \subseteq Passable' /\ raised' \subseteq Passable'
           /\ \A e \in Event : Begun(e) => Begun(e)'
           /\ \A m \in Member : pc[m] # "poll" =>
                 /\ Handling(m) \in Event
                 /\ current'[m] = current[m] => Handling(m)' = Handling(m)
<1>1. raised \subseteq raised' /\ \A e \in Event : Begun(e) => Begun(e)'
  BY InvestigatorMoves
<1>2. /\ TopicTypeOK /\ KeysInPlace /\ RecordsExist /\ ConsumerTypeOK
      /\ TopicTypeOK' /\ RecordsExist' /\ ConsumerTypeOK'
  BY DEF DispatchInv, TypeOK
<1>3. \A r : Valid(r) => Valid(r)' /\ EventAt(r)' = EventAt(r) /\ EventAt(r) \in Event
  <2> SUFFICES ASSUME NEW r, Valid(r)
               PROVE  Valid(r)' /\ EventAt(r)' = EventAt(r) /\ EventAt(r) \in Event
    OBVIOUS
  <2>1. EventAt(r) \in Event
    BY <1>2, ValidEvent
  <2>2. LogGrows
    BY <2>1, OutboxMoves
  <2> QED BY <1>2, <2>1, <2>2, GrowthKeeps DEF TopicTypeOK
<1>4. Passable \subseteq Passable'
  BY <1>1, <1>3 DEF Passable
<1>5. raised' \subseteq Passable'
  BY <1>2 DEF Passable, ConsumerTypeOK, RecordsExist
<1>6. \A m \in Member : pc[m] # "poll" =>
         /\ Handling(m) \in Event
         /\ current'[m] = current[m] => Handling(m)' = Handling(m)
  BY <1>2, <1>3 DEF RecordsExist, Handling, EventAt
<1> QED BY <1>1, <1>4, <1>5, <1>6

\* A member comes to "fallback", "mark" or "commit" only with an investigation
\* that has begun, its own or a marked one.
LEMMA NextBegunInv ==
    ASSUME DispatchInv, DispatchInv', BegunInv, [Next]_vars
    PROVE  BegunInv'
<1>0. /\ \A e \in Event : Begun(e) => Begun(e)'
      /\ \A m \in Member : pc[m] # "poll" =>
            /\ Handling(m) \in Event
            /\ current'[m] = current[m] => Handling(m)' = Handling(m)
      /\ ConsumerTypeOK /\ InvestigatorTypeOK
  BY PassableGrows DEF DispatchInv, TypeOK
<1> SUFFICES /\ \A e \in processed' : e \in processed \/ Begun(e)'
             /\ \A n \in Member : pc'[n] \in Past =>
                   /\ pc[n] # "poll" /\ current'[n] = current[n]
                   /\ pc[n] \in Past \/ Handling(n) \in processed \/ Begun(Handling(n))'
  BY <1>0 DEF BegunInv, ConsumerTypeOK, Past
<1>1. CASE /\ UNCHANGED <<pc, current, processed>>
  BY <1>1 DEF Past
<1>2. CASE \/ \E e \in Event : Accept(e) \/ Closes(e)
           \/ \E p \in Poller : Publisher(p) \/ PublisherFails(p)
           \/ UNCHANGED vars
  BY <1>1, <1>2 DEF Accept, Closes, WorkflowEnds, Publisher, PublisherFails, vars, consumerVars,
                    loopVars
<1>3. CASE Groups
  BY <1>1, <1>3, GroupKeepsRecords DEF Groups
<1>4. CASE \E m \in Member : Loop(m)
  <2>1. PICK m \in Member : LoopMoves(m)
    BY <1>4 DEF Loop
  <2>2. UNCHANGED processed
    BY <2>1 DEF LoopMoves, Poll, CheckProcessed, CommitOffsets
  <2>3. \A n \in Member \ {m} : pc'[n] = pc[n] /\ current'[n] = current[n]
    BY <1>0, <2>1 DEF LoopMoves, Poll, CheckProcessed, CommitOffsets, Return, GoTo, ConsumerTypeOK
  <2>4. pc'[m] \in Past =>
           pc[m] # "poll" /\ current'[m] = current[m] /\ Handling(m) \in processed
    BY <1>0, <2>1, InvestigatorAssumption
       DEF LoopMoves, Poll, CheckProcessed, CommitOffsets, At, Return, GoTo, Handling,
           ConsumerTypeOK, Past
  <2> QED BY <2>2, <2>3, <2>4 DEF Past
<1>5. CASE \E m \in Member : Handler(m)
  <2>1. PICK m \in Member : handle_incident_created(m)
    BY <1>5 DEF Handler
  <2>2. PICK h : h = Handling(m) /\ pc[m] # "poll" /\ h \in Event
    BY <1>0, <2>1 DEF handle_incident_created, HandleIncidentCreated, StartWorkflow, StartRaises,
                      FallbackEnds, MarkProcessed, At
  <2>3. UNCHANGED current /\ Handling(m)' = h /\ \A n \in Member \ {m} : pc'[n] = pc[n]
    <3>1. UNCHANGED current /\ \A n \in Member \ {m} : pc'[n] = pc[n]
      BY <1>0, <2>1 DEF handle_incident_created, HandleIncidentCreated, StartWorkflow, StartRaises,
                        FallbackEnds, MarkProcessed, Return, GoTo, ConsumerTypeOK
    <3> QED BY <1>0, <2>2, <3>1
  <2>4. processed' = processed \/ (processed' = processed \cup {h} /\ pc[m] = "mark")
    BY <2>1, <2>2 DEF handle_incident_created, HandleIncidentCreated, StartWorkflow, StartRaises,
                      FallbackEnds, MarkProcessed, At
  <2>5. pc'[m] \in Past => pc[m] \in Past \/ h \in processed \/ Begun(h)'
    <3>1. CASE HandleIncidentCreated(m)
      BY <1>0, <2>2, <3>1 DEF HandleIncidentCreated, Return, GoTo, ConsumerTypeOK, Past
    <3>2. CASE StartWorkflow(m)
      <4>1. starts' = [starts EXCEPT ![h] = @ + 1] /\ fallbacks' = fallbacks
        BY <2>2, <3>2 DEF StartWorkflow, Started
      <4> QED BY <1>0, <2>2, <4>1 DEF InvestigatorTypeOK, Begun
    <3>3. CASE StartRaises(m)
      <4>1. /\ fallbacks' = [fallbacks EXCEPT ![h] = @ + 1]
            /\ starts' = starts \/ starts' = [starts EXCEPT ![h] = @ + 1]
        BY <2>2, <3>3 DEF StartRaises, Started
      <4>2. /\ fallbacks'[h] = fallbacks[h] + 1 /\ fallbacks[h] \in Nat /\ starts'[h] \in Nat
        BY <1>0, <2>2, <4>1 DEF InvestigatorTypeOK
      <4> QED BY <4>2 DEF Begun
    <3>4. CASE FallbackEnds(m) \/ MarkProcessed(m)
      BY <3>4 DEF FallbackEnds, MarkProcessed, At, Past
    <3> QED BY <2>1, <3>1, <3>2, <3>3, <3>4 DEF handle_incident_created
  <2>6. pc[m] = "mark" => Begun(h)'
    BY <1>0, <2>2 DEF BegunInv, Past
  <2> QED BY <2>2, <2>3, <2>4, <2>5, <2>6 DEF Past
<1>6. CASE \E m \in Member : InvestigatorFails(m)
  <2>1. PICK m \in Member : InvestigatorFails(m)
    BY <1>6
  <2>2. UNCHANGED processed
    BY <2>1 DEF InvestigatorFails, MemberFails, Crash, Expel, DatabaseFails, MarkFails
  <2>3. \A n \in Member \ {m} : pc'[n] = pc[n] /\ current'[n] = current[n]
    BY <1>0, <2>1 DEF InvestigatorFails, MemberFails, Crash, Expel, DatabaseFails, MarkFails,
                      Raise, Return, GoTo, loopVars, ConsumerTypeOK
  <2>4. pc'[m] \in Past => pc[m] \in Past /\ current'[m] = current[m]
    BY <1>0, <2>1 DEF InvestigatorFails, MemberFails, Crash, Expel, DatabaseFails, MarkFails,
                      Raise, Return, GoTo, At, loopVars, ConsumerTypeOK, Past
  <2> QED BY <2>2, <2>3, <2>4 DEF Past
<1> QED BY <1>2, <1>3, <1>4, <1>5, <1>6 DEF Next

LEMMA NextPassedInv ==
    DispatchInv /\ DispatchInv' /\ PassedInv /\ [Next]_vars => PassedInv'
<1> SUFFICES ASSUME DispatchInv, DispatchInv', PassedInv, [Next]_vars PROVE PassedInv'
  OBVIOUS
<1>1. BegunInv'
  BY NextBegunInv DEF PassedInv
<1> PICK D, E : D = Passable /\ E = Passable'
  OBVIOUS
<1>2. /\ ConsumerTypeOK /\ RecordsExist /\ BegunInv /\ Offsets(D) /\ D \subseteq E
      /\ raised' \subseteq E
  BY PassableGrows DEF DispatchInv, TypeOK, PassedInv, Offsets
<1> SUFFICES Offsets(E)'
  BY <1>1 DEF PassedInv, Offsets
<1>3. CASE \/ \E e \in Event : Accept(e) \/ Closes(e)
           \/ \E p \in Poller : Publisher(p) \/ PublisherFails(p)
           \/ UNCHANGED vars
  <2>1. UNCHANGED <<committed, mode, assigned, position, pc, current>> /\ UNCHANGED committed
    BY <1>3 DEF Accept, Closes, WorkflowEnds, Publisher, PublisherFails, vars, consumerVars,
                groupVars, loopVars
  <2> QED BY <1>2, <2>1, OffsetsKept
<1>4. CASE Groups
  BY <1>2, <1>4, GroupOffsets DEF Groups
<1>5. ASSUME NEW m \in Member, Loop(m) PROVE Offsets(E)'
  <2>1. pc[m] = "commit" => current[m] \in D
    BY <1>2 DEF BegunInv, Past, RecordsExist, Handling, Passable, Valid
  <2>2. pc[m] = "commit" => current[m] \in E
    BY <1>2, <2>1
  <2> QED BY <1>2, <1>5, <2>2, LoopOffsets DEF Loop
<1>6. ASSUME NEW m \in Member, Handler(m) PROVE Offsets(E)'
  <2>1. UNCHANGED groupVars /\ \E place : place # "poll" /\ GoTo(m, place)
    BY <1>6 DEF Handler, handle_incident_created, HandleIncidentCreated, StartWorkflow,
                StartRaises, FallbackEnds, MarkProcessed, Return
  <2> QED BY <1>2, <2>1, HandlerOffsets
<1>7. ASSUME NEW m \in Member, InvestigatorFails(m) PROVE Offsets(E)'
  <2>1. CASE MemberFails(m)
    BY <1>2, <2>1, FailOffsets
  <2>2. CASE MarkFails(m) /\ UNCHANGED groupVars
    <3>1. \E place : place # "poll" /\ GoTo(m, place)
      BY <2>2 DEF MarkFails, Return
    <3> QED BY <1>2, <2>2, <3>1, HandlerOffsets
  <2> QED BY <1>7, <2>1, <2>2 DEF InvestigatorFails
<1> QED BY <1>3, <1>4, <1>5, <1>6, <1>7 DEF Next
-----------------------------------------------------------------------------
(* The size of a transaction.                                              *)

(* However many rows wait, a publisher holds no more locks than one batch. *)
BatchInv ==
    \A p \in Poller :
        IsFiniteSet(Held(p)) /\ Cardinality(Held(p)) <= MaxBatchSize

\* Counting the older ones numbers a set of naturals in its order.
LEMMA OlderAreFewer ==
    ASSUME NEW S \in SUBSET Nat
    PROVE  /\ \A e \in S : /\ IsFiniteSet({f \in S : f < e})
                           /\ Cardinality({f \in S : f < e}) \in Nat
           /\ \A d, e \in S :
                 d < e => Cardinality({f \in S : f < d}) < Cardinality({f \in S : f < e})
<1> DEFINE Older(e) == {f \in S : f < e}
<1>1. ASSUME NEW e \in S PROVE IsFiniteSet(Older(e)) /\ Cardinality(Older(e)) \in Nat
  <2>1. e \in Nat /\ IsFiniteSet(0 .. e)
    BY FS_Interval
  <2>2. ASSUME NEW f \in S, f < e PROVE f \in 0 .. e
    <3>1. f \in Nat
      OBVIOUS
    <3> QED BY ONLY <2>1, <2>2, <3>1
  <2>3. Older(e) \subseteq 0 .. e
    BY <2>2, Zenon
  <2>4. IsFiniteSet(Older(e))
    BY <2>1, <2>3, FS_Subset
  <2> QED BY <2>4, FS_CardinalityType
<1>2. ASSUME NEW d \in S, NEW e \in S, d < e
      PROVE  Cardinality(Older(d)) < Cardinality(Older(e))
  <2>0. d \in Nat /\ e \in Nat
    OBVIOUS
  <2>1. ASSUME NEW f \in S, f < d PROVE f < e
    <3>1. f \in Nat
      OBVIOUS
    <3> QED BY ONLY <1>2, <2>0, <2>1, <3>1
  <2>2. Older(d) \subseteq Older(e)
    BY <2>1, Zenon
  <2>3. d \in Older(e) /\ d \notin Older(d)
    BY <1>2, <2>0
  <2>4. /\ IsFiniteSet(Older(e)) /\ IsFiniteSet(Older(d))
        /\ Cardinality(Older(e)) \in Nat /\ Cardinality(Older(d)) \in Nat
    BY <1>1
  <2> HIDE DEF Older
  <2>5. /\ Cardinality(Older(d)) <= Cardinality(Older(e))
        /\ Cardinality(Older(d)) = Cardinality(Older(e)) => Older(d) = Older(e)
    BY <2>2, <2>4, FS_Subset
  <2> QED BY <2>3, <2>4, <2>5
<1> QED BY <1>1, <1>2

\* LIMIT: so no more than n are among the oldest n.
LEMMA OldestAreFew ==
    ASSUME NEW S \in SUBSET Nat, NEW n \in Nat
    PROVE  LET T == {e \in S : Cardinality({f \in S : f < e}) < n}
           IN  IsFiniteSet(T) /\ Cardinality(T) <= n
<1> DEFINE Rank(e) == Cardinality({f \in S : f < e})
           T == {e \in S : Rank(e) < n}
           rank == [e \in T |-> Rank(e)]
<1>1. \A e \in S : e \in Nat /\ Rank(e) \in Nat
  BY OlderAreFewer
<1>2. \A d, e \in S : d < e => Rank(d) < Rank(e)
  BY OlderAreFewer
<1> HIDE DEF Rank
<1>3. rank \in [T -> 0 .. (n - 1)]
  <2>1. ASSUME NEW e \in T PROVE Rank(e) \in 0 .. (n - 1)
    <3>1. Rank(e) \in Nat /\ Rank(e) < n
      BY <1>1
    <3> QED BY ONLY <3>1, n \in Nat
  <2> QED BY <2>1
<1>4. ASSUME NEW d \in T, NEW e \in T, rank[d] = rank[e] PROVE d = e
  <2>1. d \in S /\ e \in S /\ Rank(d) = Rank(e)
    BY <1>4
  <2>2. ~(d < e) /\ ~(e < d)
    BY <1>1, <1>2, <2>1
  <2> QED BY <1>1, <2>1, <2>2
<1>5. rank \in Injection(T, 0 .. (n - 1))
  BY <1>3, <1>4 DEF Injection, IsInjective
<1>6. IsFiniteSet(0 .. (n - 1)) /\ Cardinality(0 .. (n - 1)) = n
  BY FS_Interval
<1> HIDE DEF rank, T
<1>7. IsFiniteSet(T) /\ Cardinality(T) <= n
  BY <1>5, <1>6, FS_Injection
<1> QED BY <1>7 DEF T, Rank

LEMMA InitBatchInv == Init => BatchInv
<1>1. Init => \A p \in Poller : Held(p) = {}
  BY DEF Init, OutboxInit, Held
<1> QED BY <1>1, FS_EmptySet, OutboxAssumption DEF BatchInv

\* Only the SELECT locks rows.  The loop moves them about, and the end of the
\* transaction, good or bad, gives them back.
LEMMA HeldMoves ==
    ASSUME DispatchInv, [Next]_vars, NEW q \in Poller
    PROVE  \/ Held(q)' \subseteq Held(q)
           \/ SelectBatch(q) /\ Held(q) = {} /\ Held(q)' = batch'[q]
<1>0. OutboxTypeOK /\ PollerInv
  BY DEF DispatchInv, TypeOK
<1>1. CASE UNCHANGED <<batch, sent, missed>>
  BY <1>1 DEF Held
<1>2. ASSUME NEW p \in Poller, SelectBatch(p)
      PROVE  \/ Held(q)' \subseteq Held(q)
             \/ SelectBatch(q) /\ Held(q) = {} /\ Held(q)' = batch'[q]
  <2>1. PICK new : batch' = [batch EXCEPT ![p] = new] /\ ~polling[p]
                   /\ UNCHANGED <<sent, missed>>
    BY <1>2 DEF SelectBatch
  <2>2. CASE q = p
    BY <1>0, <1>2, <2>1, <2>2 DEF PollerInv, Held
  <2>3. CASE q # p
    BY <1>0, <2>1, <2>3 DEF OutboxTypeOK, Held
  <2> QED BY <2>2, <2>3
<1>3. ASSUME NEW p \in Poller, Send(p) PROVE Held(q)' \subseteq Held(q)
  <2>1. PICK e \in Event :
          /\ e \in batch[p] /\ batch' = [batch EXCEPT ![p] = @ \ {e}]
          /\ \/ sent' = [sent EXCEPT ![p] = @ \cup {e}] /\ UNCHANGED missed
             \/ missed' = [missed EXCEPT ![p] = @ \cup {e}] /\ UNCHANGED sent
    BY <1>3 DEF Send, Oldest
  <2> QED BY <1>0, <2>1 DEF OutboxTypeOK, Held
<1>4. ASSUME NEW p \in Poller, Release(p) PROVE Held(q)' \subseteq Held(q)
  BY <1>0, <1>4, ReleaseHeld
<1> QED
  BY <1>1, <1>2, <1>3, <1>4
     DEF Next, vars, outboxVars, Accept, RowInserted, Closes, Publisher, PollerStep,
         CommitBatch, PublisherFails, PollFails, Groups, Loop, Handler, InvestigatorFails

LEMMA NextBatchInv == DispatchInv /\ BatchInv /\ [Next]_vars => BatchInv'
<1> SUFFICES ASSUME DispatchInv, BatchInv, [Next]_vars, NEW p \in Poller
             PROVE  IsFiniteSet(Held(p)') /\ Cardinality(Held(p)') <= MaxBatchSize
  BY DEF BatchInv
<1>1. CASE Held(p)' \subseteq Held(p)
  <2>1. IsFiniteSet(Held(p)) /\ Cardinality(Held(p)) <= MaxBatchSize
    BY DEF BatchInv
  <2>2. /\ IsFiniteSet(Held(p)') /\ Cardinality(Held(p)') <= Cardinality(Held(p))
        /\ Cardinality(Held(p)') \in Nat /\ Cardinality(Held(p)) \in Nat
    BY <1>1, <2>1, FS_Subset, FS_CardinalityType
  <2> QED BY <2>1, <2>2, OutboxAssumption
<1>2. CASE SelectBatch(p) /\ Held(p)' = batch'[p]
  <2>1. PICK free \in SUBSET Event :
          batch' = [batch EXCEPT ![p] =
                      {e \in free : Cardinality({f \in free : f < e}) < MaxBatchSize}]
    BY <1>2 DEF SelectBatch
  <2>2. batch'[p] = {e \in free : Cardinality({f \in free : f < e}) < MaxBatchSize}
    BY <2>1 DEF DispatchInv, TypeOK, OutboxTypeOK
  <2>3. free \in SUBSET Nat /\ MaxBatchSize \in Nat
    BY OutboxAssumption
  <2> QED BY <1>2, <2>2, <2>3, OldestAreFew
<1> QED BY <1>1, <1>2, HeldMoves
-----------------------------------------------------------------------------
(* The theorems.                                                           *)

\* DispatchInv holds in every reachable state.
THEOREM SpecDispatchInv == Spec => []DispatchInv
<1>1. Init => DispatchInv
  BY InitDispatchInv
<1>2. DispatchInv /\ [Next]_vars => DispatchInv'
  BY NextDispatchInv
<1> QED BY <1>1, <1>2, PTL DEF Spec

\* Every variable of publishers, topic and investigators keeps its type.
THEOREM SpecTypeOK == Spec => []TypeOK
<1>1. DispatchInv => TypeOK
  BY DEF DispatchInv
<1> QED BY <1>1, SpecDispatchInv, PTL

\* An event is in the topic once, and once more for each lost acknowledgement
\* or dead publisher at the most.
THEOREM SpecDuplicatesArePaidFor == Spec => []DuplicatesArePaidFor
<1>1. DispatchInv => DuplicatesArePaidFor
  <2> SUFFICES ASSUME DispatchInv, NEW e \in Event
               PROVE  Cardinality(Copies(e)) <= 1 + sendFaults
    BY DEF DuplicatesArePaidFor
  <2>1. Cardinality(Copies(e)) \in Nat /\ sendFaults \in Nat
    BY CopiesFinite DEF DispatchInv, TypeOK, TopicTypeOK
  <2> QED BY <2>1 DEF DispatchInv, CopiesInv
<1> QED BY <1>1, SpecDispatchInv, PTL

\* An incident is investigated once by each instance at the most, and once more
\* for each failure.
THEOREM SpecInvestigationsAreBounded == Spec => []InvestigationsAreBounded
<1>1. DispatchInv => InvestigationsAreBounded
  <2> SUFFICES ASSUME DispatchInv, NEW e \in Event
               PROVE  starts[e] + fallbacks[e] <= Cardinality(Member) + consumerFaults
    BY DEF InvestigationsAreBounded
  <2>1. /\ starts[e] \in Nat /\ fallbacks[e] \in Nat /\ consumerFaults \in Nat
        /\ Cardinality(Member) \in Nat /\ Cardinality(Starting(e)) \in Nat
        /\ Cardinality(Running(e)) \in Nat
        /\ Cardinality(Running(e)) <= Cardinality(Member)
    BY MembersFinite, ConsumerAssumption
       DEF DispatchInv, TypeOK, InvestigatorTypeOK, ConsumerTypeOK
  <2>2. CASE e \in processed
    BY <2>1, <2>2 DEF DispatchInv, RunsInv
  <2>3. CASE e \notin processed
    BY <2>1, <2>3 DEF DispatchInv, RunsInv
  <2> QED BY <2>2, <2>3
<1> QED BY <1>1, SpecDispatchInv, PTL

\* No committed offset of an investigator passes an incident nobody began to
\* investigate, unless its handler raised.
THEOREM SpecPassedIsInvestigated == Spec => []PassedIsInvestigated
<1>1. PassedInv => PassedIsInvestigated
  <2> SUFFICES ASSUME PassedInv, NEW g \in Group, NEW p \in Partition,
                      NEW o \in 1 .. committed[g][p]
               PROVE  /\ o <= Len(log[p])
                      /\ \/ Begun(EventAt([partition |-> p, offset |-> o]))
                         \/ [partition |-> p, offset |-> o] \in raised
    BY DEF PassedIsInvestigated
  <2>1. RecordAt(p, o) \in Passable
    BY DEF PassedInv, Offsets
  <2> QED BY <2>1 DEF Passable, Valid, RecordAt
<1> QED BY <1>1, InitPassedInv, NextPassedInv, SpecDispatchInv, PTL DEF Spec

\* Whatever waits, fails or dies, the transaction of a publisher has at most
\* MAX_BATCH_SIZE rows locked against the others.
THEOREM SpecBatchIsLimited ==
    Spec => [](\A p \in Poller : Cardinality(Held(p)) <= MaxBatchSize)
<1>1. BatchInv => \A p \in Poller : Cardinality(Held(p)) <= MaxBatchSize
  BY DEF BatchInv
<1> QED BY <1>1, InitBatchInv, NextBatchInv, SpecDispatchInv, PTL DEF Spec

\* What publishers, topic and investigators do to an event is what EventDelivery
\* allows: nothing is investigated that was not committed, nothing is published
\* that is not in the topic, nothing dropped is ever sent.
THEOREM SpecImplementsDelivery == Spec => ImplementsDelivery
<1>1. Init => Delivery!Init
  <2> SUFFICES ASSUME Init, NEW e \in Event PROVE Stage(e) = "new"
    BY DEF Delivery!Init
  <2>1. ~Begun(e)
    BY DEF Init, InvestigatorInit, Begun
  <2>2. ~GoneWrong(e)
    BY DEF Init, ConsumerInit, GoneWrong
  <2>3. ~Logged(e)
    BY TopicAssumption DEF Init, TopicInit, Logged
  <2>4. OutboxStage(e) = "new"
    BY DEF Init, OutboxInit, OutboxStage
  <2> QED BY <2>1, <2>2, <2>3, <2>4 DEF Stage
<1>2. DispatchInv /\ DispatchInv' /\ [Next]_vars
         => [Delivery!Next]_[e \in Event |-> Stage(e)]
  <2> SUFFICES ASSUME DispatchInv, DispatchInv', [Next]_vars
               PROVE  Delivery!Next
    OBVIOUS
  <2> QED BY StageMoves DEF Delivery!Next
<1> QED BY <1>1, <1>2, SpecDispatchInv, PTL DEF Spec, ImplementsDelivery, Delivery!Spec
=============================================================================
