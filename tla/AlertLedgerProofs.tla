--------------------------- MODULE AlertLedgerProofs ---------------------------
(***************************************************************************)
(* What follows from the books of AlertLedger alone, for whatever keeps    *)
(* them: its modules of proofs instantiate these theorems.                 *)
(***************************************************************************)
EXTENDS AlertLedger, SequenceTheorems, TLAPS
-----------------------------------------------------------------------------
Announcement == [topic: {"incidents.created", "incidents.updated"}, incident: 1 .. opened]

\* Announcement k opens incident i, and all others about i come after it.
OpensWith(i, k) ==
    /\ announced[k] = [topic |-> "incidents.created", incident |-> i]
    /\ \A l \in DOMAIN announced :
          announced[l].incident = i /\ l # k
             => l > k /\ announced[l].topic = "incidents.updated"

LedgerInv ==
    /\ opened \in Nat
    /\ announced \in Seq(Announcement)
    /\ \A i \in 1 .. opened :
          (\E f \in filed : f.incident = i) /\ \E k \in DOMAIN announced : OpensWith(i, k)
    /\ \A f \in filed : f.event \notin repeated
    /\ \A f, g \in filed : f.event = g.event => f = g

LEMMA AppendedLast ==
    ASSUME NEW S, NEW s \in Seq(S), NEW x, NEW t, t = Append(s, x)
    PROVE  /\ DOMAIN s \subseteq Nat /\ Len(s) + 1 \notin DOMAIN s
           /\ \A k \in DOMAIN s : k < Len(s) + 1
           /\ DOMAIN t = DOMAIN s \cup {Len(s) + 1}
           /\ \A k \in DOMAIN s : t[k] = s[k]
           /\ t[Len(s) + 1] = x
OBVIOUS

LEMMA FileKeeps ==
    ASSUME LedgerInv, NEW e, NEW i, File(e, i)
    PROVE  LedgerInv'
<1> PICK n : n = Len(announced) + 1
  OBVIOUS
<1>1. PICK topic :
        /\ announced' = Append(announced, [topic |-> topic, incident |-> i])
        /\ \/ topic = "incidents.created" /\ i = opened + 1 /\ opened' = i
           \/ topic = "incidents.updated" /\ i \in 1 .. opened /\ opened' = opened
  BY DEF File
<1>2. /\ Undecided(e) /\ UNCHANGED repeated
      /\ filed' = filed \cup {[event |-> e, incident |-> i]}
  BY DEF File
<1>3. opened' \in Nat /\ opened <= opened' /\ i \in 1 .. opened' /\ opened \in Nat
  BY <1>1 DEF LedgerInv
<1>4. announced \in Seq(Announcement') /\ [topic |-> topic, incident |-> i] \in Announcement'
  <2>1. Announcement \subseteq Announcement'
    BY <1>3 DEF Announcement
  <2>2. [topic |-> topic, incident |-> i] \in Announcement'
    BY <1>1, <1>3 DEF Announcement
  <2> QED BY <2>1, <2>2 DEF LedgerInv
<1>5. announced' \in Seq(Announcement')
  BY <1>1, <1>4, AppendProperties
<1>6. /\ n \notin DOMAIN announced /\ \A k \in DOMAIN announced : k < n
      /\ DOMAIN announced' = DOMAIN announced \cup {n}
      /\ \A k \in DOMAIN announced : announced'[k] = announced[k]
      /\ announced'[n] = [topic |-> topic, incident |-> i]
      /\ DOMAIN announced \subseteq Nat
  BY <1>1, <1>4, AppendedLast
<1>7. \A k \in DOMAIN announced : announced[k].incident \in 1 .. opened
  <2>1. \A k \in DOMAIN announced : announced[k] \in Announcement
    BY DEF LedgerInv
  <2> QED BY <2>1 DEF Announcement
<1>8. ASSUME NEW j \in 1 .. opened'
      PROVE  (\E f \in filed' : f.incident = j) /\ \E k \in DOMAIN announced' : OpensWith(j, k)'
  <2>1. CASE j \in 1 .. opened
    <3>1. PICK f \in filed : f.incident = j
      BY <2>1 DEF LedgerInv
    <3>2. PICK k \in DOMAIN announced : OpensWith(j, k)
      BY <2>1 DEF LedgerInv
    <3>3. i = j => topic = "incidents.updated"
      BY <1>1, <1>3, <2>1
    <3>4. announced'[k] = [topic |-> "incidents.created", incident |-> j]
      BY <1>6, <3>2 DEF OpensWith
    <3>5. ASSUME NEW l \in DOMAIN announced', announced'[l].incident = j, l # k
          PROVE  l > k /\ announced'[l].topic = "incidents.updated"
      <4>1. CASE l \in DOMAIN announced
        BY <1>6, <3>2, <3>5, <4>1 DEF OpensWith
      <4>2. CASE l = n
        <5>1. j = i /\ announced'[n].topic = topic
          BY <1>6, <3>5, <4>2
        <5> QED BY <1>6, <3>2, <3>3, <4>2, <5>1
      <4> QED BY <1>6, <3>5, <4>1, <4>2
    <3>6. OpensWith(j, k)'
      BY <3>4, <3>5 DEF OpensWith
    <3> QED BY <1>2, <1>6, <3>1, <3>2, <3>6
  <2>2. CASE j \notin 1 .. opened
    <3>1. j = i /\ topic = "incidents.created" /\ i = opened + 1
      BY <1>1, <1>3, <1>8, <2>2
    <3>2. \A k \in DOMAIN announced : announced[k].incident # i
      BY <1>3, <1>7, <3>1
    <3>3. announced'[n] = [topic |-> "incidents.created", incident |-> i]
      BY <1>6, <3>1
    <3>4. \A l \in DOMAIN announced' : announced'[l].incident = i => l = n
      BY <1>6, <3>2
    <3>5. OpensWith(i, n)'
      BY <3>3, <3>4 DEF OpensWith
    <3>6. [event |-> e, incident |-> i] \in filed'
      BY <1>2
    <3> QED BY <1>6, <3>1, <3>5, <3>6
  <2> QED BY <2>1, <2>2
<1>9. /\ \A f \in filed' : f.event \notin repeated'
      /\ \A f, g \in filed' : f.event = g.event => f = g
  BY <1>2 DEF Undecided, LedgerInv
<1> QED BY <1>3, <1>5, <1>8, <1>9 DEF LedgerInv

LEMMA RepeatKeeps ==
    ASSUME LedgerInv, NEW e, Repeat(e)
    PROVE  LedgerInv'
<1>1. /\ Undecided(e) /\ repeated' = repeated \cup {e}
      /\ UNCHANGED <<filed, opened, announced>>
  BY DEF Repeat
<1>2. Announcement' = Announcement /\ \A i, k : OpensWith(i, k)' <=> OpensWith(i, k)
  BY <1>1 DEF Announcement, OpensWith
<1>3. \A f \in filed' : f.event \notin repeated'
  BY <1>1 DEF Undecided, LedgerInv
<1> QED BY <1>1, <1>2, <1>3 DEF LedgerInv

LEMMA LedgerInvInductive == LedgerInv /\ [LedgerNext]_ledgerVars => LedgerInv'
<1>1. LedgerInv /\ UNCHANGED ledgerVars => LedgerInv'
  BY DEF LedgerInv, ledgerVars, Announcement, OpensWith
<1> QED BY <1>1, FileKeeps, RepeatKeeps DEF LedgerNext
-----------------------------------------------------------------------------
\* No event is filed twice, or filed and taken for a repetition; and what is
\* told of incidents is of those that were opened.
THEOREM LedgerIsSound == LedgerSpec => []LedgerInv
<1>1. LedgerInit => LedgerInv
  <2> SUFFICES ASSUME LedgerInit PROVE LedgerInv
    OBVIOUS
  <2>1. opened = 0 /\ filed = {} /\ announced = <<>>
    BY DEF LedgerInit
  <2> QED BY <2>1 DEF LedgerInv
<1> QED BY <1>1, LedgerInvInductive, PTL DEF LedgerSpec

\* Each incident has an alert, and is announced as created once and first.
THEOREM LedgerAnnouncesFirst == LedgerSpec => []IncidentsAnnounced
<1>1. LedgerInv => IncidentsAnnounced
  BY DEF LedgerInv, OpensWith, IncidentsAnnounced
<1> QED BY <1>1, LedgerIsSound, PTL
=============================================================================
