----------------------------- MODULE EventDelivery -----------------------------
(***************************************************************************)
(* What the outbox, the topic and the investigators promise together about *)
(* an incidents.created event: it moves along these stages and no others.  *)
(*   new        no transaction with it has committed                       *)
(*   accepted   it is in the outbox                                        *)
(*   sent       it is in the topic                                         *)
(*   dropped    it ran out of attempts and will never be in the topic      *)
(*   lost       the loop caught an exception and went on without it        *)
(*   handled    an investigation of its incident began                     *)
(***************************************************************************)
CONSTANT Event
VARIABLE stage

Stages == {"new", "accepted", "sent", "dropped", "lost", "handled"}

\* A lost record may be read again, after a restart or by another instance.
Moves == {<<"new", "accepted">>, <<"accepted", "sent">>, <<"accepted", "dropped">>,
          <<"sent", "lost">>, <<"sent", "handled">>, <<"lost", "handled">>}

Init == stage = [e \in Event |-> "new"]

\* One transaction may decide about several events.
Next ==
    /\ stage' \in [Event -> Stages]
    /\ \A e \in Event : stage'[e] = stage[e] \/ <<stage[e], stage'[e]>> \in Moves

Spec == Init /\ [][Next]_stage
=============================================================================
