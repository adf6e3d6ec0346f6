---------------------------- MODULE MCGameTable ----------------------------
(***************************************************************************)
(* The table with a few real cards, analysed and searched by the models of *)
(* the card library, and the deals on which TLC plays.                     *)
(***************************************************************************)
EXTENDS GameTable, Sequences, TLC

C == INSTANCE CardFind

Rules == [gameType |-> 0, fourdaithree |-> FALSE, threeAbomb |-> FALSE]

Set(s) == {s[i] : i \in DOMAIN s}
FirstOf(results) == IF results = <<>> THEN {} ELSE Set(results[1])

(* The answers of the library for all hands of the deals, worked out once. *)
KindTable == LET Of(S) == C!Analysis(S, Rules).type IN [S \in Hands |-> Of(S)]
RankTable == LET Of(S) == C!Analysis(S, Rules).face IN [S \in Hands |-> Of(S)]
GroupsTable == LET Of(S) == C!Triples(S) IN [S \in Hands |-> Of(S)]
TipTable ==
  LET Finds(l, hand) == C!Tip(l, hand, Rules) # <<>> IN [l, hand \in Hands |-> Finds(l, hand)]
FollowTable ==
  LET First(type, l, hand) ==
        FirstOf(C!Find([C!Analysis(l, Rules) EXCEPT !.type = type], hand, FALSE))
  IN [type \in CardTypes, l, hand \in Hands |-> First(type, l, hand)]
LeadTable ==
  LET Opens(hand) == IF hand = {} THEN {} ELSE Set(C!Robot(hand)) IN [hand \in Hands |-> Opens(hand)]

CONSTANTS Kinds, Ranks, GroupCounts, Tips, Follows, Leads

MCKind(S) == Kinds[S]
MCRank(S) == Ranks[S]
MCTripleGroups(S) == GroupCounts[S]
MCHasTip(l, hand) == Tips[l, hand]
MCAutoFollow(type, l, hand) == Follows[type, l, hand]
MCAutoLead(hand) == Leads[hand]

Faces(f, suits) == {C!CardOf(f, s) : s \in suits}

MCOpeningCard == C!SpadesThree
MCBirdCard == C!CardOf(10, 2)

Deal2(a, b) == (0 :> a) @@ (1 :> b)
Deal3(a, b, c) == Deal2(a, b) @@ (2 :> c)

(* Three players: singles and pairs for whom either of two seats opens,    *)
(* and a bomb, which beats and ends rounds.                                *)
OpenDeal ==
  Deal3(Faces(3, {3}) \cup Faces(6, 0..1), Faces(4, 0..1) \cup Faces(8, {0}),
        Faces(5, {0}) \cup Faces(10, {2}) \cup Faces(9, {0}))
PairDeal ==
  Deal3(Faces(4, 0..1) \cup Faces(7, {0}), Faces(3, 2..3) \cup Faces(10, {2}),
        Faces(5, 0..1) \cup Faces(6, {0}))
BombDeal ==
  Deal3(Faces(3, {3}) \cup Faces(5, {0}), Faces(4, 0..3) \cup Faces(6, {0}),
        Faces(7, {1}) \cup Faces(8, {0}))
ServerDeals == {OpenDeal, PairDeal, BombDeal}
RestartDeals == {BombDeal, OpenDeal}
OpenDeals == {OpenDeal}

(* Two players, one of whom holds a bomb.                                  *)
DuelDeals == {Deal2(Faces(4, 0..3) \cup Faces(7, {1}), Faces(5, 0..1) \cup Faces(6, {0}))}
=============================================================================
