----------------------------- MODULE PlayRules -----------------------------
(***************************************************************************)
(* The rules by which UserPlayCard accepts a play (src/gameTable.cpp), on  *)
(* plays and hands that are sets of cards.  What the analysis of the cards *)
(* says of a play is a parameter, so that the rules serve the card library *)
(* on real cards and the table on any cards.                               *)
(***************************************************************************)
EXTENDS Integers, FiniteSets

CONSTANTS
  Kind(_),          \* the type that CardAnalysis::analysis gives to a play
  Rank(_),          \* the face it gives, by which plays of a type compare
  TripleGroups(_)   \* how many groups of exactly three cards the play has

CardTypes ==
  {"ERROR", "ONE", "ONELINE", "TWO", "TWOLINE", "THREE", "THREELINE", "THREEWITHONE",
   "THREEWITHTWO", "PLANEWITHONE", "PLANEWITHWING", "PLANWHITHLACK", "FOURWITHTWO",
   "FOURWITHTHREE", "BOMB"}

(* The types that lack cards to carry: they are for the last play only.    *)
LacksCards == {"THREE", "THREEWITHONE", "FOURWITHTWO", "PLANEWITHONE", "PLANWHITHLACK"}

(***************************************************************************)
(* CheckPlayCard: the type a play counts as when it is played from a hand, *)
(* "ERROR" when it is refused.  A line of triples is never itself: it is a *)
(* plane with wings when its triples divide up into wings, and otherwise   *)
(* a plane short of cards, for the last play.                              *)
(***************************************************************************)
PlayedType(play, hand) ==
  LET kind == Kind(play) IN
  CASE kind = "THREELINE" ->
         IF (3 * TripleGroups(play)) % 5 = 0 THEN "PLANEWITHWING"
         ELSE IF play = hand THEN "PLANWHITHLACK" ELSE "ERROR"
    [] kind \in LacksCards /\ play # hand -> "ERROR"
    [] OTHER -> kind

(* A play of a type beats the last play, which was played as lastType.     *)
Beats(play, type, last, lastType) ==
  /\ \/ type = lastType /\ Cardinality(play) = Cardinality(last)
     \/ type = "BOMB"
  /\ \/ Rank(play) > Rank(last)
     \/ type = "BOMB" /\ lastType # "BOMB"

(* A single before a seat that holds one card has to be the highest face.  *)
Highest(play, hand) == \A c \in hand : Rank({c}) <= Rank(play)

(* UserPlayCard's verdict on a play, the first play of a room left aside.  *)
Accepts(play, hand, newRound, last, lastType, nextIsSingle) ==
  LET type == PlayedType(play, hand) IN
  /\ play # {} /\ play \subseteq hand
  /\ type # "ERROR"
  /\ newRound \/ Beats(play, type, last, lastType)
  /\ (type = "ONE" /\ nextIsSingle) => Highest(play, hand)
=============================================================================
