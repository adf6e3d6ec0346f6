----------------------------- MODULE CardPlays -----------------------------
(***************************************************************************)
(* The card library as the table uses it, on hands dealt card by card      *)
(* from a deck: what the server plays or passes for a seat (tip, find,     *)
(* robot) against what UserPlayCard would accept from a player.            *)
(***************************************************************************)
EXTENDS CardFind
LOCAL INSTANCE SequencesExt
LOCAL INSTANCE FiniteSetsExt

CONSTANT
  Tables   \* the tables whose seats are dealt to: options, deck and last plays

(* deck: the cards a hand may hold; lasts: the plays it may have to follow, *)
(* {} when the seat opens a round; size: bound, the cards of a hand; rules: *)
(* the options of the room.                                                *)
ASSUME TablesAssumption ==
  \A n \in DOMAIN Tables :
    LET T == Tables[n] IN
    /\ T.deck \subseteq FullDeck(T.rules.gameType)
    /\ UNION T.lasts \subseteq FullDeck(T.rules.gameType) \ T.deck

VARIABLES
  given,  \* the table
  last,   \* _last_playCards
  hand    \* holeCards of the seat to play

vars == <<given, last, hand>>

Deck == Tables[given].deck
Rules == Tables[given].rules   \* _gameType, _fourdaithree, _threeAbomb

Init == given \in DOMAIN Tables /\ last \in Tables[given].lasts /\ hand = {}

(* A seat's hand grows by a higher card.  The library looks at faces only  *)
(* and takes the lowest suits of a face, so a hand that skips a suit of    *)
(* the deck behaves as one that does not, and is not dealt.                *)
Draw(c) ==
  /\ c \in Deck \ hand
  /\ Cardinality(hand) < Tables[given].size
  /\ \A d \in hand : d < c
  /\ \A d \in Deck : Face(d) = Face(c) /\ d < c => d \in hand
  /\ hand' = hand \cup {c}
  /\ UNCHANGED <<given, last>>

Next == \E c \in Deck : Draw(c)

Spec == Init /\ [][Next]_vars

KindOf(S) == Analysis(S, Rules).type
RankOf(S) == Analysis(S, Rules).face

INSTANCE PlayRules WITH Kind <- KindOf, Rank <- RankOf, TripleGroups <- Triples

(* What the last play was played as: its player still holds cards.         *)
LastType == PlayedType(last, {})

(* UserPlayCard would accept some play of the hand on the last one: one of *)
(* as many cards as the last play, or a bomb of three or four.             *)
CanFollow ==
  \E p \in {q \in SUBSET hand : Cardinality(q) \in {Cardinality(last), 3, 4}} :
    Accepts(p, hand, FALSE, last, LastType, FALSE)

(* The hand holds k consecutive triples, bombs among them or not.          *)
HasLine(k) ==
  \E f \in 3..Ace : \A g \in f..(f + k - 1) :
    g # Two /\ Cardinality({c \in hand : Face(c) = g}) >= 3

(* The hand as a play is k consecutive triples and two cards for each.     *)
IsPlane(k) == Cardinality(hand) = 5 * k /\ HasLine(k)

(* Five triples of which four are consecutive and the fifth lies apart: in *)
(* the game of 16 cards analysis sees four triples that lack cards, and    *)
(* not three with the other two as wings.                                  *)
TakenForFour ==
  Rules.gameType = 0 /\ Cardinality(hand) = 15 /\ Triples(hand) = 5 /\ HasLine(4) /\ ~HasLine(5)

-----------------------------------------------------------------------------
(* AutoPass passes for an absent player, and UserPass lets a player pass,  *)
(* only when the hand has nothing that UserPlayCard would accept.          *)
TipComplete == last # {} /\ CanFollow => Tip(last, hand, Rules) # <<>>

(* Everything that tip offers is made of distinct cards of the hand and    *)
(* would be accepted from the player.                                      *)
TipSound == last # {} =>
  \A i \in DOMAIN Tip(last, hand, Rules) :
    LET r == Tip(last, hand, Rules)[i] IN
    /\ Cardinality(ToSet(r)) = Len(r)
    /\ Accepts(ToSet(r), hand, FALSE, last, LastType, FALSE)

(* A play of at most 15 cards, which leaves a card of a hand of 16, counts *)
(* as a plane with wings exactly when it is one, whatever bombs and        *)
(* further triples it holds, but for the five triples taken for four       *)
(* (analysis, CheckPlayCard).                                              *)
PlaneRecognised ==
  PlayedType(hand, {}) = "PLANEWITHWING" <=> (\E k \in 2..3 : IsPlane(k)) /\ ~TakenForFour

(* The play the robot opens a round with would be accepted from the        *)
(* player.                                                                 *)
RobotAccepted ==
  hand # {} => Accepts(ToSet(Robot(hand)), hand, TRUE, last, LastType, FALSE)
=============================================================================
