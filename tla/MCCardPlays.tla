---------------------------- MODULE MCCardPlays ----------------------------
(* The tables at which TLC checks CardPlays.                               *)
EXTENDS CardPlays

Faces(f, suits) == {CardOf(f, s) : s \in suits}

Options(gameType, fourdaithree, threeAbomb) ==
  [gameType |-> gameType, fourdaithree |-> fourdaithree, threeAbomb |-> threeAbomb]

(* What can have been played before, by a player who still holds cards.    *)
Played(D, rules) ==
  {S \in SUBSET D :
     /\ \A c \in S, d \in D : Face(d) = Face(c) /\ d < c => d \in S
     /\ Analysis(S, rules).type \notin
          {"ERROR", "THREELINE", "THREE", "THREEWITHONE", "FOURWITHTWO", "PLANEWITHONE",
           "PLANWHITHLACK"}}

(* Singles, pairs, triples, bombs and what they carry.                     *)
Groups ==
  LET rules == Options(0, TRUE, FALSE) IN
  [rules |-> rules, size |-> 8,
   deck |-> UNION {Faces(5, 0..3), Faces(6, 0..3), Faces(9, 0..2), Faces(11, 0..1), Faces(15, {3})},
   lasts |-> Played(UNION {Faces(4, 0..3), Faces(7, 0..2), Faces(8, 0..1), Faces(9, {3})}, rules)]

(* Straights and lines of pairs.                                           *)
Lines ==
  LET rules == Options(0, FALSE, FALSE)
      Low == UNION {Faces(3, 0..1), Faces(4, {2, 3}), Faces(5, {3}), Faces(6, {3}), Faces(7, {3})}
  IN
  [rules |-> rules, size |-> 8,
   deck |-> UNION {Faces(3, {2}), Faces(4, 0..1), Faces(5, 0..1), Faces(6, 0..1), Faces(7, 0..1),
                   Faces(8, 0..1), Faces(9, {0}), Faces(10, {0}), Faces(14, {0}), Faces(15, {3})},
   lasts |-> {S \in Played(Low, rules) : Cardinality(S) > 3}]

(* Planes of two triples without a bomb, in the game of 15 cards.          *)
Planes ==
  LET rules == Options(1, FALSE, FALSE)
      Low == UNION {Faces(3, 0..2), Faces(4, 0..2), Faces(5, 0..2), Faces(10, 0..1), Faces(12, {0})}
  IN
  [rules |-> rules, size |-> 10,
   deck |-> UNION {Faces(6, 0..2), Faces(7, 0..2), Faces(8, 0..2), Faces(9, 0..1), Faces(13, {0}),
                   Faces(15, {3})},
   lasts |-> {S \in Played(Low, rules) : Cardinality(S) = 10}]

(* Plays of up to 15 cards that open a round: planes of two and three      *)
(* triples, of any bombs and triples with any wings, with gaps and up to   *)
(* the two.                                                                *)
BombPlanes ==
  [rules |-> Options(0, TRUE, FALSE), size |-> 15,
   deck |-> UNION {Faces(f, 0..3) : f \in 5..9} \cup Faces(14, 0..2) \cup Faces(15, {3}),
   lasts |-> {{}}]

(* The same in the game of 15 cards, which has one ace.                    *)
BombPlanes15 ==
  [BombPlanes EXCEPT !.rules = Options(1, TRUE, FALSE), !.deck = @ \ Faces(14, {0, 1})]

PlainTables ==
  [groups |-> Groups, lines |-> Lines, planes |-> Planes,
   bombs |-> BombPlanes, bombs15 |-> BombPlanes15]
====
