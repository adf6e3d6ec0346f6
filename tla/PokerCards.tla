---------------------------- MODULE PokerCards ----------------------------
(***************************************************************************)
(* Cards, their statistics and the analysis of a play (src/Cardlib).      *)
(*                                                                         *)
(* A card is the natural number 4 * face + suit: faces run from 3 to 15   *)
(* (11..13 are J, Q, K, 14 is the ace, 15 the single two of the deck) and  *)
(* suits from 0 to 3 (3 is spades), so that the order of Card::compare is  *)
(* the order of the numbers.  A hand or a play is a set of cards.          *)
(***************************************************************************)
EXTENDS Integers, Sequences, FiniteSets

Face(c) == c \div 4

CardOf(face, suit) == 4 * face + suit

SpadesThree == CardOf(3, 3)

Ace == 14
Two == 15

(* Deck::fill, card_arr and card_arr15: one two, and three aces or one.    *)
FullDeck(gameType) ==
  LET Black == {CardOf(f, s) : f \in 3..13, s \in 0..3} IN
  IF gameType = 0
  THEN Black \cup {CardOf(Ace, s) : s \in 0..2} \cup {CardOf(Two, 3)}
  ELSE (Black \ {CardOf(13, 3)}) \cup {CardOf(Ace, 2), CardOf(Two, 3)}

(* Card::sort_by_ascending, and the same of faces.                         *)
Ascending(S) ==
  [i \in 1..Cardinality(S) |-> CHOOSE x \in S : Cardinality({y \in S : y < x}) = i - 1]

FacesOf(S) == {Face(c) : c \in S}

(* The k lowest cards of a face: the ones the lines of CardStatistics keep. *)
Lowest(S, f, k) == SubSeq(Ascending({c \in S : Face(c) = f}), 1, k)

(***************************************************************************)
(* CardStatistics: the faces held exactly once, twice, three or four       *)
(* times, and the faces of which one, two or three cards can join a line.  *)
(* A single two is in no line.                                             *)
(***************************************************************************)
Statistics(S) ==
  LET Count(f) == Cardinality({c \in S : Face(c) = f})
      Exactly(k) == Ascending({f \in FacesOf(S) : Count(f) = k})
      AtLeast(k) == Ascending({f \in FacesOf(S) : Count(f) >= k})
  IN [len |-> Cardinality(S),
      one |-> Exactly(1), two |-> Exactly(2), three |-> Exactly(3), four |-> Exactly(4),
      line1 |-> Ascending({f \in FacesOf(S) : Count(f) > 1 \/ f # Two}),
      line2 |-> AtLeast(2), line3 |-> AtLeast(3)]

(* check_arr_is_line: consecutive faces, no two after the first one.       *)
IsLine(s, least) ==
  /\ Len(s) >= least
  /\ \A i \in 1..(Len(s) - 1) : s[i + 1] = s[i] + 1 /\ s[i + 1] # Two

(* The first of the longest stretches of consecutive faces of a line.      *)
LongestRun(s) ==
  LET Runs == {<<i, j>> \in (1..Len(s)) \X (1..Len(s)) :
                 i <= j /\ \A k \in i..(j - 1) : s[k + 1] = s[k] + 1}
      best == CHOOSE r \in Runs : \A q \in Runs :
                 \/ r[2] - r[1] > q[2] - q[1]
                 \/ r[2] - r[1] = q[2] - q[1] /\ r[1] <= q[1]
  IN SubSeq(s, best[1], best[2])

(***************************************************************************)
(* CardAnalysis::analysis.  The result keeps, beside the type and the face *)
(* that plays are compared by, the sizes of the lines of the statistics:   *)
(* CardFind looks for lines of these sizes, and for planes the analysis    *)
(* drops from line3 the triples that serve as wings.                       *)
(***************************************************************************)
Result(st, type, face) ==
  [type |-> type, face |-> face, len |-> st.len,
   line1 |-> Len(st.line1), line2 |-> Len(st.line2), line3 |-> Len(st.line3)]

(* Mutant of TriplesOf: a bomb lends no triple to a plane.                 *)
NoneLent(st) == st.three

(* The triples in the order of card3, to which bombs are appended.         *)
TriplesOf(st) == st.three \o st.four

(* Triples that do not form one line, or lie apart from their bombs.       *)
LoosePlane(st, rules) ==
  LET t == Len(TriplesOf(st))
      run == LongestRun(st.line3)
      k == Len(run)
      full == IF rules.gameType = 0 THEN 16 ELSE 15
  IN CASE t < 2 -> Result(st, "ERROR", 0)
       [] t >= 2 /\ IsLine(st.line3, 2) /\ st.len % 5 = 0 /\ st.len < 6 * t ->
            Result(st, "PLANEWITHWING", st.line3[1])
       [] OTHER ->
     CASE k >= 4 /\ st.len >= full -> Result(st, "PLANEWITHWING", run[k])
       [] k >= 2 /\ st.len < 5 * k -> Result(st, "PLANWHITHLACK", run[k])
       [] st.len = 5 * k -> [Result(st, "PLANEWITHWING", run[k]) EXCEPT !.line3 = k]
       [] OTHER -> Result(st, "ERROR", 0)

(* Triples, of which the bombs lend some, and the rest of the cards.       *)
PlaneOf(st, rules) ==
  LET triples == TriplesOf(st)
      t == Len(triples)
      rest == st.len - 3 * t
      Lowermost == triples[1]
      Lasting == triples[t]
  IN IF st.four = <<>> /\ IsLine(st.line3, 2) /\ rest \in {0, t, 2 * t}
     THEN CASE rest = 0 -> Result(st, "THREELINE", Lowermost)
            [] rest = t -> Result(st, "PLANEWITHONE", Lowermost)
            [] rest = 2 * t -> Result(st, "PLANEWITHWING", Lowermost)
     ELSE CASE ~IsLine(triples, 2) \/ rest > 2 * t -> LoosePlane(st, rules)
            [] IsLine(triples, 2) /\ rest = t -> Result(st, "PLANEWITHONE", Lasting)
            [] IsLine(triples, 2) /\ rest = 2 * t -> Result(st, "PLANEWITHWING", Lasting)
            [] IsLine(triples, 2) /\ rest < 2 * t /\ rest # t ->
                 IF st.len % 5 = 0
                 THEN [Result(st, "PLANEWITHWING", Lasting) EXCEPT !.line3 = st.len \div 5]
                 ELSE Result(st, "PLANWHITHLACK", Lasting)

Analysis(S, rules) ==
  LET st == Statistics(S)
      len == st.len
      Is(type, face) == Result(st, type, face)
      plain == Len(st.three)
  IN CASE len = 0 -> Is("ERROR", 0)
       [] len = 1 -> Is("ONE", st.one[1])
       [] len = 2 /\ Len(st.two) = 1 -> Is("TWO", st.two[1])
       [] len = 3 /\ plain = 1 ->
            Is(IF rules.threeAbomb /\ st.three[1] = Ace THEN "BOMB" ELSE "THREE", st.three[1])
       [] len = 4 /\ Len(st.four) = 1 -> Is("BOMB", st.four[1])
       [] len = 4 /\ plain = 1 -> Is("THREEWITHONE", st.three[1])
       [] len = 5 /\ Len(TriplesOf(st)) = 1 -> Is("THREEWITHTWO", TriplesOf(st)[1])
       [] rules.fourdaithree /\ len = 6 /\ Len(st.four) = 1 -> Is("FOURWITHTWO", st.four[1])
       [] rules.fourdaithree /\ len = 7 /\ Len(st.four) = 1 -> Is("FOURWITHTHREE", st.four[1])
       [] Len(st.one) = len /\ Len(st.line1) = len /\ IsLine(st.line1, 5) ->
            Is("ONELINE", st.one[1])
       [] 2 * Len(st.two) = len /\ IsLine(st.line2, 2) -> Is("TWOLINE", st.two[1])
       [] OTHER -> IF len < 5 THEN Is("ERROR", 0) ELSE PlaneOf(st, rules)

(* The triples that a play counts as a plane of three-card groups.         *)
Triples(S) == Len(Statistics(S).three)
============================================================================
