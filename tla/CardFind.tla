----------------------------- MODULE CardFind -----------------------------
(***************************************************************************)
(* What the server plays for a seat: CardFind (the plays of a hand that    *)
(* follow the last play) and HoleCards::robot (the play that opens a       *)
(* round).  A result is the sequence of cards the code pushes, in order.   *)
(* The light_cards lists, which only the client's hints use, are left out. *)
(***************************************************************************)
EXTENDS PokerCards
LOCAL INSTANCE SequencesExt

(* The cards of a sequence of faces, k low cards of each.                  *)
CardsOf(H, faces, k) == FlattenSeq([i \in DOMAIN faces |-> Lowest(H, faces[i], k)])

(* Mutant of Above: plays of the same face follow.                         *)
NotBelow(faces, face) == SelectSeq(faces, LAMBDA f : f >= face)

Above(faces, face) == SelectSeq(faces, LAMBDA f : f > face)

FindOne(last, H, st) ==
  LET f == Above(st.one, last.face) IN [i \in DOMAIN f |-> Lowest(H, f[i], 1)]

(* On a single, find_two offers each card of a pair.                       *)
FindTwo(last, H, st) ==
  LET f == Above(st.two, last.face)
      c == CardsOf(H, f, 2)
  IN IF last.type = "ONE"
     THEN [i \in DOMAIN c |-> <<c[i]>>]
     ELSE [i \in DOMAIN f |-> Lowest(H, f[i], 2)]

(* On a triple, find_three returns after its first one, with two cards.    *)
FindThree(last, H, st) ==
  LET f == Above(st.three, last.face)
      Wing == IF Len(st.one) > 1 THEN CardsOf(H, SubSeq(st.one, 1, 2), 1)
              ELSE IF st.two # <<>> THEN Lowest(H, st.two[1], 2) ELSE <<>>
  IN CASE last.type = "ONE" -> [i \in DOMAIN f |-> Lowest(H, f[i], 1)]
       [] last.type = "TWO" -> [i \in DOMAIN f |-> Lowest(H, f[i], 2)]
       [] OTHER -> IF f = <<>> THEN <<>> ELSE << Lowest(H, f[1], 3) \o Wing >>

(* The lines of n faces within a line: one for each start above a face.    *)
LinesOf(line, n, face) ==
  LET Starts == {i \in 1..Len(line) :
                   /\ i + n <= Len(line) + 1
                   /\ line[i] > face
                   /\ IsLine(SubSeq(line, i, i + n - 1), n)}
      at == Ascending(Starts)
  IN [j \in DOMAIN at |-> SubSeq(line, at[j], at[j] + n - 1)]

FindOneLine(last, H, st) ==
  LET l == LinesOf(st.line1, last.line1, last.face) IN [i \in DOMAIN l |-> CardsOf(H, l[i], 1)]

FindTwoLine(last, H, st) ==
  LET l == LinesOf(st.line2, last.line2, last.face) IN [i \in DOMAIN l |-> CardsOf(H, l[i], 2)]

FindThreeLine(last, H, st) ==
  LET l == LinesOf(st.line3, last.line3, last.face) IN [i \in DOMAIN l |-> CardsOf(H, l[i], 3)]

FindThreeWithOne(last, H, st) ==
  LET f == Above(st.three, last.face)
      Others(face) == SelectSeq(st.line1, LAMBDA g : g # face)
      Wing(face) == IF st.one # <<>> THEN Lowest(H, st.one[1], 1)
                    ELSE IF Others(face) # <<>> THEN Lowest(H, Others(face)[1], 1) ELSE <<>>
  IN IF st.len < 4 THEN <<>> ELSE [i \in DOMAIN f |-> Lowest(H, f[i], 3) \o Wing(f[i])]

FindThreeWithTwo(last, H, st) ==
  LET f == Above(st.three, last.face)
      Others(face) == SelectSeq(st.line2, LAMBDA g : g # face)
      Wing(face) == IF Len(st.one) > 1 THEN CardsOf(H, SubSeq(st.one, 1, 2), 1)
                    ELSE IF st.two # <<>> THEN Lowest(H, st.two[1], 2)
                    ELSE IF Others(face) # <<>> THEN Lowest(H, Others(face)[1], 2) ELSE <<>>
  IN IF st.len < 5 THEN <<>> ELSE [i \in DOMAIN f |-> Lowest(H, f[i], 3) \o Wing(f[i])]

(* A play grows by the cards of a sequence until it has n cards.           *)
Filled(play, more, n) ==
  IF Len(play) >= n THEN play
  ELSE play \o SubSeq(more, 1, IF Len(more) < n - Len(play) THEN Len(more) ELSE n - Len(play))

(* The plays that have as many cards as the last one.                      *)
OfLength(plays, n) == SelectSeq(plays, LAMBDA p : Len(p) = n)

(* One card of each face that is not yet in the play (the loop over card1  *)
(* that should come first pushes nothing: its body is commented out).      *)
FindPlaneWithOne(last, H, st) ==
  LET l == LinesOf(st.line3, last.line3, last.face)
      Play(line) == Filled(CardsOf(H, line, 3),
                      CardsOf(H, SelectSeq(st.line1, LAMBDA g : g \notin ToSet(line)), 1),
                      last.len)
  IN OfLength([i \in DOMAIN l |-> Play(l[i])], last.len)

(***************************************************************************)
(* The wings of a plane: singles two by two, pairs, then an odd single and *)
(* the faces of line3 that are not in the play, then an odd single (again) *)
(* and the cards of the bombs.  count is how many cards of line3 the hand  *)
(* has beyond the last play's.  Each of the two last steps is entered only *)
(* when its estimate of the cards available covers the cards needed.  A    *)
(* play that outgrows the last one is dropped at the end.                  *)
(***************************************************************************)
FindPlaneWithWing(last, H, st) ==
  LET l == LinesOf(st.line3, last.line3, last.face)
      n == last.len
      singles == CardsOf(H, st.one, 1)
      odd == SubSeq(singles, 2 * (Len(singles) \div 2) + 1, Len(singles))
      even == SubSeq(singles, 1, Len(singles) - Len(odd))
      bombs == CardsOf(H, st.four, 4)
      count == 3 * (Len(st.line3) - last.line3)
      spare == IF Len(bombs) > count THEN Len(bombs) - count ELSE Len(bombs)
      \* two cards at a time: an odd need is never met exactly
      Paired(p, more) ==
        LET need == n - Len(p) IN
        IF need = 0 THEN p
        ELSE IF need \in 2..Len(more) /\ need % 2 = 0 THEN p \o SubSeq(more, 1, need)
        ELSE p \o more
      AfterOdd(p, More(_)) == LET q == p \o odd IN Filled(q, More(q), n)
      OtherTriples(q) ==
        CardsOf(H, SelectSeq(st.line3, LAMBDA f : f \notin FacesOf(ToSet(q))), 3)
      OtherBombs(q) == SelectSeq(bombs, LAMBDA c : c \notin ToSet(q))
      Step1(p) == IF Len(p) = n THEN p \o even ELSE Paired(p, even)
      Step2(p) == Paired(p, CardsOf(H, st.two, 2))
      Step3(p) == IF Len(p) < n /\ Len(p) + Len(odd) + count + spare >= n
                  THEN AfterOdd(p, OtherTriples) ELSE p
      Step4(p) == IF Len(p) < n /\ Len(p) + Len(odd) + Len(bombs) >= n
                  THEN AfterOdd(p, OtherBombs) ELSE p
      Play(line) == Step4(Step3(Step2(Step1(CardsOf(H, line, 3)))))
  IN OfLength([i \in DOMAIN l |-> Play(l[i])], n)

(* find_four_with_two and find_four_with_three: four cards above the last  *)
(* face, then groups of size `with` held exactly, else cut from others.    *)
FindFourWith(last, H, st, with, exact, line) ==
  LET f == Above(st.four, last.face)
      Play(face) == Lowest(H, face, 4) \o
        IF exact # <<>> THEN Lowest(H, exact[1], with)
        ELSE LET o == SelectSeq(line, LAMBDA g : g # face)
             IN IF o = <<>> THEN <<>> ELSE Lowest(H, o[1], with)
  IN IF st.len < 8 THEN <<>>
     ELSE OfLength([i \in DOMAIN f |-> Play(f[i])], last.len)

(* Mutant of FindBomb: a bomb has to be higher than any play.              *)
HigherBomb(last, H, st, others, threeAbomb) ==
  LET f == Above(st.four, last.face) IN [i \in DOMAIN f |-> Lowest(H, f[i], 4)]

FindBomb(last, H, st, others, threeAbomb) ==
  LET f == IF last.type = "BOMB" THEN Above(st.four, last.face) ELSE st.four
      bombs == [i \in DOMAIN f |-> Lowest(H, f[i], 4)]
  IN IF threeAbomb /\ others = <<>> /\ bombs = <<>> /\ Ace \in ToSet(st.three)
     THEN << Lowest(H, Ace, 3) >> ELSE bombs

(* find: every type looks for plays of its own type, then for bombs.  No   *)
(* search exists for a PLANWHITHLACK, a play that only ends a game.        *)
Find(last, H, threeAbomb) ==
  LET st == Statistics(H)
      same ==
        CASE last.type = "ONE" -> FindOne(last, H, st) \o FindTwo(last, H, st) \o FindThree(last, H, st)
          [] last.type = "TWO" -> FindTwo(last, H, st) \o FindThree(last, H, st)
          [] last.type = "THREE" -> FindThree(last, H, st)
          [] last.type = "ONELINE" -> FindOneLine(last, H, st)
          [] last.type = "TWOLINE" -> FindTwoLine(last, H, st)
          [] last.type = "THREELINE" -> FindThreeLine(last, H, st)
          [] last.type = "THREEWITHONE" -> FindThreeWithOne(last, H, st)
          [] last.type = "THREEWITHTWO" -> FindThreeWithTwo(last, H, st)
          [] last.type = "PLANEWITHONE" -> FindPlaneWithOne(last, H, st)
          [] last.type = "PLANEWITHWING" -> FindPlaneWithWing(last, H, st)
          [] last.type = "FOURWITHTWO" -> FindFourWith(last, H, st, 2, st.two, st.line2)
          [] last.type = "FOURWITHTHREE" -> FindFourWith(last, H, st, 3, st.three, st.line3)
          [] OTHER -> <<>>
  IN IF last.type = "ERROR" THEN <<>> ELSE same \o FindBomb(last, H, st, same, threeAbomb)

(* tip: find is called without the room's rules, so its threeAbomb is 0.   *)
Tip(S, H, rules) ==
  IF S = {} \/ H = {} THEN <<>> ELSE Find(Analysis(S, rules), H, FALSE)

(* Mutant of Robot: a triple takes a single card along.                    *)
RobotShort(H) ==
  LET st == Statistics(H) IN
  CASE st.three # <<>> /\ st.one # <<>> -> Lowest(H, st.three[1], 3) \o Lowest(H, st.one[1], 1)
    [] st.two # <<>> -> Lowest(H, st.two[1], 2)
    [] OTHER -> Lowest(H, Face(CHOOSE c \in H : TRUE), 1)

(* HoleCards::robot: the longest straight, else a triple with what it can  *)
(* carry, else the lowest pair, single or bomb.                            *)
Robot(H) ==
  LET st == Statistics(H)
      run == IF st.line1 = <<>> THEN <<>> ELSE LongestRun(st.line1)
      triple == Lowest(H, st.three[1], 3)
      has3 == st.three # <<>>
  IN CASE Len(run) >= 5 -> CardsOf(H, run, 1)
       [] has3 /\ Len(st.one) > 1 -> triple \o CardsOf(H, SubSeq(st.one, 1, 2), 1)
       [] has3 /\ Len(st.one) <= 1 /\ st.two # <<>> -> triple \o Lowest(H, st.two[1], 2)
       [] OTHER ->
     CASE Len(st.three) > 1 -> triple \o Lowest(H, st.three[2], 2)
       [] has3 /\ Len(st.three) = 1 /\ st.four # <<>> -> triple \o Lowest(H, st.four[1], 4)
       [] OTHER ->
     CASE has3 /\ st.one # <<>> -> triple \o Lowest(H, st.one[1], 1)
       [] has3 /\ st.one = <<>> -> triple
       [] OTHER ->
     CASE st.two # <<>> -> Lowest(H, st.two[1], 2)
       [] st.two = <<>> /\ st.one # <<>> -> Lowest(H, st.one[1], 1)
       [] OTHER -> Lowest(H, st.four[1], 4)
============================================================================
