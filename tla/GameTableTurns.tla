--------------------------- MODULE GameTableTurns ---------------------------
(***************************************************************************)
(* What the handlers of GameTable do to a game: who loses cards, whose     *)
(* turn is next, and what of it is in the row when a handler has ended.    *)
(* All this holds for every deal, and through any number of crashes in the *)
(* middle of any handler.                                                  *)
(***************************************************************************)
EXTENDS GameTableProofs, FiniteSetTheorems, WellFoundedInduction

-----------------------------------------------------------------------------
(* What the writes leave in the table and in the row.                      *)

LEMMA ChairsSaved ==
  ASSUME NEW x \in Work
  PROVE  /\ SaveChairs(x).t = x.t
         /\ SaveChairs(x).db =
              [x.db EXCEPT !.chair = [s \in Seat |-> Serialized(x.t.chair[s])]]
<1>. DEFINE Saved(n) == [s \in Seat |-> IF s <= n THEN Serialized(x.t.chair[s]) ELSE x.db.chair[s]]
            Upto(n) == [x.db EXCEPT !.chair = Saved(n)]
<1>1. SaveChairs(x) = [x EXCEPT !.db = Upto(NP - 1), !.trail = @ \cup {Upto(n) : n \in Seat}]
  BY DEF SaveChairs
<1>2. Saved(NP - 1) = [s \in Seat |-> Serialized(x.t.chair[s])]
  <2>1. \A s \in Seat : s <= NP - 1  BY PlayersAssumption DEF Seat
  <2>. QED  BY <2>1
<1>. HIDE DEF Saved
<1>3. SaveChairs(x).t = x.t /\ SaveChairs(x).db = Upto(NP - 1)  BY <1>1 DEF Work
<1>. QED  BY <1>2, <1>3

LEMMA BankerSaved ==
  ASSUME NEW x \in Work
  PROVE  /\ SaveBanker(x).t = x.t
         /\ SaveBanker(x).db = [x.db EXCEPT !.begun = TRUE, !.status = x.t.status,
                                            !.banker = x.t.banker, !.games = x.t.games]
BY PutFields DEF SaveBanker

LEMMA CallSaved ==
  ASSUME NEW x \in Work
  PROVE  /\ SaveCall(x).t = x.t
         /\ SaveCall(x).db = [CallOf(x.db, x.t) EXCEPT
              !.chair[PrevSeat(x.t.curr)] = Serialized(x.t.chair[PrevSeat(x.t.curr)])]
BY PutFields DEF SaveCall

(* A game in the row: the status, the banker and the chairs of a table,    *)
(* and the fields of its last call.                                        *)
Written(u, d) ==
  /\ d.status = u.status /\ d.banker = u.banker /\ d.games = u.games
  /\ \A s \in Seat : d.chair[s] = Serialized(u.chair[s])

WrittenBut(u, d, p) ==
  /\ d.status = u.status /\ d.banker = u.banker /\ d.games = u.games
  /\ \A s \in Seat \ {p} : d.chair[s] = Serialized(u.chair[s])

CallRead(u, d) ==
  /\ u.curr = d.curr /\ u.opened = d.opened /\ u.last = d.last
  /\ u.newRound = (IF d.called THEN d.newRound ELSE TRUE)
  /\ u.passes = (IF d.called THEN d.passes ELSE 0)

Current(u, d) == Written(u, d) /\ CallRead(u, d)

LEMMA SaveCallCurrent ==
  ASSUME NEW x \in Work, WrittenBut(x.t, x.db, PrevSeat(x.t.curr))
  PROVE  Current(SaveCall(x).t, SaveCall(x).db)
<1>. DEFINE p == PrevSeat(x.t.curr)
            e == CallOf(x.db, x.t)
            d == [e EXCEPT !.chair[p] = Serialized(x.t.chair[p])]
<1>1. /\ e \in Database /\ e.status = x.db.status /\ e.banker = x.db.banker
      /\ e.games = x.db.games /\ e.chair = x.db.chair /\ e.called
      /\ e.curr = x.t.curr /\ e.opened = x.t.opened /\ e.passes = x.t.passes
      /\ e.newRound = x.t.newRound /\ e.last = x.t.last
  <2>1. e \in Database  BY CallOfTyped DEF Work
  <2>. QED  BY <2>1 DEF CallOf, Work, Database
<1>2. x.t.curr \in Seat /\ p \in Seat  BY SeatsAre DEF Work, Table
<1>. HIDE DEF e
<1>3. /\ d.status = e.status /\ d.banker = e.banker /\ d.games = e.games /\ d.called
      /\ d.curr = x.t.curr /\ d.opened = x.t.opened /\ d.passes = x.t.passes
      /\ d.newRound = x.t.newRound /\ d.last = x.t.last
  BY <1>1 DEF Database
<1>4. \A s \in Seat : d.chair[s] = Serialized(x.t.chair[s])
  <2>1. \A s \in Seat \ {p} : d.chair[s] = e.chair[s]  BY <1>1, <1>2 DEF Database
  <2>2. d.chair[p] = Serialized(x.t.chair[p])  BY <1>1, <1>2 DEF Database
  <2>. QED  BY <1>1, <2>1, <2>2 DEF WrittenBut
<1>5. SaveCall(x).t = x.t /\ SaveCall(x).db = d  BY CallSaved DEF e
<1>. HIDE DEF d, p
<1>. QED  BY <1>1, <1>3, <1>4, <1>5 DEF Current, Written, CallRead, WrittenBut

-----------------------------------------------------------------------------
(* What the turn leaves alone.                                             *)

(* The players and their cards, and what a game is played for.             *)
SameGame(u, v) ==
  /\ v.status = u.status /\ v.banker = u.banker /\ v.bird = u.bird /\ v.games = u.games
  /\ v.readyOn = u.readyOn
  /\ \A s \in Seat :
       /\ v.chair[s].who = u.chair[s].who /\ v.chair[s].ready = u.chair[s].ready
       /\ v.chair[s].hand = u.chair[s].hand /\ v.chair[s].single = u.chair[s].single

BombSum(u) == u.chair[0].bomb + u.chair[1].bomb + (IF NP = 3 THEN u.chair[2].bomb ELSE 0)

InTurn(x, y) ==
  /\ SameGame(x.t, y.t) /\ BombSum(y.t) = BombSum(x.t) /\ y.db.paid = x.db.paid

LEMMA InTurnOn ==
  ASSUME NEW x, NEW y, NEW z, InTurn(x, y), InTurn(y, z)  PROVE InTurn(x, z)
BY DEF InTurn, SameGame

(* Every bomb is paid for by the others.                                   *)
LEMMA ScoresBalance ==
  ASSUME NEW bomber \in Seat
  PROVE  /\ \A s \in Seat : BombScore(bomber, s) \in Int
         /\ BombScore(bomber, 0) + BombScore(bomber, 1)
              + (IF NP = 3 THEN BombScore(bomber, 2) ELSE 0) = 0
<1>1. CASE NP = 2  BY <1>1 DEF Seat, BombScore
<1>2. CASE NP = 3  BY <1>2 DEF Seat, BombScore
<1>. QED  BY <1>1, <1>2, PlayersAssumption

LEMMA BombPlayed ==
  ASSUME NEW x \in Work, NEW bomber \in Seat
  PROVE  LET y == PlayBomb(x, bomber) IN
         /\ InTurn(x, y)
         /\ y.t.curr = x.t.curr /\ y.t.newRound = x.t.newRound /\ y.t.opened = x.t.opened
         /\ y.t.passes = x.t.passes /\ y.t.last = x.t.last /\ y.t.lastType = x.t.lastType
         /\ y.t.trustee = x.t.trustee
         /\ \A p : WrittenBut(x.t, x.db, p) => Written(y.t, y.db)
<1>. DEFINE C == [s \in Seat |-> [x.t.chair[s] EXCEPT !.bomb = @ + BombScore(bomber, s)]]
            u == [x.t EXCEPT !.chair = C]
            y == [x EXCEPT !.t.chair = C]
            z == Put(y, CallOf(y.db, y.t))
<1>1. x.t \in Table /\ \A s \in Seat : x.t.chair[s] \in Chair  BY DEF Work, Table
<1>2. \A s \in Seat : C[s] \in Chair  BY <1>1, ScoresBalance DEF Chair
<1>3. \A s \in Seat :
        /\ C[s].who = x.t.chair[s].who /\ C[s].ready = x.t.chair[s].ready
        /\ C[s].hand = x.t.chair[s].hand /\ C[s].single = x.t.chair[s].single
        /\ C[s].bomb = x.t.chair[s].bomb + BombScore(bomber, s)
  BY <1>1 DEF Chair
<1>4. C \in [Seat -> Chair]  BY <1>2
<1>. HIDE DEF C
<1>5. u \in Table /\ u.chair = C  BY <1>1, <1>4 DEF Table
<1>6. BombSum(u) = BombSum(x.t)
  <2>1. \A s \in Seat : x.t.chair[s].bomb \in Int  BY <1>1 DEF Chair
  <2>2. CASE NP = 2
    <3>1. 0 \in Seat /\ 1 \in Seat  BY <2>2 DEF Seat
    <3>. HIDE DEF u
    <3>2. /\ u.chair[0].bomb = x.t.chair[0].bomb + BombScore(bomber, 0)
          /\ u.chair[1].bomb = x.t.chair[1].bomb + BombScore(bomber, 1)
      BY <1>3, <1>5, <3>1
    <3>3. /\ BombScore(bomber, 0) \in Int /\ BombScore(bomber, 1) \in Int
          /\ BombScore(bomber, 0) + BombScore(bomber, 1) = 0
      BY <2>2, <3>1, ScoresBalance
    <3>4. x.t.chair[0].bomb \in Int /\ x.t.chair[1].bomb \in Int  BY <2>1, <3>1
    <3>. QED  BY <2>2, <3>2, <3>3, <3>4 DEF BombSum
  <2>3. CASE NP = 3
    <3>1. 0 \in Seat /\ 1 \in Seat /\ 2 \in Seat  BY <2>3 DEF Seat
    <3>. HIDE DEF u
    <3>2. /\ u.chair[0].bomb = x.t.chair[0].bomb + BombScore(bomber, 0)
          /\ u.chair[1].bomb = x.t.chair[1].bomb + BombScore(bomber, 1)
          /\ u.chair[2].bomb = x.t.chair[2].bomb + BombScore(bomber, 2)
      BY <1>3, <1>5, <3>1
    <3>3. /\ BombScore(bomber, 0) \in Int /\ BombScore(bomber, 1) \in Int
          /\ BombScore(bomber, 2) \in Int
          /\ BombScore(bomber, 0) + BombScore(bomber, 1) + BombScore(bomber, 2) = 0
      BY <2>3, <3>1, ScoresBalance
    <3>4. /\ x.t.chair[0].bomb \in Int /\ x.t.chair[1].bomb \in Int
          /\ x.t.chair[2].bomb \in Int
      BY <2>1, <3>1
    <3>. QED  BY <2>3, <3>2, <3>3, <3>4 DEF BombSum
  <2>. QED  BY <2>2, <2>3, PlayersAssumption
<1>7. /\ u.status = x.t.status /\ u.banker = x.t.banker /\ u.bird = x.t.bird
      /\ u.games = x.t.games /\ u.readyOn = x.t.readyOn /\ u.curr = x.t.curr
      /\ u.newRound = x.t.newRound /\ u.opened = x.t.opened /\ u.passes = x.t.passes
      /\ u.last = x.t.last /\ u.lastType = x.t.lastType /\ u.trustee = x.t.trustee
  BY <1>1 DEF Table
<1>8. y = [x EXCEPT !.t = u]  BY DEF Work
<1>. HIDE DEF u, y
<1>9. y \in Work /\ y.t = u /\ y.db = x.db  BY <1>5, <1>8, OnTable DEF Work
<1>10. /\ CallOf(y.db, y.t) \in Database /\ CallOf(y.db, y.t).paid = x.db.paid
       /\ CallOf(y.db, y.t).status = x.db.status /\ CallOf(y.db, y.t).banker = x.db.banker
       /\ CallOf(y.db, y.t).games = x.db.games
  <2>1. CallOf(y.db, y.t) \in Database  BY <1>9, CallOfTyped DEF Work
  <2>. QED  BY <1>9, <2>1 DEF CallOf, Work, Database
<1>11. z \in Work /\ z.t = u /\ z.db = CallOf(y.db, y.t)
  BY <1>9, <1>10, PutTyped, PutFields
<1>. HIDE DEF z
<1>12. /\ SaveChairs(z).t = u
       /\ SaveChairs(z).db = [z.db EXCEPT !.chair = [s \in Seat |-> Serialized(u.chair[s])]]
  BY <1>11, ChairsSaved
<1>13. /\ SaveChairs(z).db.paid = x.db.paid
       /\ SaveChairs(z).db.status = x.db.status /\ SaveChairs(z).db.banker = x.db.banker
       /\ SaveChairs(z).db.games = x.db.games
       /\ \A s \in Seat : SaveChairs(z).db.chair[s] = Serialized(u.chair[s])
  BY <1>10, <1>11, <1>12 DEF Database
<1>14. PlayBomb(x, bomber) = SaveChairs(z)  BY DEF PlayBomb, y, z, C
<1>. QED  BY ZenonT(60), <1>3, <1>5, <1>6, <1>7, <1>12, <1>13, <1>14
          DEF InTurn, SameGame, WrittenBut, Written

-----------------------------------------------------------------------------
(* The round.                                                              *)

(* The seat that played last, or that opens the round.                     *)
LastOf(u) == IF u.newRound THEN u.curr ELSE (u.curr + NP + NP - u.passes - 1) % NP

(* The pass that ends a round has ended it.                                *)
RoundOK(u) == u.newRound \/ u.passes < NP - 1

Shaped(u) ==
  IF u.newRound THEN u.last = {} /\ u.passes = 0
  ELSE u.last # {} /\ u.opened /\ u.passes < NP - 1

(* Everything that the call fields and the turn timer do not say.          *)
SameCall(u, v) ==
  /\ v.curr = u.curr /\ v.newRound = u.newRound /\ v.opened = u.opened
  /\ v.passes = u.passes /\ v.last = u.last /\ v.lastType = u.lastType

LEMMA TrusteeOnly ==
  ASSUME NEW x \in Work, NEW n \in (0..TurnTime) \cup {Off}
  PROVE  LET y == [x EXCEPT !.t.trustee = n] IN
         /\ y \in Work /\ y.db = x.db /\ y.trail = x.trail /\ y.t.chair = x.t.chair
         /\ InTurn(x, y) /\ SameCall(x.t, y.t) /\ y.t.trustee = n
<1>. DEFINE u == [x.t EXCEPT !.trustee = n]
<1>1. x.t \in Table  BY DEF Work
<1>2. /\ u \in Table /\ u.chair = x.t.chair /\ u.trustee = n /\ SameCall(x.t, u)
      /\ u.status = x.t.status /\ u.banker = x.t.banker /\ u.bird = x.t.bird
      /\ u.games = x.t.games /\ u.readyOn = x.t.readyOn
  BY <1>1 DEF Table, SameCall
<1>3. [x EXCEPT !.t.trustee = n] = [x EXCEPT !.t = u]  BY DEF Work
<1>. HIDE DEF u
<1>4. /\ [x EXCEPT !.t = u] \in Work /\ [x EXCEPT !.t = u].t = u
      /\ [x EXCEPT !.t = u].db = x.db /\ [x EXCEPT !.t = u].trail = x.trail
  BY <1>2, OnTable DEF Work
<1>. DEFINE y == [x EXCEPT !.t = u]
<1>. HIDE DEF y
<1>5. InTurn(x, y)  BY <1>2, <1>4 DEF InTurn, SameGame, BombSum, y
<1>. QED  BY <1>2, <1>3, <1>4, <1>5 DEF y

LEMMA ArmedIs ==
  ASSUME NEW x \in Work
  PROVE  /\ Arm(x) \in Work /\ Arm(x).db = x.db /\ Arm(x).trail = x.trail
         /\ Arm(x).t.chair = x.t.chair /\ InTurn(x, Arm(x)) /\ SameCall(x.t, Arm(x).t)
         /\ Disarm(x) \in Work /\ Disarm(x).db = x.db /\ Disarm(x).trail = x.trail
         /\ Disarm(x).t.chair = x.t.chair /\ InTurn(x, Disarm(x)) /\ SameCall(x.t, Disarm(x).t)
<1>. DEFINE n == IF x.t.trustee = Off THEN TurnTime ELSE x.t.trustee
<1>1. n \in (0..TurnTime) \cup {Off}  BY RulesAssumption DEF Work, Table
<1>2. Arm(x) = [x EXCEPT !.t.trustee = n]  BY DEF Arm, Work
<1>3. Disarm(x) = [x EXCEPT !.t.trustee = Off]  BY DEF Disarm
<1>4. Off \in (0..TurnTime) \cup {Off}  OBVIOUS
<1>. HIDE DEF n
<1>. QED  BY <1>1, <1>2, <1>3, <1>4, TrusteeOnly

LEMMA PassedIs ==
  ASSUME NEW x \in Work
  PROVE  LET y == Passed(x) IN
         /\ InTurn(x, y) /\ y.t.curr = x.t.curr /\ y.t.opened
         /\ IF x.t.passes + 1 < NP - 1
            THEN /\ y.t.newRound = x.t.newRound /\ y.t.passes = x.t.passes + 1
                 /\ y.t.last = x.t.last
            ELSE y.t.newRound /\ y.t.passes = 0 /\ y.t.last = {}
         /\ \A p : WrittenBut(x.t, x.db, p) => WrittenBut(y.t, y.db, p)
<1>. DEFINE y == [Disarm(x) EXCEPT !.t = CountPass(@)]
            z == [y EXCEPT !.t = [@ EXCEPT !.newRound = TRUE, !.passes = 0]]
            b == IF x.t.lastType = "BOMB" THEN PlayBomb(z, NextSeat(x.t.curr)) ELSE z
            c == [b EXCEPT !.t = [@ EXCEPT !.last = {}, !.lastType = "ERROR"]]
<1>0. \A u, v \in Table : \A d, p :
        /\ v.chair = u.chair /\ v.status = u.status /\ v.banker = u.banker /\ v.games = u.games
        => (WrittenBut(u, d, p) => WrittenBut(v, d, p))
  BY DEF WrittenBut
<1>1. /\ Disarm(x) \in Work /\ InTurn(x, Disarm(x)) /\ SameCall(x.t, Disarm(x).t)
      /\ Disarm(x).db = x.db /\ x.t.curr \in Seat /\ Disarm(x).t.chair = x.t.chair
  BY ArmedIs DEF Work, Table
<1>2. ASSUME NEW u \in Table
      PROVE  /\ CountPass(u) \in Table /\ CountPass(u).chair = u.chair
             /\ CountPass(u).passes = u.passes + 1 /\ CountPass(u).opened
             /\ CountPass(u).curr = u.curr /\ CountPass(u).newRound = u.newRound
             /\ CountPass(u).last = u.last /\ CountPass(u).status = u.status
             /\ CountPass(u).banker = u.banker /\ CountPass(u).bird = u.bird
             /\ CountPass(u).games = u.games /\ CountPass(u).readyOn = u.readyOn
  <2>1. \A n \in Nat :
          LET v == [u EXCEPT !.opened = TRUE, !.passes = n] IN
          /\ v \in Table /\ v.chair = u.chair /\ v.passes = n /\ v.opened
          /\ v.curr = u.curr /\ v.newRound = u.newRound /\ v.last = u.last
          /\ v.status = u.status /\ v.banker = u.banker /\ v.bird = u.bird
          /\ v.games = u.games /\ v.readyOn = u.readyOn
    BY DEF Table
  <2>2. u.passes + 1 \in Nat  BY DEF Table
  <2>. QED  BY <2>1, <2>2 DEF CountPass
<1>3. y \in Work /\ y.t = CountPass(Disarm(x).t) /\ y.db = x.db
  BY <1>1, <1>2 DEF Work
<1>. HIDE DEF y
<1>4. /\ y.t.chair = x.t.chair /\ y.t.passes = x.t.passes + 1 /\ y.t.opened
      /\ y.t.curr = x.t.curr /\ y.t.newRound = x.t.newRound /\ y.t.last = x.t.last
      /\ y.t.status = x.t.status /\ y.t.banker = x.t.banker /\ y.t.bird = x.t.bird
      /\ y.t.games = x.t.games /\ y.t.readyOn = x.t.readyOn
  BY <1>1, <1>2, <1>3 DEF Work, SameCall, InTurn, SameGame
<1>5. InTurn(x, y)  BY <1>3, <1>4 DEF InTurn, SameGame, BombSum
<1>6. \A p : WrittenBut(x.t, x.db, p) => WrittenBut(y.t, y.db, p)
  BY <1>0, <1>3, <1>4 DEF Work
<1>7. ASSUME NEW u \in Table
      PROVE  LET v == [u EXCEPT !.newRound = TRUE, !.passes = 0] IN
             /\ v \in Table /\ v.chair = u.chair /\ v.passes = 0 /\ v.newRound
             /\ v.curr = u.curr /\ v.opened = u.opened
             /\ v.status = u.status /\ v.banker = u.banker /\ v.bird = u.bird
             /\ v.games = u.games /\ v.readyOn = u.readyOn
  BY DEF Table
<1>8. z \in Work /\ z.db = y.db /\ z.t = [y.t EXCEPT !.newRound = TRUE, !.passes = 0]
  BY <1>3, <1>7 DEF Work
<1>. HIDE DEF z
<1>9. /\ z.t \in Table /\ z.t.chair = y.t.chair /\ z.t.passes = 0 /\ z.t.newRound
      /\ z.t.curr = y.t.curr /\ z.t.opened = y.t.opened
      /\ z.t.status = y.t.status /\ z.t.banker = y.t.banker /\ z.t.bird = y.t.bird
      /\ z.t.games = y.t.games /\ z.t.readyOn = y.t.readyOn
  BY ZenonT(60), <1>3, <1>7, <1>8 DEF Work
<1>10. InTurn(y, z)  BY <1>8, <1>9 DEF InTurn, SameGame, BombSum
<1>11. \A p : WrittenBut(y.t, y.db, p) => WrittenBut(z.t, z.db, p)
  BY <1>0, <1>3, <1>8, <1>9 DEF Work
<1>12. /\ b \in Work /\ InTurn(z, b) /\ b.t.passes = 0 /\ b.t.newRound
       /\ b.t.curr = z.t.curr /\ b.t.opened = z.t.opened
       /\ \A p : WrittenBut(z.t, z.db, p) => WrittenBut(b.t, b.db, p)
  <2>1. InTurn(z, z)  BY DEF InTurn, SameGame
  <2>2. NextSeat(x.t.curr) \in Seat  BY <1>1, SeatsAre
  <2>3. CASE x.t.lastType = "BOMB"
    <3>1. b = PlayBomb(z, NextSeat(x.t.curr))  BY <2>3
    <3>2. b \in Work  BY <1>8, <2>2, <3>1, PlayBombTyped
    <3>3. \A p : Written(b.t, b.db) => WrittenBut(b.t, b.db, p)  BY DEF Written, WrittenBut
    <3>. HIDE DEF b
    <3>. QED  BY <1>8, <1>9, <2>2, <3>1, <3>2, <3>3, BombPlayed
  <2>4. CASE x.t.lastType # "BOMB"  BY <1>8, <1>9, <2>1, <2>4
  <2>. QED  BY <2>3, <2>4
<1>. HIDE DEF b
<1>13. ASSUME NEW u \in Table
       PROVE  LET v == [u EXCEPT !.last = {}, !.lastType = "ERROR"] IN
              /\ v \in Table /\ v.chair = u.chair /\ v.passes = u.passes /\ v.newRound = u.newRound
              /\ v.curr = u.curr /\ v.opened = u.opened /\ v.last = {}
              /\ v.status = u.status /\ v.banker = u.banker /\ v.bird = u.bird
              /\ v.games = u.games /\ v.readyOn = u.readyOn
  BY HandsClosed DEF Table, CardTypes
<1>14. /\ c \in Work /\ c.db = b.db /\ c.t \in Table /\ c.t.chair = b.t.chair
       /\ c.t.passes = b.t.passes /\ c.t.newRound = b.t.newRound
       /\ c.t.curr = b.t.curr /\ c.t.opened = b.t.opened /\ c.t.last = {}
       /\ c.t.status = b.t.status /\ c.t.banker = b.t.banker /\ c.t.bird = b.t.bird
       /\ c.t.games = b.t.games /\ c.t.readyOn = b.t.readyOn
  <2>1. b.t \in Table  BY <1>12 DEF Work
  <2>2. c = [b EXCEPT !.t = [b.t EXCEPT !.last = {}, !.lastType = "ERROR"]]
    BY <1>12 DEF Work
  <2>3. c.t = [b.t EXCEPT !.last = {}, !.lastType = "ERROR"] /\ c.db = b.db
    BY <1>12, <2>2 DEF Work
  <2>4. c \in Work  BY <1>12, <1>13, <2>1, <2>2, OnTable
  <2>. HIDE DEF c
  <2>. QED  BY ZenonT(60), <1>13, <2>1, <2>3, <2>4
<1>. HIDE DEF c
<1>15. InTurn(b, c)  BY <1>14 DEF InTurn, SameGame, BombSum
<1>16. \A p : WrittenBut(b.t, b.db, p) => WrittenBut(c.t, c.db, p)
  BY <1>0, <1>12, <1>14 DEF Work
<1>17. InTurn(x, c)  BY <1>5, <1>10, <1>12, <1>15, InTurnOn
<1>18. Passed(x) = IF y.t.passes < NP - 1 THEN y ELSE c
  BY DEF Passed, y, z, b, c
<1>. QED  BY <1>4, <1>5, <1>6, <1>9, <1>11, <1>12, <1>14, <1>16, <1>17, <1>18

LEMMA PrevOfNext == \A s \in Seat : PrevSeat(NextSeat(s)) = s
<1>1. CASE NP = 2  BY <1>1 DEF Seat, NextSeat, PrevSeat
<1>2. CASE NP = 3  BY <1>2 DEF Seat, NextSeat, PrevSeat
<1>. QED  BY <1>1, <1>2, PlayersAssumption

(* Whoever passes, the seat that played last is the same; when all others  *)
(* have passed, it is the next one.                                        *)
LEMMA LastStays ==
  ASSUME NEW s \in Seat, NEW p \in Nat, p < NP - 1
  PROVE  IF p + 1 < NP - 1
         THEN (NextSeat(s) + NP + NP - (p + 1) - 1) % NP = (s + NP + NP - p - 1) % NP
         ELSE NextSeat(s) = (s + NP + NP - p - 1) % NP
<1>1. CASE NP = 2
  <2>1. p = 0 /\ s \in {0, 1}  BY <1>1 DEF Seat
  <2>. QED  BY <1>1, <2>1 DEF NextSeat
<1>2. CASE NP = 3
  <2>1. p \in {0, 1} /\ s \in {0, 1, 2}  BY <1>2 DEF Seat
  <2>. QED  BY <1>2, <2>1 DEF NextSeat
<1>. QED  BY <1>1, <1>2, PlayersAssumption

LEMMA CalledIs ==
  ASSUME NEW x \in Work, NEW s \in Seat
  PROVE  LET y == Called(x, s) IN
         /\ InTurn(x, y) /\ y.t.curr = s /\ y.t.newRound = x.t.newRound
         /\ y.t.opened = x.t.opened /\ y.t.passes = x.t.passes /\ y.t.last = x.t.last
         /\ WrittenBut(x.t, x.db, PrevSeat(s)) => Current(y.t, y.db)
<1>. DEFINE u == [x.t EXCEPT !.curr = s]
            w == [x EXCEPT !.t.curr = s]
<1>1. x.t \in Table  BY DEF Work
<1>2. /\ u \in Table /\ u.chair = x.t.chair /\ u.curr = s /\ u.newRound = x.t.newRound
      /\ u.opened = x.t.opened /\ u.passes = x.t.passes /\ u.last = x.t.last
      /\ u.status = x.t.status /\ u.banker = x.t.banker /\ u.bird = x.t.bird
      /\ u.games = x.t.games /\ u.readyOn = x.t.readyOn
  BY <1>1 DEF Table
<1>3. w = [x EXCEPT !.t = u]  BY DEF Work
<1>. HIDE DEF u, w
<1>4. w \in Work /\ w.t = u /\ w.db = x.db  BY <1>2, <1>3, OnTable DEF Work
<1>. DEFINE y == SaveCall(w)
<1>5. y.t = u /\ y.db.paid = x.db.paid
  <2>1. CallOf(w.db, w.t) \in Database /\ CallOf(w.db, w.t).paid = x.db.paid
    <3>1. CallOf(w.db, w.t) \in Database  BY <1>4, CallOfTyped DEF Work
    <3>. QED  BY <1>4, <3>1 DEF CallOf, Work, Database
  <2>2. \A e \in Database : \A p, c : [e EXCEPT !.chair[p] = c].paid = e.paid  BY DEF Database
  <2>3. y.db = [CallOf(w.db, w.t) EXCEPT
                  !.chair[PrevSeat(w.t.curr)] = Serialized(w.t.chair[PrevSeat(w.t.curr)])]
    BY <1>4, CallSaved
  <2>4. y.t = u  BY <1>4, CallSaved
  <2>. HIDE DEF y
  <2>. QED  BY <2>1, <2>2, <2>3, <2>4
<1>6. WrittenBut(x.t, x.db, PrevSeat(s)) => WrittenBut(w.t, w.db, PrevSeat(w.t.curr))
  BY <1>2, <1>4 DEF WrittenBut
<1>7. WrittenBut(x.t, x.db, PrevSeat(s)) => Current(y.t, y.db)
  BY <1>4, <1>6, SaveCallCurrent
<1>8. Called(x, s) = y  BY DEF Called, y, w
<1>. HIDE DEF y
<1>9. InTurn(x, y)  BY <1>2, <1>5 DEF InTurn, SameGame, BombSum
<1>. QED  BY <1>2, <1>5, <1>7, <1>8, <1>9

(* What waiting for a seat and passing leave as they are.                  *)
RoundKept(x, y) ==
  /\ InTurn(x, y)
  /\ LastOf(y.t) = LastOf(x.t) /\ RoundOK(y.t)
  /\ Shaped(x.t) => Shaped(y.t)
  /\ y.t.last \in {x.t.last, {}}
  /\ x.t.opened => y.t.opened

LEMMA RoundKeptOn ==
  ASSUME NEW x, NEW y, NEW z, RoundKept(x, y), RoundKept(y, z)  PROVE RoundKept(x, z)
BY InTurnOn DEF RoundKept

LEMMA PassedOn ==
  ASSUME NEW x \in Work, ~x.t.newRound, RoundOK(x.t)
  PROVE  LET y == PassOn(x) IN
         /\ y \in Work /\ RoundKept(x, y) /\ y.t.opened
         /\ Written(x.t, x.db) => Current(y.t, y.db)
<1>. DEFINE p == Passed(x)
            n == NextSeat(p.t.curr)
            y == Called(p, n)
<1>1. /\ p \in Work /\ InTurn(x, p) /\ p.t.curr = x.t.curr /\ p.t.opened
      /\ IF x.t.passes + 1 < NP - 1
         THEN /\ p.t.newRound = x.t.newRound /\ p.t.passes = x.t.passes + 1
              /\ p.t.last = x.t.last
         ELSE p.t.newRound /\ p.t.passes = 0 /\ p.t.last = {}
      /\ \A s : WrittenBut(x.t, x.db, s) => WrittenBut(p.t, p.db, s)
  BY PassedIs, PassedTyped
<1>2. x.t.curr \in Seat /\ x.t.passes \in Nat  BY DEF Work, Table
<1>. HIDE DEF p
<1>3. n \in Seat /\ n = NextSeat(x.t.curr) /\ PrevSeat(n) = x.t.curr
  BY <1>1, <1>2, SeatsAre, PrevOfNext
<1>. HIDE DEF n
<1>4. /\ y \in Work /\ InTurn(p, y) /\ y.t.curr = n /\ y.t.newRound = p.t.newRound
      /\ y.t.opened = p.t.opened /\ y.t.passes = p.t.passes /\ y.t.last = p.t.last
      /\ WrittenBut(p.t, p.db, PrevSeat(n)) => Current(y.t, y.db)
  BY <1>1, <1>3, CalledIs, CalledTyped
<1>5. PassOn(x) = y  BY DEF PassOn, p, n
<1>. HIDE DEF y
<1>6. x.t.passes < NP - 1  BY DEF RoundOK
<1>7. LastOf(y.t) = LastOf(x.t)
  <2>1. LastOf(x.t) = (x.t.curr + NP + NP - x.t.passes - 1) % NP  BY DEF LastOf
  <2>2. CASE x.t.passes + 1 < NP - 1
    <3>1. LastOf(y.t) = (NextSeat(x.t.curr) + NP + NP - (x.t.passes + 1) - 1) % NP
      BY <1>1, <1>3, <1>4, <2>2 DEF LastOf
    <3>. QED  BY <1>2, <1>6, <2>1, <2>2, <3>1, LastStays
  <2>3. CASE ~(x.t.passes + 1 < NP - 1)
    <3>1. LastOf(y.t) = NextSeat(x.t.curr)  BY <1>1, <1>3, <1>4, <2>3 DEF LastOf
    <3>. QED  BY <1>2, <1>6, <2>1, <2>3, <3>1, LastStays
  <2>. QED  BY <2>2, <2>3
<1>8. RoundOK(y.t) /\ (Shaped(x.t) => Shaped(y.t)) /\ y.t.last \in {x.t.last, {}}
  BY <1>1, <1>4 DEF RoundOK, Shaped
<1>9. Written(x.t, x.db) => Current(y.t, y.db)
  BY <1>1, <1>4 DEF Written, WrittenBut
<1>10. InTurn(x, y)  BY <1>1, <1>4, InTurnOn
<1>. QED  BY <1>1, <1>4, <1>5, <1>7, <1>8, <1>9, <1>10 DEF RoundKept

LEMMA ArmKeeps ==
  ASSUME NEW x \in Work, RoundOK(x.t)
  PROVE  /\ RoundKept(x, Arm(x))
         /\ Current(x.t, x.db) => Current(Arm(x).t, Arm(x).db)
<1>. DEFINE y == Arm(x)
<1>1. /\ y.db = x.db /\ y.t.chair = x.t.chair /\ InTurn(x, y) /\ SameCall(x.t, y.t)
  BY ArmedIs
<1>. HIDE DEF y
<1>2. RoundKept(x, y)
  BY <1>1 DEF RoundKept, SameCall, LastOf, RoundOK, Shaped
<1>3. Current(x.t, x.db) => Current(y.t, y.db)
  <2>1. /\ y.t.status = x.t.status /\ y.t.banker = x.t.banker /\ y.t.games = x.t.games
    BY <1>1 DEF InTurn, SameGame
  <2>. QED  BY <1>1, <2>1 DEF SameCall, Current, Written, CallRead
<1>. QED  BY <1>2, <1>3 DEF y

LEMMA Awaited ==
  ASSUME NEW x \in Work, RoundOK(x.t)
  PROVE  LET y == Await(x) IN
         /\ RoundKept(x, y)
         /\ Current(x.t, x.db) => Current(y.t, y.db)
         /\ x.t.newRound => SameCall(x.t, y.t)
<1>1. CASE ~PassesAlone(x)
  <2>1. Await(x) = Arm(x)  BY <1>1 DEF Await
  <2>. QED  BY <2>1, ArmKeeps, ArmedIs
<1>2. CASE PassesAlone(x)
  <2>. DEFINE y == PassOn(x)
              z == PassOn(y)
  <2>0. ~x.t.newRound  BY <1>2 DEF PassesAlone
  <2>1. /\ y \in Work /\ RoundKept(x, y)
        /\ Current(x.t, x.db) => Current(y.t, y.db)
    BY <2>0, PassedOn DEF Current
  <2>2. RoundOK(y.t)  BY <2>1 DEF RoundKept
  <2>. HIDE DEF y
  <2>3. CASE ~PassesAlone(y)
    <3>1. Await(x) = Arm(y)  BY <1>2, <2>3 DEF Await, y
    <3>2. RoundKept(x, Arm(y))  BY <2>1, <2>2, ArmKeeps, RoundKeptOn
    <3>. QED  BY <2>0, <2>1, <2>2, <3>1, <3>2, ArmKeeps
  <2>4. CASE PassesAlone(y)
    <3>1. Await(x) = Arm(z)  BY <1>2, <2>4 DEF Await, y
    <3>2. ~y.t.newRound  BY <2>4 DEF PassesAlone
    <3>3. /\ z \in Work /\ RoundKept(y, z)
          /\ Current(y.t, y.db) => Current(z.t, z.db)
      BY <2>1, <2>2, <3>2, PassedOn DEF Current
    <3>4. RoundOK(z.t)  BY <3>3 DEF RoundKept
    <3>. HIDE DEF z
    <3>5. RoundKept(x, Arm(z))  BY <2>1, <3>3, <3>4, ArmKeeps, RoundKeptOn
    <3>. QED  BY <2>0, <2>1, <3>1, <3>3, <3>4, <3>5, ArmKeeps
  <2>. QED  BY <2>3, <2>4
<1>. QED  BY <1>1, <1>2

-----------------------------------------------------------------------------
(* A play, and the end of a game.                                          *)

(* The table and the accounts after a game that a winner ended.            *)
Ended(x, y, winner) ==
  /\ y.t.status = "endgame" /\ y.t.readyOn
  /\ y.t.banker = (IF RoomType = 1 THEN winner ELSE NoOne) /\ y.t.games = x.t.games
  /\ y.t.newRound = x.t.newRound /\ y.t.passes = x.t.passes
  /\ \A s \in Seat : Held(x.t, s) => y.t.chair[s] = Flagless(x.t.chair[s].who)
  /\ \A s \in Seat : y.db.paid[s] = x.db.paid[s] + 1
  /\ y.db.status = "endgame" /\ y.db.banker = y.t.banker

LEMMA Settled ==
  ASSUME NEW x \in Work, NEW winner \in Seat, NEW prefixes
  PROVE  Ended(x, Settle(x, winner, prefixes), winner)
<1>. DEFINE w == [x EXCEPT !.t.status = "endgame"]
            a == Pay(w, prefixes)
            k == IF RoomType = 1 THEN winner ELSE NoOne
            e == [a EXCEPT !.t.banker = k]
            b == SaveBanker(e)
            c == StartReadyTimer(b)
            r == [c EXCEPT !.t = ResetFlags(c.t)]
<1>1. /\ w \in Work /\ w.db = x.db /\ w.t = [x.t EXCEPT !.status = "endgame"]
  BY DEF Work, Table, Statuses
<1>2. /\ w.t.status = "endgame" /\ w.t.games = x.t.games /\ w.t.newRound = x.t.newRound
      /\ w.t.passes = x.t.passes /\ w.t.chair = x.t.chair
  BY <1>1 DEF Work, Table
<1>. HIDE DEF w
<1>3. a \in Work /\ a.t = w.t /\ \A s \in Seat : a.db.paid[s] = x.db.paid[s] + 1
  <2>. DEFINE F(P) == [s \in Seat |-> IF s \in P THEN w.db.paid[s] + 1 ELSE w.db.paid[s]]
              Paid(P) == [w.db EXCEPT !.paid = F(P)]
  <2>1. Pay(w, prefixes) = [w EXCEPT !.db = Paid(Seat), !.trail = @ \cup {Paid(P) : P \in prefixes}]
    BY DEF Pay
  <2>2. \A s \in Seat : Paid(Seat).paid[s] = w.db.paid[s] + 1  BY <1>1 DEF Work, Database
  <2>. HIDE DEF Paid
  <2>3. a.t = w.t /\ a.db = Paid(Seat)  BY <1>1, <2>1 DEF Work
  <2>. QED  BY <1>1, <2>2, <2>3, PayTyped
<1>. HIDE DEF a
<1>4. k \in Seat \cup {NoOne}  OBVIOUS
<1>. HIDE DEF k
<1>5. e \in Work /\ e.db = a.db /\ e.t = [a.t EXCEPT !.banker = k]
  BY <1>3, <1>4 DEF Work, Table
<1>6. /\ e.t.status = "endgame" /\ e.t.banker = k /\ e.t.games = x.t.games
      /\ e.t.newRound = x.t.newRound /\ e.t.passes = x.t.passes /\ e.t.chair = x.t.chair
  BY <1>2, <1>3, <1>5 DEF Work, Table
<1>. HIDE DEF e
<1>7. /\ b \in Work /\ b.t = e.t /\ b.db.paid = e.db.paid
      /\ b.db.status = e.t.status /\ b.db.banker = e.t.banker
  <2>1. /\ b.t = e.t
        /\ b.db = [e.db EXCEPT !.begun = TRUE, !.status = e.t.status,
                               !.banker = e.t.banker, !.games = e.t.games]
    BY <1>5, BankerSaved
  <2>2. b \in Work  BY <1>5, SaveBankerTyped
  <2>. HIDE DEF b
  <2>. QED  BY <1>5, <2>1, <2>2 DEF Work, Database
<1>. HIDE DEF b
<1>8. c \in Work /\ c.db = b.db /\ c.t = [b.t EXCEPT !.readyOn = TRUE]
  BY <1>7, StartReadyTimerTyped DEF StartReadyTimer, Work
<1>9. /\ c.t \in Table /\ c.t.status = "endgame" /\ c.t.readyOn /\ c.t.banker = k
      /\ c.t.games = x.t.games /\ c.t.newRound = x.t.newRound /\ c.t.passes = x.t.passes
      /\ c.t.chair = x.t.chair
  <2>1. b.t \in Table  BY <1>7 DEF Work
  <2>2. LET v == [b.t EXCEPT !.readyOn = TRUE] IN
        /\ v \in Table /\ v.readyOn /\ v.status = b.t.status /\ v.banker = b.t.banker
        /\ v.games = b.t.games /\ v.newRound = b.t.newRound /\ v.passes = b.t.passes
        /\ v.chair = b.t.chair
    BY <2>1 DEF Table
  <2>. HIDE DEF c
  <2>. QED  BY <1>6, <1>7, <1>8, <2>2
<1>. HIDE DEF c
<1>10. r.t = ResetFlags(c.t) /\ r.db = c.db  BY <1>8 DEF Work
<1>. DEFINE C == [s \in Seat |-> IF Held(c.t, s) THEN Flagless(c.t.chair[s].who) ELSE c.t.chair[s]]
<1>11. \A s \in Seat : Held(x.t, s) => C[s] = Flagless(x.t.chair[s].who)
  BY <1>9 DEF Held
<1>12. ResetFlags(c.t) = [c.t EXCEPT !.chair = C]  BY DEF ResetFlags
<1>. HIDE DEF C
<1>13. /\ r.t.status = "endgame" /\ r.t.readyOn /\ r.t.banker = k /\ r.t.games = x.t.games
       /\ r.t.newRound = x.t.newRound /\ r.t.passes = x.t.passes /\ r.t.chair = C
  BY <1>9, <1>10, <1>12 DEF Table
<1>14. Settle(x, winner, prefixes) = r  BY DEF Settle, r, c, b, e, k, a, w
<1>. HIDE DEF r
<1>. QED  BY <1>3, <1>5, <1>6, <1>7, <1>8, <1>10, <1>11, <1>13, <1>14 DEF Ended, k

(* A play that leaves the hand of a seat some cards.                       *)
Played(x, y, cards) ==
  LET s == x.t.curr
      left == x.t.chair[s].hand \ cards
  IN /\ y.t.status = x.t.status /\ y.t.banker = x.t.banker /\ y.t.bird = x.t.bird
     /\ y.t.games = x.t.games /\ y.t.readyOn = x.t.readyOn
     /\ y.t.chair[s].hand = left /\ y.t.chair[s].single = (x.t.chair[s].single \/ LastCard(left))
     /\ \A r \in Seat \ {s} : /\ y.t.chair[r].hand = x.t.chair[r].hand
                              /\ y.t.chair[r].single = x.t.chair[r].single
     /\ BombSum(y.t) = BombSum(x.t) /\ y.db.paid = x.db.paid
     /\ LastOf(y.t) = s /\ RoundOK(y.t) /\ y.t.opened /\ y.t.last \in {cards, {}}
     /\ cards # {} => Shaped(y.t)
     /\ Written(x.t, x.db) => Current(y.t, y.db)

LEMMA CardsPlayed ==
  ASSUME NEW x \in Work, NEW cards \in Hands, NEW type \in CardTypes
  PROVE  LET s == x.t.curr
             y == CallPlayCard(x, cards, type)
         IN IF x.t.chair[s].hand \ cards # {} THEN Played(x, y, cards)
            ELSE \E z \in Work :
                   /\ y = GameEnd(z) /\ z.t.curr = s /\ z.t.games = x.t.games
                   /\ z.db.paid = x.db.paid /\ RoundOK(z.t)
                   /\ \A r \in Seat : z.t.chair[r].who = x.t.chair[r].who
<1>. DEFINE s == x.t.curr
            left == x.t.chair[s].hand \ cards
            single == x.t.chair[s].single \/ LastCard(left)
            after == [x.t.chair[s] EXCEPT !.hand = left, !.single = @ \/ LastCard(left)]
            u == [x.t EXCEPT !.opened = TRUE, !.passes = 0, !.newRound = FALSE,
                             !.last = cards, !.lastType = type, !.chair[s] = after]
            y == [x EXCEPT !.t = u]
<1>1. s \in Seat /\ x.t \in Table /\ x.t.chair[s] \in Chair  BY DEF Work, Table
<1>2. left \in Hands
  <2>1. x.t.chair[s].hand \in Hands  BY <1>1 DEF Chair
  <2>. QED  BY <2>1, HandsClosed
<1>3. /\ after.hand = left /\ after.single = single /\ after.who = x.t.chair[s].who
      /\ after.bomb = x.t.chair[s].bomb
  BY <1>1 DEF Chair
<1>4. u \in Table  BY <1>1, <1>2, PlayedTyped
<1>. HIDE DEF after
<1>5. /\ u.opened /\ u.passes = 0 /\ ~u.newRound /\ u.last = cards /\ u.curr = s
      /\ u.status = x.t.status /\ u.banker = x.t.banker /\ u.bird = x.t.bird
      /\ u.games = x.t.games /\ u.readyOn = x.t.readyOn
      /\ u.chair[s] = after /\ \A r \in Seat \ {s} : u.chair[r] = x.t.chair[r]
  BY <1>1 DEF Table
<1>. HIDE DEF u
<1>6. BombSum(u) = BombSum(x.t)
  <2>1. \A r \in Seat : u.chair[r].bomb = x.t.chair[r].bomb  BY <1>3, <1>5
  <2>2. NP = 3 => 2 \in Seat  BY DEF Seat
  <2>3. u.chair[0].bomb = x.t.chair[0].bomb /\ u.chair[1].bomb = x.t.chair[1].bomb
    BY <2>1, SeatsAre
  <2>4. CASE NP = 3
    <3>1. u.chair[2].bomb = x.t.chair[2].bomb  BY <2>1, <2>2, <2>4
    <3>. QED  BY <2>3, <3>1 DEF BombSum
  <2>5. CASE NP # 3  BY <2>3, <2>5 DEF BombSum
  <2>. QED  BY <2>4, <2>5
<1>7. y \in Work /\ y.t = u /\ y.db = x.db  BY <1>4, OnTable DEF Work
<1>. HIDE DEF y
<1>8. CASE left # {}
  <2>. DEFINE n == NextSeat(s)
              c == Called(y, n)
              z == Await(c)
  <2>1. n \in Seat /\ PrevSeat(n) = s  BY <1>1, SeatsAre, PrevOfNext
  <2>2. /\ c \in Work /\ InTurn(y, c) /\ c.t.curr = n /\ ~c.t.newRound
        /\ c.t.opened /\ c.t.passes = 0 /\ c.t.last = cards
        /\ WrittenBut(y.t, y.db, s) => Current(c.t, c.db)
    BY <1>5, <1>7, <2>1, CalledIs, CalledTyped
  <2>. HIDE DEF c
  <2>3. LastOf(c.t) = s
    <3>1. LastOf(c.t) = (n + NP + NP - 0 - 1) % NP  BY <2>2 DEF LastOf
    <3>2. (n + NP + NP - 0 - 1) % NP = s
      <4>1. CASE NP = 2
        <5>1. s \in {0, 1}  BY <1>1, <4>1 DEF Seat
        <5>. QED  BY <4>1, <5>1 DEF NextSeat
      <4>2. CASE NP = 3
        <5>1. s \in {0, 1, 2}  BY <1>1, <4>2 DEF Seat
        <5>. QED  BY <4>2, <5>1 DEF NextSeat
      <4>. QED  BY <4>1, <4>2, PlayersAssumption
    <3>. QED  BY <3>1, <3>2
  <2>4. RoundOK(c.t) /\ (cards # {} => Shaped(c.t))
    BY <2>2, PlayersAssumption DEF RoundOK, Shaped
  <2>5. RoundKept(c, z) /\ (Current(c.t, c.db) => Current(z.t, z.db))
    BY <2>2, <2>4, Awaited
  <2>6. InTurn(y, z)  BY <2>2, <2>5, InTurnOn DEF RoundKept
  <2>7. Written(x.t, x.db) => WrittenBut(y.t, y.db, s)
    BY <1>5, <1>7 DEF Written, WrittenBut
  <2>8. CallPlayCard(x, cards, type) = z
    BY SMTT(60), <1>8 DEF CallPlayCard, Turn, z, c, y, u, after
  <2>. HIDE DEF z
  <2>9. Played(x, z, cards)
    BY <1>1, <1>3, <1>5, <1>6, <1>7, <2>2, <2>3, <2>4, <2>5, <2>6, <2>7
       DEF Played, RoundKept, InTurn, SameGame
  <2>. QED  BY <1>8, <2>8, <2>9
<1>9. CASE left = {}
  <2>. DEFINE z == IF type = "BOMB" THEN PlayBomb(y, s) ELSE y
  <2>1. CallPlayCard(x, cards, type) = GameEnd(z)
    BY <1>9 DEF CallPlayCard, y, u, after
  <2>2. \A r \in Seat : y.t.chair[r].who = x.t.chair[r].who  BY <1>3, <1>5, <1>7
  <2>3. RoundOK(y.t)  BY <1>5, <1>7, PlayersAssumption DEF RoundOK
  <2>4. CASE type = "BOMB"
    <3>1. z \in Work  BY <1>1, <1>7, <2>4, PlayBombTyped
    <3>2. InTurn(y, z) /\ z.t.curr = y.t.curr /\ z.t.newRound = y.t.newRound
          /\ z.t.passes = y.t.passes
      BY <1>1, <1>7, <2>4, BombPlayed
    <3>. HIDE DEF z
    <3>. QED  BY <1>5, <1>7, <1>9, <2>1, <2>2, <2>3, <3>1, <3>2 DEF InTurn, SameGame, RoundOK
  <2>5. CASE type # "BOMB"
    <3>1. z = y  BY <2>5
    <3>. HIDE DEF z
    <3>. QED  BY <1>5, <1>7, <1>9, <2>1, <2>2, <2>3, <3>1
  <2>. QED  BY <2>4, <2>5
<1>. QED  BY <1>8, <1>9

-----------------------------------------------------------------------------
(* What the server plays.                                                  *)

LEMMA HandsFinite == \A hand \in Hands : IsFiniteSet(hand) /\ hand \subseteq Nat
<1>. SUFFICES ASSUME NEW hand \in Hands  PROVE IsFiniteSet(hand) /\ hand \subseteq Nat
  OBVIOUS
<1>1. CASE hand = {}  BY <1>1, FS_EmptySet
<1>2. CASE hand # {}
  <2>1. PICK d \in Deals, s \in Seat : hand \subseteq d[s]  BY <1>2 DEF Hands
  <2>2. IsFiniteSet(d[s]) /\ d[s] \subseteq Nat  BY DealsAssumption
  <2>. QED  BY <2>1, <2>2, FS_Subset
<1>. QED  BY <1>1, <1>2

(* A hand has a highest card: one with the fewest cards above it.          *)
LEMMA TopThere ==
  ASSUME NEW hand \in Hands, hand # {}  PROVE Top(hand) # {}
<1>. DEFINE Above(c) == {e \in hand : e > c}
            T == {Above(c) : c \in hand}
            R == StrictSubsetOrdering(hand)
<1>1. IsFiniteSet(hand) /\ hand \subseteq Nat  BY HandsFinite
<1>2. IsWellFoundedOn(R, FiniteSubsetsOf(hand))  BY FS_StrictSubsetOrderingWellFounded
<1>3. T \subseteq FiniteSubsetsOf(hand)
  <2>1. \A c \in hand : Above(c) \subseteq hand /\ IsFiniteSet(Above(c))  BY <1>1, FS_Subset
  <2>. QED  BY <2>1 DEF FiniteSubsetsOf
<1>4. T # {}  OBVIOUS
<1>. HIDE DEF R
<1>5. PICK a \in T : \A b \in T : <<b, a>> \notin R
  <2>. HIDE DEF T
  <2>. QED  BY <1>2, <1>3, <1>4, WFMin
<1>6. PICK c \in hand : a = Above(c)  OBVIOUS
<1>7. ASSUME NEW e \in hand, e > c  PROVE FALSE
  <2>1. Above(e) \in T  OBVIOUS
  <2>2. Above(e) \subseteq Above(c) /\ Above(e) # Above(c)
    <3>1. hand \subseteq Int  BY <1>1
    <3>2. e \in Above(c) /\ e \notin Above(e)  BY <1>7, <3>1
    <3>3. \A f \in hand : f > e => f > c
      <4>1. \A m, n, k \in Int : m > n /\ n > k => m > k  OBVIOUS
      <4>. QED  BY <1>7, <3>1, <4>1
    <3>4. Above(e) \subseteq Above(c)  BY <3>3
    <3>. QED  BY <3>2, <3>4
  <2>3. Above(e) \in SUBSET hand /\ Above(c) \in SUBSET hand  OBVIOUS
  <2>. HIDE DEF T, Above
  <2>4. <<Above(e), Above(c)>> \in R  BY <2>2, <2>3 DEF R, StrictSubsetOrdering
  <2>. QED  BY <1>5, <1>6, <2>1, <2>4
<1>8. \A e \in hand : e <= c  BY <1>1, <1>7
<1>. QED  BY <1>8 DEF Top

LEMMA AutoPlays ==
  ASSUME NEW x \in Work,
         x.t.newRound /\ ~OpensGame(x.t) => x.t.chair[x.t.curr].hand # {}
  PROVE  LET hand == x.t.chair[x.t.curr].hand IN
         \/ ~x.t.newRound /\ AutoPlayCard(x) = PassTurn(x)
         \/ \E cards \in Hands, type \in CardTypes :
              /\ AutoPlayCard(x) = CallPlayCard(x, cards, type)
              /\ \/ cards \subseteq hand
                 \/ x.t.newRound /\ OpensGame(x.t) /\ cards = {OpeningCard}
              /\ hand # {} => cards # {}
<1>. DEFINE hand == x.t.chair[x.t.curr].hand
            lead == AutoLead(hand)
            follow == AutoFollow(x.t.lastType, x.t.last, hand)
<1>1. /\ x.t.curr \in Seat /\ hand \in Hands
      /\ x.t.last \in Hands /\ x.t.lastType \in CardTypes
  BY DEF Work, Table, Chair
<1>2. /\ Top(hand) \in Hands /\ Top(hand) \subseteq hand /\ "ONE" \in CardTypes
      /\ hand # {} => Top(hand) # {}
  BY <1>1, HandsClosed, TopThere DEF Top, CardTypes
<1>. DEFINE Lays(cards, type) ==
              /\ AutoPlayCard(x) = CallPlayCard(x, cards, type)
              /\ \/ cards \subseteq hand
                 \/ x.t.newRound /\ OpensGame(x.t) /\ cards = {OpeningCard}
              /\ hand # {} => cards # {}
<1>. HIDE DEF hand
<1>3. CASE x.t.newRound /\ OpensGame(x.t)
  <2>1. {OpeningCard} \in Hands  BY <1>3, HandsClosed DEF OpensGame
  <2>2. AutoPlayCard(x) = CallPlayCard(x, {OpeningCard}, "ONE")  BY <1>3 DEF AutoPlayCard
  <2>3. Lays({OpeningCard}, "ONE")  BY <1>3, <2>2
  <2>. QED  BY <1>2, <2>1, <2>3 DEF hand
<1>4. CASE x.t.newRound /\ ~OpensGame(x.t)
  <2>1. hand # {}  BY <1>4 DEF hand
  <2>2. lead \in Hands /\ lead \subseteq hand /\ lead # {} /\ Kind(lead) \in CardTypes
    BY <1>1, <2>1, LibraryAssumption, HandsClosed, TypesAre
  <2>3. \/ AutoPlayCard(x) = CallPlayCard(x, Top(hand), "ONE")
        \/ AutoPlayCard(x) = CallPlayCard(x, lead, Kind(lead))
    BY <1>4 DEF AutoPlayCard, hand
  <2>4. Lays(Top(hand), "ONE") \/ Lays(lead, Kind(lead))  BY SMTT(60), <1>2, <2>2, <2>3
  <2>. QED  BY <1>2, <2>2, <2>4 DEF hand
<1>5. CASE ~x.t.newRound
  <2>1. follow \in Hands /\ follow \subseteq hand /\ Kind(follow) \in CardTypes
    BY <1>1, LibraryAssumption, HandsClosed, TypesAre
  <2>2. \/ AutoPlayCard(x) = CallPlayCard(x, Top(hand), "ONE")
        \/ AutoPlayCard(x) = PassTurn(x)
        \/ follow # {} /\ AutoPlayCard(x) = CallPlayCard(x, follow, Kind(follow))
    BY <1>5 DEF AutoPlayCard, hand
  <2>3. \/ Lays(Top(hand), "ONE")
        \/ AutoPlayCard(x) = PassTurn(x)
        \/ Lays(follow, Kind(follow))
    BY <1>2, <2>1, <2>2
  <2>. QED  BY <1>2, <1>5, <2>1, <2>3 DEF hand
<1>. QED  BY <1>3, <1>4, <1>5

-----------------------------------------------------------------------------
(* The steps of a game.                                                    *)

(* Somebody comes or goes, or time passes.                                 *)
Unmoved(u, v) ==
  /\ SameCall(u, v)
  /\ v.status = u.status /\ v.banker = u.banker /\ v.bird = u.bird /\ v.games = u.games
  /\ \A s \in Seat :
       /\ v.chair[s].hand = u.chair[s].hand /\ v.chair[s].single = u.chair[s].single
       /\ v.chair[s].bomb = u.chair[s].bomb

(* A play that a player or the server may choose.                          *)
Chosen(cards) ==
  /\ \/ cards \subseteq t.chair[t.curr].hand
     \/ RoomType = 0 /\ t.newRound /\ OpensGame(t) /\ cards = {OpeningCard}
  /\ t.chair[t.curr].hand # {} => cards # {}

Becomes(x) == t' = x.t /\ db' = x.db

(* The process dies, of the robot or of anything else.                     *)
Dies == t' = Gone /\ (crashes' = crashes + 1 \/ RobotDies)

Moves ==
  \/ Dies
  \/ db' = db /\ Unmoved(t, t')
  \/ \E y \in {Now, Disarm(Now)} :
       \/ ~t.newRound /\ Becomes(PassTurn(y))
       \/ \E cards \in Hands, type \in CardTypes :
            Chosen(cards) /\ Becomes(CallPlayCard(y, cards, type))
  \/ \E s \in Seat : Becomes(GameEndSpecial(Now, s))

LEMMA StepBecomes ==
  ASSUME NEW x, Step(x)  PROVE Dies \/ Becomes(x)
BY DEF Step, Completes, CutShort, Becomes, Dies

LEMMA ChairUnmoved ==
  ASSUME TypeOK, NEW s \in Seat, NEW w
  PROVE  /\ [Now EXCEPT !.t.chair[s].who = w].db = db
         /\ Unmoved(t, [Now EXCEPT !.t.chair[s].who = w].t)
<1>. DEFINE c == [t.chair[s] EXCEPT !.who = w]
            u == [t EXCEPT !.chair[s] = c]
            y == [Now EXCEPT !.t.chair[s].who = w]
<1>1. Now.t = t /\ Now.db = db /\ t \in Table /\ t.chair[s] \in Chair
  BY DEF Now, Doing, TypeOK, Table
<1>2. c.hand = t.chair[s].hand /\ c.single = t.chair[s].single /\ c.bomb = t.chair[s].bomb
  BY <1>1 DEF Chair
<1>3. y.t = u /\ y.db = db  BY <1>1 DEF Now, Doing, Table
<1>. HIDE DEF c, y
<1>4. \A r \in Seat : u.chair[r] = IF r = s THEN c ELSE t.chair[r]  BY <1>1 DEF Table
<1>5. SameCall(t, u) /\ u.status = t.status /\ u.banker = t.banker /\ u.bird = t.bird
      /\ u.games = t.games
  BY <1>1 DEF Table, SameCall
<1>. HIDE DEF u
<1>. QED  BY <1>2, <1>3, <1>4, <1>5 DEF Unmoved, y

LEMMA GameSteps ==
  ASSUME GameInv, Playing, Next  PROVE Moves
<1>1. /\ Now \in Work /\ Now.t = t /\ Now.db = db /\ TypeOK
      /\ t.curr \in Seat /\ t.chair[t.curr].hand \in Hands
  BY KeptNow DEF GameInv, TypeOK, Table, Chair
<1>2. t.status = "betting" /\ IsBetting(t) /\ ~Idle(t) /\ Full(t) /\ ~t.readyOn
  BY DEF Playing, IsBetting, Idle, GameInv, Agree
<1>3. Found(Now) = Now  BY <1>1, <1>2 DEF Found
<1>4. /\ Disarm(Now) \in Work /\ Disarm(Now).db = db /\ Disarm(Now).t.chair = t.chair
      /\ SameCall(t, Disarm(Now).t) /\ InTurn(Now, Disarm(Now))
  BY <1>1, ArmedIs
<1>5. CASE SitNew  BY <1>1, <1>2, <1>3, <1>5 DEF SitNew
<1>6. CASE Look  BY <1>2, <1>6 DEF Look
<1>7. ASSUME NEW s \in Seat, Return(s)  PROVE Moves
  <2>. DEFINE y == [Now EXCEPT !.t.chair[s].who = "on"]
  <2>1. y.db = db /\ Unmoved(t, y.t)  BY <1>1, ChairUnmoved
  <2>. HIDE DEF y
  <2>2. AwaitReady(y) = y  BY <1>2, <2>1 DEF AwaitReady, Unmoved, Idle
  <2>3. Step(y)  BY <1>3, <1>7, <2>2 DEF Return, y
  <2>. QED  BY <2>1, <2>3, StepBecomes DEF Moves, Becomes
<1>8. ASSUME NEW s \in Seat, Disconnect(s) \/ Quit(s)  PROVE Moves
  <2>1. Step([Now EXCEPT !.t.chair[s].who = "off"])  BY <1>2, <1>8 DEF Disconnect, Quit
  <2>. QED  BY <1>1, <2>1, ChairUnmoved, StepBecomes DEF Moves, Becomes
<1>9. ASSUME NEW s \in Seat, Ready(s)  PROVE Moves
  BY <1>2, <1>9 DEF Ready
<1>10. ASSUME NEW y \in {Now, Disarm(Now)}, Step(AutoPlayCard(y)),
              t.newRound => RoomType = 0 /\ ~RobotDies
       PROVE  Moves
  <2>1. y \in Work /\ SameCall(t, y.t) /\ y.t.chair = t.chair
    BY <1>1, <1>4 DEF SameCall
  <2>2. /\ y.t.newRound = t.newRound /\ y.t.curr = t.curr
        /\ OpensGame(y.t) = OpensGame(t)
    BY <2>1 DEF SameCall, OpensGame
  <2>3. y.t.newRound /\ ~OpensGame(y.t) => y.t.chair[y.t.curr].hand # {}
    BY <1>10, <2>1, <2>2 DEF RobotDies
  <2>. DEFINE hand == y.t.chair[y.t.curr].hand
  <2>4. hand = t.chair[t.curr].hand  BY <2>1, <2>2
  <2>5. \/ ~y.t.newRound /\ AutoPlayCard(y) = PassTurn(y)
        \/ \E cards \in Hands, type \in CardTypes :
             /\ AutoPlayCard(y) = CallPlayCard(y, cards, type)
             /\ \/ cards \subseteq hand
                \/ y.t.newRound /\ OpensGame(y.t) /\ cards = {OpeningCard}
             /\ hand # {} => cards # {}
    <3>1. \A z \in Work :
            (z.t.newRound /\ ~OpensGame(z.t) => z.t.chair[z.t.curr].hand # {}) =>
            LET h == z.t.chair[z.t.curr].hand IN
            \/ ~z.t.newRound /\ AutoPlayCard(z) = PassTurn(z)
            \/ \E cards \in Hands, type \in CardTypes :
                 /\ AutoPlayCard(z) = CallPlayCard(z, cards, type)
                 /\ \/ cards \subseteq h
                    \/ z.t.newRound /\ OpensGame(z.t) /\ cards = {OpeningCard}
                 /\ h # {} => cards # {}
      BY AutoPlays
    <3>. QED  BY <2>1, <2>3, <3>1
  <2>6. Dies \/ Becomes(AutoPlayCard(y))  BY <1>10, StepBecomes
  <2>7. CASE ~t.newRound /\ AutoPlayCard(y) = PassTurn(y)
    BY <1>10, <2>6, <2>7, Zenon DEF Moves
  <2>8. ASSUME NEW cards \in Hands, NEW type \in CardTypes,
               AutoPlayCard(y) = CallPlayCard(y, cards, type), Chosen(cards)
        PROVE  Moves
    BY <1>10, <2>6, <2>8, Zenon DEF Moves
  <2>9. \A cards :
          /\ \/ cards \subseteq hand
             \/ y.t.newRound /\ OpensGame(y.t) /\ cards = {OpeningCard}
          /\ hand # {} => cards # {}
          => Chosen(cards)
    BY <1>10, <2>2, <2>4 DEF Chosen
  <2>. QED  BY <2>2, <2>5, <2>7, <2>8, <2>9
<1>11. ASSUME NEW s \in Seat, Pass(s)  PROVE Moves
  <2>1. ~t.newRound /\ (Step(AutoPlayCard(Now)) \/ Step(PassTurn(Now)))
    BY <1>11 DEF Pass
  <2>2. CASE Step(AutoPlayCard(Now))  BY <1>10, <2>1, <2>2
  <2>3. CASE Step(PassTurn(Now))  BY <2>1, <2>3, StepBecomes DEF Moves
  <2>. QED  BY <2>1, <2>2, <2>3
<1>12. ASSUME NEW s \in Seat, Run(s)  PROVE Moves
  BY <1>12, StepBecomes DEF Run, Moves
<1>13. ASSUME NEW s \in Seat, NEW cards \in SUBSET t.chair[t.curr].hand, Play(s, cards)
       PROVE  Moves
  <2>1. cards \in Hands  BY <1>1, HandsClosed
  <2>2. Chosen(cards)  BY <1>13 DEF Play, Accepts, Chosen
  <2>3. PlayedType(cards, t.chair[s].hand) \in CardTypes  BY <2>1, TypesAre
  <2>4. Step(CallPlayCard(Disarm(Now), cards, PlayedType(cards, t.chair[s].hand)))
    BY <1>13 DEF Play
  <2>5. Dies \/ Becomes(CallPlayCard(Disarm(Now), cards, PlayedType(cards, t.chair[s].hand)))
    BY <2>4, StepBecomes
  <2>. QED  BY <2>1, <2>2, <2>3, <2>5, Zenon DEF Moves
<1>14. CASE OnTimer_trustee
  <2>1. CASE RoomType = 1
    <3>1. Step(Disarm(Now))  BY <1>14, <2>1 DEF OnTimer_trustee
    <3>2. Unmoved(t, Disarm(Now).t)  BY <1>1, <1>4 DEF Unmoved, InTurn, SameGame
    <3>. QED  BY <1>4, <3>1, <3>2, StepBecomes DEF Moves, Becomes
  <2>2. CASE RoomType # 1
    <3>1. RoomType = 0  BY <2>2, PlayersAssumption
    <3>2. Dies \/ (~RobotDies /\ Step(AutoPlayCard(Disarm(Now))))
      BY <1>2, <1>14, <2>2 DEF OnTimer_trustee, Dies
    <3>. QED  BY <1>10, <3>1, <3>2 DEF Moves
  <2>. QED  BY <2>1, <2>2
<1>15. CASE OnTimer_ready
  BY <1>2, <1>15 DEF OnTimer_ready, StopReadyTimer, ThrowOut
<1>16. CASE Tick
  <2>. DEFINE u == [t EXCEPT !.trustee = @ - 1]
              y == [Now EXCEPT !.t.trustee = @ - 1]
  <2>1. y.t = u /\ y.db = db  BY <1>1 DEF Now, Doing
  <2>2. Unmoved(t, u)  BY <1>1 DEF TypeOK, Table, Unmoved, SameCall
  <2>3. Step(y)  BY <1>16 DEF Tick
  <2>. HIDE DEF y, u
  <2>. QED  BY <2>1, <2>2, <2>3, StepBecomes DEF Moves, Becomes
<1>17. CASE Crash  BY <1>17 DEF Crash, Moves, Dies
<1>. QED  BY <1>5, <1>6, <1>7, <1>8, <1>9, <1>11, <1>12, <1>13, <1>14, <1>15, <1>16, <1>17 DEF Next

-----------------------------------------------------------------------------
(* A round that its last pass should have ended is in no table and in no   *)
(* row, whatever write of whatever handler the process dies after.         *)

RowRound(d) == d.called /\ ~d.newRound => d.passes < NP - 1

Rounds(x) == RoundOK(x.t) /\ RowRound(x.db) /\ \A d \in x.trail : RowRound(d)

SameRound(d, e) == e.called = d.called /\ e.newRound = d.newRound /\ e.passes = d.passes

LEMMA RoundsTable ==
  ASSUME NEW x \in Work, Rounds(x), NEW u, RoundOK(u)  PROVE Rounds([x EXCEPT !.t = u])
BY DEF Rounds, Work

LEMMA RoundsPut ==
  ASSUME NEW x \in Work, Rounds(x), NEW d, SameRound(x.db, d) \/ RowRound(d)
  PROVE  Rounds(Put(x, d))
BY PutFields DEF Rounds, RowRound, SameRound

LEMMA RoundsCallOf ==
  ASSUME NEW d \in Database, NEW u \in Table, RoundOK(u)  PROVE RowRound(CallOf(d, u))
BY DEF RowRound, RoundOK, CallOf, Database

LEMMA ChairSameRound ==
  ASSUME NEW d \in Database, NEW s, NEW c  PROVE SameRound(d, [d EXCEPT !.chair[s] = c])
BY DEF SameRound, Database

LEMMA RoundsSaveChairs ==
  ASSUME NEW x \in Work, Rounds(x)  PROVE Rounds(SaveChairs(x))
<1>. DEFINE Saved(n) == [s \in Seat |-> IF s <= n THEN Serialized(x.t.chair[s]) ELSE x.db.chair[s]]
            Upto(n) == [x.db EXCEPT !.chair = Saved(n)]
<1>1. SaveChairs(x) = [x EXCEPT !.db = Upto(NP - 1), !.trail = @ \cup {Upto(n) : n \in Seat}]
  BY DEF SaveChairs
<1>2. \A f : SameRound(x.db, [x.db EXCEPT !.chair = f])  BY DEF Work, Database, SameRound
<1>3. \A n : RowRound(Upto(n))
  <2>1. \A n : SameRound(x.db, Upto(n))  BY <1>2
  <2>. HIDE DEF Upto
  <2>. QED  BY <2>1 DEF SameRound, RowRound, Rounds
<1>. HIDE DEF Upto
<1>4. /\ SaveChairs(x).t = x.t /\ SaveChairs(x).db = Upto(NP - 1)
      /\ SaveChairs(x).trail = x.trail \cup {Upto(n) : n \in Seat}
  BY <1>1 DEF Work
<1>. QED  BY <1>3, <1>4 DEF Rounds

LEMMA RoundsSaves ==
  ASSUME NEW x \in Work, Rounds(x), NEW s \in Seat
  PROVE  /\ Rounds(SaveChair(x, s)) /\ Rounds(SaveBanker(x)) /\ Rounds(SaveGame(x))
         /\ Rounds(SaveCall(x)) /\ Rounds(DeleteChair(x, s)) /\ Rounds(DeleteRow(x))
<1>1. x.db \in Database /\ x.t \in Table /\ RoundOK(x.t)  BY DEF Work, Rounds
<1>2. Rounds(SaveChair(x, s)) /\ Rounds(DeleteChair(x, s))
  BY <1>1, ChairSameRound, RoundsPut DEF SaveChair, DeleteChair
<1>3. Rounds(SaveBanker(x))
  <2>. DEFINE d == [x.db EXCEPT !.begun = TRUE, !.status = x.t.status, !.banker = x.t.banker,
                                !.games = x.t.games]
  <2>1. SameRound(x.db, d)  BY <1>1 DEF SameRound, Database
  <2>. HIDE DEF d
  <2>. QED  BY <2>1, RoundsPut DEF SaveBanker, d
<1>4. Rounds(SaveGame(x))  BY <1>3, SaveBankerTyped, RoundsSaveChairs DEF SaveGame
<1>5. Rounds(SaveCall(x))
  <2>. DEFINE p == PrevSeat(x.t.curr)
              e == CallOf(x.db, x.t)
              d == [e EXCEPT !.chair[p] = Serialized(x.t.chair[p])]
  <2>1. e \in Database /\ RowRound(e)  BY <1>1, CallOfTyped, RoundsCallOf
  <2>. HIDE DEF e
  <2>2. RowRound(d)  BY <2>1, ChairSameRound DEF RowRound, SameRound
  <2>. HIDE DEF d
  <2>. QED  BY <2>2, RoundsPut DEF SaveCall, d, e
<1>6. Rounds(DeleteRow(x))
  <2>1. RowRound([NoRow EXCEPT !.paid = x.db.paid])  BY DEF RowRound, NoRow
  <2>. QED  BY <2>1, RoundsPut DEF DeleteRow
<1>. QED  BY <1>2, <1>3, <1>4, <1>5, <1>6

LEMMA RoundsPay ==
  ASSUME NEW x \in Work, Rounds(x), NEW prefixes  PROVE Rounds(Pay(x, prefixes))
<1>. DEFINE F(P) == [s \in Seat |-> IF s \in P THEN x.db.paid[s] + 1 ELSE x.db.paid[s]]
            Paid(P) == [x.db EXCEPT !.paid = F(P)]
<1>1. \A f : SameRound(x.db, [x.db EXCEPT !.paid = f])  BY DEF SameRound, Work, Database
<1>2. \A P : SameRound(x.db, Paid(P))  BY <1>1
<1>3. Pay(x, prefixes) = [x EXCEPT !.db = Paid(Seat), !.trail = @ \cup {Paid(P) : P \in prefixes}]
  BY DEF Pay
<1>. HIDE DEF Paid
<1>4. /\ Pay(x, prefixes).t = x.t /\ Pay(x, prefixes).db = Paid(Seat)
      /\ Pay(x, prefixes).trail = x.trail \cup {Paid(P) : P \in prefixes}
  BY <1>3 DEF Work
<1>5. \A P : RowRound(Paid(P))  BY <1>2 DEF SameRound, RowRound, Rounds
<1>. QED  BY <1>4, <1>5 DEF Rounds

LEMMA RoundsArm ==
  ASSUME NEW x \in Work, Rounds(x)  PROVE Rounds(Arm(x)) /\ Rounds(Disarm(x))
BY ArmedIs DEF Rounds, SameCall, RoundOK

LEMMA RoundsPlayBomb ==
  ASSUME NEW x \in Work, Rounds(x), NEW bomber \in Seat  PROVE Rounds(PlayBomb(x, bomber))
<1>. DEFINE C == [s \in Seat |-> [x.t.chair[s] EXCEPT !.bomb = @ + BombScore(bomber, s)]]
            u == [x.t EXCEPT !.chair = C]
            y == [x EXCEPT !.t.chair = C]
<1>1. x.t \in Table /\ \A s \in Seat : x.t.chair[s] \in Chair  BY DEF Work, Table
<1>2. C \in [Seat -> Chair]  BY <1>1, ScoresBalance DEF Chair
<1>. HIDE DEF C
<1>3. u \in Table /\ RoundOK(u)  BY <1>1, <1>2 DEF Table, Rounds, RoundOK
<1>4. y = [x EXCEPT !.t = u]  BY DEF Work
<1>. HIDE DEF y, u
<1>5. y \in Work /\ Rounds(y) /\ y.t = u  BY <1>3, <1>4, OnTable, RoundsTable DEF Work
<1>6. CallOf(y.db, y.t) \in Database /\ RowRound(CallOf(y.db, y.t))
  BY <1>3, <1>5, CallOfTyped, RoundsCallOf DEF Work
<1>7. Rounds(SaveChairs(Put(y, CallOf(y.db, y.t))))
  BY <1>5, <1>6, PutTyped, RoundsPut, RoundsSaveChairs
<1>. QED  BY <1>7 DEF PlayBomb, y, C

LEMMA RoundsPassed ==
  ASSUME NEW x \in Work, Rounds(x)  PROVE Rounds(Passed(x))
<1>. DEFINE y == [Disarm(x) EXCEPT !.t = CountPass(@)]
            z == [y EXCEPT !.t = [@ EXCEPT !.newRound = TRUE, !.passes = 0]]
            b == IF x.t.lastType = "BOMB" THEN PlayBomb(z, NextSeat(x.t.curr)) ELSE z
            c == [b EXCEPT !.t = [@ EXCEPT !.last = {}, !.lastType = "ERROR"]]
<1>1. /\ Disarm(x) \in Work /\ x.t.curr \in Seat /\ Disarm(x).db = x.db
      /\ Disarm(x).trail = x.trail
  BY ArmedIs DEF Work, Table
<1>2. \A u \in Table : CountPass(u) \in Table
  <2>. TAKE u \in Table
  <2>1. \A n \in Nat : [u EXCEPT !.opened = TRUE, !.passes = n] \in Table  BY DEF Table
  <2>2. u.passes + 1 \in Nat  BY DEF Table
  <2>. QED  BY <2>1, <2>2 DEF CountPass
<1>3. y \in Work /\ y.db = x.db /\ y.trail = x.trail  BY <1>1, <1>2 DEF Work
<1>. HIDE DEF y
<1>4. y.t.passes < NP - 1 => Rounds(y)  BY <1>3 DEF Rounds, RoundOK
<1>5. z \in Work /\ Rounds(z)
  <2>1. \A u \in Table : [u EXCEPT !.newRound = TRUE, !.passes = 0] \in Table
                         /\ RoundOK([u EXCEPT !.newRound = TRUE, !.passes = 0])
    BY DEF Table, RoundOK
  <2>2. y.t \in Table  BY <1>3 DEF Work
  <2>3. z \in Work /\ z.t = [y.t EXCEPT !.newRound = TRUE, !.passes = 0]
        /\ z.db = y.db /\ z.trail = y.trail
    BY <1>3, <2>1, <2>2 DEF Work
  <2>. HIDE DEF z
  <2>. QED  BY <1>3, <2>1, <2>2, <2>3 DEF Rounds
<1>. HIDE DEF z
<1>6. b \in Work /\ Rounds(b)  BY <1>1, <1>5, SeatsAre, PlayBombTyped, RoundsPlayBomb
<1>. HIDE DEF b
<1>7. Rounds(c)
  <2>1. \A u \in Table : RoundOK(u) => RoundOK([u EXCEPT !.last = {}, !.lastType = "ERROR"])
    BY DEF Table, RoundOK
  <2>2. b.t \in Table /\ RoundOK(b.t)  BY <1>6 DEF Work, Rounds
  <2>. QED  BY <1>6, <2>1, <2>2, RoundsTable
<1>. HIDE DEF c
<1>. QED  BY <1>4, <1>7 DEF Passed, y, z, b, c

LEMMA RoundsTurn ==
  ASSUME NEW x \in Work, Rounds(x), NEW s \in Seat
  PROVE  Rounds(Await(x)) /\ Rounds(Turn(x, s)) /\ Rounds(PassTurn(x))
<1>1. \A y \in Work, r \in Seat : Rounds(y) => Rounds(Called(y, r))
  <2>. SUFFICES ASSUME NEW y \in Work, NEW r \in Seat, Rounds(y)  PROVE Rounds(Called(y, r))
    OBVIOUS
  <2>1. [y EXCEPT !.t.curr = r] = [y EXCEPT !.t = [y.t EXCEPT !.curr = r]]
        /\ [y.t EXCEPT !.curr = r] \in Table /\ RoundOK([y.t EXCEPT !.curr = r])
    BY DEF Work, Table, Rounds, RoundOK
  <2>2. [y EXCEPT !.t.curr = r] \in Work /\ Rounds([y EXCEPT !.t.curr = r])
    BY <2>1, OnTable, RoundsTable
  <2>. QED  BY <2>2, RoundsSaves DEF Called
<1>2. \A y \in Work : Rounds(y) =>
        /\ PassOn(y) \in Work /\ Rounds(PassOn(y))
        /\ Passed(y) \in Work /\ Rounds(Passed(y)) /\ Passed(y).t.curr \in Seat
  BY <1>1, PassedTyped, PassOnTyped, RoundsPassed, SeatsAre DEF PassOn, Work, Table
<1>3. \A y \in Work : Rounds(y) => Rounds(Await(y))
  <2>. SUFFICES ASSUME NEW y \in Work, Rounds(y)  PROVE Rounds(Await(y))
    OBVIOUS
  <2>1. PassOn(y) \in Work /\ Rounds(PassOn(y))  BY <1>2
  <2>2. PassOn(PassOn(y)) \in Work /\ Rounds(PassOn(PassOn(y)))  BY <1>2, <2>1
  <2>. QED  BY <2>1, <2>2, RoundsArm DEF Await
<1>4. \A y \in Work, r \in Seat : Rounds(y) => Rounds(Turn(y, r))
  BY <1>1, <1>3, CalledTyped DEF Turn
<1>. QED  BY <1>2, <1>3, <1>4, SeatsAre DEF PassTurn

LEMMA RoundsEnd ==
  ASSUME NEW x \in Work, Rounds(x)
  PROVE  Rounds(GameEnd(x)) /\ \A runner \in Seat : Rounds(GameEndSpecial(x, runner))
<1>1. ASSUME NEW y \in Work, Rounds(y), NEW winner \in Seat, NEW prefixes
      PROVE  Rounds(Settle(y, winner, prefixes))
  <2>. DEFINE w == [y EXCEPT !.t.status = "endgame"]
              a == Pay(w, prefixes)
              k == IF RoomType = 1 THEN winner ELSE NoOne
              e == [a EXCEPT !.t.banker = k]
              b == SaveBanker(e)
              c == StartReadyTimer(b)
              r == [c EXCEPT !.t = ResetFlags(c.t)]
  <2>1. w \in Work /\ Rounds(w)
    <3>1. w \in Work  BY DEF Work, Table, Statuses
    <3>2. RoundOK(w.t) /\ w.db = y.db /\ w.trail = y.trail
      BY <1>1 DEF Work, Table, Rounds, RoundOK
    <3>. HIDE DEF w
    <3>. QED  BY <1>1, <3>1, <3>2 DEF Rounds
  <2>. HIDE DEF w
  <2>2. a \in Work /\ Rounds(a)  BY <2>1, PayTyped, RoundsPay
  <2>. HIDE DEF a
  <2>3. e \in Work /\ Rounds(e)
    <3>1. e \in Work /\ e.db = a.db /\ e.trail = a.trail  BY <2>2 DEF Work, Table
    <3>2. RoundOK(e.t)  BY <2>2 DEF Work, Table, Rounds, RoundOK
    <3>. HIDE DEF e
    <3>. QED  BY <2>2, <3>1, <3>2 DEF Rounds
  <2>. HIDE DEF e
  <2>4. b \in Work /\ Rounds(b)  BY <2>3, SaveBankerTyped, RoundsSaves, SeatsAre
  <2>. HIDE DEF b
  <2>5. c \in Work /\ Rounds(c)
    <3>1. c \in Work /\ c.db = b.db /\ c.trail = b.trail
      BY <2>4, StartReadyTimerTyped DEF StartReadyTimer, Work
    <3>2. RoundOK(c.t)  BY <2>4 DEF StartReadyTimer, Work, Table, Rounds, RoundOK
    <3>. HIDE DEF c
    <3>. QED  BY <2>4, <3>1, <3>2 DEF Rounds
  <2>. HIDE DEF c
  <2>6. RoundOK(ResetFlags(c.t))
    <3>1. \A u \in Table : \A f : RoundOK(u) => RoundOK([u EXCEPT !.chair = f])
      BY DEF Table, RoundOK
    <3>2. c.t \in Table /\ RoundOK(c.t)  BY <2>5 DEF Work, Rounds
    <3>. QED  BY <3>1, <3>2 DEF ResetFlags
  <2>7. Rounds(r)  BY <2>5, <2>6, RoundsTable
  <2>. QED  BY <2>7 DEF Settle, r, c, b, e, k, a, w
<1>2. x.t.curr \in Seat  BY DEF Work, Table
<1>3. Disarm(x) \in Work /\ Rounds(Disarm(x))  BY SMTT(60), ArmedIs, RoundsArm
<1>. QED  BY <1>1, <1>2, <1>3, SeatsAre DEF GameEnd, GameEndSpecial

LEMMA RoundsCallPlayCard ==
  ASSUME NEW x \in Work, Rounds(x), NEW cards \in Hands, NEW type \in CardTypes
  PROVE  Rounds(CallPlayCard(x, cards, type))
<1>. DEFINE s == x.t.curr
            left == x.t.chair[s].hand \ cards
            after == [x.t.chair[s] EXCEPT !.hand = left, !.single = @ \/ LastCard(left)]
            u == [x.t EXCEPT !.opened = TRUE, !.passes = 0, !.newRound = FALSE,
                             !.last = cards, !.lastType = type, !.chair[s] = after]
            y == [x EXCEPT !.t = u]
<1>1. s \in Seat /\ x.t \in Table  BY DEF Work, Table
<1>2. left \in Hands
  <2>1. x.t.chair[s].hand \in Hands  BY <1>1 DEF Table, Chair
  <2>. QED  BY <2>1, HandsClosed
<1>3. u \in Table  BY <1>1, <1>2, PlayedTyped
<1>. HIDE DEF after
<1>4. RoundOK(u)  BY <1>1, PlayersAssumption DEF Table, RoundOK
<1>. HIDE DEF u
<1>5. y \in Work /\ Rounds(y)  BY <1>3, <1>4, OnTable, RoundsTable
<1>. HIDE DEF y
<1>6. Rounds(Turn(y, NextSeat(s)))  BY <1>1, <1>5, SeatsAre, RoundsTurn
<1>7. Rounds(GameEnd(IF type = "BOMB" THEN PlayBomb(y, s) ELSE y))
  BY <1>1, <1>5, PlayBombTyped, RoundsPlayBomb, RoundsEnd
<1>. QED  BY <1>6, <1>7 DEF CallPlayCard, y, u, after

LEMMA RoundsAutoPlayCard ==
  ASSUME NEW x \in Work, Rounds(x),
         x.t.newRound /\ ~OpensGame(x.t) => x.t.chair[x.t.curr].hand # {}
  PROVE  Rounds(AutoPlayCard(x))
BY AutoPlays, RoundsCallPlayCard, RoundsTurn, SeatsAre

LEMMA RoundsGameStart ==
  ASSUME NEW x \in Work, Rounds(x), NEW deal \in Deals, NEW dealer \in Dealers(deal)
  PROVE  Rounds(GameStart(x, deal, dealer))
<1>. DEFINE a == [x EXCEPT !.t = Dealt(x.t, deal, dealer), !.db.paid = [s \in Seat |-> 0]]
            e == [SaveGame(a) EXCEPT !.t = [@ EXCEPT !.status = "betting", !.newRound = TRUE]]
            b == SaveGame(e)
<1>1. dealer \in Seat
  <2>1. HolderOf(deal, OpeningCard, 0) \in Seat  BY SeatsAre, HolderTyped
  <2>. QED  BY <2>1 DEF Dealers
<1>2. Dealt(x.t, deal, dealer) \in Table  BY <1>1, DealtTyped DEF Work
<1>3. RoundOK(Dealt(x.t, deal, dealer))
  BY PlayersAssumption DEF Dealt, Work, Table, RoundOK
<1>4. LET d == [x.db EXCEPT !.paid = [s \in Seat |-> 0]] IN d \in Database /\ RowRound(d)
  BY DEF Work, Database, Rounds, RowRound
<1>5. /\ a \in Work /\ a.t = Dealt(x.t, deal, dealer) /\ a.trail = x.trail
      /\ a.db = [x.db EXCEPT !.paid = [s \in Seat |-> 0]]
  BY <1>2, <1>4 DEF Work, Database
<1>6. Rounds(a)  BY <1>3, <1>4, <1>5 DEF Rounds
<1>7. /\ a.t.banker = (IF x.t.banker = NoOne THEN dealer ELSE x.t.banker)
  BY ZenonT(60), <1>5 DEF Dealt, Work, Table
<1>. HIDE DEF a
<1>8. SaveGame(a) \in Work /\ Rounds(SaveGame(a)) /\ SaveGame(a).t = a.t
  BY <1>5, <1>6, SaveGameTyped, RoundsSaves, SeatsAre, SaveBankerTyped, BankerSaved, ChairsSaved
     DEF SaveGame
<1>9. ASSUME NEW u \in Table
      PROVE  LET v == [u EXCEPT !.status = "betting", !.newRound = TRUE] IN
             v \in Table /\ RoundOK(v) /\ v.banker = u.banker
  BY DEF Table, Statuses, RoundOK
<1>10. a.t \in Table  BY <1>5 DEF Work
<1>11. e = [SaveGame(a) EXCEPT !.t = [a.t EXCEPT !.status = "betting", !.newRound = TRUE]]
  BY <1>8 DEF Work
<1>12. e \in Work /\ Rounds(e) /\ e.t.banker = a.t.banker
  <2>1. e \in Work /\ Rounds(e)  BY <1>8, <1>9, <1>10, <1>11, OnTable, RoundsTable
  <2>2. e.t = [a.t EXCEPT !.status = "betting", !.newRound = TRUE]  BY <1>8, <1>11 DEF Work
  <2>. HIDE DEF e
  <2>. QED  BY <1>9, <1>10, <2>1, <2>2
<1>. HIDE DEF e
<1>13. b \in Work /\ Rounds(b) /\ b.t = e.t
  BY <1>12, SaveGameTyped, RoundsSaves, SeatsAre, SaveBankerTyped, BankerSaved, ChairsSaved
     DEF SaveGame
<1>14. b.t.banker \in Seat  BY <1>1, <1>7, <1>12, <1>13 DEF Work, Table
<1>. QED  BY <1>13, <1>14, RoundsTurn DEF GameStart, a, e

LEMMA RoundsFound ==
  ASSUME NEW x \in Work, Rounds(x)  PROVE Rounds(Found(x))
<1>. DEFINE r == [x EXCEPT !.t = Restored(x.db)]
<1>1. x.db \in Database  BY DEF Work
<1>2. RoundOK(Restored(x.db))
  <2>1. \A d : Restored(d).newRound = TRUE
               \/ (d.called /\ Restored(d).newRound = d.newRound /\ Restored(d).passes = d.passes)
    BY ZenonT(60) DEF Restored, Fresh
  <2>2. RowRound(x.db)  BY DEF Rounds
  <2>. QED  BY <2>1, <2>2 DEF RoundOK, RowRound
<1>3. RoundOK(Fresh)  BY DEF RoundOK, Fresh
<1>4. r \in Work /\ Rounds(r)  BY <1>1, <1>2, RestoredTyped, OnTable, RoundsTable
<1>5. Rounds([x EXCEPT !.t = Fresh])  BY <1>3, RoundsTable
<1>. HIDE DEF r
<1>6. Rounds(Await(r))  BY <1>4, RoundsTurn, SeatsAre
<1>. QED  BY <1>4, <1>5, <1>6 DEF Found, Load, r

LEMMA RoundsChair ==
  ASSUME NEW x \in Work, Rounds(x), NEW s \in Seat
  PROVE  /\ \A c : Rounds([x EXCEPT !.t.chair[s] = c])
         /\ \A w : Rounds([x EXCEPT !.t.chair[s].who = w])
         /\ Rounds([x EXCEPT !.t.chair[s].ready = TRUE])
         /\ \A b \in BOOLEAN : Rounds([x EXCEPT !.t.readyOn = b])
         /\ \A n : Rounds([x EXCEPT !.t.trustee = n])
         /\ Rounds(AwaitReady(x))
<1>1. \A u \in Table : \A f : RoundOK(u) => /\ RoundOK([u EXCEPT !.chair = f])
                                        /\ RoundOK([u EXCEPT !.readyOn = f])
                                        /\ RoundOK([u EXCEPT !.trustee = f])
  BY DEF Table, RoundOK
<1>2. x.t \in Table /\ RoundOK(x.t)  BY DEF Work, Rounds
<1>3. \A f : /\ Rounds([x EXCEPT !.t = [x.t EXCEPT !.chair = f]])
             /\ Rounds([x EXCEPT !.t = [x.t EXCEPT !.readyOn = f]])
             /\ Rounds([x EXCEPT !.t = [x.t EXCEPT !.trustee = f]])
  BY <1>1, <1>2, RoundsTable
<1>4. \A c : [x EXCEPT !.t.chair[s] = c]
               = [x EXCEPT !.t = [x.t EXCEPT !.chair = [x.t.chair EXCEPT ![s] = c]]]
  BY DEF Work, Table
<1>5. \A w : [x EXCEPT !.t.chair[s].who = w]
               = [x EXCEPT !.t = [x.t EXCEPT !.chair = [x.t.chair EXCEPT ![s].who = w]]]
  BY DEF Work, Table
<1>6. [x EXCEPT !.t.chair[s].ready = TRUE]
        = [x EXCEPT !.t = [x.t EXCEPT !.chair = [x.t.chair EXCEPT ![s].ready = TRUE]]]
  BY DEF Work, Table
<1>7. \A b : /\ [x EXCEPT !.t.readyOn = b] = [x EXCEPT !.t = [x.t EXCEPT !.readyOn = b]]
             /\ [x EXCEPT !.t.trustee = b] = [x EXCEPT !.t = [x.t EXCEPT !.trustee = b]]
  BY DEF Work, Table
<1>8. Rounds(AwaitReady(x))  BY <1>3, <1>7 DEF AwaitReady, StartReadyTimer
<1>. QED  BY <1>3, <1>4, <1>5, <1>6, <1>7, <1>8, Zenon

LEMMA RoundsLeave ==
  ASSUME NEW x \in Work, Rounds(x), NEW s \in Seat  PROVE Rounds(LeaveTable(x, s))
<1>. DEFINE r == [x EXCEPT !.t = [@ EXCEPT !.banker = NoOne, !.games = 0]]
            a == IF RoomType = 1 /\ x.t.banker # NoOne THEN SaveBanker(r) ELSE x
            e == [a EXCEPT !.t.chair[s] = Flagless("none")]
            b == DeleteChair(e, s)
            c == IF RoomType = 1 THEN [b EXCEPT !.t = [Gone EXCEPT !.status = "closed"]] ELSE b
<1>1. r \in Work /\ Rounds(r)
  <2>1. \A v \in Table : [v EXCEPT !.banker = NoOne, !.games = 0] \in Table
    <3>1. 0 \in 0..Many  BY DEF Many
    <3>. QED  BY <3>1 DEF Table
  <2>2. \A v \in Table : RoundOK(v) => RoundOK([v EXCEPT !.banker = NoOne, !.games = 0])
    BY DEF Table, RoundOK
  <2>3. x.t \in Table /\ RoundOK(x.t)  BY DEF Work, Rounds
  <2>. QED  BY <2>1, <2>2, <2>3, OnTable, RoundsTable
<1>. HIDE DEF r
<1>2. a \in Work /\ Rounds(a)  BY <1>1, SaveBankerTyped, RoundsSaves
<1>. HIDE DEF a
<1>3. e \in Work /\ Rounds(e)  BY <1>2, FreshTyped, ChairTyped, RoundsChair
<1>. HIDE DEF e
<1>4. b \in Work /\ Rounds(b)  BY <1>3, DeleteTyped, RoundsSaves
<1>. HIDE DEF b
<1>5. RoundOK([Gone EXCEPT !.status = "closed"])  BY DEF Gone, Fresh, RoundOK
<1>6. c \in Work /\ Rounds(c)  BY <1>4, <1>5, FreshTyped, OnTable, RoundsTable
<1>. HIDE DEF c
<1>. QED  BY <1>4, <1>6, RoundsSaves DEF LeaveTable, a, b, c, e, r

LEMMA RoundsStep ==
  ASSUME NEW x \in Work, Rounds(x), Step(x)  PROVE RoundOK(t') /\ RowRound(db')
<1>1. RoundOK(Gone)  BY DEF RoundOK, Gone, Fresh
<1>. QED  BY <1>1 DEF Step, Completes, CutShort, Rounds

RoundInv == GameInv /\ RoundOK(t) /\ RowRound(db)

LEMMA RoundStep == RoundInv /\ Next => RoundOK(t') /\ RowRound(db')
<1>. SUFFICES ASSUME RoundInv, Next  PROVE RoundOK(t') /\ RowRound(db')
  OBVIOUS
<1>. DEFINE Good == RoundOK(t') /\ RowRound(db')
<1>1. GameInv /\ RoundOK(t) /\ RowRound(db)  BY DEF RoundInv
<1>2. /\ Now \in Work /\ Now.t = t /\ Now.db = db /\ Now.trail = {}
      /\ Found(Now) \in Work
  BY <1>1, KeptNow DEF Now, Doing
<1>3. Rounds(Now)  BY <1>1, <1>2 DEF Rounds
<1>4. Rounds(Found(Now))  BY <1>2, <1>3, RoundsFound
<1>5. Disarm(Now) \in Work /\ Rounds(Disarm(Now)) /\ SameCall(t, Disarm(Now).t)
      /\ Disarm(Now).t.chair = t.chair
  BY <1>2, <1>3, ArmedIs, RoundsArm
<1>. HIDE DEF Good
<1>6. \A x \in Work : Rounds(x) /\ Step(x) => Good  BY RoundsStep DEF Good
<1>7. CASE SitNew
  <2>. DEFINE x == Found(Now)
              n == CHOOSE n \in Seat : ~Held(x.t, n) /\ \A m \in Seat : ~Held(x.t, m) => n <= m
              y == [x EXCEPT !.t.chair[n] = Flagless("on")]
  <2>1. ~Full(x.t) /\ Step(AwaitReady(SaveChair(y, n)))  BY <1>7 DEF SitNew
  <2>2. n \in Seat  BY <2>1, FirstFree
  <2>. HIDE DEF n
  <2>3. y \in Work /\ Rounds(y)  BY <1>2, <1>4, <2>2, ChairTyped, FreshTyped, RoundsChair
  <2>. HIDE DEF y
  <2>4. SaveChair(y, n) \in Work /\ Rounds(SaveChair(y, n))
    BY <2>2, <2>3, SaveChairTyped, RoundsSaves
  <2>5. AwaitReady(SaveChair(y, n)) \in Work /\ Rounds(AwaitReady(SaveChair(y, n)))
    BY <2>2, <2>4, AwaitReadyTyped, RoundsChair
  <2>. QED  BY <1>6, <2>1, <2>5 DEF Good
<1>8. CASE Look  BY <1>2, <1>4, <1>6, <1>8 DEF Good, Look
<1>9. ASSUME NEW s \in Seat, Return(s)  PROVE Good
  <2>. DEFINE y == [Found(Now) EXCEPT !.t.chair[s].who = "on"]
  <2>1. y \in Work /\ Rounds(y)  BY <1>2, <1>4, ChairTyped, RoundsChair
  <2>2. Step(AwaitReady(y))  BY <1>9 DEF Return
  <2>. HIDE DEF y
  <2>. QED  BY <1>6, <2>1, <2>2, AwaitReadyTyped, RoundsChair
<1>10. ASSUME NEW s \in Seat  PROVE
         LET y == [Now EXCEPT !.t.chair[s].who = "off"] IN y \in Work /\ Rounds(y)
  BY <1>2, <1>3, ChairTyped, RoundsChair
<1>11. ASSUME NEW s \in Seat, Disconnect(s)  PROVE Good
  BY <1>6, <1>10, <1>11 DEF Disconnect
<1>12. ASSUME NEW s \in Seat, Quit(s)  PROVE Good
  <2>1. LeaveTable(Now, s) \in Work /\ Rounds(LeaveTable(Now, s))
    BY <1>2, <1>3, LeaveTableTyped, RoundsLeave
  <2>. QED  BY <1>6, <1>10, <1>12, <2>1 DEF Quit
<1>13. ASSUME NEW s \in Seat, Ready(s)  PROVE Good
  <2>. DEFINE x == [Now EXCEPT !.t.chair[s].ready = TRUE]
  <2>1. x \in Work /\ Rounds(x)  BY <1>2, <1>3, ChairTyped, RoundsChair
  <2>2. \/ \E deal \in Deals : \E dealer \in Dealers(deal) : Step(GameStart(x, deal, dealer))
        \/ Step(x)
    BY <1>13 DEF Ready
  <2>. HIDE DEF x
  <2>3. \A deal \in Deals : \A dealer \in Dealers(deal) :
          GameStart(x, deal, dealer) \in Work /\ Rounds(GameStart(x, deal, dealer))
    BY <2>1, GameStartTyped, RoundsGameStart
  <2>. QED  BY <1>6, <2>1, <2>2, <2>3
<1>14. ASSUME NEW y \in Work, Rounds(y), Step(AutoPlayCard(y)),
              y.t.newRound /\ ~OpensGame(y.t) => y.t.chair[y.t.curr].hand # {}
       PROVE  Good
  BY <1>6, <1>14, AutoPlayCardTyped, RoundsAutoPlayCard
<1>15. ASSUME NEW s \in Seat, Pass(s)  PROVE Good
  <2>1. ~t.newRound /\ (Step(AutoPlayCard(Now)) \/ Step(PassTurn(Now)))
    BY <1>15 DEF Pass
  <2>2. CASE Step(AutoPlayCard(Now))  BY <1>2, <1>3, <1>14, <2>1, <2>2
  <2>3. CASE Step(PassTurn(Now))
    BY <1>2, <1>3, <1>6, <2>3, PassTurnTyped, RoundsTurn, SeatsAre
  <2>. QED  BY <2>1, <2>2, <2>3
<1>16. ASSUME NEW s \in Seat, Run(s)  PROVE Good
  BY <1>2, <1>3, <1>6, <1>16, GameEndTyped, RoundsEnd DEF Run
<1>17. ASSUME NEW s \in Seat, NEW cards \in SUBSET t.chair[t.curr].hand, Play(s, cards)
       PROVE  Good
  <2>. DEFINE y == CallPlayCard(Disarm(Now), cards, PlayedType(cards, t.chair[s].hand))
  <2>1. t.chair[t.curr].hand \in Hands  BY <1>1 DEF GameInv, TypeOK, Table, Chair
  <2>2. cards \in Hands  BY <2>1, HandsClosed
  <2>3. y \in Work /\ Rounds(y)
    BY <1>5, <2>2, TypesAre, CallPlayCardTyped, RoundsCallPlayCard
  <2>. QED  BY <1>6, <1>17, <2>3 DEF Play
<1>18. CASE OnTimer_trustee
  <2>1. CASE Step(Disarm(Now))  BY <1>5, <1>6, <2>1 DEF Good
  <2>2. CASE t' = Gone /\ UNCHANGED <<db, crashes>>
    BY <1>1, <2>2 DEF Good, RoundOK, Gone, Fresh
  <2>3. CASE ~RobotDies /\ Step(AutoPlayCard(Disarm(Now)))
    <3>1. /\ Disarm(Now).t.newRound = t.newRound /\ Disarm(Now).t.curr = t.curr
          /\ Disarm(Now).t.opened = t.opened
      BY <1>5 DEF SameCall
    <3>. QED  BY <1>5, <1>14, <2>3, <3>1 DEF Good, RobotDies, OpensGame
  <2>. QED  BY <1>18, <2>1, <2>2, <2>3 DEF OnTimer_trustee
<1>19. CASE OnTimer_ready
  <2>1. CASE StopReadyTimer
    <3>1. [Now EXCEPT !.t.readyOn = FALSE] \in Work /\ Rounds([Now EXCEPT !.t.readyOn = FALSE])
      BY <1>2, <1>3, RoundsChair, SeatsAre DEF Work, Table
    <3>. QED  BY <1>6, <2>1, <3>1 DEF Good, StopReadyTimer
  <2>2. ASSUME NEW late \in SUBSET Seat, ThrowOut(late)  PROVE Good
    <3>. DEFINE a == KickOut(Now, 0, late)
                b == KickOut(a, 1, late)
                c == KickOut(b, 2, late)
    <3>1. \A x \in Work, n \in Nat : Rounds(x) =>
            KickOut(x, n, late) \in Work /\ Rounds(KickOut(x, n, late))
      BY KickOutTyped, RoundsLeave DEF KickOut
    <3>2. a \in Work /\ Rounds(a)  BY <1>2, <1>3, <3>1
    <3>. HIDE DEF a
    <3>3. b \in Work /\ Rounds(b)  BY <3>1, <3>2
    <3>. HIDE DEF b
    <3>4. c \in Work /\ Rounds(c)  BY <3>1, <3>3
    <3>. QED  BY <1>6, <2>2, <3>4 DEF ThrowOut, a, b
  <2>. QED  BY <1>19, <2>1, <2>2 DEF Good, OnTimer_ready
<1>20. CASE Tick
  <2>1. t.trustee - 1 \in 0..TurnTime
    BY <1>1, <1>20, RulesAssumption DEF Tick, GameInv, TypeOK, Table, Off
  <2>2. [Now EXCEPT !.t.trustee = @ - 1] = [Now EXCEPT !.t.trustee = t.trustee - 1]
    BY <1>2 DEF Work, Table
  <2>3. LET y == [Now EXCEPT !.t.trustee = t.trustee - 1] IN y \in Work /\ Rounds(y)
    BY <1>2, <1>3, <2>1, TrusteeOnly, RoundsChair, SeatsAre
  <2>. QED  BY <1>6, <1>20, <2>2, <2>3 DEF Good, Tick
<1>21. CASE Crash  BY <1>1, <1>21 DEF Good, Crash, RoundOK, Gone, Fresh
<1>. QED  BY <1>7, <1>8, <1>9, <1>11, <1>12, <1>13, <1>15, <1>16, <1>17, <1>18, <1>19, <1>20,
             <1>21 DEF Next, Good

LEMMA RoundInit == Init => RoundInv
<1>1. Init => RowFull(db)  BY DEF Init, NoRow, RowFull, Up
<1>2. Init => RoundOK(t) /\ RowRound(db)  BY DEF Init, NoRow, RowRound, RoundOK, Gone, Fresh
<1>. QED  BY <1>1, <1>2, FreshTyped, GoneAgrees DEF Init, RoundInv, GameInv, TypeOK

LEMMA RoundKeeps == RoundInv /\ [Next]_vars => RoundInv'
<1>1. RoundInv /\ Next => RoundInv'  BY TypedStep, GameStep, RoundStep DEF RoundInv, GameInv
<1>2. RoundInv /\ UNCHANGED vars => RoundInv'
  BY DEF RoundInv, GameInv, TypeOK, vars, RowFull, Agree, Full, Empty, Held, IsBetting, Idle,
         RoundOK, RowRound
<1>. QED  BY <1>1, <1>2

LEMMA RoundAlways == Spec => []RoundInv
BY RoundInit, RoundKeeps, PTL DEF Spec

-----------------------------------------------------------------------------
(* What a step of a game does.                                             *)

LEMMA PassTurnIs ==
  ASSUME NEW x \in Work, ~x.t.newRound, RoundOK(x.t)
  PROVE  LET y == PassTurn(x) IN
         /\ RoundKept(x, y) /\ y.t.opened
         /\ Written(x.t, x.db) => Current(y.t, y.db)
<1>. DEFINE p == PassOn(x)
            y == Await(p)
<1>1. /\ p \in Work /\ RoundKept(x, p) /\ p.t.opened
      /\ Written(x.t, x.db) => Current(p.t, p.db)
  BY PassedOn
<1>2. PassTurn(x) = y  BY DEF PassTurn, Turn, PassOn, Called
<1>. HIDE DEF p
<1>3. RoundOK(p.t)  BY <1>1 DEF RoundKept
<1>4. RoundKept(p, y) /\ (Current(p.t, p.db) => Current(y.t, y.db))
  BY <1>1, <1>3, Awaited
<1>. HIDE DEF y
<1>. QED  BY <1>1, <1>2, <1>4, RoundKeptOn DEF RoundKept

LEMMA EndedIs ==
  ASSUME NEW x \in Work
  PROVE  /\ Ended(x, GameEnd(x), x.t.curr)
         /\ \A s \in Seat : Ended(Disarm(x), GameEndSpecial(x, s), NextSeat(s))
<1>1. x.t.curr \in Seat  BY DEF Work, Table
<1>. QED  BY <1>1, ArmedIs, Settled, SeatsAre DEF GameEnd, GameEndSpecial

(* How the table of a game and its row come out of a step.                 *)
Outcomes ==
  \/ Dies
  \/ db' = db /\ Unmoved(t, t')
  \/ \E y, z \in Work :
       /\ y \in {Now, Disarm(Now)} /\ Becomes(z)
       /\ ~t.newRound /\ RoundKept(y, z) /\ z.t.opened
       /\ Written(y.t, y.db) => Current(z.t, z.db)
  \/ \E y, z \in Work, cards \in Hands :
       /\ y \in {Now, Disarm(Now)} /\ Becomes(z)
       /\ Chosen(cards) /\ t.chair[t.curr].hand \ cards # {} /\ Played(y, z, cards)
  \/ \E y, z \in Work, winner \in Seat :
       /\ Becomes(z) /\ Ended(y, z, winner)
       /\ y.db.paid = db.paid /\ y.t.games = t.games
       /\ \A s \in Seat : y.t.chair[s].who = t.chair[s].who

LEMMA GameOutcomes ==
  ASSUME RoundInv, Playing, Next  PROVE Outcomes
<1>1. GameInv /\ RoundOK(t) /\ Moves  BY GameSteps DEF RoundInv
<1>2. Now \in Work /\ Now.t = t /\ Now.db = db  BY <1>1, KeptNow
<1>3. \A y \in {Now, Disarm(Now)} :
        /\ y \in Work /\ SameCall(t, y.t) /\ y.t.chair = t.chair /\ y.db = db
        /\ y.t.games = t.games
  BY <1>2, ArmedIs DEF SameCall, InTurn, SameGame
<1>4. CASE Dies \/ (db' = db /\ Unmoved(t, t'))  BY <1>4 DEF Outcomes
<1>5. ASSUME NEW y \in {Now, Disarm(Now)}, ~t.newRound, Becomes(PassTurn(y))  PROVE Outcomes
  <2>1. y \in Work /\ ~y.t.newRound /\ RoundOK(y.t)  BY <1>1, <1>3, <1>5 DEF SameCall, RoundOK
  <2>2. PassTurn(y) \in Work  BY <2>1, PassTurnTyped
  <2>3. /\ RoundKept(y, PassTurn(y)) /\ PassTurn(y).t.opened
        /\ Written(y.t, y.db) => Current(PassTurn(y).t, PassTurn(y).db)
    BY <2>1, PassTurnIs
  <2>. QED  BY <1>5, <2>1, <2>2, <2>3 DEF Outcomes
<1>6. ASSUME NEW y \in {Now, Disarm(Now)}, NEW cards \in Hands, NEW type \in CardTypes,
             Chosen(cards), Becomes(CallPlayCard(y, cards, type))
      PROVE  Outcomes
  <2>. DEFINE z == CallPlayCard(y, cards, type)
  <2>1. /\ y \in Work /\ y.t.curr = t.curr /\ y.t.chair = t.chair /\ y.db = db
        /\ y.t.games = t.games
    BY <1>3 DEF SameCall
  <2>2. z \in Work /\ Becomes(z)  BY <1>6, <2>1, CallPlayCardTyped
  <2>3. CASE t.chair[t.curr].hand \ cards # {}
    <3>1. Played(y, z, cards)  BY <2>1, <2>3, CardsPlayed
    <3>. HIDE DEF z
    <3>. QED  BY <1>6, <2>1, <2>2, <2>3, <3>1 DEF Outcomes
  <2>4. CASE t.chair[t.curr].hand \ cards = {}
    <3>1. PICK w \in Work : /\ z = GameEnd(w) /\ w.db.paid = y.db.paid /\ w.t.games = y.t.games
                            /\ \A r \in Seat : w.t.chair[r].who = y.t.chair[r].who
      BY <2>1, <2>4, CardsPlayed
    <3>2. Ended(w, z, w.t.curr) /\ w.t.curr \in Seat  BY <3>1, EndedIs DEF Work, Table
    <3>. HIDE DEF z
    <3>. QED  BY <2>1, <2>2, <3>1, <3>2 DEF Outcomes
  <2>. QED  BY <2>3, <2>4
<1>7. ASSUME NEW s \in Seat, Becomes(GameEndSpecial(Now, s))  PROVE Outcomes
  <2>1. Ended(Disarm(Now), GameEndSpecial(Now, s), NextSeat(s)) /\ NextSeat(s) \in Seat
    BY <1>2, EndedIs, SeatsAre
  <2>2. GameEndSpecial(Now, s) \in Work  BY <1>2, GameEndTyped
  <2>3. /\ Disarm(Now) \in Work /\ Disarm(Now).db.paid = db.paid /\ Disarm(Now).t.games = t.games
        /\ \A r \in Seat : Disarm(Now).t.chair[r].who = t.chair[r].who
    BY <1>3
  <2>. QED  BY <1>7, <2>1, <2>2, <2>3 DEF Outcomes
<1>. QED  BY <1>1, <1>4, <1>5, <1>6, <1>7 DEF Moves

-----------------------------------------------------------------------------
(* Whose turn it is.                                                       *)

LEMMA DeadTable == ASSUME Dies  PROVE ~Playing'
BY DEF Dies, Gone, Fresh, Playing

OnlyTurnStep ==
  Playing /\ Playing' =>
    \A s \in Seat : Hand(s)' \subseteq Hand(s) /\ (s # t.curr => Hand(s)' = Hand(s))

LEMMA TurnStep == RoundInv /\ Next => OnlyTurnStep
<1>. SUFFICES ASSUME RoundInv, Next, Playing, Playing', NEW s \in Seat
              PROVE  Hand(s)' \subseteq Hand(s) /\ (s # t.curr => Hand(s)' = Hand(s))
  BY DEF OnlyTurnStep
<1>. DEFINE Good == Hand(s)' \subseteq Hand(s) /\ (s # t.curr => Hand(s)' = Hand(s))
<1>0. /\ ~Dies /\ t'.status = "betting"
      /\ \A y \in {Now, Disarm(Now)} : y.t.chair = t.chair /\ y.t.curr = t.curr
  <2>1. Now \in Work /\ Now.t = t  BY KeptNow DEF RoundInv
  <2>2. ~Dies /\ t'.status = "betting"  BY DeadTable DEF Playing
  <2>. QED  BY <2>1, <2>2, ArmedIs DEF SameCall
<1>1. Good <=> /\ t'.chair[s].hand \subseteq t.chair[s].hand
               /\ (s # t.curr => t'.chair[s].hand = t.chair[s].hand)
  BY DEF Hand
<1>. HIDE DEF Good
<1>2. ASSUME Unmoved(t, t')  PROVE Good  BY <1>1, <1>2 DEF Unmoved
<1>3. ASSUME NEW y \in {Now, Disarm(Now)}, NEW z, Becomes(z), RoundKept(y, z)  PROVE Good
  BY <1>0, <1>1, <1>3 DEF RoundKept, InTurn, SameGame, Becomes
<1>4. ASSUME NEW y \in {Now, Disarm(Now)}, NEW z, NEW cards, Becomes(z), Played(y, z, cards)
      PROVE  Good
  <2>1. t'.chair[t.curr].hand = t.chair[t.curr].hand \ cards
    BY <1>0, <1>4 DEF Played, Becomes
  <2>2. \A r \in Seat \ {t.curr} : t'.chair[r].hand = t.chair[r].hand
    BY <1>0, <1>4 DEF Played, Becomes
  <2>. QED  BY <1>1, <2>1, <2>2
<1>5. ASSUME NEW y, NEW z, NEW winner, Becomes(z), Ended(y, z, winner)  PROVE FALSE
  BY <1>0, <1>5 DEF Ended, Becomes
<1>6. Outcomes  BY GameOutcomes
<1>7. Good  BY <1>0, <1>2, <1>3, <1>4, <1>5, <1>6 DEF Outcomes
<1>. QED  BY <1>7 DEF Good

(* A play takes cards from the hand whose turn it is and from no other     *)
(* one, whoever plays: the player, the turn timer, or the server for who   *)
(* wanted to pass (CallPlayCard, AutoPlayCard, UserPass).                  *)
THEOREM TurnsOnlyPlay == Spec => OnlyTurnPlays
<1>1. RoundInv /\ [Next]_vars => [OnlyTurnStep]_vars  BY TurnStep
<1>. QED  BY <1>1, RoundAlways, PTL DEF Spec, OnlyTurnPlays, OnlyTurnStep

TurnOrderStep ==
  Playing /\ Playing' =>
    LET player == IF t.newRound \/ CardsLeft # {} THEN t.curr ELSE LastPlayer
    IN IF t'.newRound THEN t'.curr = player ELSE LastPlayer' = player

LEMMA OrderStep == RoundInv /\ Next => TurnOrderStep
<1>. DEFINE player == IF t.newRound \/ CardsLeft # {} THEN t.curr ELSE LastPlayer
            Good == IF t'.newRound THEN t'.curr = player ELSE LastPlayer' = player
<1>. SUFFICES ASSUME RoundInv, Next, Playing, Playing'  PROVE Good
  BY DEF TurnOrderStep
<1>0. /\ ~Dies /\ t'.status = "betting" /\ RoundOK(t) /\ RoundOK(t') /\ t.curr \in Seat
      /\ Now.t = t /\ t \in Table
      /\ \A y \in {Now, Disarm(Now)} : y.t.chair = t.chair /\ SameCall(t, y.t)
  <2>1. Now \in Work /\ Now.t = t /\ t.curr \in Seat /\ t \in Table
    BY KeptNow DEF RoundInv, GameInv, TypeOK, Table
  <2>2. ~Dies /\ t'.status = "betting"  BY DeadTable DEF Playing
  <2>3. RoundOK(t) /\ RoundOK(t')  BY RoundStep DEF RoundInv
  <2>. QED  BY <2>1, <2>2, <2>3, ArmedIs DEF SameCall
<1>1. /\ Good <=> LastOf(t') = player
      /\ LastOf(t) = IF t.newRound THEN t.curr ELSE LastPlayer
      /\ CardsLeft = t.chair[t.curr].hand \ t'.chair[t.curr].hand
  BY <1>0 DEF LastOf, LastPlayer, CardsLeft
<1>. HIDE DEF Good
<1>2. ASSUME t'.chair[t.curr].hand = t.chair[t.curr].hand, LastOf(t') = LastOf(t)  PROVE Good
  <2>1. CardsLeft = {}  BY <1>1, <1>2
  <2>. QED  BY <1>1, <1>2, <2>1
<1>3. ASSUME Unmoved(t, t')  PROVE Good
  BY <1>0, <1>2, <1>3 DEF Unmoved, SameCall, LastOf
<1>4. ASSUME NEW y \in {Now, Disarm(Now)}, NEW z, Becomes(z), RoundKept(y, z)  PROVE Good
  <2>1. y.t.chair = t.chair /\ LastOf(y.t) = LastOf(t)  BY <1>0 DEF SameCall, LastOf
  <2>2. t'.chair[t.curr].hand = t.chair[t.curr].hand /\ LastOf(t') = LastOf(t)
    BY <1>0, <1>4, <2>1 DEF RoundKept, InTurn, SameGame, Becomes
  <2>. QED  BY <1>2, <2>2
<1>5. ASSUME NEW y \in {Now, Disarm(Now)}, NEW z, NEW cards, Becomes(z), Chosen(cards),
             t.chair[t.curr].hand \ cards # {}, Played(y, z, cards)
      PROVE  Good
  <2>1. y.t.chair = t.chair /\ y.t.curr = t.curr  BY <1>0 DEF SameCall
  <2>2. t'.chair[t.curr].hand = t.chair[t.curr].hand \ cards /\ LastOf(t') = t.curr
    BY <1>5, <2>1 DEF Played, Becomes
  <2>3. t.newRound \/ CardsLeft # {}
    <3>1. CASE ~t.newRound
      <4>1. cards \subseteq t.chair[t.curr].hand /\ cards # {}  BY <1>5, <3>1 DEF Chosen
      <4>. QED  BY <1>1, <2>2, <4>1
    <3>. QED  BY <3>1
  <2>. QED  BY <1>1, <2>2, <2>3
<1>6. ASSUME NEW y, NEW z, NEW winner, Becomes(z), Ended(y, z, winner)  PROVE FALSE
  BY <1>0, <1>6 DEF Ended, Becomes
<1>7. Outcomes  BY GameOutcomes
<1>. QED  BY <1>0, <1>3, <1>4, <1>5, <1>6, <1>7, Zenon DEF Outcomes

(* The turn goes round and leaves nobody out, whoever passes by himself,   *)
(* by the server or because he is absent, and the seat that played last    *)
(* opens the next round (CallPlayCard, UserPass, UpdateCallInfo).          *)
THEOREM TurnsGoRound == Spec => TurnOrder
<1>1. RoundInv /\ [Next]_vars => [TurnOrderStep]_vars  BY OrderStep
<1>. QED  BY <1>1, RoundAlways, PTL DEF Spec, TurnOrder, TurnOrderStep
=============================================================================
