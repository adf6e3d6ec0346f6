--------------------------- MODULE GameTablePlay ---------------------------
(***************************************************************************)
(* What a game at a table is, from its deal to its settlement: what the    *)
(* row says of it, and, while the process lives, whose cards, reports,     *)
(* scores and payments there are.  It rests on what every handler does     *)
(* while a game is played (GameTableTurns) and between two games.          *)
(***************************************************************************)
EXTENDS GameTableTurns

-----------------------------------------------------------------------------
(* The start of a game.                                                    *)

(* A table on which a game of a deal was begun by what the table u was.    *)
Started(u, v, deal, dealer) ==
  /\ v.status = "betting" /\ ~v.readyOn
  /\ v.newRound /\ ~v.opened /\ v.passes = 0 /\ v.last = {} /\ v.curr = v.banker
  /\ v.banker = (IF u.banker = NoOne THEN dealer ELSE u.banker)
  /\ v.games = (IF u.games < Many THEN u.games + 1 ELSE Many)
  /\ v.bird = (IF BirdRule THEN HolderOf(deal, BirdCard, NoOne) ELSE NoOne)
  /\ \A s \in Seat : v.chair[s].hand = deal[s] /\ ~v.chair[s].single
  /\ BombSum(v) = 0

LEMMA DealtIs ==
  ASSUME NEW u \in Table, NEW deal \in Deals, NEW dealer \in Seat
  PROVE  LET w == Dealt(u, deal, dealer)
             v == [w EXCEPT !.status = "betting", !.newRound = TRUE]
         IN /\ Started(u, [v EXCEPT !.curr = v.banker], deal, dealer)
            /\ v \in Table /\ v.banker \in Seat
<1>. DEFINE D(s) == [Flagless(u.chair[s].who) EXCEPT !.hand = deal[s]]
            C == [s \in Seat |-> D(s)]
            n == IF u.games < Many THEN u.games + 1 ELSE Many
            b == IF BirdRule THEN HolderOf(deal, BirdCard, NoOne) ELSE NoOne
            k == IF u.banker = NoOne THEN dealer ELSE u.banker
            w == Dealt(u, deal, dealer)
            v == [w EXCEPT !.status = "betting", !.newRound = TRUE]
            c == [v EXCEPT !.curr = v.banker]
<1>1. \A s \in Seat : D(s).hand = deal[s] /\ ~D(s).single /\ D(s).bomb = 0  BY DEF Flagless
<1>2. w = [u EXCEPT !.status = "start", !.games = n,
            !.readyOn = FALSE, !.opened = FALSE, !.passes = 0, !.last = {}, !.lastType = "ERROR",
            !.chair = C, !.bird = b, !.banker = k]
  BY DEF Dealt, Table
<1>3. w \in Table  BY DealtTyped
<1>4. k \in Seat  BY DEF Table
<1>. HIDE DEF D, C, n, b, k
<1>5. /\ ~w.readyOn /\ ~w.opened /\ w.passes = 0 /\ w.last = {}
      /\ w.chair = C /\ w.bird = b /\ w.banker = k /\ w.games = n
  <2>. HIDE DEF w
  <2>. QED  BY <1>2, <1>3 DEF Table
<1>. HIDE DEF w
<1>6. /\ v \in Table /\ v.status = "betting" /\ v.newRound
      /\ ~v.readyOn /\ ~v.opened /\ v.passes = 0 /\ v.last = {}
      /\ v.chair = C /\ v.bird = b /\ v.banker = k /\ v.games = n
  BY <1>3, <1>5 DEF Table, Statuses
<1>. HIDE DEF v
<1>7. /\ c.status = "betting" /\ c.newRound /\ c.curr = k
      /\ ~c.readyOn /\ ~c.opened /\ c.passes = 0 /\ c.last = {}
      /\ c.chair = C /\ c.bird = b /\ c.banker = k /\ c.games = n
  BY <1>4, <1>6 DEF Table
<1>. HIDE DEF c
<1>8. \A s \in Seat : c.chair[s] = D(s)  BY <1>7 DEF C
<1>9. BombSum(c) = 0
  <2>1. NP = 3 => 2 \in Seat  BY DEF Seat
  <2>2. c.chair[0].bomb = 0 /\ c.chair[1].bomb = 0 /\ (NP = 3 => c.chair[2].bomb = 0)
    BY <1>1, <1>8, <2>1, SeatsAre
  <2>. QED  BY <2>2 DEF BombSum
<1>10. Started(u, c, deal, dealer)  BY <1>1, <1>7, <1>8, <1>9 DEF Started, k, b, n
<1>. QED  BY <1>4, <1>6, <1>10 DEF c, v, w

LEMMA StartedBy ==
  ASSUME NEW x \in Work, NEW deal \in Deals, NEW dealer \in Dealers(deal)
  PROVE  LET y == GameStart(x, deal, dealer) IN
         /\ y \in Work /\ dealer \in Seat /\ Started(x.t, y.t, deal, dealer)
         /\ Current(y.t, y.db) /\ \A s \in Seat : y.db.paid[s] = 0
<1>. DEFINE P == [s \in Seat |-> 0]
            a == [x EXCEPT !.t = Dealt(x.t, deal, dealer), !.db.paid = P]
            f == SaveGame(a)
            e == [f EXCEPT !.t = [@ EXCEPT !.status = "betting", !.newRound = TRUE]]
            b == SaveGame(e)
            c == Called(b, b.t.banker)
            y == Await(c)
<1>1. dealer \in Seat
  <2>1. HolderOf(deal, OpeningCard, 0) \in Seat  BY SeatsAre, HolderTyped
  <2>. QED  BY <2>1 DEF Dealers
<1>. DEFINE w == Dealt(x.t, deal, dealer)
            v == [w EXCEPT !.status = "betting", !.newRound = TRUE]
<1>2. /\ Started(x.t, [v EXCEPT !.curr = v.banker], deal, dealer)
      /\ v \in Table /\ v.banker \in Seat /\ w \in Table
  BY <1>1, DealtIs, DealtTyped DEF Work
<1>3. a = [x EXCEPT !.t = w, !.db.paid = P]  OBVIOUS
<1>. HIDE DEF w, a
<1>4. [x.db EXCEPT !.paid = P] \in Database /\ [x.db EXCEPT !.paid = P].paid = P
  BY DEF Work, Database
<1>. HIDE DEF P
<1>5. a \in Work /\ a.t = w /\ a.db.paid = P
  <2>1. a.t = w /\ a.db = [x.db EXCEPT !.paid = P] /\ a.trail = x.trail
        /\ a = [t |-> a.t, db |-> a.db, trail |-> a.trail]
    BY <1>3 DEF Work
  <2>. QED  BY <1>2, <1>4, <2>1 DEF Work
<1>. HIDE DEF a
(* A game that is saved.                                                   *)
<1>6. ASSUME NEW z \in Work
      PROVE  /\ SaveGame(z) \in Work /\ SaveGame(z).t = z.t
             /\ SaveGame(z).db.paid = z.db.paid /\ Written(z.t, SaveGame(z).db)
  <2>. DEFINE q == SaveBanker(z)
              d == [z.db EXCEPT !.begun = TRUE, !.status = z.t.status, !.banker = z.t.banker,
                                !.games = z.t.games]
              g == [q.db EXCEPT !.chair = [s \in Seat |-> Serialized(q.t.chair[s])]]
  <2>1. q \in Work /\ q.t = z.t /\ q.db = d  BY SaveBankerTyped, BankerSaved
  <2>2. d \in Database  BY <2>1 DEF Work
  <2>3. /\ d.status = z.t.status /\ d.banker = z.t.banker /\ d.games = z.t.games
        /\ d.paid = z.db.paid
    BY DEF Work, Database
  <2>. HIDE DEF q, d
  <2>4. /\ SaveGame(z) = SaveChairs(q) /\ SaveGame(z) \in Work
        /\ SaveGame(z).t = q.t /\ SaveGame(z).db = g
    BY <2>1, ChairsSaved, SaveGameTyped DEF SaveGame, q
  <2>5. /\ g.status = d.status /\ g.banker = d.banker /\ g.games = d.games /\ g.paid = d.paid
        /\ \A s \in Seat : g.chair[s] = Serialized(z.t.chair[s])
    BY <2>1, <2>2 DEF Database
  <2>. HIDE DEF g
  <2>. QED  BY <2>1, <2>3, <2>4, <2>5 DEF Written
<1>7. f \in Work /\ f.t = w /\ f.db.paid = P  BY <1>5, <1>6
<1>. HIDE DEF f
<1>8. e \in Work /\ e.t = v /\ e.db.paid = P
  <2>1. e = [f EXCEPT !.t = v]  BY <1>7 DEF Work
  <2>. HIDE DEF v, e
  <2>2. e \in Work /\ e.t = v /\ e.db = f.db  BY <1>2, <1>7, <2>1, OnTable DEF Work
  <2>. QED  BY <1>7, <2>2
<1>. HIDE DEF e
<1>9. b \in Work /\ b.t = v /\ b.db.paid = P /\ Written(v, b.db)
  BY <1>6, <1>8
<1>. HIDE DEF b
<1>10. /\ v.newRound /\ ~v.opened /\ v.passes = 0 /\ v.last = {} /\ v.status = "betting"
       /\ ~v.readyOn /\ BombSum(v) = 0
       /\ v.banker = (IF x.t.banker = NoOne THEN dealer ELSE x.t.banker)
       /\ v.games = (IF x.t.games < Many THEN x.t.games + 1 ELSE Many)
       /\ v.bird = (IF BirdRule THEN HolderOf(deal, BirdCard, NoOne) ELSE NoOne)
       /\ \A s \in Seat : v.chair[s].hand = deal[s] /\ ~v.chair[s].single
  <2>1. \A r \in Table, s \in Seat :
          LET m == [r EXCEPT !.curr = s] IN
          /\ m.newRound = r.newRound /\ m.opened = r.opened /\ m.passes = r.passes
          /\ m.last = r.last /\ m.status = r.status /\ m.readyOn = r.readyOn
          /\ m.banker = r.banker /\ m.bird = r.bird /\ m.chair = r.chair /\ m.games = r.games
    BY DEF Table
  <2>. HIDE DEF v
  <2>. QED  BY <1>2, <2>1 DEF Started, BombSum
<1>. HIDE DEF v
<1>11. /\ c \in Work /\ InTurn(b, c) /\ c.t.curr = v.banker /\ c.t.newRound
       /\ ~c.t.opened /\ c.t.passes = 0 /\ c.t.last = {} /\ Current(c.t, c.db)
  <2>1. WrittenBut(b.t, b.db, PrevSeat(v.banker))  BY <1>9 DEF Written, WrittenBut
  <2>. QED  BY <1>2, <1>9, <1>10, <2>1, CalledIs, CalledTyped
<1>. HIDE DEF c
<1>12. /\ y \in Work /\ RoundKept(c, y) /\ SameCall(c.t, y.t) /\ Current(y.t, y.db)
  BY <1>11, Awaited, TurnTyped, SeatsAre DEF RoundOK
<1>13. GameStart(x, deal, dealer) = y
  BY DEF GameStart, Turn, y, c, b, e, f, a, w, P
<1>. HIDE DEF y
<1>14. InTurn(b, y)  BY <1>11, <1>12, InTurnOn DEF RoundKept
<1>. USE DEF P
<1>15. Started(x.t, y.t, deal, dealer)
  BY <1>9, <1>10, <1>11, <1>12, <1>14 DEF Started, InTurn, SameGame, SameCall
<1>16. \A s \in Seat : y.db.paid[s] = 0  BY <1>9, <1>14 DEF InTurn
<1>. QED  BY <1>1, <1>12, <1>13, <1>15, <1>16

-----------------------------------------------------------------------------
(* Between two games.                                                      *)

(* Who comes or goes leaves a chair its cards, or leaves it without any.   *)
ChairKept(c, d) ==
  \/ d.hand = c.hand /\ d.single = c.single /\ d.bomb = c.bomb
  \/ d.hand = {} /\ ~d.single /\ d.bomb = 0

(* The ready timer runs for the players who wait.                          *)
Polled(u) ==
  RoomType = 0 /\ Idle(u) /\ (\E s \in Seat : u.chair[s].who \in {"on", "off"}) => u.readyOn

Seated(u, v) ==
  /\ v.status = u.status
  /\ \/ v.banker = u.banker /\ v.games = u.games
     \/ RoomType = 1 /\ v.banker = NoOne
  /\ \A s \in Seat : ChairKept(u.chair[s], v.chair[s])
  /\ Polled(u) => Polled(v)

LEMMA SeatedOn ==
  ASSUME NEW u, NEW v, NEW w, Seated(u, v), Seated(v, w)  PROVE Seated(u, w)
BY DEF Seated, ChairKept

(* What becomes of a table when one of its fields is assigned.             *)
WithWho(x, s, w) == [x EXCEPT !.t.chair[s].who = w]
WithReady(x, s) == [x EXCEPT !.t.chair[s].ready = TRUE]

LEMMA ChairFieldSet ==
  ASSUME NEW x \in Work, NEW s \in Seat
  PROVE  /\ \A w : LET y == WithWho(x, s, w) IN
              /\ y.db = x.db /\ Unmoved(x.t, y.t) /\ y.t.readyOn = x.t.readyOn
              /\ y.t.chair[s].who = w
              /\ \A r \in Seat \ {s} : y.t.chair[r] = x.t.chair[r]
         /\ LET y == WithReady(x, s) IN
              /\ y.db = x.db /\ Unmoved(x.t, y.t) /\ y.t.readyOn = x.t.readyOn
              /\ \A r \in Seat : y.t.chair[r].who = x.t.chair[r].who
<1>0. x.t \in Table /\ x.t.chair[s] \in Chair  BY DEF Work, Table
<1>1. ASSUME NEW w  PROVE LET y == [x EXCEPT !.t.chair[s].who = w] IN
         /\ y.db = x.db /\ Unmoved(x.t, y.t) /\ y.t.readyOn = x.t.readyOn
         /\ y.t.chair[s].who = w
         /\ \A r \in Seat \ {s} : y.t.chair[r] = x.t.chair[r]
  <2>. DEFINE c == [x.t.chair[s] EXCEPT !.who = w]
              u == [x.t EXCEPT !.chair[s] = c]
              y == [x EXCEPT !.t.chair[s].who = w]
  <2>1. /\ c.who = w /\ c.hand = x.t.chair[s].hand
        /\ c.single = x.t.chair[s].single /\ c.bomb = x.t.chair[s].bomb
    BY <1>0 DEF Chair
  <2>2. y.t = u /\ y.db = x.db  BY DEF Work, Table
  <2>. HIDE DEF c, y
  <2>3. /\ SameCall(x.t, u) /\ u.status = x.t.status /\ u.banker = x.t.banker
        /\ u.bird = x.t.bird /\ u.games = x.t.games /\ u.readyOn = x.t.readyOn
        /\ u.chair[s] = c /\ \A r \in Seat \ {s} : u.chair[r] = x.t.chair[r]
    BY <1>0 DEF Table, SameCall
  <2>. HIDE DEF u
  <2>4. Unmoved(x.t, u)  BY <2>1, <2>3 DEF Unmoved
  <2>. QED  BY <2>1, <2>2, <2>3, <2>4 DEF y
<1>2. LET y == [x EXCEPT !.t.chair[s].ready = TRUE] IN
         /\ y.db = x.db /\ Unmoved(x.t, y.t) /\ y.t.readyOn = x.t.readyOn
         /\ \A r \in Seat : y.t.chair[r].who = x.t.chair[r].who
  <2>. DEFINE c == [x.t.chair[s] EXCEPT !.ready = TRUE]
              u == [x.t EXCEPT !.chair[s] = c]
              y == [x EXCEPT !.t.chair[s].ready = TRUE]
  <2>1. /\ c.who = x.t.chair[s].who /\ c.hand = x.t.chair[s].hand
        /\ c.single = x.t.chair[s].single /\ c.bomb = x.t.chair[s].bomb
    BY <1>0 DEF Chair
  <2>2. y.t = u /\ y.db = x.db  BY DEF Work, Table
  <2>. HIDE DEF c, y
  <2>3. /\ SameCall(x.t, u) /\ u.status = x.t.status /\ u.banker = x.t.banker
        /\ u.bird = x.t.bird /\ u.games = x.t.games /\ u.readyOn = x.t.readyOn
        /\ u.chair[s] = c /\ \A r \in Seat \ {s} : u.chair[r] = x.t.chair[r]
    BY <1>0 DEF Table, SameCall
  <2>. HIDE DEF u
  <2>4. Unmoved(x.t, u)  BY <2>1, <2>3 DEF Unmoved
  <2>. QED  BY <2>1, <2>2, <2>3, <2>4 DEF y
<1>. QED  BY <1>1, <1>2, Zenon DEF WithWho, WithReady

LEMMA ReadySet ==
  ASSUME NEW x \in Work, NEW b
  PROVE  LET y == [x EXCEPT !.t.readyOn = b] IN
         /\ y.db = x.db /\ Unmoved(x.t, y.t) /\ y.t.readyOn = b /\ y.t.chair = x.t.chair
<1>. DEFINE u == [x.t EXCEPT !.readyOn = b]
            y == [x EXCEPT !.t.readyOn = b]
<1>1. y.t = u /\ y.db = x.db  BY DEF Work
<1>. HIDE DEF y
<1>2. Unmoved(x.t, u) /\ u.readyOn = b /\ u.chair = x.t.chair
  BY DEF Work, Table, SameCall, Unmoved
<1>. QED  BY <1>1, <1>2 DEF y

LEMMA UnmovedSeated ==
  ASSUME NEW u, NEW v, Unmoved(u, v), Polled(u) => Polled(v)  PROVE Seated(u, v)
BY DEF Unmoved, Seated, ChairKept

LEMMA AwaitReadyIs ==
  ASSUME NEW x \in Work
  PROVE  LET y == AwaitReady(x) IN
         /\ y.db = x.db /\ Unmoved(x.t, y.t) /\ y.t.chair = x.t.chair
         /\ Idle(x.t) => y.t.readyOn
<1>1. CASE Idle(x.t)  BY <1>1, ReadySet DEF AwaitReady, StartReadyTimer
<1>2. CASE ~Idle(x.t)  BY <1>2 DEF AwaitReady, Unmoved, SameCall
<1>. QED  BY <1>1, <1>2

(* Who leaves a table of the server clears his chair.  Who leaves a        *)
(* friends' room may close it.                                             *)
LEMMA LeftIs ==
  ASSUME NEW x \in Work, NEW s \in Seat
  PROVE  LET y == LeaveTable(x, s) IN
         /\ y.db.paid = x.db.paid
         /\ \/ RoomType = 1 /\ y.t = [Gone EXCEPT !.status = "closed"]
            \/ Seated(x.t, y.t)
<1>. DEFINE r == [x EXCEPT !.t = [@ EXCEPT !.banker = NoOne, !.games = 0]]
            a == IF RoomType = 1 /\ x.t.banker # NoOne THEN SaveBanker(r) ELSE x
            e == [a EXCEPT !.t.chair[s] = Flagless("none")]
            b == DeleteChair(e, s)
            c == IF RoomType = 1 THEN [b EXCEPT !.t = [Gone EXCEPT !.status = "closed"]] ELSE b
<1>0. ASSUME NEW z \in Work
      PROVE  DeleteChair(z, s).t = z.t /\ DeleteChair(z, s).db.paid = z.db.paid
  <2>. DEFINE d == [z.db EXCEPT !.chair[s] = NoChair]
  <2>1. d.paid = z.db.paid  BY DEF Work, Database
  <2>. HIDE DEF d
  <2>2. DeleteChair(z, s) = Put(z, d)  BY DEF DeleteChair, d
  <2>. QED  BY <2>1, <2>2, PutFields
<1>1. /\ r \in Work /\ r.db = x.db
      /\ r.t.status = x.t.status /\ r.t.chair = x.t.chair /\ r.t.readyOn = x.t.readyOn
      /\ r.t.banker = NoOne
  <2>1. \A v \in Table : LET q == [v EXCEPT !.banker = NoOne, !.games = 0] IN
          /\ q \in Table /\ q.status = v.status /\ q.chair = v.chair /\ q.readyOn = v.readyOn
          /\ q.banker = NoOne
    <3>1. 0 \in 0..Many  BY DEF Many
    <3>. QED  BY <3>1 DEF Table
  <2>2. x.t \in Table  BY DEF Work
  <2>3. r.t = [x.t EXCEPT !.banker = NoOne, !.games = 0] /\ r.db = x.db  BY DEF Work
  <2>4. r \in Work  BY <2>1, <2>2, OnTable
  <2>. HIDE DEF r
  <2>. QED  BY <2>1, <2>2, <2>3, <2>4
<1>. HIDE DEF r
<1>2. /\ a \in Work /\ a.db.paid = x.db.paid
      /\ a.t.status = x.t.status /\ a.t.chair = x.t.chair /\ a.t.readyOn = x.t.readyOn
      /\ \/ a.t.banker = x.t.banker /\ a.t.games = x.t.games
         \/ RoomType = 1 /\ a.t.banker = NoOne
  <2>1. CASE RoomType = 1 /\ x.t.banker # NoOne
    <3>1. /\ a = SaveBanker(r) /\ SaveBanker(r) \in Work /\ SaveBanker(r).t = r.t
          /\ SaveBanker(r).db = [r.db EXCEPT !.begun = TRUE, !.status = r.t.status,
                                             !.banker = r.t.banker, !.games = r.t.games]
      BY <1>1, <2>1, SaveBankerTyped, BankerSaved
    <3>. HIDE DEF a
    <3>2. \A d \in Database : \A m, k, g :
            [d EXCEPT !.begun = TRUE, !.status = m, !.banker = k, !.games = g].paid = d.paid
      BY DEF Database
    <3>3. a.db.paid = r.db.paid  BY <1>1, <3>1, <3>2 DEF Work
    <3>. QED  BY <1>1, <2>1, <3>1, <3>3
  <2>2. CASE ~(RoomType = 1 /\ x.t.banker # NoOne)
    <3>1. a = x  BY <2>2
    <3>. QED  BY <3>1
  <2>. QED  BY <2>1, <2>2
<1>. HIDE DEF a
<1>3. /\ e \in Work /\ e.db = a.db
      /\ e.t.status = a.t.status /\ e.t.readyOn = a.t.readyOn /\ e.t.banker = a.t.banker
      /\ e.t.games = a.t.games
      /\ e.t.chair[s] = Flagless("none")
      /\ \A q \in Seat \ {s} : e.t.chair[q] = a.t.chair[q]
  <2>1. Flagless("none") \in Chair  BY FreshTyped
  <2>2. e \in Work  BY <1>2, <2>1, ChairTyped
  <2>4. e = [a EXCEPT !.t.chair[s] = Flagless("none")]  OBVIOUS
  <2>. HIDE DEF e
  <2>. DEFINE u == [a.t EXCEPT !.chair[s] = Flagless("none")]
  <2>3. e.t = u /\ e.db = a.db  BY <1>2, <2>4 DEF Work
  <2>5. /\ u.status = a.t.status /\ u.readyOn = a.t.readyOn /\ u.banker = a.t.banker
        /\ u.games = a.t.games
        /\ u.chair[s] = Flagless("none") /\ \A q \in Seat \ {s} : u.chair[q] = a.t.chair[q]
    <3>1. a.t \in Table  BY <1>2 DEF Work
    <3>. QED  BY <3>1 DEF Table
  <2>. HIDE DEF u
  <2>. QED  BY <2>2, <2>3, <2>5
<1>. HIDE DEF e
<1>4. b \in Work /\ b.t = e.t /\ b.db.paid = e.db.paid
  BY <1>0, <1>3, DeleteTyped
<1>. HIDE DEF b
<1>5. Seated(x.t, b.t)
  BY <1>2, <1>3, <1>4 DEF Seated, ChairKept, Flagless, Polled, Idle
<1>6. /\ c \in Work /\ c.db = b.db
      /\ c.t = IF RoomType = 1 THEN [Gone EXCEPT !.status = "closed"] ELSE b.t
  BY <1>4, FreshTyped, OnTable DEF Work
<1>. HIDE DEF c
<1>7. DeleteRow(c).t = c.t /\ DeleteRow(c).db.paid = c.db.paid
  <2>1. [NoRow EXCEPT !.paid = c.db.paid].paid = c.db.paid  BY DEF NoRow
  <2>. QED  BY <1>6, <2>1, PutFields DEF DeleteRow
<1>8. LeaveTable(x, s) = IF Empty(b.t) THEN DeleteRow(c) ELSE b
  BY DEF LeaveTable, a, b, c, e, r
<1>. QED  BY <1>2, <1>3, <1>4, <1>5, <1>6, <1>7, <1>8

(* What LoadInfo puts back.                                                *)
LEMMA RestoredIs ==
  ASSUME NEW d \in Database
  PROVE  /\ \A s \in Seat : Restored(d).chair[s].who \in {"none", "restored"}
         /\ d.status = "betting" /\ (\A s \in Seat : d.chair[s].there) =>
              /\ Current(Restored(d), d)
              /\ \A s \in Seat : /\ Restored(d).chair[s].hand = d.chair[s].hand
                                 /\ Restored(d).chair[s].single = d.chair[s].single
                                 /\ Restored(d).chair[s].bomb = d.chair[s].bomb
         /\ Restored(d).status = "betting" => d.status = "betting"
<1>. DEFINE Sat(s) == IF d.chair[s].there
                THEN [who |-> "restored", ready |-> FALSE, single |-> d.chair[s].single,
                      hand |-> d.chair[s].hand, bomb |-> d.chair[s].bomb]
                ELSE Flagless("none")
            C == [s \in Seat |-> Sat(s)]
            r == Restored(d)
<1>1. /\ r.chair = C
      /\ r.status = (IF d.status = "start" THEN "waiting" ELSE d.status)
      /\ d.status = "betting" =>
           /\ r.banker = d.banker /\ r.games = d.games /\ r.curr = d.curr /\ r.opened = d.opened
           /\ r.newRound = (IF d.called THEN d.newRound ELSE TRUE)
           /\ r.passes = (IF d.called THEN d.passes ELSE 0) /\ r.last = d.last
  <2>. HIDE DEF C
  <2>. QED  BY DEF Restored, Fresh, C
<1>. HIDE DEF r
<1>2. \A s \in Seat : /\ Sat(s).who \in {"none", "restored"}
                      /\ d.chair[s].there =>
                           /\ Sat(s).hand = d.chair[s].hand /\ Sat(s).single = d.chair[s].single
                           /\ Sat(s).bomb = d.chair[s].bomb
  BY DEF Flagless
<1>. HIDE DEF Sat
<1>3. \A s \in Seat : r.chair[s] = Sat(s)  BY <1>1
<1>. HIDE DEF C
<1>4. ASSUME d.status = "betting", \A s \in Seat : d.chair[s].there  PROVE Current(r, d)
  <2>1. ASSUME NEW s \in Seat  PROVE d.chair[s] = Serialized(r.chair[s])
    <3>1. d.chair[s] \in SavedChair /\ d.chair[s].there  BY <1>4 DEF Database
    <3>2. Serialized(r.chair[s])
            = [there |-> TRUE, single |-> d.chair[s].single, hand |-> d.chair[s].hand,
               bomb |-> d.chair[s].bomb]
      BY <1>2, <1>3, <3>1 DEF Serialized
    <3>. QED  BY <3>1, <3>2 DEF SavedChair
  <2>2. r.status = d.status  BY <1>1, <1>4
  <2>. QED  BY <1>1, <1>4, <2>1, <2>2 DEF Current, Written, CallRead
<1>. QED  BY <1>1, <1>2, <1>3, <1>4 DEF r

LEMMA FoundIs ==
  ASSUME RoundInv, t.status = "down"
  PROVE  /\ Polled(Found(Now).t) /\ Found(Now).db.paid = db.paid
         /\ Found(Now).t.status # "down"
         /\ Found(Now).t.status = "betting" => Current(Found(Now).t, Found(Now).db)
         /\ ~RowThere(db) => Found(Now).t = Fresh /\ Found(Now).db = db
<1>. DEFINE r == [Now EXCEPT !.t = Restored(db)]
<1>1. /\ Now \in Work /\ Now.t = t /\ Now.db = db /\ Found(Now) \in Work
      /\ Found(Now).t.status \in Up /\ RowFull(db) /\ RowRound(db) /\ db \in Database
      /\ Found(Now) = Load(Now)
  BY KeptNow DEF RoundInv, GameInv, TypeOK, Found
<1>2. Found(Now).t.status # "down"  BY <1>1 DEF Up
<1>3. CASE ~RowThere(db)
  <2>1. Found(Now) = [Now EXCEPT !.t = Fresh]  BY <1>1, <1>3 DEF Load
  <2>2. Found(Now).t = Fresh /\ Found(Now).db = db  BY <1>1, <2>1 DEF Work
  <2>3. Fresh.status # "betting" /\ \A s \in Seat : Fresh.chair[s].who = "none"
    BY DEF Fresh, Flagless
  <2>. QED  BY <1>1, <1>2, <2>2, <2>3 DEF Polled
<1>4. CASE RowThere(db)
  <2>1. Restored(db) \in Table  BY <1>1, RestoredTyped
  <2>2. r \in Work /\ r.t = Restored(db) /\ r.db = db
    BY <1>1, <2>1, OnTable DEF Work
  <2>. HIDE DEF r
  <2>3. \A s \in Seat : r.t.chair[s].who \notin {"on", "off"}
    BY <1>1, <2>2, RestoredIs
  <2>4. Found(Now) = IF r.t.status = "betting" THEN Await(r) ELSE r
    BY <1>1, <1>4 DEF Load, r
  <2>5. CASE r.t.status = "betting"
    <3>1. RoundOK(r.t)  BY <2>2, <1>1 DEF Restored, RoundOK, RowRound, Fresh
    <3>2. Current(r.t, r.db)  BY <1>1, <2>2, <2>5, RestoredIs DEF RowFull
    <3>3. RoundKept(r, Await(r)) /\ Current(Await(r).t, Await(r).db)
      BY <2>2, <3>1, <3>2, Awaited
    <3>4. \A s \in Seat : Await(r).t.chair[s].who \notin {"on", "off"}
      BY <2>3, <3>3 DEF RoundKept, InTurn, SameGame
    <3>. QED  BY <1>2, <1>4, <2>2, <2>4, <2>5, <3>3, <3>4 DEF Polled, RoundKept, InTurn
  <2>6. CASE r.t.status # "betting"
    BY <1>2, <1>4, <2>2, <2>3, <2>4, <2>6 DEF Polled
  <2>. QED  BY <2>5, <2>6
<1>. QED  BY <1>3, <1>4

Crashes == t' = Gone /\ crashes' = crashes + 1

(* How a table on which nothing is played comes out of a step: the process *)
(* dies, a friends' room is closed, a game starts, or the same table goes  *)
(* on with other players, or as LoadInfo has put it back.                  *)
Betweens ==
  \/ Crashes
  \/ RoomType = 1 /\ t' = [Gone EXCEPT !.status = "closed"]
  \/ \E x \in Work, deal \in Deals : \E dealer \in Dealers(deal) :
       /\ x.t.banker = t.banker /\ x.t.games = t.games /\ Idle(t) /\ Full(t)
       /\ Becomes(GameStart(x, deal, dealer))
  \/ \E x \in {Now, Found(Now)} :
       /\ Seated(x.t, t') /\ db'.paid = x.db.paid
       /\ x.t.status = "betting" => Unmoved(x.t, t')
       /\ x.t.status \in {"down", "betting"} => db' = x.db

LEMMA StepCrashes ==
  ASSUME NEW x, Step(x)  PROVE Crashes \/ Becomes(x)
BY DEF Step, Completes, CutShort, Becomes, Crashes

LEMMA GoesOnSeated ==
  ASSUME NEW x \in {Now, Found(Now)}, NEW y, Step(y), Seated(x.t, y.t), y.db.paid = x.db.paid,
         x.t.status = "betting" => Unmoved(x.t, y.t),
         x.t.status \in {"down", "betting"} => y.db = x.db
  PROVE  Betweens
<1>1. Crashes \/ Becomes(y)  BY StepCrashes
<1>2. CASE Crashes  BY <1>2, Zenon DEF Betweens
<1>3. CASE Becomes(y)
  <2>1. /\ Seated(x.t, t') /\ db'.paid = x.db.paid
        /\ x.t.status = "betting" => Unmoved(x.t, t')
        /\ x.t.status \in {"down", "betting"} => db' = x.db
    BY <1>3 DEF Becomes
  <2>. QED  BY <2>1, Zenon DEF Betweens
<1>. QED  BY <1>1, <1>2, <1>3

LEMMA BetweenSteps ==
  ASSUME RoundInv, ~Playing, Next  PROVE Betweens
<1>. DEFINE F == Found(Now)
<1>1. /\ Now \in Work /\ Now.t = t /\ Now.db = db /\ t \in Table /\ GameInv
      /\ F \in Work /\ Kept(F) /\ (t.status # "closed" => F.t.status \in Up)
      /\ t.status # "betting"
  BY KeptNow DEF RoundInv, GameInv, TypeOK, Playing
<1>2. /\ IsBetting(F.t) => Full(F.t)
      /\ \A s \in Seat : Held(t, s) => t.status \in Up
      /\ \A s \in Seat : Held(F.t, s) => F.t.status \in Up
  BY <1>1 DEF Kept, GameInv, Agree, Empty
<1>3. ASSUME NEW u  PROVE Seated(u, u) /\ Unmoved(u, u)
  BY DEF Seated, ChairKept, Unmoved, SameCall
<1>. HIDE DEF F
<1>4. CASE SitNew
  <2>. DEFINE n == CHOOSE n \in Seat : ~Held(F.t, n) /\ \A m \in Seat : ~Held(F.t, m) => n <= m
              y == [F EXCEPT !.t.chair[n] = Flagless("on")]
              z == SaveChair(y, n)
              a == AwaitReady(z)
  <2>1. t.status # "closed" /\ ~Full(F.t) /\ Step(a)  BY <1>4 DEF SitNew, F
  <2>2. n \in Seat  BY <2>1, FirstFree
  <2>. HIDE DEF n
  <2>3. Idle(F.t) /\ F.t.status \notin {"down", "betting"}
    BY <1>1, <1>2, <2>1 DEF Idle, IsBetting, Up
  <2>4. y \in Work  BY <1>1, <2>2, ChairTyped, FreshTyped
  <2>5. /\ y.db = F.db /\ y.t.status = F.t.status /\ y.t.banker = F.t.banker
        /\ y.t.games = F.t.games
        /\ y.t.chair[n] = Flagless("on") /\ \A r \in Seat \ {n} : y.t.chair[r] = F.t.chair[r]
    <3>. DEFINE u == [F.t EXCEPT !.chair[n] = Flagless("on")]
    <3>1. y.t = u /\ y.db = F.db  BY <1>1 DEF Work
    <3>. HIDE DEF y
    <3>2. F.t \in Table  BY <1>1 DEF Work
    <3>3. /\ u.status = F.t.status /\ u.banker = F.t.banker /\ u.games = F.t.games
          /\ u.chair[n] = Flagless("on") /\ \A r \in Seat \ {n} : u.chair[r] = F.t.chair[r]
      BY <2>2, <3>2 DEF Table
    <3>. HIDE DEF u
    <3>. QED  BY <3>1, <3>3
  <2>. HIDE DEF y
  <2>6. z \in Work /\ z.t = y.t /\ z.db.paid = y.db.paid
    <3>1. z \in Work  BY <2>2, <2>4, SaveChairTyped
    <3>. DEFINE d == [y.db EXCEPT !.chair[n] = Serialized(y.t.chair[n])]
    <3>2. d.paid = y.db.paid  BY <2>4 DEF Work, Database
    <3>. HIDE DEF d
    <3>3. z = Put(y, d)  BY DEF SaveChair, d
    <3>. QED  BY <2>4, <3>1, <3>2, <3>3, PutFields
  <2>. HIDE DEF z
  <2>7. /\ a.db = z.db /\ Unmoved(z.t, a.t) /\ a.t.readyOn
    BY <2>3, <2>5, <2>6, AwaitReadyIs DEF Idle
  <2>. HIDE DEF a
  <2>8. Seated(F.t, y.t) \/ a.t.readyOn  BY <2>7
  <2>9. Seated(F.t, a.t)
    BY <2>5, <2>6, <2>7 DEF Seated, ChairKept, Unmoved, Flagless, Polled
  <2>10. a.db.paid = F.db.paid  BY <2>5, <2>6, <2>7
  <2>. QED  BY <2>1, <2>3, <2>9, <2>10, GoesOnSeated DEF F
<1>5. CASE Look
  <2>1. Step(F)  BY <1>5 DEF Look, F
  <2>. QED  BY <1>3, <2>1, GoesOnSeated DEF F
<1>6. ASSUME NEW s \in Seat, Return(s)  PROVE Betweens
  <2>. DEFINE y == WithWho(F, s, "on")
              a == AwaitReady(y)
  <2>1. IsOffline(F.t, s) /\ Step(a)  BY <1>6 DEF Return, F, WithWho
  <2>2. y \in Work  BY <1>1, ChairTyped DEF WithWho
  <2>3. y.db = F.db /\ Unmoved(F.t, y.t)  BY <1>1, ChairFieldSet
  <2>. HIDE DEF y
  <2>4. a.db = y.db /\ Unmoved(y.t, a.t) /\ (Idle(y.t) => a.t.readyOn)
    BY <2>2, AwaitReadyIs
  <2>. HIDE DEF a
  <2>5. Unmoved(F.t, a.t) /\ a.db = F.db  BY <2>3, <2>4 DEF Unmoved, SameCall
  <2>6. Polled(a.t)  BY <2>3, <2>4 DEF Unmoved, Polled, Idle
  <2>. QED  BY <2>1, <2>5, <2>6, UnmovedSeated, GoesOnSeated DEF F
<1>7. ASSUME NEW s \in Seat, Connected(s), Step([Now EXCEPT !.t.chair[s].who = "off"])
      PROVE  Betweens
  <2>. DEFINE y == WithWho(Now, s, "off")
  <2>1. /\ y.db = db /\ Unmoved(t, y.t) /\ y.t.readyOn = t.readyOn
    BY <1>1, ChairFieldSet
  <2>. HIDE DEF y
  <2>2. Polled(t) => Polled(y.t)  BY <1>7, <2>1 DEF Polled, Unmoved, Idle, Connected
  <2>3. Seated(t, y.t)  BY <2>1, <2>2, UnmovedSeated
  <2>4. Step(y)  BY <1>7 DEF y, WithWho
  <2>. QED  BY <1>1, <2>1, <2>3, <2>4, GoesOnSeated
<1>8. ASSUME NEW s \in Seat, Disconnect(s)  PROVE Betweens
  BY <1>7, <1>8 DEF Disconnect
<1>9. ASSUME NEW s \in Seat, Quit(s)  PROVE Betweens
  <2>. DEFINE y == LeaveTable(Now, s)
  <2>1. CASE IsBetting(t)  BY <1>7, <1>9, <2>1 DEF Quit
  <2>2. CASE ~IsBetting(t)
    <3>1. Connected(s) /\ Step(y)  BY <1>9, <2>2 DEF Quit
    <3>2. t.status # "down"  BY <1>2, <3>1 DEF Connected, Held, Up
    <3>3. /\ y.db.paid = db.paid
          /\ (RoomType = 1 /\ y.t = [Gone EXCEPT !.status = "closed"]) \/ Seated(t, y.t)
      BY <1>1, LeftIs
    <3>. HIDE DEF y
    <3>4. CASE RoomType = 1 /\ y.t = [Gone EXCEPT !.status = "closed"]
      <4>1. Crashes \/ Becomes(y)  BY <3>1, StepCrashes
      <4>. QED  BY <3>4, <4>1, Zenon DEF Betweens, Becomes
    <3>5. CASE Seated(t, y.t)
      BY <1>1, <3>1, <3>2, <3>3, <3>5, GoesOnSeated
    <3>. QED  BY <3>3, <3>4, <3>5
  <2>. QED  BY <2>1, <2>2
<1>10. ASSUME NEW s \in Seat, Ready(s)  PROVE Betweens
  <2>. DEFINE y == WithReady(Now, s)
  <2>1. /\ y \in Work /\ y.db = db /\ Unmoved(t, y.t) /\ y.t.readyOn = t.readyOn
        /\ \A r \in Seat : y.t.chair[r].who = t.chair[r].who
    <3>1. y \in Work  BY <1>1, ChairTyped DEF WithReady
    <3>. QED  BY <1>1, <3>1, ChairFieldSet
  <2>2. \/ /\ \A n \in Seat : Held(y.t, n)
           /\ \E deal \in Deals : \E dealer \in Dealers(deal) : Step(GameStart(y, deal, dealer))
        \/ Step(y)
    BY <1>10 DEF Ready, WithReady
  <2>3. Connected(s) /\ ~IsBetting(t)  BY <1>10 DEF Ready
  <2>. HIDE DEF y
  <2>4. CASE Step(y)
    <3>1. Polled(t) => Polled(y.t)  BY <2>1 DEF Polled, Unmoved, Idle
    <3>. QED  BY <1>1, <2>1, <2>4, <3>1, UnmovedSeated, GoesOnSeated
  <2>5. ASSUME \A n \in Seat : Held(y.t, n), NEW deal \in Deals, NEW dealer \in Dealers(deal),
               Step(GameStart(y, deal, dealer))
        PROVE  Betweens
    <3>1. Crashes \/ Becomes(GameStart(y, deal, dealer))  BY <2>5, StepCrashes
    <3>2. y.t.banker = t.banker /\ y.t.games = t.games  BY <2>1 DEF Unmoved
    <3>3. Full(t)  BY <2>1, <2>5 DEF Full, Held
    <3>4. Idle(t)  BY <1>2, <2>3 DEF Connected, Held, Up, IsBetting, Idle
    <3>. QED  BY <2>1, <3>1, <3>2, <3>3, <3>4, Zenon DEF Betweens
  <2>. QED  BY <2>2, <2>4, <2>5
<1>11. ASSUME NEW s \in Seat, Pass(s) \/ Run(s)  PROVE FALSE
  BY <1>1, <1>11 DEF Pass, Run
<1>12. ASSUME NEW s \in Seat, NEW cards, Play(s, cards)  PROVE FALSE
  BY <1>1, <1>12 DEF Play
<1>13. CASE OnTimer_trustee
  <2>1. Step(Disarm(Now))  BY <1>1, <1>13 DEF OnTimer_trustee
  <2>2. /\ Disarm(Now).db = db /\ InTurn(Now, Disarm(Now)) /\ SameCall(t, Disarm(Now).t)
        /\ Disarm(Now).t.chair = t.chair
    BY <1>1, ArmedIs
  <2>3. Unmoved(t, Disarm(Now).t) /\ (Polled(t) => Polled(Disarm(Now).t))
    BY <1>1, <2>2 DEF Unmoved, InTurn, SameGame, Polled, Idle
  <2>. QED  BY <1>1, <2>1, <2>2, <2>3, UnmovedSeated, GoesOnSeated
<1>14. CASE StopReadyTimer
  <2>. DEFINE y == [Now EXCEPT !.t.readyOn = FALSE]
  <2>1. (Empty(t) \/ RoomType = 1) /\ Step(y)  BY <1>14 DEF StopReadyTimer
  <2>2. y.db = db /\ Unmoved(t, y.t) /\ y.t.chair = t.chair  BY <1>1, ReadySet
  <2>. HIDE DEF y
  <2>3. Polled(y.t)  BY <2>1, <2>2 DEF Polled, Empty, Held
  <2>. QED  BY <1>1, <2>1, <2>2, <2>3, UnmovedSeated, GoesOnSeated
<1>15. ASSUME NEW late \in (SUBSET Seat) \ {{}}, ThrowOut(late)  PROVE Betweens
  <2>. DEFINE a == KickOut(Now, 0, late)
              b == KickOut(a, 1, late)
              c == KickOut(b, 2, late)
  <2>1. RoomType = 0 /\ (\A s \in late : Unready(s)) /\ Step(c)  BY <1>15 DEF ThrowOut
  <2>2. t.status # "down"
    <3>1. PICK s \in late : Unready(s)  BY <2>1
    <3>. QED  BY <1>2, <3>1 DEF Unready, Up
  <2>3. ASSUME NEW x \in Work, NEW n \in Nat
        PROVE  /\ KickOut(x, n, late) \in Work /\ Seated(x.t, KickOut(x, n, late).t)
               /\ KickOut(x, n, late).db.paid = x.db.paid
    <3>1. KickOut(x, n, late) \in Work  BY KickOutTyped
    <3>2. CASE n \in late /\ x.t.chair[n].who \in {"on", "off"}
      <4>1. KickOut(x, n, late) = LeaveTable(x, n)  BY <3>2 DEF KickOut
      <4>. QED  BY <2>1, <3>1, <3>2, <4>1, LeftIs
    <3>3. CASE ~(n \in late /\ x.t.chair[n].who \in {"on", "off"})
      BY <1>3, <3>1, <3>3 DEF KickOut
    <3>. QED  BY <3>2, <3>3
  <2>4. a \in Work /\ Seated(t, a.t) /\ a.db.paid = db.paid  BY <1>1, <2>3
  <2>. HIDE DEF a
  <2>5. b \in Work /\ Seated(a.t, b.t) /\ b.db.paid = a.db.paid  BY <2>3, <2>4
  <2>. HIDE DEF b
  <2>6. c \in Work /\ Seated(b.t, c.t) /\ c.db.paid = b.db.paid  BY <2>3, <2>5
  <2>. HIDE DEF c
  <2>7. Seated(t, c.t)  BY <2>4, <2>5, <2>6, SeatedOn
  <2>8. c.db.paid = db.paid  BY <2>4, <2>5, <2>6
  <2>. QED  BY <1>1, <2>1, <2>2, <2>7, <2>8, GoesOnSeated
<1>16. CASE Tick
  <2>. DEFINE u == [t EXCEPT !.trustee = @ - 1]
              y == [Now EXCEPT !.t.trustee = @ - 1]
  <2>1. y.t = u /\ y.db = db  BY <1>1 DEF Now, Doing
  <2>2. Unmoved(t, u) /\ u.readyOn = t.readyOn /\ u.chair = t.chair
    BY <1>1 DEF Table, Unmoved, SameCall
  <2>3. Step(y)  BY <1>16 DEF Tick
  <2>. HIDE DEF y, u
  <2>4. Polled(t) => Polled(u)  BY <2>2 DEF Polled, Unmoved, Idle
  <2>. QED  BY <1>1, <2>1, <2>2, <2>3, <2>4, UnmovedSeated, GoesOnSeated
<1>17. CASE Crash  BY <1>17, Zenon DEF Crash, Betweens, Crashes
<1>. QED  BY <1>4, <1>5, <1>6, <1>8, <1>9, <1>10, <1>11, <1>12, <1>13, <1>14, <1>15, <1>16,
             <1>17 DEF Next, OnTimer_ready

-----------------------------------------------------------------------------
(* The row of a game.                                                      *)

LEMMA CurrentStays ==
  ASSUME NEW u, NEW v, NEW d, Current(u, d), Unmoved(u, v)  PROVE Current(v, d)
<1>1. \A s \in Seat : Serialized(v.chair[s]) = Serialized(u.chair[s])
  BY DEF Unmoved, Serialized
<1>. QED  BY <1>1 DEF Current, Written, CallRead, Unmoved, SameCall

(* The table that LoadInfo makes of the row has the game of the table.     *)
LEMMA CurrentRow ==
  ASSUME RowFull(db), db \in Database, t.status = "betting", Current(t, db)
  PROVE  RowCurrent
<1>. DEFINE r == Restored(db)
<1>1. db.status = "betting" /\ \A s \in Seat : db.chair[s].there
  BY DEF Current, Written, RowFull
<1>2. Current(r, db) /\ \A s \in Seat : /\ r.chair[s].hand = db.chair[s].hand
                                        /\ r.chair[s].single = db.chair[s].single
                                        /\ r.chair[s].bomb = db.chair[s].bomb
  BY <1>1, RestoredIs
<1>. HIDE DEF r
<1>3. \A s \in Seat : /\ db.chair[s].hand = t.chair[s].hand
                      /\ db.chair[s].single = t.chair[s].single
                      /\ db.chair[s].bomb = t.chair[s].bomb
  <2>1. \A s \in Seat : db.chair[s] = Serialized(t.chair[s])  BY DEF Current, Written
  <2>2. \A c : /\ Serialized(c).hand = c.hand /\ Serialized(c).single = c.single
               /\ Serialized(c).bomb = c.bomb
    BY DEF Serialized
  <2>. QED  BY <2>1, <2>2
<1>4. /\ r.status = t.status /\ r.banker = t.banker /\ r.games = t.games
      /\ r.curr = t.curr /\ r.opened = t.opened /\ r.newRound = t.newRound
      /\ r.passes = t.passes /\ r.last = t.last
  BY <1>2 DEF Current, Written, CallRead
<1>. QED  BY <1>2, <1>3, <1>4 DEF RowCurrent, r

CurrentInv == RoundInv /\ (Playing => Current(t, db))

LEMMA CurrentStep == CurrentInv /\ Next => (Playing => Current(t, db))'
<1>. SUFFICES ASSUME CurrentInv, Next, t'.status = "betting"  PROVE Current(t', db')
  BY DEF Playing
<1>0. RoundInv /\ Now \in Work /\ Now.t = t /\ Now.db = db /\ Gone.status # "betting"
  BY SMTT(60), KeptNow DEF CurrentInv, RoundInv, Gone, Fresh
<1>1. CASE Playing
  <2>1. Current(t, db) /\ Outcomes /\ ~Dies
    BY <1>0, <1>1, GameOutcomes DEF CurrentInv, Dies
  <2>2. \A y \in {Now, Disarm(Now)} : Written(y.t, y.db)
    <3>1. /\ Disarm(Now).db = db /\ Disarm(Now).t.chair = t.chair /\ InTurn(Now, Disarm(Now))
      BY <1>0, ArmedIs
    <3>. QED  BY <1>0, <2>1, <3>1 DEF Current, Written, InTurn, SameGame
  <2>3. ASSUME db' = db, Unmoved(t, t')  PROVE Current(t', db')
    BY <2>1, <2>3, CurrentStays
  <2>4. ASSUME NEW y \in {Now, Disarm(Now)}, NEW z, Becomes(z),
               Written(y.t, y.db) => Current(z.t, z.db)
        PROVE  Current(t', db')
    BY <2>2, <2>4 DEF Becomes
  <2>5. ASSUME NEW y, NEW z, NEW winner, Becomes(z), Ended(y, z, winner)  PROVE FALSE
    BY <2>5 DEF Becomes, Ended
  <2>. QED  BY ZenonT(60), <2>1, <2>3, <2>4, <2>5 DEF Outcomes, Played
<1>2. CASE ~Playing
  <2>1. Betweens /\ ~Crashes /\ t' # [Gone EXCEPT !.status = "closed"]
    BY <1>0, <1>2, BetweenSteps DEF Crashes, Gone, Fresh
  <2>2. ASSUME NEW x \in Work, NEW deal \in Deals, NEW dealer \in Dealers(deal),
               Becomes(GameStart(x, deal, dealer))
        PROVE  Current(t', db')
    BY <2>2, StartedBy DEF Becomes
  <2>3. ASSUME NEW x \in {Now, Found(Now)}, Seated(x.t, t'), x.t.status = "betting" => Unmoved(x.t, t'),
               x.t.status \in {"down", "betting"} => db' = x.db
        PROVE  Current(t', db')
    <3>1. x.t.status = "betting"  BY <2>3 DEF Seated
    <3>2. t.status = "down" /\ x = Found(Now)
      BY <1>0, <1>2, <2>3, <3>1 DEF Playing, Found
    <3>3. Current(x.t, x.db)  BY <1>0, <3>1, <3>2, FoundIs
    <3>. QED  BY <2>3, <3>1, <3>3, CurrentStays
  <2>. QED  BY <2>1, <2>2, <2>3 DEF Betweens
<1>. QED  BY <1>1, <1>2

(* Whenever no handler runs, the row holds the game that is in memory, and *)
(* LoadInfo would put it back with its hands, its reports, its scores and  *)
(* its turn: SaveGameInfo, SaveCallInfo and SaveChairInfo miss nothing, on *)
(* any deal and after any crash.                                           *)
THEOREM RowKeepsGame == Spec => []RowCurrent
<1>1. Init => CurrentInv
  <2>1. Init => ~Playing  BY DEF Init, Gone, Fresh, Playing
  <2>2. Init => RoundInv  BY RoundInit
  <2>. QED  BY <2>1, <2>2 DEF CurrentInv
<1>2. CurrentInv /\ [Next]_vars => CurrentInv'
  <2>1. RoundInv /\ [Next]_vars => RoundInv'  BY RoundKeeps
  <2>2. CurrentInv /\ UNCHANGED vars => (Playing => Current(t, db))'
    BY DEF CurrentInv, vars, Playing
  <2>. QED  BY <2>1, <2>2, CurrentStep DEF CurrentInv
<1>3. CurrentInv => RowCurrent
  <2>1. CASE Playing
    BY <2>1, CurrentRow DEF CurrentInv, RoundInv, GameInv, TypeOK, Playing
  <2>2. CASE ~Playing  BY <2>2 DEF RowCurrent
  <2>. QED  BY <2>1, <2>2
<1>. QED  BY <1>1, <1>2, <1>3, PTL DEF Spec

-----------------------------------------------------------------------------
(* The ready timer.                                                        *)

ReadyInv == RoundInv /\ Polled(t)

LEMMA ReadyStep == ReadyInv /\ Next => Polled(t)'
<1>. SUFFICES ASSUME ReadyInv, Next, Idle(t')  PROVE t'.readyOn \/ Polled(t')
  BY DEF Polled
<1>. DEFINE Good == t'.readyOn \/ Polled(t')
<1>0. RoundInv /\ Now \in Work /\ Now.t = t /\ Now.db = db /\ ~Idle(Gone)
      /\ Polled(t) /\ t'.status # "betting"
  BY KeptNow DEF ReadyInv, RoundInv, Gone, Fresh, Idle
<1>. HIDE DEF Good
<1>1. ASSUME Playing  PROVE Good
  <2>1. Outcomes /\ ~Dies  BY <1>0, <1>1, GameOutcomes DEF Dies
  <2>2. \A y \in {Now, Disarm(Now)} : y.t.status = "betting"
    BY <1>0, <1>1, ArmedIs DEF Playing, InTurn, SameGame
  <2>3. ASSUME Unmoved(t, t')  PROVE FALSE  BY <1>0, <1>1, <2>3 DEF Unmoved, Playing
  <2>4. ASSUME NEW y \in {Now, Disarm(Now)}, NEW z, Becomes(z), RoundKept(y, z)  PROVE FALSE
    BY <1>0, <2>2, <2>4 DEF RoundKept, InTurn, SameGame, Becomes
  <2>5. ASSUME NEW y \in {Now, Disarm(Now)}, NEW z, NEW cards, Becomes(z), Played(y, z, cards)
        PROVE  FALSE
    BY <1>0, <2>2, <2>5 DEF Played, Becomes
  <2>6. ASSUME NEW y, NEW z, NEW winner, Becomes(z), Ended(y, z, winner)  PROVE Good
    BY <2>6 DEF Becomes, Ended, Good
  <2>. QED  BY <2>1, <2>3, <2>4, <2>5, <2>6 DEF Outcomes
<1>2. ASSUME ~Playing  PROVE Good
  <2>1. Betweens /\ ~Crashes /\ t' # [Gone EXCEPT !.status = "closed"]
    BY <1>0, <1>2, BetweenSteps DEF Crashes, Idle, Gone, Fresh
  <2>2. ASSUME NEW x \in Work, NEW deal \in Deals, NEW dealer \in Dealers(deal),
               Becomes(GameStart(x, deal, dealer))
        PROVE  FALSE
    BY <1>0, <2>2, StartedBy DEF Becomes, Started
  <2>3. ASSUME NEW x \in {Now, Found(Now)}, Seated(x.t, t')  PROVE Good
    <3>1. Polled(x.t)  BY <1>0, <2>3, FoundIs DEF Found
    <3>. QED  BY <2>3, <3>1 DEF Seated, Good
  <2>. QED  BY <2>1, <2>2, <2>3 DEF Betweens
<1>. QED  BY <1>1, <1>2 DEF Good

(* A table of the server polls for late seats as long as somebody who has  *)
(* come to it waits there: Sitdown and GameEnd start the ready timer, and  *)
(* OnTimer_ready stops it only at an empty table.                          *)
THEOREM WaitersPolled == Spec => []ReadyPolled
<1>1. Init => ReadyInv
  <2>1. Init => Polled(t)  BY DEF Init, Gone, Fresh, Polled, Idle
  <2>. QED  BY <2>1, RoundInit DEF ReadyInv
<1>2. ReadyInv /\ [Next]_vars => ReadyInv'
  <2>1. RoundInv /\ [Next]_vars => RoundInv'  BY RoundKeeps
  <2>2. ReadyInv /\ UNCHANGED vars => Polled(t)'  BY DEF ReadyInv, vars, Polled, Idle
  <2>. QED  BY <2>1, <2>2, ReadyStep DEF ReadyInv
<1>3. ReadyInv => ReadyPolled  BY DEF ReadyInv, Polled, ReadyPolled
<1>. QED  BY <1>1, <1>2, <1>3, PTL DEF Spec

-----------------------------------------------------------------------------
(* What a game has, while the process lives.  A crash in the middle of a   *)
(* handler can leave a row that is neither the table before it nor the one *)
(* after it, so all of this is about tables that no crash has interrupted. *)

LEMMA CrashesGrow ==
  ASSUME crashes \in Nat, Next, crashes' = 0  PROVE crashes = 0
<1>1. ASSUME NEW x, Step(x)  PROVE crashes = 0
  BY <1>1 DEF Step, Completes, CutShort
<1>2. CASE SitNew \/ Look  BY <1>1, <1>2 DEF SitNew, Look
<1>3. ASSUME NEW s \in Seat, Return(s) \/ Disconnect(s) \/ Quit(s)  PROVE crashes = 0
  BY <1>1, <1>3 DEF Return, Disconnect, Quit
<1>4. ASSUME NEW s \in Seat, Ready(s)  PROVE crashes = 0
  BY <1>1, <1>4 DEF Ready
<1>5. ASSUME NEW s \in Seat, Pass(s) \/ Run(s)  PROVE crashes = 0
  BY <1>1, <1>5 DEF Pass, Run
<1>6. ASSUME NEW s \in Seat, NEW cards, Play(s, cards)  PROVE crashes = 0
  BY <1>1, <1>6 DEF Play
<1>7. CASE OnTimer_trustee  BY <1>1, <1>7 DEF OnTimer_trustee
<1>8. CASE OnTimer_ready  BY <1>1, <1>8 DEF OnTimer_ready, StopReadyTimer, ThrowOut
<1>9. CASE Tick  BY <1>1, <1>9 DEF Tick
<1>10. CASE Crash  BY <1>10 DEF Crash
<1>. QED  BY <1>2, <1>3, <1>4, <1>5, <1>6, <1>7, <1>8, <1>9, <1>10 DEF Next

(* The cards of a game, and who reported the last one.                     *)
CardsApart(u) ==
  \A s \in Seat :
    /\ u.chair[s].hand \cap u.last = {}
    /\ \A r \in Seat : r # s => u.chair[s].hand \cap u.chair[r].hand = {}

LastReported(u) ==
  \A s \in Seat :
    u.chair[s].hand # {} /\ (u.chair[s].single <=> Cardinality(u.chair[s].hand) = 1)

BirdKnown(u) == BirdRule => \A s \in Seat : BirdCard \in u.chair[s].hand => u.bird = s

(* Before the first play nobody has reported, and whoever opens the first  *)
(* game of three in a row holds the three of spades; in a friends' room    *)
(* later games are opened by the last winner.                              *)
OpenerKnown(u) ==
  /\ u.games # 0
  /\ ~u.opened =>
       /\ \A s \in Seat : ~u.chair[s].single
       /\ NP = 3 /\ (RoomType = 0 \/ u.games = 1) => OpeningCard \in u.chair[u.curr].hand

InGame(u, paid) ==
  /\ CardsApart(u) /\ LastReported(u) /\ BirdKnown(u) /\ OpenerKnown(u)
  /\ Shaped(u) /\ BombSum(u) = 0
  /\ \A s \in Seat : paid[s] = 0

(* Nothing is left of a game at a table on which nothing is played, but    *)
(* its payments; and no table was lost.                                    *)
Waiting(u, d) ==
  /\ u.status \notin {"start", "betting"}
  /\ u.status = "down" => ~RowThere(d)
  /\ \A s \in Seat : u.chair[s].hand = {} /\ ~u.chair[s].single /\ u.chair[s].bomb = 0
  /\ u.status = "endgame" => \A s \in Seat : d.paid[s] = 1
  /\ u.banker = NoOne \/ (RoomType = 1 /\ u.games # 0)

Lived == crashes = 0 => IF Playing THEN InGame(t, db.paid) ELSE Waiting(t, db)

PlayInv == RoundInv /\ Lived

LEMMA GameBegun ==
  ASSUME NEW u, NEW v, NEW deal \in Deals, NEW dealer \in Dealers(deal),
         Started(u, v, deal, dealer), u.games \in 0..Many,
         u.banker = NoOne \/ (RoomType = 1 /\ u.games # 0),
         NEW paid, \A s \in Seat : paid[s] = 0
  PROVE  InGame(v, paid)
<1>1. /\ \A s \in Seat : IsFiniteSet(deal[s]) /\ Cardinality(deal[s]) > 1
      /\ \A r, s \in Seat : r # s => deal[r] \cap deal[s] = {}
      /\ NP = 3 => \E s \in Seat : OpeningCard \in deal[s]
  BY DealsAssumption
<1>2. \A s \in Seat : v.chair[s].hand = deal[s] /\ ~v.chair[s].single  BY DEF Started
<1>3. v.last = {} /\ v.newRound /\ v.passes = 0 /\ BombSum(v) = 0  BY DEF Started
<1>4. CardsApart(v)
  <2>. SUFFICES ASSUME NEW s \in Seat
                PROVE  /\ v.chair[s].hand \cap v.last = {}
                       /\ \A r \in Seat : r # s => v.chair[s].hand \cap v.chair[r].hand = {}
    BY DEF CardsApart
  <2>. QED  BY <1>1, <1>2, <1>3
<1>5. LastReported(v)
  <2>1. \A s \in Seat : deal[s] # {} /\ Cardinality(deal[s]) # 1
    BY <1>1, FS_EmptySet, FS_CardinalityType
  <2>. QED  BY <1>2, <2>1 DEF LastReported
<1>6. BirdKnown(v)
  <2>. SUFFICES ASSUME BirdRule, NEW s \in Seat, BirdCard \in deal[s]  PROVE v.bird = s
    BY <1>2 DEF BirdKnown
  <2>1. v.bird = CHOOSE r \in Seat : BirdCard \in deal[r]  BY DEF Started, HolderOf
  <2>2. v.bird \in Seat /\ BirdCard \in deal[v.bird]  BY <2>1
  <2>. QED  BY <1>1, <2>2
<1>7. OpenerKnown(v)
  <2>0. v.games # 0 /\ (v.games = 1 => u.games = 0)  BY DEF Started, Many
  <2>. SUFFICES ASSUME NP = 3, RoomType = 0 \/ v.games = 1
                PROVE  OpeningCard \in deal[v.curr] /\ v.curr \in Seat
    BY <1>2, <2>0 DEF OpenerKnown
  <2>1. v.curr = HolderOf(deal, OpeningCard, 0)
    <3>1. u.banker = NoOne  BY <2>0
    <3>. QED  BY <3>1 DEF Started, Dealers
  <2>2. v.curr = CHOOSE r \in Seat : OpeningCard \in deal[r]  BY <1>1, <2>1 DEF HolderOf
  <2>. QED  BY <1>1, <2>2
<1>. QED  BY <1>3, <1>4, <1>5, <1>6, <1>7 DEF InGame, Shaped

(* A play takes cards from one hand; what is left of it is reported.       *)
LEMMA GameGoesOn ==
  ASSUME NEW x \in Work, NEW y, NEW cards, x.t.curr \in Seat, x.t.chair[x.t.curr].hand \in Hands,
         InGame(x.t, x.db.paid), cards \subseteq x.t.chair[x.t.curr].hand, cards # {},
         x.t.chair[x.t.curr].hand \ cards # {}, Played(x, y, cards)
  PROVE  InGame(y.t, y.db.paid)
<1>. DEFINE u == x.t
            v == y.t
            c == u.curr
            left == u.chair[c].hand \ cards
<1>1. /\ v.bird = u.bird /\ v.games = u.games
      /\ v.opened /\ v.last \in {cards, {}} /\ Shaped(v)
      /\ v.chair[c].hand = left /\ v.chair[c].single = (u.chair[c].single \/ LastCard(left))
      /\ \A r \in Seat \ {c} : /\ v.chair[r].hand = u.chair[r].hand
                               /\ v.chair[r].single = u.chair[r].single
      /\ BombSum(v) = BombSum(u) /\ y.db.paid = x.db.paid
  BY DEF Played
<1>2. /\ CardsApart(u) /\ LastReported(u) /\ BirdKnown(u) /\ BombSum(u) = 0
      /\ \A s \in Seat : x.db.paid[s] = 0
  BY DEF InGame
<1>3. \A s \in Seat : v.chair[s].hand \subseteq u.chair[s].hand  BY <1>1
<1>4. CardsApart(v)
  <2>. SUFFICES ASSUME NEW s \in Seat
                PROVE  /\ v.chair[s].hand \cap v.last = {}
                       /\ \A r \in Seat : r # s => v.chair[s].hand \cap v.chair[r].hand = {}
    BY DEF CardsApart
  <2>1. \A r \in Seat : r # s => u.chair[s].hand \cap u.chair[r].hand = {}
    BY <1>2 DEF CardsApart
  <2>2. v.chair[s].hand \cap cards = {}
    <3>1. CASE s = c  BY <1>1, <3>1
    <3>2. CASE s # c  BY <1>1, <2>1, <3>2
    <3>. QED  BY <3>1, <3>2
  <2>. QED  BY <1>1, <1>3, <2>1, <2>2
<1>5. LastReported(v)
  <2>1. \A s \in Seat : /\ u.chair[s].hand # {}
                        /\ (u.chair[s].single <=> Cardinality(u.chair[s].hand) = 1)
    BY <1>2 DEF LastReported
  <2>2. ~u.chair[c].single
    <3>. SUFFICES ASSUME Cardinality(u.chair[c].hand) = 1  PROVE FALSE  BY <2>1
    <3>1. PICK n : u.chair[c].hand = {n}  BY HandsFinite, FS_Singleton
    <3>. QED  BY <3>1
  <2>3. \A s \in Seat : /\ v.chair[s].hand # {}
                        /\ (v.chair[s].single <=> Cardinality(v.chair[s].hand) = 1)
    BY ZenonT(60), <1>1, <2>1, <2>2 DEF LastCard
  <2>. QED  BY <2>3 DEF LastReported
<1>6. BirdKnown(v)  BY <1>1, <1>2, <1>3 DEF BirdKnown
<1>. QED  BY <1>1, <1>2, <1>4, <1>5, <1>6 DEF InGame, OpenerKnown

LEMMA GameSame ==
  ASSUME NEW u, NEW v, NEW paid, InGame(u, paid),
         v.bird = u.bird, v.games = u.games, v.curr = u.curr \/ v.opened, u.opened => v.opened,
         v.last \in {u.last, {}}, Shaped(u) => Shaped(v), BombSum(v) = BombSum(u),
         \A s \in Seat : v.chair[s].hand = u.chair[s].hand /\ v.chair[s].single = u.chair[s].single,
         u.curr \in Seat
  PROVE  InGame(v, paid)
<1>1. CardsApart(v) /\ LastReported(v)  BY DEF InGame, CardsApart, LastReported
<1>2. BirdKnown(v) /\ OpenerKnown(v)  BY DEF InGame, BirdKnown, OpenerKnown
<1>. QED  BY <1>1, <1>2 DEF InGame

(* A step of a game leaves a game, or a table on which it was settled.     *)
LEMMA GameLived ==
  ASSUME PlayInv, Playing, Next, crashes' = 0
  PROVE  IF t'.status = "betting" THEN InGame(t', db'.paid) ELSE Waiting(t', db')
<1>. DEFINE Good == IF t'.status = "betting" THEN InGame(t', db'.paid) ELSE Waiting(t', db')
<1>0. /\ RoundInv /\ Now \in Work /\ Now.t = t /\ Now.db = db /\ t \in Table
      /\ crashes \in Nat /\ t.curr \in Seat /\ t.chair[t.curr].hand \in Hands
      /\ t.status = "betting" /\ Full(t)
  BY KeptNow DEF PlayInv, RoundInv, GameInv, TypeOK, Table, Chair, Agree, IsBetting, Playing
<1>1. InGame(t, db.paid)
  <2>1. crashes = 0  BY <1>0, CrashesGrow
  <2>. QED  BY <2>1 DEF PlayInv, Lived
<1>2. /\ Outcomes /\ ~Dies
      /\ \A y \in {Now, Disarm(Now)} :
           y \in Work /\ y.t.chair = t.chair /\ SameCall(t, y.t) /\ InTurn(Now, y) /\ y.db = db
  <2>1. t.chair[t.curr].hand # {}  BY <1>0, <1>1 DEF InGame, LastReported
  <2>2. ~Dies  BY <1>0, <2>1 DEF Dies, RobotDies
  <2>3. InTurn(Now, Now) /\ SameCall(t, Now.t)
    BY <1>0 DEF InTurn, SameGame, SameCall
  <2>. QED  BY <1>0, <2>2, <2>3, ArmedIs, GameOutcomes
<1>. HIDE DEF Good
<1>3. ASSUME NEW y \in {Now, Disarm(Now)}  PROVE InGame(y.t, y.db.paid) /\ y.t.status = "betting"
  <2>1. /\ y.t.bird = t.bird /\ y.t.games = t.games /\ y.t.curr = t.curr /\ y.t.opened = t.opened /\ y.t.last = t.last
        /\ y.t.newRound = t.newRound /\ y.t.passes = t.passes
        /\ BombSum(y.t) = BombSum(t) /\ y.t.chair = t.chair /\ y.db = db
        /\ y.t.status = t.status
    BY <1>0, <1>2 DEF InTurn, SameGame, SameCall
  <2>2. Shaped(t) => Shaped(y.t)  BY <2>1 DEF Shaped
  <2>. QED  BY <1>0, <1>1, <2>1, <2>2, GameSame
<1>4. ASSUME db' = db, Unmoved(t, t')  PROVE Good
  <2>1. /\ t'.bird = t.bird /\ t'.games = t.games /\ t'.curr = t.curr /\ t'.opened = t.opened /\ t'.last = t.last
        /\ t'.newRound = t.newRound /\ t'.passes = t.passes /\ t'.status = t.status
        /\ \A s \in Seat : /\ t'.chair[s].hand = t.chair[s].hand
                           /\ t'.chair[s].single = t.chair[s].single
                           /\ t'.chair[s].bomb = t.chair[s].bomb
    BY <1>4 DEF Unmoved, SameCall
  <2>2. Shaped(t) => Shaped(t')  BY <2>1 DEF Shaped
  <2>3. BombSum(t') = BombSum(t)
    <3>1. NP = 3 => 2 \in Seat  BY DEF Seat
    <3>. QED  BY <2>1, <3>1, SeatsAre DEF BombSum
  <2>4. InGame(t', db.paid)  BY <1>0, <1>1, <2>1, <2>2, <2>3, GameSame
  <2>. QED  BY <1>0, <1>4, <2>1, <2>4 DEF Good
<1>5. ASSUME NEW y \in {Now, Disarm(Now)}, NEW z, Becomes(z), RoundKept(y, z), z.t.opened
      PROVE  Good
  <2>1. /\ z.t.bird = y.t.bird /\ z.t.games = y.t.games /\ z.t.last \in {y.t.last, {}} /\ (Shaped(y.t) => Shaped(z.t))
        /\ BombSum(z.t) = BombSum(y.t) /\ z.t.status = y.t.status /\ z.db.paid = y.db.paid
        /\ \A s \in Seat : /\ z.t.chair[s].hand = y.t.chair[s].hand
                           /\ z.t.chair[s].single = y.t.chair[s].single
    BY <1>5 DEF RoundKept, InTurn, SameGame
  <2>2. y.t.curr \in Seat  BY <1>0, <1>2 DEF SameCall
  <2>3. InGame(z.t, y.db.paid)  BY <1>3, <1>5, <2>1, <2>2, GameSame
  <2>. QED  BY <1>3, <1>5, <2>1, <2>3 DEF Good, Becomes
<1>6. ASSUME NEW y \in {Now, Disarm(Now)}, NEW z, NEW cards, Becomes(z), Chosen(cards),
             t.chair[t.curr].hand \ cards # {}, Played(y, z, cards)
      PROVE  Good
  <2>1. y \in Work /\ y.t.chair = t.chair /\ y.t.curr = t.curr  BY <1>2, <1>6 DEF SameCall
  <2>2. cards # {}  BY <1>6 DEF Chosen
  <2>3. cards \subseteq t.chair[t.curr].hand
    BY <1>1, <1>6, Zenon DEF Chosen, OpensGame, InGame, OpenerKnown
  <2>4. InGame(z.t, z.db.paid)
    BY <1>0, <1>3, <1>6, <2>1, <2>2, <2>3, GameGoesOn
  <2>5. z.t.status = "betting"  BY <1>3, <1>6 DEF Played
  <2>. QED  BY <1>6, <2>4, <2>5 DEF Good, Becomes
<1>7. ASSUME NEW y \in Work, NEW z, NEW winner, Becomes(z), Ended(y, z, winner),
             y.db.paid = db.paid, y.t.games = t.games,
             \A s \in Seat : y.t.chair[s].who = t.chair[s].who
      PROVE  Good
  <2>1. \A s \in Seat : Held(y.t, s)  BY <1>0, <1>7 DEF Full, Held
  <2>2. \A s \in Seat : t'.chair[s] = Flagless(y.t.chair[s].who) /\ db'.paid[s] = 1
    <3>1. \A s \in Seat : db.paid[s] = 0  BY <1>1 DEF InGame
    <3>. QED  BY <1>7, <2>1, <3>1 DEF Ended, Becomes
  <2>3. t'.status = "endgame" /\ (t'.banker = NoOne \/ (RoomType = 1 /\ t'.games # 0))
    <3>1. t.games # 0  BY <1>1 DEF InGame, OpenerKnown
    <3>. QED  BY <1>7, <3>1 DEF Ended, Becomes
  <2>4. \A s \in Seat : t'.chair[s].hand = {} /\ ~t'.chair[s].single /\ t'.chair[s].bomb = 0
    <3>1. \A w : Flagless(w).hand = {} /\ ~Flagless(w).single /\ Flagless(w).bomb = 0
      BY DEF Flagless
    <3>. QED  BY <2>2, <3>1
  <2>. QED  BY <2>2, <2>3, <2>4 DEF Waiting, Good
<1>8. Good  BY <1>2, <1>4, <1>5, <1>6, <1>7 DEF Outcomes
<1>. QED  BY <1>8 DEF Good

(* A step between two games leaves a table that waits, or starts a game.   *)
LEMMA WaitLived ==
  ASSUME PlayInv, ~Playing, Next, crashes' = 0
  PROVE  IF t'.status = "betting" THEN InGame(t', db'.paid) ELSE Waiting(t', db')
<1>. DEFINE Good == IF t'.status = "betting" THEN InGame(t', db'.paid) ELSE Waiting(t', db')
<1>0. /\ RoundInv /\ Now \in Work /\ Now.t = t /\ Now.db = db /\ crashes \in Nat
  BY KeptNow DEF PlayInv, RoundInv, GameInv, TypeOK
<1>1. Waiting(t, db)
  <2>1. crashes = 0  BY <1>0, CrashesGrow
  <2>. QED  BY <2>1 DEF PlayInv, Lived
<1>2. Betweens /\ ~Crashes  BY <1>0, BetweenSteps DEF Crashes
<1>3. /\ Gone.status = "down" /\ Fresh.status = "waiting" /\ Fresh.banker = NoOne
      /\ \A s \in Seat : /\ Fresh.chair[s].hand = {} /\ ~Fresh.chair[s].single
                         /\ Fresh.chair[s].bomb = 0
  BY DEF Gone, Fresh, Flagless
<1>. HIDE DEF Good
<1>4. ASSUME t' = [Gone EXCEPT !.status = "closed"]  PROVE Good
  <2>1. /\ t'.status = "closed" /\ t'.banker = NoOne
        /\ \A s \in Seat : t'.chair[s].hand = {} /\ ~t'.chair[s].single /\ t'.chair[s].bomb = 0
    BY <1>4 DEF Gone, Fresh, Flagless
  <2>. QED  BY <2>1 DEF Waiting, Good
<1>5. ASSUME NEW x \in Work, NEW deal \in Deals, NEW dealer \in Dealers(deal),
             x.t.banker = t.banker, x.t.games = t.games, Becomes(GameStart(x, deal, dealer))
      PROVE  Good
  <2>1. Started(x.t, t', deal, dealer) /\ \A s \in Seat : db'.paid[s] = 0
    BY <1>5, StartedBy DEF Becomes
  <2>2. /\ x.t.games \in 0..Many
        /\ x.t.banker = NoOne \/ (RoomType = 1 /\ x.t.games # 0)
    BY <1>1, <1>5 DEF Waiting, Work, Table
  <2>3. InGame(t', db'.paid)  BY <2>1, <2>2, GameBegun
  <2>. QED  BY <2>1, <2>3 DEF Good, Started
<1>6. \A x \in {Now, Found(Now)} : Waiting(x.t, x.db)
  <2>1. CASE t.status = "down"
    <3>1. ~RowThere(db)  BY <1>1, <2>1 DEF Waiting
    <3>2. Found(Now).t = Fresh /\ Found(Now).db = db  BY <1>0, <2>1, <3>1, FoundIs
    <3>. QED  BY <1>0, <1>1, <1>3, <3>2 DEF Waiting
  <2>2. CASE t.status # "down"  BY <1>0, <1>1, <2>2 DEF Found
  <2>. QED  BY <2>1, <2>2
<1>7. ASSUME NEW x \in {Now, Found(Now)}, Seated(x.t, t'), db'.paid = x.db.paid,
             x.t.status = "down" => db' = x.db
      PROVE  Good
  <2>1. Waiting(x.t, x.db)  BY <1>6
  <2>2. t'.status = x.t.status /\ (t'.banker = NoOne \/ (RoomType = 1 /\ t'.games # 0))
    BY <1>7, <2>1 DEF Seated, Waiting
  <2>3. \A s \in Seat : t'.chair[s].hand = {} /\ ~t'.chair[s].single /\ t'.chair[s].bomb = 0
    BY <1>7, <2>1 DEF Seated, ChairKept, Waiting
  <2>. QED  BY <1>7, <2>1, <2>2, <2>3 DEF Waiting, Good
<1>8. Good  BY <1>2, <1>4, <1>5, <1>7 DEF Betweens
<1>. QED  BY <1>8 DEF Good

LEMMA PlayAlways == Spec => []PlayInv
<1>1. Init => PlayInv
  <2>1. ASSUME Init  PROVE Waiting(t, db) /\ ~Playing
    <3>1. /\ t.status = "down" /\ t.banker = NoOne
          /\ \A s \in Seat : t.chair[s].hand = {} /\ ~t.chair[s].single /\ t.chair[s].bomb = 0
      BY <2>1 DEF Init, Gone, Fresh, Flagless
    <3>2. ~RowThere(db)  BY <2>1 DEF Init, NoRow, NoChair, RowThere
    <3>. QED  BY <3>1, <3>2 DEF Waiting, Playing
  <2>. QED  BY <2>1, RoundInit DEF PlayInv, Lived
<1>2. PlayInv /\ [Next]_vars => PlayInv'
  <2>1. RoundInv /\ [Next]_vars => RoundInv'  BY RoundKeeps
  <2>2. PlayInv /\ UNCHANGED vars => Lived'
    BY DEF PlayInv, Lived, vars, Playing, Waiting, InGame, CardsApart, LastReported, BirdKnown,
           OpenerKnown, Shaped, BombSum, RowThere
  <2>3. PlayInv /\ Next => Lived'  BY GameLived, WaitLived DEF Lived, Playing
  <2>. QED  BY <2>1, <2>2, <2>3 DEF PlayInv
<1>. QED  BY <1>1, <1>2, PTL DEF Spec

LEMMA WithoutGame ==
  ASSUME PlayInv, crashes = 0, ~Playing
  PROVE  /\ \A s \in Seat : t.chair[s].bomb = 0
         /\ t.status # "start" /\ (t.status = "endgame" => \A s \in Seat : db.paid[s] = 1)
BY DEF PlayInv, Lived, Waiting

(* In a process that has not crashed, every card of a deal is in one hand  *)
(* or was played, whoever played and whatever the server played for him:   *)
(* CallPlayCard takes cards of the hand whose turn it is and of no other.  *)
THEOREM CardsApartAlways == Spec => [](crashes = 0 => CardsPlayOnce)
<1>1. PlayInv => (crashes = 0 => CardsPlayOnce)
  BY DEF PlayInv, Lived, InGame, CardsApart, CardsPlayOnce, Hand
<1>. QED  BY <1>1, PlayAlways, PTL

(* In a process that has not crashed, who opens a round follows nothing,   *)
(* everyone else follows a play, and the pass that would end the round has *)
(* ended it (UserPass, CallPlayCard, GameStart).                           *)
THEOREM RoundsShaped == Spec => [](crashes = 0 => RoundShape)
<1>1. PlayInv => (crashes = 0 => RoundShape)
  BY DEF PlayInv, Lived, InGame, Shaped, RoundShape
<1>. QED  BY <1>1, PlayAlways, PTL

(* In a process that has not crashed, a seat has reported its last card    *)
(* exactly when it holds one, and a game that goes on has no empty hand:   *)
(* CallPlayCard reports, and GameEnd follows the last card.                *)
THEOREM LastCardReported == Spec => [](crashes = 0 => SingleReported)
<1>1. PlayInv => (crashes = 0 => SingleReported)
  BY DEF PlayInv, Lived, InGame, LastReported, SingleReported, Hand
<1>. QED  BY <1>1, PlayAlways, PTL

(* In a process that has not crashed, the scores of the bombs of a game    *)
(* cancel out: what PlayBomb books for its seat, it takes from the others. *)
THEOREM BombsCancel == Spec => [](crashes = 0 => BombsBalance)
<1>1. ASSUME PlayInv, crashes = 0  PROVE BombsBalance
  <2>1. CASE Playing
    BY <1>1, <2>1 DEF PlayInv, Lived, InGame, BombSum, BombsBalance
  <2>2. CASE ~Playing
    <3>1. NP = 3 => 2 \in Seat  BY DEF Seat
    <3>. QED  BY <1>1, <2>2, <3>1, WithoutGame, SeatsAre DEF BombsBalance
  <2>. QED  BY <2>1, <2>2
<1>. QED  BY <1>1, PlayAlways, PTL

(* In a process that has not crashed, who holds the ten of hearts has the  *)
(* seat that plays for double: the deal names it, and nobody else gets it. *)
THEOREM BirdStays == Spec => [](crashes = 0 => BirdHolder)
<1>1. PlayInv => (crashes = 0 => BirdHolder)
  BY DEF PlayInv, Lived, InGame, BirdKnown, BirdHolder, Hand
<1>. QED  BY <1>1, PlayAlways, PTL

(* In a process that has not crashed, a game that has ended was settled    *)
(* once on every account, by its last card or by a player who ran, and one *)
(* that is played on no account (GameEnd, GameEndSpecial, GameStart).      *)
THEOREM SettledOnce == Spec => [](crashes = 0 => PaidOnce)
<1>1. ASSUME PlayInv, crashes = 0  PROVE PaidOnce
  <2>1. CASE Playing
    BY <1>1, <2>1 DEF PlayInv, Lived, InGame, PaidOnce, Playing
  <2>2. CASE ~Playing
    BY <1>1, <2>2, WithoutGame DEF PaidOnce, IsBetting, Playing
  <2>. QED  BY <2>1, <2>2
<1>. QED  BY <1>1, PlayAlways, PTL

-----------------------------------------------------------------------------
(* Opening a round.                                                        *)

LEMMA SingleAccepted ==
  ASSUME NEW hand \in Hands, NEW c \in hand, NEW nextIsSingle,
         nextIsSingle => c \in Top(hand)
  PROVE  Accepts({c}, hand, TRUE, {}, "ERROR", nextIsSingle)
<1>1. Kind({c}) = "ONE"  BY SinglesAssumption
<1>2. PlayedType({c}, hand) = "ONE"  BY <1>1 DEF PlayedType, LacksCards
<1>3. ASSUME c \in Top(hand)  PROVE Highest({c}, hand)
  <2>1. \A d \in hand : d <= c  BY <1>3 DEF Top
  <2>. QED  BY <2>1, SinglesAssumption DEF Highest
<1>. QED  BY <1>2, <1>3 DEF Accepts

(* In a process that has not crashed, who has to open a round can: the     *)
(* first game is opened by who holds the three of spades, before anybody   *)
(* has reported a last card, and later the highest card will do, so that   *)
(* UserPass may refuse a pass of who opens a round.                        *)
THEOREM LeaderOpens == Spec => [](crashes = 0 => LeaderCanPlay)
<1>1. ASSUME PlayInv, crashes = 0, Playing, t.newRound
      PROVE  \E cards \in SUBSET Hand(t.curr) :
               /\ Accepts(cards, Hand(t.curr), TRUE, {}, "ERROR", t.chair[NextSeat(t.curr)].single)
               /\ FirstPlayOK(cards)
  <2>. DEFINE hand == Hand(t.curr)
              single == t.chair[NextSeat(t.curr)].single
  <2>1. InGame(t, db.paid)  BY <1>1 DEF PlayInv, Lived
  <2>2. t.curr \in Seat /\ NextSeat(t.curr) \in Seat /\ hand \in Hands /\ t.games \in 0..Many
    BY <1>1, SeatsAre DEF PlayInv, RoundInv, GameInv, TypeOK, Table, Chair, Hand
  <2>3. hand # {}  BY <2>1, <2>2 DEF InGame, LastReported, Hand
  <2>. HIDE DEF hand, single
  <2>4. ASSUME NEW c \in hand, single => c \in Top(hand), FirstPlayOK({c})
        PROVE  \E cards \in SUBSET hand : /\ Accepts(cards, hand, TRUE, {}, "ERROR", single)
                                          /\ FirstPlayOK(cards)
    BY <2>2, <2>4, SingleAccepted
  <2>5. CASE NP = 3 /\ ~t.opened /\ t.games <= 1 /\ FirstRule
    <3>1. t.games = 1  BY <2>1, <2>2, <2>5 DEF InGame, OpenerKnown, Many
    <3>2. ~single /\ OpeningCard \in hand
      BY <2>1, <2>2, <2>5, <3>1 DEF InGame, OpenerKnown, single, hand, Hand
    <3>3. FirstPlayOK({OpeningCard})  BY DEF FirstPlayOK
    <3>. QED  BY <2>4, <3>2, <3>3 DEF hand, single
  <2>6. CASE ~(NP = 3 /\ ~t.opened /\ t.games <= 1 /\ FirstRule)
    <3>1. PICK c : c \in Top(hand)  BY <2>2, <2>3, TopThere
    <3>2. c \in hand  BY <3>1 DEF Top
    <3>3. FirstPlayOK({c})  BY <2>6 DEF FirstPlayOK
    <3>. QED  BY <2>4, <3>1, <3>2, <3>3 DEF hand, single
  <2>. QED  BY <2>5, <2>6
<1>2. PlayInv => (crashes = 0 => LeaderCanPlay)  BY <1>1 DEF LeaderCanPlay
<1>. QED  BY <1>2, PlayAlways, PTL
=============================================================================
