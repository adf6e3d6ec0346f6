-------------------------- MODULE GameTableProofs --------------------------
(***************************************************************************)
(* What GameTable promises for every deck, deal, rule and number of        *)
(* crashes: TLC checks the same properties on a few deals.                 *)
(***************************************************************************)
EXTENDS GameTable, TLAPS

(* What a handler works on.                                                *)
Work == [t : Table, db : Database, trail : SUBSET Database]

LEMMA SeatsAre ==
  /\ NP \in Nat /\ Seat \subseteq Nat /\ 0 \in Seat /\ 1 \in Seat
  /\ \A s \in Seat : NextSeat(s) \in Seat /\ PrevSeat(s) \in Seat
<1>1. CASE NP = 2  BY <1>1 DEF Seat, NextSeat, PrevSeat
<1>2. CASE NP = 3  BY <1>2 DEF Seat, NextSeat, PrevSeat
<1>. QED  BY <1>1, <1>2, PlayersAssumption

(* A play from a hand is a hand.                                           *)
LEMMA HandsClosed ==
  /\ {} \in Hands
  /\ \A h \in Hands : \A p : p \subseteq h => p \in Hands
  /\ \A d \in Deals, s \in Seat : d[s] \in Hands
  /\ NP = 3 => {OpeningCard} \in Hands
<1>1. {} \in Hands  BY DEF Hands
<1>2. ASSUME NEW h \in Hands, NEW p, p \subseteq h  PROVE p \in Hands
  BY <1>2 DEF Hands
<1>3. ASSUME NEW d \in Deals, NEW s \in Seat  PROVE d[s] \in Hands
  <2>. DEFINE S == {SUBSET e[r] : e \in Deals, r \in Seat}
  <2>1. SUBSET d[s] \in S  OBVIOUS
  <2>2. Hands = {{}} \cup UNION S  BY DEF Hands
  <2>. HIDE DEF S
  <2>. QED  BY <2>1, <2>2
<1>4. ASSUME NP = 3  PROVE {OpeningCard} \in Hands
  <2>1. PICK d \in Deals : TRUE  BY DealsAssumption
  <2>2. PICK s \in Seat : OpeningCard \in d[s]  BY <1>4, DealsAssumption
  <2>. QED  BY <1>2, <1>3, <2>2
<1>. QED  BY <1>1, <1>2, <1>3, <1>4

LEMMA TypesAre ==
  /\ \A hand \in Hands : Kind(hand) \in CardTypes
  /\ \A play \in Hands : \A hand : PlayedType(play, hand) \in CardTypes
<1>1. \A hand \in Hands : Kind(hand) \in CardTypes  BY LibraryAssumption
<1>2. {"ERROR", "PLANEWITHWING", "PLANWHITHLACK"} \subseteq CardTypes  BY DEF CardTypes
<1>. QED  BY <1>1, <1>2 DEF PlayedType

LEMMA FreshTyped ==
  /\ Fresh \in Table /\ Gone \in Table /\ [Gone EXCEPT !.status = "closed"] \in Table
  /\ NoChair \in SavedChair /\ NoRow \in Database
  /\ \A who \in {"none", "on", "off", "restored"} : Flagless(who) \in Chair
<1>1. {} \in Hands  BY HandsClosed
<1>2. \A who \in {"none", "on", "off", "restored"} : Flagless(who) \in Chair
  BY <1>1 DEF Flagless, Chair
<1>3. "ERROR" \in CardTypes  BY DEF CardTypes
<1>4. 0 \in Seat  BY SeatsAre
<1>5. Fresh \in Table  BY <1>1, <1>2, <1>3, <1>4 DEF Fresh, Table, Statuses, Off, Many
<1>6. /\ Gone \in Table /\ [Gone EXCEPT !.status = "closed"] \in Table
  BY <1>5 DEF Gone, Table, Statuses
<1>7. NoChair \in SavedChair  BY <1>1 DEF NoChair, SavedChair
<1>8. NoRow \in Database  BY <1>1, <1>4, <1>7 DEF NoRow, Database, Statuses, Many
<1>. QED  BY <1>2, <1>5, <1>6, <1>7, <1>8

-----------------------------------------------------------------------------
(* The writes to the database.                                             *)

LEMMA PutTyped ==
  ASSUME NEW x \in Work, NEW d \in Database  PROVE Put(x, d) \in Work
BY DEF Work, Put

LEMMA SerializedTyped ==
  ASSUME NEW c \in Chair  PROVE Serialized(c) \in SavedChair
BY DEF Serialized, Chair, SavedChair

LEMMA ChairSaved ==
  ASSUME NEW d \in Database, NEW s \in Seat, NEW c \in SavedChair
  PROVE  [d EXCEPT !.chair[s] = c] \in Database
BY DEF Database

LEMMA SaveChairTyped ==
  ASSUME NEW x \in Work, NEW s \in Seat  PROVE SaveChair(x, s) \in Work
<1>1. x.t.chair[s] \in Chair /\ x.db \in Database  BY DEF Work, Table
<1>. QED  BY <1>1, SerializedTyped, ChairSaved, PutTyped DEF SaveChair

LEMMA SaveChairsTyped ==
  ASSUME NEW x \in Work  PROVE SaveChairs(x) \in Work
<1>. DEFINE Saved(n) == [s \in Seat |-> IF s <= n THEN Serialized(x.t.chair[s]) ELSE x.db.chair[s]]
            Upto(n) == [x.db EXCEPT !.chair = Saved(n)]
<1>1. \A s \in Seat : x.t.chair[s] \in Chair /\ x.db.chair[s] \in SavedChair
  BY DEF Work, Table, Database
<1>2. \A n : Saved(n) \in [Seat -> SavedChair]  BY <1>1, SerializedTyped
<1>3. \A n : Upto(n) \in Database
  <2>. TAKE n
  <2>1. \A f \in [Seat -> SavedChair] : [x.db EXCEPT !.chair = f] \in Database
    BY DEF Work, Database
  <2>. QED  BY <1>2, <2>1
<1>4. SaveChairs(x) = [x EXCEPT !.db = Upto(NP - 1), !.trail = @ \cup {Upto(n) : n \in Seat}]
  BY DEF SaveChairs
<1>5. \A d \in Database : \A D \in SUBSET Database :
        [x EXCEPT !.db = d, !.trail = @ \cup D] \in Work
  BY DEF Work
<1>6. {Upto(n) : n \in Seat} \in SUBSET Database  BY <1>3
<1>7. Upto(NP - 1) \in Database  BY <1>3
<1>. HIDE DEF Upto
<1>. QED  BY <1>4, <1>5, <1>6, <1>7

LEMMA SaveBankerTyped ==
  ASSUME NEW x \in Work  PROVE SaveBanker(x) \in Work
<1>1. [x.db EXCEPT !.begun = TRUE, !.status = x.t.status, !.banker = x.t.banker,
                   !.games = x.t.games] \in Database
  BY DEF Work, Table, Database
<1>. QED  BY <1>1, PutTyped DEF SaveBanker

LEMMA SaveGameTyped ==
  ASSUME NEW x \in Work  PROVE SaveGame(x) \in Work
BY SaveBankerTyped, SaveChairsTyped DEF SaveGame

LEMMA CallOfTyped ==
  ASSUME NEW d \in Database, NEW u \in Table  PROVE CallOf(d, u) \in Database
BY DEF CallOf, Table, Database

LEMMA SaveCallTyped ==
  ASSUME NEW x \in Work  PROVE SaveCall(x) \in Work
<1>. DEFINE p == PrevSeat(x.t.curr)
<1>1. x.t \in Table /\ x.db \in Database /\ x.t.curr \in Seat  BY DEF Work, Table
<1>2. p \in Seat  BY <1>1, SeatsAre
<1>3. x.t.chair[p] \in Chair  BY <1>1, <1>2 DEF Table
<1>. QED  BY <1>1, <1>2, <1>3, SerializedTyped, CallOfTyped, ChairSaved, PutTyped DEF SaveCall

LEMMA DeleteTyped ==
  ASSUME NEW x \in Work, NEW s \in Seat
  PROVE  DeleteChair(x, s) \in Work /\ DeleteRow(x) \in Work
<1>1. x.db \in Database /\ x.db.paid \in [Seat -> Nat]  BY DEF Work, Database
<1>2. [NoRow EXCEPT !.paid = x.db.paid] \in Database  BY <1>1, FreshTyped DEF Database
<1>. QED  BY <1>1, <1>2, FreshTyped, ChairSaved, PutTyped DEF DeleteChair, DeleteRow

LEMMA PayTyped ==
  ASSUME NEW x \in Work, NEW prefixes  PROVE Pay(x, prefixes) \in Work
<1>. DEFINE F(P) == [s \in Seat |-> IF s \in P THEN x.db.paid[s] + 1 ELSE x.db.paid[s]]
            Paid(P) == [x.db EXCEPT !.paid = F(P)]
<1>1. \A s \in Seat : x.db.paid[s] \in Nat  BY DEF Work, Database
<1>2. \A P : F(P) \in [Seat -> Nat]  BY <1>1
<1>3. \A f \in [Seat -> Nat] : [x.db EXCEPT !.paid = f] \in Database  BY DEF Work, Database
<1>4. \A P : Paid(P) \in Database  BY <1>2, <1>3
<1>5. Pay(x, prefixes) = [x EXCEPT !.db = Paid(Seat), !.trail = @ \cup {Paid(P) : P \in prefixes}]
  BY DEF Pay
<1>6. \A d \in Database : \A D \in SUBSET Database :
        [x EXCEPT !.db = d, !.trail = @ \cup D] \in Work
  BY DEF Work
<1>7. {Paid(P) : P \in prefixes} \in SUBSET Database  BY <1>4
<1>8. Paid(Seat) \in Database  BY <1>4
<1>. HIDE DEF Paid
<1>. QED  BY <1>5, <1>6, <1>7, <1>8

-----------------------------------------------------------------------------
(* The turn.                                                               *)

LEMMA OnTable ==
  ASSUME NEW x \in Work  PROVE x.t \in Table /\ \A u \in Table : [x EXCEPT !.t = u] \in Work
BY DEF Work

LEMMA PlayBombTyped ==
  ASSUME NEW x \in Work, NEW bomber \in Seat  PROVE PlayBomb(x, bomber) \in Work
<1>. DEFINE C == [s \in Seat |-> [x.t.chair[s] EXCEPT !.bomb = @ + BombScore(bomber, s)]]
            y == [x EXCEPT !.t.chair = C]
<1>1. x.t \in Table /\ \A s \in Seat : x.t.chair[s] \in Chair  BY DEF Work, Table
<1>2. \A s \in Seat : BombScore(bomber, s) \in Int  BY SeatsAre DEF BombScore
<1>3. C \in [Seat -> Chair]  BY <1>1, <1>2 DEF Chair
<1>4. [x.t EXCEPT !.chair = C] \in Table
  <2>. HIDE DEF C
  <2>. QED  BY <1>1, <1>3 DEF Table
<1>5. y = [x EXCEPT !.t = [x.t EXCEPT !.chair = C]]  BY DEF Work
<1>6. y \in Work  BY <1>4, <1>5, OnTable
<1>7. CallOf(y.db, y.t) \in Database  BY <1>6, CallOfTyped DEF Work
<1>. HIDE DEF y
<1>8. SaveChairs(Put(y, CallOf(y.db, y.t))) \in Work  BY <1>6, <1>7, PutTyped, SaveChairsTyped
<1>. QED  BY <1>8 DEF PlayBomb, y

LEMMA ArmTyped ==
  ASSUME NEW x \in Work  PROVE Arm(x) \in Work /\ Disarm(x) \in Work
BY RulesAssumption DEF Work, Table, Arm, Disarm

LEMMA PassedTyped ==
  ASSUME NEW x \in Work  PROVE Passed(x) \in Work
<1>. DEFINE y == [Disarm(x) EXCEPT !.t = CountPass(@)]
            z == [y EXCEPT !.t = [@ EXCEPT !.newRound = TRUE, !.passes = 0]]
            b == IF x.t.lastType = "BOMB" THEN PlayBomb(z, NextSeat(x.t.curr)) ELSE z
<1>1. Disarm(x) \in Work /\ x.t.curr \in Seat  BY ArmTyped DEF Work, Table
<1>2. y \in Work
  <2>1. \A u \in Table : CountPass(u) \in Table
    <3>. TAKE u \in Table
    <3>1. \A n \in Nat : [u EXCEPT !.opened = TRUE, !.passes = n] \in Table  BY DEF Table
    <3>2. u.passes + 1 \in Nat  BY DEF Table
    <3>. QED  BY <3>1, <3>2 DEF CountPass
  <2>. QED  BY <1>1, <2>1, OnTable
<1>3. z \in Work
  <2>1. \A u \in Table : [u EXCEPT !.newRound = TRUE, !.passes = 0] \in Table
    BY DEF Table
  <2>. QED  BY <1>2, <2>1, OnTable
<1>. HIDE DEF y, z
<1>4. b \in Work  BY <1>1, <1>3, SeatsAre, PlayBombTyped
<1>. HIDE DEF b
<1>5. [b EXCEPT !.t = [@ EXCEPT !.last = {}, !.lastType = "ERROR"]] \in Work
  <2>1. \A u \in Table : [u EXCEPT !.last = {}, !.lastType = "ERROR"] \in Table
    BY HandsClosed DEF Table, CardTypes
  <2>. QED  BY <1>4, <2>1 DEF Work
<1>. QED  BY <1>2, <1>5 DEF Passed, y, z, b

LEMMA CalledTyped ==
  ASSUME NEW x \in Work, NEW s \in Seat  PROVE Called(x, s) \in Work
<1>1. [x EXCEPT !.t.curr = s] \in Work  BY DEF Work, Table
<1>. QED  BY <1>1, SaveCallTyped DEF Called

LEMMA PassOnTyped ==
  ASSUME NEW x \in Work  PROVE PassOn(x) \in Work
<1>1. Passed(x) \in Work  BY PassedTyped
<1>2. Passed(x).t.curr \in Seat  BY <1>1 DEF Work, Table
<1>. QED  BY <1>1, <1>2, SeatsAre, CalledTyped DEF PassOn

LEMMA TurnTyped ==
  ASSUME NEW x \in Work, NEW s \in Seat
  PROVE  Await(x) \in Work /\ Turn(x, s) \in Work
<1>1. \A y \in Work : Await(y) \in Work  BY ArmTyped, PassOnTyped DEF Await
<1>. QED  BY <1>1, CalledTyped DEF Turn

-----------------------------------------------------------------------------
(* Plays and the end of a game.                                            *)

LEMMA ResetFlagsTyped ==
  ASSUME NEW u \in Table  PROVE ResetFlags(u) \in Table
<1>. DEFINE C == [s \in Seat |-> IF Held(u, s) THEN Flagless(u.chair[s].who) ELSE u.chair[s]]
<1>1. ASSUME NEW s \in Seat  PROVE u.chair[s] \in Chair /\ Flagless(u.chair[s].who) \in Chair
  <2>1. u.chair[s] \in Chair  BY DEF Table
  <2>2. u.chair[s].who \in {"none", "on", "off", "restored"}  BY <2>1 DEF Chair
  <2>. QED  BY <2>1, <2>2, FreshTyped
<1>2. C \in [Seat -> Chair]  BY <1>1
<1>. HIDE DEF C
<1>3. [u EXCEPT !.chair = C] \in Table  BY <1>2 DEF Table
<1>. QED  BY <1>3 DEF ResetFlags, C

LEMMA StartReadyTimerTyped ==
  ASSUME NEW x \in Work  PROVE StartReadyTimer(x) \in Work
BY DEF StartReadyTimer, Work, Table

LEMMA SettleTyped ==
  ASSUME NEW x \in Work, NEW winner \in Seat, NEW prefixes
  PROVE  Settle(x, winner, prefixes) \in Work
<1>1. [x EXCEPT !.t.status = "endgame"] \in Work  BY DEF Work, Table, Statuses
<1>2. Pay([x EXCEPT !.t.status = "endgame"], prefixes) \in Work  BY <1>1, PayTyped
<1>3. \A a \in Work : [a EXCEPT !.t.banker = IF RoomType = 1 THEN winner ELSE NoOne] \in Work
  BY DEF Work, Table
<1>4. \A b \in Work : [StartReadyTimer(b) EXCEPT !.t = ResetFlags(StartReadyTimer(b).t)] \in Work
  <2>. TAKE b \in Work
  <2>1. StartReadyTimer(b) \in Work /\ StartReadyTimer(b).t \in Table
    BY StartReadyTimerTyped DEF Work
  <2>. QED  BY <2>1, ResetFlagsTyped, OnTable
<1>. QED  BY <1>2, <1>3, <1>4, SaveBankerTyped DEF Settle

LEMMA GameEndTyped ==
  ASSUME NEW x \in Work
  PROVE  GameEnd(x) \in Work /\ \A runner \in Seat : GameEndSpecial(x, runner) \in Work
<1>1. x.t.curr \in Seat  BY DEF Work, Table
<1>. QED  BY <1>1, SettleTyped, SeatsAre, ArmTyped DEF GameEnd, GameEndSpecial

LEMMA PlayedTyped ==
  ASSUME NEW u \in Table, NEW cards \in Hands, NEW type \in CardTypes,
         NEW s \in Seat, NEW left \in Hands
  PROVE  LET after == [u.chair[s] EXCEPT !.hand = left, !.single = @ \/ LastCard(left)] IN
         [u EXCEPT !.opened = TRUE, !.passes = 0, !.newRound = FALSE,
                   !.last = cards, !.lastType = type, !.chair[s] = after] \in Table
<1>. DEFINE after == [u.chair[s] EXCEPT !.hand = left, !.single = @ \/ LastCard(left)]
<1>1. u.chair[s] \in Chair  BY DEF Table
<1>2. \A flag \in BOOLEAN : [u.chair[s] EXCEPT !.hand = left, !.single = flag] \in Chair
  BY <1>1 DEF Chair
<1>3. (u.chair[s].single \/ LastCard(left)) \in BOOLEAN  OBVIOUS
<1>4. after = [u.chair[s] EXCEPT !.hand = left, !.single = (u.chair[s].single \/ LastCard(left))]
  BY <1>1 DEF Chair
<1>5. after \in Chair  BY <1>2, <1>3, <1>4
<1>. HIDE DEF after
<1>6. [u.chair EXCEPT ![s] = after] \in [Seat -> Chair]  BY <1>5 DEF Table
<1>7. [u EXCEPT !.opened = TRUE, !.passes = 0, !.newRound = FALSE,
                !.last = cards, !.lastType = type, !.chair[s] = after] \in Table
  BY <1>5 DEF Table
<1>. QED  BY <1>7 DEF after

LEMMA CallPlayCardTyped ==
  ASSUME NEW x \in Work, NEW cards \in Hands, NEW type \in CardTypes
  PROVE  CallPlayCard(x, cards, type) \in Work
<1>. DEFINE s == x.t.curr
            left == x.t.chair[s].hand \ cards
            after == [x.t.chair[s] EXCEPT !.hand = left, !.single = @ \/ LastCard(left)]
            y == [x EXCEPT !.t = [@ EXCEPT !.opened = TRUE, !.passes = 0, !.newRound = FALSE,
                                           !.last = cards, !.lastType = type, !.chair[s] = after]]
<1>1. s \in Seat  BY DEF Work, Table
<1>2. left \in Hands
  <2>1. x.t.chair[s].hand \in Hands  BY <1>1 DEF Work, Table, Chair
  <2>. QED  BY <2>1, HandsClosed
<1>3. y \in Work  BY ZenonT(60), <1>1, <1>2, PlayedTyped, OnTable DEF Work
<1>. HIDE DEF y
<1>4. Turn(y, NextSeat(s)) \in Work  BY <1>1, <1>3, SeatsAre, TurnTyped
<1>5. GameEnd(IF type = "BOMB" THEN PlayBomb(y, s) ELSE y) \in Work
  BY <1>1, <1>3, PlayBombTyped, GameEndTyped
<1>. QED  BY <1>4, <1>5 DEF CallPlayCard, y

LEMMA PassTurnTyped ==
  ASSUME NEW x \in Work  PROVE PassTurn(x) \in Work
<1>1. Passed(x) \in Work  BY PassedTyped
<1>2. Passed(x).t.curr \in Seat  BY <1>1 DEF Work, Table
<1>. QED  BY <1>1, <1>2, SeatsAre, TurnTyped DEF PassTurn

(* What the server plays is of the hand whose turn it is, or the three of  *)
(* spades; only an empty hand has nothing to lead.                         *)
LEMMA AutoPlayCardTyped ==
  ASSUME NEW x \in Work,
         x.t.newRound /\ ~OpensGame(x.t) => x.t.chair[x.t.curr].hand # {}
  PROVE  AutoPlayCard(x) \in Work
<1>. DEFINE hand == x.t.chair[x.t.curr].hand
            lead == AutoLead(hand)
            follow == AutoFollow(x.t.lastType, x.t.last, hand)
<1>1. /\ x.t.curr \in Seat /\ hand \in Hands
      /\ x.t.last \in Hands /\ x.t.lastType \in CardTypes
  BY DEF Work, Table, Chair
<1>2. Top(hand) \in Hands  BY <1>1, HandsClosed DEF Top
<1>3. "ONE" \in CardTypes  BY DEF CardTypes
<1>4. CallPlayCard(x, Top(hand), "ONE") \in Work  BY <1>2, <1>3, CallPlayCardTyped
<1>5. CASE x.t.newRound /\ OpensGame(x.t)
  <2>1. {OpeningCard} \in Hands  BY <1>5, HandsClosed DEF OpensGame
  <2>2. CallPlayCard(x, {OpeningCard}, "ONE") \in Work  BY <2>1, <1>3, CallPlayCardTyped
  <2>. QED  BY <1>5, <2>2 DEF AutoPlayCard
<1>6. CASE x.t.newRound /\ ~OpensGame(x.t)
  <2>1. lead \in Hands  BY <1>1, <1>6, LibraryAssumption, HandsClosed
  <2>2. CallPlayCard(x, lead, Kind(lead)) \in Work  BY <2>1, TypesAre, CallPlayCardTyped
  <2>. QED  BY <1>4, <1>6, <2>2 DEF AutoPlayCard
<1>7. CASE ~x.t.newRound
  <2>1. follow \in Hands  BY <1>1, LibraryAssumption, HandsClosed
  <2>2. CallPlayCard(x, follow, Kind(follow)) \in Work  BY <2>1, TypesAre, CallPlayCardTyped
  <2>3. PassTurn(x) \in Work  BY PassTurnTyped
  <2>. QED  BY <1>4, <1>7, <2>2, <2>3 DEF AutoPlayCard
<1>. QED  BY <1>5, <1>6, <1>7

-----------------------------------------------------------------------------
(* The start of a game, and coming and going.                              *)

LEMMA HolderTyped ==
  ASSUME NEW deal, NEW card, NEW o \in Seat \cup {NoOne}
  PROVE  HolderOf(deal, card, o) \in Seat \cup {o}
BY DEF HolderOf

LEMMA DealtTyped ==
  ASSUME NEW u \in Table, NEW deal \in Deals, NEW dealer \in Seat
  PROVE  Dealt(u, deal, dealer) \in Table
<1>. DEFINE C == [s \in Seat |-> [Flagless(u.chair[s].who) EXCEPT !.hand = deal[s]]]
            n == IF u.games < Many THEN u.games + 1 ELSE Many
            b == IF BirdRule THEN HolderOf(deal, BirdCard, NoOne) ELSE NoOne
            k == IF u.banker = NoOne THEN dealer ELSE u.banker
<1>1. ASSUME NEW s \in Seat
      PROVE  [Flagless(u.chair[s].who) EXCEPT !.hand = deal[s]] \in Chair
  <2>1. u.chair[s].who \in {"none", "on", "off", "restored"}  BY DEF Table, Chair
  <2>2. Flagless(u.chair[s].who) \in Chair /\ deal[s] \in Hands  BY <2>1, FreshTyped, HandsClosed
  <2>. QED  BY <2>2 DEF Chair
<1>2. C \in [Seat -> Chair]  BY <1>1
<1>3. n \in 0..Many  BY DEF Table, Many
<1>4. b \in Seat \cup {NoOne}  BY HolderTyped
<1>5. k \in Seat \cup {NoOne}  BY DEF Table
<1>6. Dealt(u, deal, dealer) =
        [u EXCEPT !.status = "start", !.games = n,
            !.readyOn = FALSE, !.opened = FALSE, !.passes = 0, !.last = {}, !.lastType = "ERROR",
            !.chair = C, !.bird = b, !.banker = k]
  BY DEF Dealt, Table
<1>. HIDE DEF C, n, b, k
<1>7. {} \in Hands /\ "ERROR" \in CardTypes /\ "start" \in Statuses
  BY HandsClosed DEF CardTypes, Statuses
<1>8. [u EXCEPT !.status = "start", !.games = n, !.readyOn = FALSE, !.opened = FALSE] \in Table
  BY <1>3, <1>7 DEF Table
<1>9. \A v \in Table :
        [v EXCEPT !.passes = 0, !.last = {}, !.lastType = "ERROR", !.chair = C, !.bird = b,
                  !.banker = k] \in Table
  BY <1>2, <1>4, <1>5, <1>7 DEF Table
<1>. QED  BY <1>6, <1>8, <1>9

LEMMA GameStartTyped ==
  ASSUME NEW x \in Work, NEW deal \in Deals, NEW dealer \in Dealers(deal)
  PROVE  GameStart(x, deal, dealer) \in Work
<1>. DEFINE a == [x EXCEPT !.t = Dealt(x.t, deal, dealer), !.db.paid = [s \in Seat |-> 0]]
            e == [SaveGame(a) EXCEPT !.t = [@ EXCEPT !.status = "betting", !.newRound = TRUE]]
            b == SaveGame(e)
<1>1. dealer \in Seat
  <2>1. HolderOf(deal, OpeningCard, 0) \in Seat  BY SeatsAre, HolderTyped
  <2>. QED  BY <2>1 DEF Dealers
<1>2. Dealt(x.t, deal, dealer) \in Table  BY <1>1, DealtTyped DEF Work
<1>3. [x.db EXCEPT !.paid = [s \in Seat |-> 0]] \in Database  BY DEF Work, Database
<1>4. a \in Work  BY <1>2, <1>3 DEF Work
<1>. HIDE DEF a
<1>5. SaveGame(a) \in Work  BY <1>4, SaveGameTyped
<1>6. \A u \in Table : [u EXCEPT !.status = "betting", !.newRound = TRUE] \in Table
  BY DEF Table, Statuses
<1>7. e \in Work  BY <1>5, <1>6 DEF Work
<1>. HIDE DEF e
<1>8. b \in Work  BY <1>7, SaveGameTyped
<1>9. b.t.banker \in Seat
  <2>1. Dealt(x.t, deal, dealer).banker \in Seat
    BY <1>1 DEF Dealt, Work, Table
  <2>2. \A y \in Work : SaveGame(y).t = y.t
    BY DEF SaveGame, SaveBanker, SaveChairs, Put, Work
  <2>3. a.t = Dealt(x.t, deal, dealer)  BY DEF a, Work
  <2>4. e.t = [a.t EXCEPT !.status = "betting", !.newRound = TRUE]
    BY <1>4, <1>5, <2>2 DEF e, Work
  <2>5. e.t.banker \in Seat  BY <1>4, <2>1, <2>3, <2>4 DEF Work, Table
  <2>. QED  BY <1>7, <2>2, <2>5
<1>. QED  BY <1>8, <1>9, TurnTyped DEF GameStart, a, b, e

LEMMA RestoredTyped ==
  ASSUME NEW d \in Database  PROVE Restored(d) \in Table
<1>. DEFINE Sat(s) == IF d.chair[s].there
                THEN [who |-> "restored", ready |-> FALSE, single |-> d.chair[s].single,
                      hand |-> d.chair[s].hand, bomb |-> d.chair[s].bomb]
                ELSE Flagless("none")
            C == [s \in Seat |-> Sat(s)]
            seated == [Fresh EXCEPT !.status = d.status, !.chair = C,
                                    !.banker = d.banker, !.games = d.games]
            type == IF d.last = {} THEN "ERROR" ELSE Kind(d.last)
            new == IF d.called THEN d.newRound ELSE TRUE
            passed == IF d.called THEN d.passes ELSE 0
            bird == IF BirdRule THEN 0 ELSE NoOne
<1>1. ASSUME NEW s \in Seat  PROVE Sat(s) \in Chair
  <2>1. d.chair[s] \in SavedChair  BY DEF Database
  <2>2. Flagless("none") \in Chair  BY FreshTyped
  <2>. QED  BY <2>1, <2>2 DEF SavedChair, Chair
<1>2. C \in [Seat -> Chair]  BY <1>1
<1>3. type \in CardTypes  BY TypesAre DEF Database, CardTypes
<1>4. new \in BOOLEAN /\ passed \in Nat  BY DEF Database
<1>5. bird \in Seat \cup {NoOne}  BY SeatsAre
<1>6. seated \in Table
  <2>. HIDE DEF C
  <2>. QED  BY <1>2, FreshTyped DEF Table, Database
<1>7. [seated EXCEPT !.bird = bird, !.curr = d.curr, !.opened = d.opened, !.newRound = new,
                     !.passes = passed, !.last = d.last, !.lastType = type] \in Table
  <2>. HIDE DEF seated, type, new, passed, bird
  <2>. QED  BY <1>3, <1>4, <1>5, <1>6 DEF Table, Database
<1>8. [seated EXCEPT !.status = "waiting"] \in Table /\ [seated EXCEPT !.readyOn = TRUE] \in Table
  <2>. HIDE DEF seated
  <2>. QED  BY <1>6 DEF Table, Statuses
<1>. HIDE DEF seated
<1>9. Restored(d) \in {
        [seated EXCEPT !.bird = bird, !.curr = d.curr, !.opened = d.opened, !.newRound = new,
                       !.passes = passed, !.last = d.last, !.lastType = type],
        [seated EXCEPT !.status = "waiting"], [seated EXCEPT !.readyOn = TRUE]}
  BY DEF Restored, seated
<1>. QED  BY <1>7, <1>8, <1>9

LEMMA FoundTyped ==
  ASSUME NEW x \in Work  PROVE Found(x) \in Work /\ Load(x) \in Work
<1>1. [x EXCEPT !.t = Fresh] \in Work  BY FreshTyped, OnTable
<1>2. [x EXCEPT !.t = Restored(x.db)] \in Work  BY RestoredTyped, OnTable DEF Work
<1>3. Load(x) \in Work  BY <1>1, <1>2, TurnTyped, SeatsAre DEF Load
<1>. QED  BY <1>3 DEF Found

LEMMA LeaveTableTyped ==
  ASSUME NEW x \in Work, NEW s \in Seat  PROVE LeaveTable(x, s) \in Work
<1>. DEFINE r == [x EXCEPT !.t = [@ EXCEPT !.banker = NoOne, !.games = 0]]
            a == IF RoomType = 1 /\ x.t.banker # NoOne THEN SaveBanker(r) ELSE x
            e == [a EXCEPT !.t.chair[s] = Flagless("none")]
            b == DeleteChair(e, s)
            c == IF RoomType = 1 THEN [b EXCEPT !.t = [Gone EXCEPT !.status = "closed"]] ELSE b
<1>1. \A u \in Table : [u EXCEPT !.banker = NoOne, !.games = 0] \in Table
  <2>1. 0 \in 0..Many  BY DEF Many
  <2>. QED  BY <2>1 DEF Table
<1>2. r \in Work  BY <1>1 DEF Work
<1>. HIDE DEF r
<1>3. a \in Work  BY <1>2, SaveBankerTyped
<1>. HIDE DEF a
<1>4. e \in Work  BY <1>3, FreshTyped DEF Work, Table
<1>. HIDE DEF e
<1>5. b \in Work  BY <1>4, DeleteTyped
<1>. HIDE DEF b
<1>6. c \in Work  BY <1>5, FreshTyped, OnTable
<1>. HIDE DEF c
<1>7. DeleteRow(c) \in Work  BY <1>6, SeatsAre, DeleteTyped
<1>. QED  BY <1>5, <1>7 DEF LeaveTable, a, b, c, e, r

-----------------------------------------------------------------------------
(* The actions.                                                            *)

LEMMA NowTyped == TypeOK => Now \in Work
BY DEF TypeOK, Now, Doing, Work

LEMMA StepTyped ==
  ASSUME TypeOK, NEW x \in Work, Step(x)  PROVE TypeOK'
<1>1. CASE Completes(x)  BY <1>1 DEF Completes, TypeOK, Work
<1>2. CASE CutShort(x)
  <2>1. t' \in Table  BY <1>2, FreshTyped DEF CutShort
  <2>2. db' \in Database  BY <1>2 DEF CutShort, Work
  <2>3. crashes' \in Nat  BY <1>2 DEF CutShort, TypeOK
  <2>. QED  BY <2>1, <2>2, <2>3 DEF TypeOK
<1>. QED  BY <1>1, <1>2 DEF Step

(* The chair of a seat that comes or goes.                                 *)
LEMMA ChairTyped ==
  ASSUME NEW x \in Work, NEW s \in Seat
  PROVE  /\ \A c \in Chair : [x EXCEPT !.t.chair[s] = c] \in Work
         /\ \A w \in {"on", "off"} : [x EXCEPT !.t.chair[s].who = w] \in Work
         /\ [x EXCEPT !.t.chair[s].ready = TRUE] \in Work
<1>1. x.t.chair[s] \in Chair  BY DEF Work, Table
<1>2. \A c \in Chair : [x EXCEPT !.t.chair[s] = c] \in Work  BY DEF Work, Table
<1>3. \A w \in {"on", "off"} : [x.t.chair[s] EXCEPT !.who = w] \in Chair  BY <1>1 DEF Chair
<1>4. [x.t.chair[s] EXCEPT !.ready = TRUE] \in Chair  BY <1>1 DEF Chair
<1>5. \A w : [x EXCEPT !.t.chair[s].who = w] = [x EXCEPT !.t.chair[s] = [x.t.chair[s] EXCEPT !.who = w]]
  BY DEF Work, Table
<1>6. [x EXCEPT !.t.chair[s].ready = TRUE] = [x EXCEPT !.t.chair[s] = [x.t.chair[s] EXCEPT !.ready = TRUE]]
  BY DEF Work, Table
<1>7. \A w \in {"on", "off"} : [x EXCEPT !.t.chair[s].who = w] \in Work
  BY <1>2, <1>3, <1>5, Zenon
<1>8. [x EXCEPT !.t.chair[s].ready = TRUE] \in Work  BY <1>2, <1>4, <1>6, Zenon
<1>. QED  BY <1>2, <1>7, <1>8

(* The first free seat.                                                    *)
LEMMA FirstFree ==
  ASSUME NEW u, ~Full(u)
  PROVE  \E n \in Seat : ~Held(u, n) /\ \A m \in Seat : ~Held(u, m) => n <= m
<1>1. PICK k \in Seat : ~Held(u, k)  BY DEF Full
<1>2. CASE ~Held(u, 0)  BY <1>2, SeatsAre DEF Seat
<1>3. CASE Held(u, 0) /\ ~Held(u, 1)
  <2>1. \A m \in Seat : ~Held(u, m) => 1 <= m  BY <1>3, SeatsAre DEF Seat
  <2>. QED  BY <1>3, <2>1, SeatsAre
<1>4. CASE Held(u, 0) /\ Held(u, 1)
  <2>1. \A m \in Seat : ~Held(u, m) => m = 2  BY <1>4, PlayersAssumption DEF Seat
  <2>. QED  BY <1>1, <2>1
<1>. QED  BY <1>2, <1>3, <1>4

LEMMA AwaitReadyTyped ==
  ASSUME NEW x \in Work  PROVE AwaitReady(x) \in Work
BY StartReadyTimerTyped DEF AwaitReady

LEMMA KickOutTyped ==
  ASSUME NEW x \in Work, NEW s, NEW late \in SUBSET Seat  PROVE KickOut(x, s, late) \in Work
BY LeaveTableTyped DEF KickOut

LEMMA TypedStep == TypeOK /\ Next => TypeOK'
<1>. SUFFICES ASSUME TypeOK, Next  PROVE TypeOK'
  OBVIOUS
<1>1. Now \in Work /\ Found(Now) \in Work /\ Now.t = t /\ Now.db = db
  BY NowTyped, FoundTyped DEF Now, Doing
<1>2. CASE SitNew
  <2>. DEFINE x == Found(Now)
              n == CHOOSE n \in Seat : ~Held(x.t, n) /\ \A m \in Seat : ~Held(x.t, m) => n <= m
  <2>1. ~Full(x.t) /\ Step(AwaitReady(SaveChair([x EXCEPT !.t.chair[n] = Flagless("on")], n)))
    BY <1>2 DEF SitNew
  <2>2. n \in Seat  BY <2>1, FirstFree
  <2>. HIDE DEF n
  <2>3. [x EXCEPT !.t.chair[n] = Flagless("on")] \in Work  BY <1>1, <2>2, ChairTyped, FreshTyped
  <2>4. SaveChair([x EXCEPT !.t.chair[n] = Flagless("on")], n) \in Work  BY <2>2, <2>3, SaveChairTyped
  <2>. QED  BY <2>1, <2>4, AwaitReadyTyped, StepTyped
<1>3. CASE Look  BY <1>1, <1>3, StepTyped DEF Look
<1>4. ASSUME NEW s \in Seat, Return(s)  PROVE TypeOK'
  <2>1. [Found(Now) EXCEPT !.t.chair[s].who = "on"] \in Work  BY <1>1, ChairTyped
  <2>. QED  BY <1>4, <2>1, AwaitReadyTyped, StepTyped DEF Return
<1>5. ASSUME NEW s \in Seat, Disconnect(s)  PROVE TypeOK'
  BY <1>1, <1>5, ChairTyped, StepTyped DEF Disconnect
<1>6. ASSUME NEW s \in Seat, Quit(s)  PROVE TypeOK'
  <2>1. [Now EXCEPT !.t.chair[s].who = "off"] \in Work  BY <1>1, ChairTyped
  <2>2. LeaveTable(Now, s) \in Work  BY <1>1, LeaveTableTyped
  <2>. QED  BY <1>6, <2>1, <2>2, StepTyped DEF Quit
<1>7. ASSUME NEW s \in Seat, Ready(s)  PROVE TypeOK'
  <2>. DEFINE x == [Now EXCEPT !.t.chair[s].ready = TRUE]
  <2>1. x \in Work  BY <1>1, ChairTyped
  <2>. HIDE DEF x
  <2>2. ASSUME NEW deal \in Deals, NEW dealer \in Dealers(deal), Step(GameStart(x, deal, dealer))
        PROVE  TypeOK'
    BY <2>1, <2>2, GameStartTyped, StepTyped
  <2>3. Step(x) => TypeOK'  BY <2>1, StepTyped
  <2>4. \/ \E deal \in Deals : \E dealer \in Dealers(deal) : Step(GameStart(x, deal, dealer))
        \/ Step(x)
    BY <1>7 DEF Ready, x
  <2>. QED  BY <2>2, <2>3, <2>4
<1>8. ASSUME NEW s \in Seat, Pass(s)  PROVE TypeOK'
  <2>1. ~t.newRound  BY <1>8 DEF Pass
  <2>2. AutoPlayCard(Now) \in Work  BY <1>1, <2>1, AutoPlayCardTyped
  <2>3. PassTurn(Now) \in Work  BY <1>1, PassTurnTyped
  <2>. QED  BY <1>8, <2>2, <2>3, StepTyped DEF Pass
<1>9. ASSUME NEW s \in Seat, Run(s)  PROVE TypeOK'
  BY <1>1, <1>9, GameEndTyped, StepTyped DEF Run
<1>10. ASSUME NEW s \in Seat, NEW cards \in SUBSET t.chair[t.curr].hand, Play(s, cards)
       PROVE  TypeOK'
  <2>1. t.chair[t.curr].hand \in Hands  BY DEF TypeOK, Table, Chair
  <2>2. cards \in Hands  BY <2>1, HandsClosed
  <2>3. CallPlayCard(Disarm(Now), cards, PlayedType(cards, t.chair[s].hand)) \in Work
    BY <1>1, <2>2, ArmTyped, TypesAre, CallPlayCardTyped
  <2>. QED  BY <1>10, <2>3, StepTyped DEF Play
<1>11. CASE OnTimer_trustee
  <2>1. Disarm(Now) \in Work  BY <1>1, ArmTyped
  <2>2. CASE Step(Disarm(Now))  BY <2>1, <2>2, StepTyped
  <2>3. CASE t' = Gone /\ UNCHANGED <<db, crashes>>  BY <2>3, FreshTyped DEF TypeOK
  <2>4. CASE ~RobotDies /\ Step(AutoPlayCard(Disarm(Now)))
    <3>1. /\ Disarm(Now).t.newRound = t.newRound /\ Disarm(Now).t.chair = t.chair
          /\ Disarm(Now).t.curr = t.curr /\ Disarm(Now).t.opened = t.opened
      BY <1>1 DEF Disarm, TypeOK, Work, Table
    <3>2. AutoPlayCard(Disarm(Now)) \in Work
      BY <2>1, <2>4, <3>1, AutoPlayCardTyped DEF RobotDies, OpensGame
    <3>. QED  BY <2>4, <3>2, StepTyped
  <2>. QED  BY <1>11, <2>2, <2>3, <2>4 DEF OnTimer_trustee
<1>12. CASE OnTimer_ready
  <2>1. CASE StopReadyTimer
    <3>1. [Now EXCEPT !.t.readyOn = FALSE] \in Work  BY <1>1 DEF Work, Table
    <3>. QED  BY <2>1, <3>1, StepTyped DEF StopReadyTimer
  <2>2. ASSUME NEW late \in SUBSET Seat, ThrowOut(late)  PROVE TypeOK'
    <3>1. KickOut(KickOut(KickOut(Now, 0, late), 1, late), 2, late) \in Work
      BY <1>1, KickOutTyped
    <3>. QED  BY <2>2, <3>1, StepTyped DEF ThrowOut
  <2>. QED  BY <1>12, <2>1, <2>2 DEF OnTimer_ready
<1>13. CASE Tick
  <2>1. t.trustee - 1 \in 0..TurnTime
    BY <1>13, RulesAssumption DEF Tick, TypeOK, Table, Off
  <2>2. [Now EXCEPT !.t.trustee = @ - 1] = [Now EXCEPT !.t = [t EXCEPT !.trustee = t.trustee - 1]]
    BY <1>1 DEF Work, Table
  <2>3. [t EXCEPT !.trustee = t.trustee - 1] \in Table  BY <2>1 DEF TypeOK, Table
  <2>4. [Now EXCEPT !.t.trustee = @ - 1] \in Work  BY <1>1, <2>2, <2>3, OnTable
  <2>. QED  BY <1>13, <2>4, StepTyped DEF Tick
<1>14. CASE Crash  BY <1>14, FreshTyped DEF Crash, TypeOK
<1>. QED  BY <1>2, <1>3, <1>4, <1>5, <1>6, <1>7, <1>8, <1>9, <1>10, <1>11, <1>12, <1>13, <1>14
          DEF Next

(* The table, its row and the accounts stay within their types, whatever   *)
(* is dealt and played and wherever the process dies.                      *)
THEOREM Typed == Spec => []TypeOK
<1>1. Init => TypeOK  BY FreshTyped DEF Init, TypeOK
<1>2. TypeOK /\ [Next]_vars => TypeOK'
  <2>1. TypeOK /\ UNCHANGED vars => TypeOK'  BY DEF TypeOK, vars
  <2>. QED  BY <2>1, TypedStep
<1>. QED  BY <1>1, <1>2, PTL DEF Spec

-----------------------------------------------------------------------------
(* A game keeps all its players.  A crash leaves the row, so the invariant *)
(* is about the row as well: a game that it says is being played has a     *)
(* chair for everyone, through every write of every handler.               *)

Up == {"waiting", "start", "betting", "endgame"}

RowFull(d) == d.status \in Up /\ (d.status = "betting" => \A s \in Seat : d.chair[s].there)

Agree(u, d) ==
  /\ \A s \in Seat : Held(u, s) => d.chair[s].there
  /\ IsBetting(u) => Full(u) /\ ~u.readyOn
  /\ Idle(u) => d.status # "betting"
  /\ u.status \notin Up => Empty(u)

Kept(x) == RowFull(x.db) /\ (\A d \in x.trail : RowFull(d)) /\ Agree(x.t, x.db)

(* A change of the table that leaves its status, its ready timer and its   *)
(* seats alone.                                                            *)
SameTable(u, v) ==
  v.status = u.status /\ v.readyOn = u.readyOn /\ \A s \in Seat : Held(v, s) <=> Held(u, s)

(* A write that leaves the status of the row and the chairs in it.         *)
SameRow(d, e) == e.status = d.status /\ \A s \in Seat : d.chair[s].there => e.chair[s].there

LEMMA KeptTable ==
  ASSUME NEW x \in Work, Kept(x), NEW u, SameTable(x.t, u)
  PROVE  Kept([x EXCEPT !.t = u])
<1>1. /\ [x EXCEPT !.t = u].t = u /\ [x EXCEPT !.t = u].db = x.db
      /\ [x EXCEPT !.t = u].trail = x.trail
  BY DEF Work
<1>2. Agree(u, x.db)  BY DEF Kept, Agree, SameTable, Full, Empty, IsBetting, Idle
<1>. QED  BY <1>1, <1>2 DEF Kept

LEMMA SameRowFull ==
  ASSUME NEW d, RowFull(d), NEW e, SameRow(d, e)  PROVE RowFull(e)
BY DEF RowFull, SameRow

LEMMA SameRowAgree ==
  ASSUME NEW u, NEW d, Agree(u, d), NEW e, SameRow(d, e)  PROVE Agree(u, e)
BY DEF Agree, SameRow

LEMMA PutFields ==
  ASSUME NEW x \in Work, NEW d
  PROVE  Put(x, d).t = x.t /\ Put(x, d).db = d /\ Put(x, d).trail = x.trail \cup {d}
BY DEF Put, Work

LEMMA KeptPut ==
  ASSUME NEW x \in Work, Kept(x), NEW d, SameRow(x.db, d)
  PROVE  Kept(Put(x, d))
<1>1. RowFull(d)  BY SameRowFull DEF Kept
<1>2. Agree(x.t, d)  BY SameRowAgree DEF Kept
<1>. QED  BY <1>1, <1>2, PutFields DEF Kept

(* The chairs that are written are there.                                  *)
LEMMA ChairsThere ==
  ASSUME NEW x \in Work
  PROVE  /\ SaveChairs(x).t = x.t
         /\ SaveChairs(x).db.status = x.db.status
         /\ \A s \in Seat : SaveChairs(x).db.chair[s].there
         /\ \A d \in SaveChairs(x).trail : d \in x.trail \/ SameRow(x.db, d)
<1>. DEFINE Saved(n) == [s \in Seat |-> IF s <= n THEN Serialized(x.t.chair[s]) ELSE x.db.chair[s]]
            Upto(n) == [x.db EXCEPT !.chair = Saved(n)]
<1>1. SaveChairs(x) = [x EXCEPT !.db = Upto(NP - 1), !.trail = @ \cup {Upto(n) : n \in Seat}]
  BY DEF SaveChairs
<1>2. \A n : \A s \in Seat : Saved(n)[s] = IF s <= n THEN Serialized(x.t.chair[s]) ELSE x.db.chair[s]
  OBVIOUS
<1>3. \A n : Upto(n).status = x.db.status /\ Upto(n).chair = Saved(n)  BY DEF Work, Database
<1>4. \A c : Serialized(c).there  BY DEF Serialized
<1>5. \A n : SameRow(x.db, Upto(n))
  <2>. HIDE DEF Upto, Saved
  <2>. QED  BY <1>2, <1>3, <1>4 DEF SameRow
<1>6. \A s \in Seat : Upto(NP - 1).chair[s].there
  <2>1. \A s \in Seat : s <= NP - 1  BY PlayersAssumption DEF Seat
  <2>. HIDE DEF Upto, Saved
  <2>. QED  BY <1>2, <1>3, <1>4, <2>1
<1>. HIDE DEF Upto
<1>7. /\ SaveChairs(x).t = x.t /\ SaveChairs(x).db = Upto(NP - 1)
      /\ SaveChairs(x).trail = x.trail \cup {Upto(n) : n \in Seat}
  BY <1>1 DEF Work
<1>. QED  BY <1>3, <1>5, <1>6, <1>7

LEMMA KeptSaveChairs ==
  ASSUME NEW x \in Work, Kept(x)  PROVE Kept(SaveChairs(x))
<1>1. SameRow(x.db, SaveChairs(x).db)  BY ChairsThere DEF SameRow
<1>2. RowFull(SaveChairs(x).db)  BY <1>1, SameRowFull DEF Kept
<1>3. Agree(x.t, SaveChairs(x).db)  BY <1>1, SameRowAgree DEF Kept
<1>4. \A d \in SaveChairs(x).trail : RowFull(d)  BY ChairsThere, SameRowFull DEF Kept
<1>. QED  BY <1>2, <1>3, <1>4, ChairsThere DEF Kept

LEMMA CallOfSame ==
  ASSUME NEW d \in Database, NEW u  PROVE SameRow(d, CallOf(d, u))
BY DEF SameRow, CallOf, Database

LEMMA KeptSaveCall ==
  ASSUME NEW x \in Work, Kept(x)  PROVE Kept(SaveCall(x))
<1>. DEFINE p == PrevSeat(x.t.curr)
            e == CallOf(x.db, x.t)
            d == [e EXCEPT !.chair[p] = Serialized(x.t.chair[p])]
<1>1. x.db \in Database /\ e \in Database /\ SameRow(x.db, e)
  BY CallOfTyped, CallOfSame DEF Work
<1>2. SameRow(e, d)
  <2>. HIDE DEF e
  <2>1. \A c : Serialized(c).there  BY DEF Serialized
  <2>2. d.status = e.status /\ \A s \in Seat : d.chair[s] \in {e.chair[s], Serialized(x.t.chair[p])}
    BY <1>1 DEF Database
  <2>. HIDE DEF d
  <2>. QED  BY <2>1, <2>2 DEF SameRow
<1>. HIDE DEF d, e
<1>3. SameRow(x.db, d)  BY <1>1, <1>2 DEF SameRow
<1>. QED  BY <1>3, KeptPut DEF SaveCall, d, e

LEMMA KeptPlayBomb ==
  ASSUME NEW x \in Work, Kept(x), NEW bomber \in Seat  PROVE Kept(PlayBomb(x, bomber))
<1>. DEFINE C == [s \in Seat |-> [x.t.chair[s] EXCEPT !.bomb = @ + BombScore(bomber, s)]]
            u == [x.t EXCEPT !.chair = C]
            y == [x EXCEPT !.t.chair = C]
<1>1. x.t \in Table /\ \A s \in Seat : x.t.chair[s] \in Chair  BY DEF Work, Table
<1>2. \A s \in Seat : BombScore(bomber, s) \in Int  BY SeatsAre DEF BombScore
<1>3. C \in [Seat -> Chair]  BY <1>1, <1>2 DEF Chair
<1>4. \A s \in Seat : C[s].who = x.t.chair[s].who  BY <1>1 DEF Chair
<1>. HIDE DEF C
<1>5. u \in Table  BY <1>1, <1>3 DEF Table
<1>6. SameTable(x.t, u)  BY <1>1, <1>4 DEF SameTable, Held, Table
<1>7. y = [x EXCEPT !.t = u]  BY DEF Work
<1>. HIDE DEF y, u
<1>8. y \in Work /\ Kept(y)  BY <1>5, <1>6, <1>7, OnTable, KeptTable
<1>9. CallOf(y.db, y.t) \in Database /\ SameRow(y.db, CallOf(y.db, y.t))
  BY <1>8, CallOfTyped, CallOfSame DEF Work
<1>10. Kept(SaveChairs(Put(y, CallOf(y.db, y.t))))
  BY <1>8, <1>9, PutTyped, KeptPut, KeptSaveChairs
<1>. QED  BY <1>10 DEF PlayBomb, y, C

LEMMA KeptArm ==
  ASSUME NEW x \in Work, Kept(x)  PROVE Kept(Arm(x)) /\ Kept(Disarm(x))
<1>1. \A n : SameTable(x.t, [x.t EXCEPT !.trustee = n])  BY DEF SameTable, Held, Work, Table
<1>2. \A n : [x EXCEPT !.t.trustee = n] = [x EXCEPT !.t = [x.t EXCEPT !.trustee = n]]
  BY DEF Work, Table
<1>3. \A n : Kept([x EXCEPT !.t.trustee = n])  BY <1>1, <1>2, KeptTable
<1>4. Arm(x) = [x EXCEPT !.t.trustee = IF x.t.trustee = Off THEN TurnTime ELSE x.t.trustee]
  BY DEF Arm, Work
<1>. QED  BY <1>3, <1>4 DEF Disarm

LEMMA KeptPassed ==
  ASSUME NEW x \in Work, Kept(x)  PROVE Kept(Passed(x))
<1>. DEFINE y == [Disarm(x) EXCEPT !.t = CountPass(@)]
            z == [y EXCEPT !.t = [@ EXCEPT !.newRound = TRUE, !.passes = 0]]
            b == IF x.t.lastType = "BOMB" THEN PlayBomb(z, NextSeat(x.t.curr)) ELSE z
            c == [b EXCEPT !.t = [@ EXCEPT !.last = {}, !.lastType = "ERROR"]]
<1>1. Disarm(x) \in Work /\ Kept(Disarm(x)) /\ x.t.curr \in Seat
  BY ArmTyped, KeptArm DEF Work, Table
<1>2. \A u \in Table : CountPass(u) \in Table /\ SameTable(u, CountPass(u))
  <2>. TAKE u \in Table
  <2>1. \A n \in Nat : [u EXCEPT !.opened = TRUE, !.passes = n] \in Table  BY DEF Table
  <2>2. u.passes + 1 \in Nat  BY DEF Table
  <2>3. SameTable(u, CountPass(u))  BY DEF CountPass, SameTable, Held, Table
  <2>. QED  BY <2>1, <2>2, <2>3 DEF CountPass
<1>3. y \in Work /\ Kept(y)  BY <1>1, <1>2, OnTable, KeptTable
<1>. HIDE DEF y
<1>4. z \in Work /\ Kept(z)
  <2>1. \A u \in Table : /\ [u EXCEPT !.newRound = TRUE, !.passes = 0] \in Table
                         /\ SameTable(u, [u EXCEPT !.newRound = TRUE, !.passes = 0])
    BY DEF Table, SameTable, Held
  <2>. QED  BY <1>3, <2>1, OnTable, KeptTable
<1>. HIDE DEF z
<1>5. b \in Work /\ Kept(b)  BY <1>1, <1>4, SeatsAre, PlayBombTyped, KeptPlayBomb
<1>. HIDE DEF b
<1>6. Kept(c)
  <2>1. \A u \in Table : SameTable(u, [u EXCEPT !.last = {}, !.lastType = "ERROR"])
    BY DEF Table, SameTable, Held
  <2>. QED  BY <1>5, <2>1, OnTable, KeptTable
<1>. HIDE DEF c
<1>. QED  BY <1>3, <1>6 DEF Passed, y, z, b, c

LEMMA KeptCalled ==
  ASSUME NEW x \in Work, Kept(x), NEW s \in Seat  PROVE Kept(Called(x, s))
<1>1. SameTable(x.t, [x.t EXCEPT !.curr = s])  BY DEF SameTable, Held, Work, Table
<1>2. [x EXCEPT !.t.curr = s] = [x EXCEPT !.t = [x.t EXCEPT !.curr = s]]  BY DEF Work, Table
<1>3. [x EXCEPT !.t.curr = s] \in Work  BY DEF Work, Table
<1>4. Kept([x EXCEPT !.t.curr = s])  BY <1>1, <1>2, KeptTable
<1>. QED  BY <1>3, <1>4, KeptSaveCall DEF Called

LEMMA KeptPassOn ==
  ASSUME NEW x \in Work, Kept(x)  PROVE Kept(PassOn(x))
<1>1. Passed(x) \in Work /\ Kept(Passed(x))  BY PassedTyped, KeptPassed
<1>2. Passed(x).t.curr \in Seat  BY <1>1 DEF Work, Table
<1>3. \A y \in Work, s \in Seat : Kept(y) => Kept(Called(y, s))  BY KeptCalled
<1>. QED  BY <1>1, <1>2, <1>3, SeatsAre DEF PassOn

LEMMA KeptTurn ==
  ASSUME NEW x \in Work, Kept(x), NEW s \in Seat
  PROVE  Kept(Await(x)) /\ Kept(Turn(x, s)) /\ Kept(PassTurn(x))
<1>1. \A y \in Work : Kept(y) => Kept(Await(y))
  <2>. SUFFICES ASSUME NEW y \in Work, Kept(y)  PROVE Kept(Await(y))
    OBVIOUS
  <2>1. PassOn(y) \in Work /\ Kept(PassOn(y))  BY PassOnTyped, KeptPassOn
  <2>2. PassOn(PassOn(y)) \in Work /\ Kept(PassOn(PassOn(y)))  BY <2>1, PassOnTyped, KeptPassOn
  <2>. QED  BY <2>1, <2>2, KeptArm DEF Await
<1>2. \A y \in Work, r \in Seat : Kept(y) => Kept(Turn(y, r))
  BY <1>1, CalledTyped, KeptCalled DEF Turn
<1>3. Passed(x) \in Work /\ Kept(Passed(x))  BY PassedTyped, KeptPassed
<1>4. Passed(x).t.curr \in Seat  BY <1>3 DEF Work, Table
<1>. QED  BY <1>1, <1>2, <1>3, <1>4, SeatsAre DEF PassTurn

(* What has to hold before the status of a table is saved.                 *)
Unsaved(x) ==
  /\ \A d \in x.trail : RowFull(d)
  /\ \A s \in Seat : Held(x.t, s) => x.db.chair[s].there
  /\ x.t.status \in Up
  /\ IsBetting(x.t) => Full(x.t) /\ ~x.t.readyOn

LEMMA KeptSaveBanker ==
  ASSUME NEW x \in Work, Unsaved(x)  PROVE Kept(SaveBanker(x))
<1>. DEFINE d == [x.db EXCEPT !.begun = TRUE, !.status = x.t.status, !.banker = x.t.banker,
                              !.games = x.t.games]
<1>1. d.status = x.t.status /\ d.chair = x.db.chair  BY DEF Work, Database
<1>2. SaveBanker(x) = Put(x, d)  BY DEF SaveBanker
<1>. HIDE DEF d
<1>3. RowFull(d)  BY <1>1 DEF RowFull, Unsaved, Full, IsBetting
<1>4. Agree(x.t, d)  BY <1>1 DEF Agree, Unsaved, Idle
<1>. QED  BY <1>2, <1>3, <1>4, PutFields DEF Kept, Unsaved

LEMMA KeptSaveGame ==
  ASSUME NEW x \in Work, Unsaved(x)
  PROVE  /\ Kept(SaveGame(x)) /\ SaveGame(x).t = x.t
         /\ \A s \in Seat : SaveGame(x).db.chair[s].there
<1>1. SaveBanker(x) \in Work /\ Kept(SaveBanker(x))  BY SaveBankerTyped, KeptSaveBanker
<1>2. SaveBanker(x).t = x.t  BY PutFields DEF SaveBanker
<1>. QED  BY <1>1, <1>2, ChairsThere, KeptSaveChairs DEF SaveGame

LEMMA PaySame ==
  ASSUME NEW x \in Work, NEW prefixes
  PROVE  /\ Pay(x, prefixes).t = x.t /\ SameRow(x.db, Pay(x, prefixes).db)
         /\ \A d \in Pay(x, prefixes).trail : d \in x.trail \/ SameRow(x.db, d)
<1>. DEFINE F(P) == [s \in Seat |-> IF s \in P THEN x.db.paid[s] + 1 ELSE x.db.paid[s]]
            Paid(P) == [x.db EXCEPT !.paid = F(P)]
<1>1. \A f : SameRow(x.db, [x.db EXCEPT !.paid = f])  BY DEF SameRow, Work, Database
<1>2. \A P : SameRow(x.db, Paid(P))  BY <1>1
<1>3. Pay(x, prefixes) = [x EXCEPT !.db = Paid(Seat), !.trail = @ \cup {Paid(P) : P \in prefixes}]
  BY DEF Pay
<1>. HIDE DEF Paid
<1>4. /\ Pay(x, prefixes).t = x.t /\ Pay(x, prefixes).db = Paid(Seat)
      /\ Pay(x, prefixes).trail = x.trail \cup {Paid(P) : P \in prefixes}
  BY <1>3 DEF Work
<1>. QED  BY <1>2, <1>4

(* A game that ends was kept until its end.                                *)
LEMMA KeptSettle ==
  ASSUME NEW x \in Work, Kept(x), NEW winner \in Seat, NEW prefixes
  PROVE  Kept(Settle(x, winner, prefixes))
<1>. DEFINE w == [x EXCEPT !.t.status = "endgame"]
            a == Pay(w, prefixes)
            e == [a EXCEPT !.t.banker = IF RoomType = 1 THEN winner ELSE NoOne]
            b == SaveBanker(e)
            c == StartReadyTimer(b)
            r == [c EXCEPT !.t = ResetFlags(c.t)]
<1>1. w \in Work  BY DEF Work, Table, Statuses
<1>2. /\ w.t.status = "endgame" /\ w.db = x.db /\ w.trail = x.trail
      /\ \A s \in Seat : Held(w.t, s) <=> Held(x.t, s)
  BY DEF Work, Table, Held
<1>. HIDE DEF w
<1>3. a \in Work  BY <1>1, PayTyped
<1>4. /\ a.t = w.t /\ \A s \in Seat : x.db.chair[s].there => a.db.chair[s].there
      /\ \A d \in a.trail : RowFull(d)
  BY <1>1, <1>2, PaySame, SameRowFull DEF SameRow, Kept
<1>. HIDE DEF a
<1>5. e \in Work  BY <1>3 DEF Work, Table
<1>6. /\ e.t.status = "endgame" /\ e.db = a.db /\ e.trail = a.trail
      /\ \A s \in Seat : Held(e.t, s) <=> Held(w.t, s)
  BY <1>2, <1>3, <1>4 DEF Work, Table, Held
<1>. HIDE DEF e
<1>7. Unsaved(e)  BY <1>2, <1>4, <1>6 DEF Unsaved, Up, Kept, Agree, IsBetting
<1>8. b \in Work /\ Kept(b) /\ b.t = e.t
  BY <1>5, <1>7, SaveBankerTyped, KeptSaveBanker, PutFields DEF SaveBanker
<1>. HIDE DEF b
<1>9. /\ c \in Work /\ c.db = b.db /\ c.trail = b.trail /\ c.t.status = "endgame"
      /\ \A s \in Seat : Held(c.t, s) <=> Held(b.t, s)
  BY <1>6, <1>8, StartReadyTimerTyped DEF StartReadyTimer, Work, Table, Held
<1>. HIDE DEF c
<1>10. Kept(c)  BY <1>6, <1>8, <1>9 DEF Kept, Agree, IsBetting, Idle, Up
<1>11. SameTable(c.t, ResetFlags(c.t))
  <2>1. c.t \in Table  BY <1>9 DEF Work
  <2>. DEFINE C == [s \in Seat |-> IF Held(c.t, s) THEN Flagless(c.t.chair[s].who) ELSE c.t.chair[s]]
  <2>2. \A s \in Seat : C[s].who = c.t.chair[s].who  BY DEF Flagless
  <2>. HIDE DEF C
  <2>3. SameTable(c.t, [c.t EXCEPT !.chair = C])  BY <2>1, <2>2 DEF SameTable, Held, Table
  <2>. QED  BY <2>3 DEF ResetFlags, C
<1>12. Kept(r)  BY <1>9, <1>10, <1>11, KeptTable
<1>. QED  BY <1>12 DEF Settle, r, c, b, e, a, w

LEMMA KeptGameEnd ==
  ASSUME NEW x \in Work, Kept(x)
  PROVE  Kept(GameEnd(x)) /\ \A runner \in Seat : Kept(GameEndSpecial(x, runner))
<1>1. x.t.curr \in Seat  BY DEF Work, Table
<1>2. Disarm(x) \in Work /\ Kept(Disarm(x))  BY SMTT(60), ArmTyped, KeptArm
<1>. QED  BY <1>1, <1>2, KeptSettle, SeatsAre DEF GameEnd, GameEndSpecial

LEMMA KeptCallPlayCard ==
  ASSUME NEW x \in Work, Kept(x), NEW cards \in Hands, NEW type \in CardTypes
  PROVE  Kept(CallPlayCard(x, cards, type))
<1>. DEFINE s == x.t.curr
            left == x.t.chair[s].hand \ cards
            after == [x.t.chair[s] EXCEPT !.hand = left, !.single = @ \/ LastCard(left)]
            u == [x.t EXCEPT !.opened = TRUE, !.passes = 0, !.newRound = FALSE,
                             !.last = cards, !.lastType = type, !.chair[s] = after]
            y == [x EXCEPT !.t = u]
<1>1. s \in Seat /\ x.t \in Table  BY DEF Work, Table
<1>2. left \in Hands
  <2>1. x.t.chair[s].hand \in Hands  BY <1>1 DEF Work, Table, Chair
  <2>. QED  BY <2>1, HandsClosed
<1>3. u \in Table  BY <1>1, <1>2, PlayedTyped
<1>4. SameTable(x.t, u)
  <2>1. after.who = x.t.chair[s].who  BY <1>1 DEF Table, Chair
  <2>. HIDE DEF after
  <2>. QED  BY <1>1, <2>1 DEF SameTable, Held, Table
<1>. HIDE DEF u
<1>5. y \in Work /\ Kept(y)  BY <1>3, <1>4, OnTable, KeptTable
<1>. HIDE DEF y
<1>6. Kept(Turn(y, NextSeat(s)))  BY <1>1, <1>5, SeatsAre, KeptTurn
<1>7. Kept(GameEnd(IF type = "BOMB" THEN PlayBomb(y, s) ELSE y))
  BY <1>1, <1>5, PlayBombTyped, KeptPlayBomb, KeptGameEnd
<1>. QED  BY <1>6, <1>7 DEF CallPlayCard, y, u

LEMMA KeptAutoPlayCard ==
  ASSUME NEW x \in Work, Kept(x),
         x.t.newRound /\ ~OpensGame(x.t) => x.t.chair[x.t.curr].hand # {}
  PROVE  Kept(AutoPlayCard(x))
<1>. DEFINE hand == x.t.chair[x.t.curr].hand
            lead == AutoLead(hand)
            follow == AutoFollow(x.t.lastType, x.t.last, hand)
<1>1. /\ x.t.curr \in Seat /\ hand \in Hands
      /\ x.t.last \in Hands /\ x.t.lastType \in CardTypes
  BY DEF Work, Table, Chair
<1>2. Top(hand) \in Hands /\ "ONE" \in CardTypes  BY <1>1, HandsClosed DEF Top, CardTypes
<1>3. Kept(CallPlayCard(x, Top(hand), "ONE"))  BY <1>2, KeptCallPlayCard
<1>4. CASE x.t.newRound /\ OpensGame(x.t)
  <2>1. {OpeningCard} \in Hands  BY <1>4, HandsClosed DEF OpensGame
  <2>2. Kept(CallPlayCard(x, {OpeningCard}, "ONE"))  BY <2>1, <1>2, KeptCallPlayCard
  <2>. QED  BY <1>4, <2>2 DEF AutoPlayCard
<1>5. CASE x.t.newRound /\ ~OpensGame(x.t)
  <2>1. lead \in Hands  BY <1>1, <1>5, LibraryAssumption, HandsClosed
  <2>2. Kept(CallPlayCard(x, lead, Kind(lead)))  BY <2>1, TypesAre, KeptCallPlayCard
  <2>. QED  BY <1>3, <1>5, <2>2 DEF AutoPlayCard
<1>6. CASE ~x.t.newRound
  <2>1. follow \in Hands  BY <1>1, LibraryAssumption, HandsClosed
  <2>2. Kept(CallPlayCard(x, follow, Kind(follow)))  BY <2>1, TypesAre, KeptCallPlayCard
  <2>3. Kept(PassTurn(x))  BY SeatsAre, KeptTurn
  <2>. QED  BY <1>3, <1>6, <2>2, <2>3 DEF AutoPlayCard
<1>. QED  BY <1>4, <1>5, <1>6

(* Waiting for a seat leaves the status of the table.                      *)
LEMMA AwaitStatus ==
  ASSUME NEW x \in Work  PROVE Await(x).t.status = x.t.status
<1>1. \A y \in Work : Arm(y).t.status = y.t.status /\ Disarm(y).t.status = y.t.status
  BY DEF Arm, Disarm, Work, Table
<1>2. \A y \in Work, s \in Seat : PlayBomb(y, s).t.status = y.t.status
  <2>. TAKE y \in Work, s \in Seat
  <2>. DEFINE C == [n \in Seat |-> [y.t.chair[n] EXCEPT !.bomb = @ + BombScore(s, n)]]
              z == [y EXCEPT !.t.chair = C]
  <2>1. z = [y EXCEPT !.t = [y.t EXCEPT !.chair = C]]  BY DEF Work
  <2>2. \A n \in Seat : y.t.chair[n] \in Chair  BY DEF Work, Table
  <2>3. \A n \in Seat : BombScore(s, n) \in Int  BY SeatsAre DEF BombScore
  <2>4. C \in [Seat -> Chair]  BY <2>2, <2>3 DEF Chair
  <2>. HIDE DEF C
  <2>5. [y.t EXCEPT !.chair = C] \in Table /\ [y.t EXCEPT !.chair = C].status = y.t.status
    BY <2>4 DEF Work, Table
  <2>. HIDE DEF z
  <2>6. z \in Work /\ z.t.status = y.t.status  BY <2>1, <2>5, OnTable DEF Work
  <2>7. CallOf(z.db, z.t) \in Database  BY <2>6, CallOfTyped DEF Work
  <2>8. SaveChairs(Put(z, CallOf(z.db, z.t))).t = z.t
    BY <2>6, <2>7, PutTyped, PutFields, ChairsThere
  <2>. QED  BY <2>6, <2>8 DEF PlayBomb, z, C
<1>3. \A y \in Work : Passed(y).t.status = y.t.status
  <2>. TAKE y \in Work
  <2>. DEFINE p == [Disarm(y) EXCEPT !.t = CountPass(@)]
              z == [p EXCEPT !.t = [@ EXCEPT !.newRound = TRUE, !.passes = 0]]
              b == IF y.t.lastType = "BOMB" THEN PlayBomb(z, NextSeat(y.t.curr)) ELSE z
              c == [b EXCEPT !.t = [@ EXCEPT !.last = {}, !.lastType = "ERROR"]]
  <2>1. Disarm(y) \in Work /\ Disarm(y).t.status = y.t.status /\ y.t.curr \in Seat
    BY <1>1, ArmTyped DEF Work, Table
  <2>2. \A u \in Table : CountPass(u) \in Table /\ CountPass(u).status = u.status
    <3>. TAKE u \in Table
    <3>1. \A n \in Nat : [u EXCEPT !.opened = TRUE, !.passes = n] \in Table  BY DEF Table
    <3>2. u.passes + 1 \in Nat  BY DEF Table
    <3>3. CountPass(u).status = u.status  BY DEF CountPass, Table
    <3>. QED  BY <3>1, <3>2, <3>3 DEF CountPass
  <2>3. p \in Work /\ p.t.status = y.t.status  BY <2>1, <2>2 DEF Work
  <2>. HIDE DEF p
  <2>4. z \in Work /\ z.t.status = y.t.status
    <3>1. \A u \in Table : /\ [u EXCEPT !.newRound = TRUE, !.passes = 0] \in Table
                           /\ [u EXCEPT !.newRound = TRUE, !.passes = 0].status = u.status
      BY DEF Table
    <3>. QED  BY <2>3, <3>1 DEF Work
  <2>. HIDE DEF z
  <2>5. b \in Work /\ b.t.status = y.t.status  BY <1>2, <2>1, <2>4, SeatsAre, PlayBombTyped
  <2>. HIDE DEF b
  <2>6. c.t.status = y.t.status  BY <2>5 DEF Work, Table
  <2>. HIDE DEF c
  <2>. QED  BY <2>3, <2>6 DEF Passed, p, z, b, c
<1>4. \A y \in Work, s \in Seat : Called(y, s).t.status = y.t.status
  <2>. TAKE y \in Work, s \in Seat
  <2>1. \A z \in Work : SaveCall(z).t = z.t  BY PutFields DEF SaveCall
  <2>2. [y EXCEPT !.t.curr = s] \in Work /\ [y EXCEPT !.t.curr = s].t.status = y.t.status
    BY DEF Work, Table
  <2>. QED  BY <2>1, <2>2 DEF Called
<1>5. \A y \in Work : PassOn(y) \in Work /\ PassOn(y).t.status = y.t.status
  <2>. TAKE y \in Work
  <2>1. Passed(y) \in Work  BY PassedTyped
  <2>2. Passed(y).t.curr \in Seat  BY <2>1 DEF Work, Table
  <2>. QED  BY <1>3, <1>4, <2>1, <2>2, SeatsAre, PassOnTyped DEF PassOn
<1>. QED  BY <1>1, <1>5 DEF Await

(* A game starts with every seat held.                                     *)
LEMMA KeptGameStart ==
  ASSUME NEW x \in Work, Kept(x), Idle(x.t), Full(x.t),
         NEW deal \in Deals, NEW dealer \in Dealers(deal)
  PROVE  Kept(GameStart(x, deal, dealer))
<1>. DEFINE a == [x EXCEPT !.t = Dealt(x.t, deal, dealer), !.db.paid = [s \in Seat |-> 0]]
            e == [SaveGame(a) EXCEPT !.t = [@ EXCEPT !.status = "betting", !.newRound = TRUE]]
            b == SaveGame(e)
<1>1. dealer \in Seat
  <2>1. HolderOf(deal, OpeningCard, 0) \in Seat  BY SeatsAre, HolderTyped
  <2>. QED  BY <2>1 DEF Dealers
<1>2. Dealt(x.t, deal, dealer) \in Table  BY <1>1, DealtTyped DEF Work
<1>3. [x.db EXCEPT !.paid = [s \in Seat |-> 0]] \in Database  BY DEF Work, Database
<1>4. /\ a \in Work /\ a.t = Dealt(x.t, deal, dealer) /\ a.trail = x.trail
      /\ a.db.chair = x.db.chair
  BY <1>2, <1>3 DEF Work, Database
<1>5. /\ a.t.status = "start" /\ ~a.t.readyOn
      /\ \A s \in Seat : Held(a.t, s) <=> Held(x.t, s)
  <2>. DEFINE C == [s \in Seat |-> [Flagless(x.t.chair[s].who) EXCEPT !.hand = deal[s]]]
  <2>1. \A s \in Seat : C[s].who = x.t.chair[s].who  BY DEF Flagless
  <2>2. Dealt(x.t, deal, dealer).chair = C  BY DEF Dealt, Work, Table
  <2>3. Dealt(x.t, deal, dealer).status = "start" /\ ~Dealt(x.t, deal, dealer).readyOn
    BY DEF Dealt, Work, Table
  <2>. HIDE DEF C
  <2>. QED  BY <1>4, <2>1, <2>2, <2>3 DEF Held
<1>. HIDE DEF a
<1>6. Unsaved(a)  BY <1>4, <1>5 DEF Unsaved, Up, Kept, Agree, Full, IsBetting
<1>7. /\ SaveGame(a) \in Work /\ Kept(SaveGame(a)) /\ SaveGame(a).t = a.t
      /\ \A s \in Seat : SaveGame(a).db.chair[s].there
  BY <1>4, <1>6, SaveGameTyped, KeptSaveGame
<1>8. \A u \in Table : [u EXCEPT !.status = "betting", !.newRound = TRUE] \in Table
  BY DEF Table, Statuses
<1>9. /\ e \in Work /\ e.db = SaveGame(a).db /\ e.trail = SaveGame(a).trail
      /\ e.t.status = "betting" /\ e.t.readyOn = a.t.readyOn /\ e.t.chair = a.t.chair
  <2>1. a.t \in Table  BY <1>4 DEF Work
  <2>2. /\ [a.t EXCEPT !.status = "betting", !.newRound = TRUE].status = "betting"
        /\ [a.t EXCEPT !.status = "betting", !.newRound = TRUE].readyOn = a.t.readyOn
        /\ [a.t EXCEPT !.status = "betting", !.newRound = TRUE].chair = a.t.chair
    BY <2>1 DEF Table
  <2>3. e = [SaveGame(a) EXCEPT !.t = [a.t EXCEPT !.status = "betting", !.newRound = TRUE]]
    BY <1>7 DEF Work
  <2>. QED  BY <1>7, <1>8, <2>1, <2>2, <2>3 DEF Work
<1>. HIDE DEF e
<1>10. Unsaved(e)
  BY <1>5, <1>7, <1>9 DEF Unsaved, Up, Kept, Full, Held, IsBetting
<1>11. b \in Work /\ Kept(b) /\ b.t = e.t  BY <1>9, <1>10, SaveGameTyped, KeptSaveGame
<1>12. e.t.banker \in Seat
  <2>1. Dealt(x.t, deal, dealer).banker \in Seat  BY <1>1 DEF Dealt, Work, Table
  <2>2. e.t = [a.t EXCEPT !.status = "betting", !.newRound = TRUE]
    BY <1>4, <1>7 DEF e, Work
  <2>. QED  BY <1>4, <2>1, <2>2 DEF Work, Table
<1>. QED  BY <1>11, <1>12, KeptTurn DEF GameStart, a, e

(* LoadInfo finds a seat for everyone in a game that was being played.     *)
LEMMA KeptLoad ==
  ASSUME NEW x \in Work, RowFull(x.db), \A d \in x.trail : RowFull(d)
  PROVE  Kept(Load(x)) /\ Load(x).t.status \in Up
<1>. DEFINE d == x.db
            Sat(s) == IF d.chair[s].there
                THEN [who |-> "restored", ready |-> FALSE, single |-> d.chair[s].single,
                      hand |-> d.chair[s].hand, bomb |-> d.chair[s].bomb]
                ELSE Flagless("none")
            C == [s \in Seat |-> Sat(s)]
            r == [x EXCEPT !.t = Restored(d)]
<1>1. Restored(d) \in Table  BY RestoredTyped DEF Work
<1>2. /\ Restored(d).chair = C
      /\ Restored(d).status = IF d.status = "start" THEN "waiting" ELSE d.status
      /\ d.status = "betting" => ~Restored(d).readyOn
  <2>. HIDE DEF C
  <2>. QED  BY DEF Restored, Fresh, C
<1>3. \A s \in Seat : Held(Restored(d), s) <=> d.chair[s].there
  <2>1. \A s \in Seat : C[s].who = IF d.chair[s].there THEN "restored" ELSE "none"
    BY DEF Flagless
  <2>. HIDE DEF C
  <2>. QED  BY <1>2, <2>1 DEF Held
<1>. HIDE DEF C
<1>4. Agree(Restored(d), d) /\ Restored(d).status \in Up
  BY <1>2, <1>3 DEF Agree, RowFull, Full, Idle, IsBetting, Up
<1>5. r \in Work /\ r.t = Restored(d) /\ r.db = d /\ r.trail = x.trail
  BY <1>1 DEF Work
<1>6. Kept(r)  BY <1>4, <1>5 DEF Kept
<1>7. CASE ~RowThere(d)
  <2>1. [x EXCEPT !.t = Fresh].t = Fresh /\ [x EXCEPT !.t = Fresh].db = d
        /\ [x EXCEPT !.t = Fresh].trail = x.trail
    BY DEF Work
  <2>2. Fresh.status = "waiting" /\ \A s \in Seat : ~Held(Fresh, s)
    BY DEF Fresh, Held, Flagless
  <2>3. d.status # "betting"  BY <1>7, SeatsAre DEF RowThere, RowFull
  <2>4. Agree(Fresh, d)  BY <2>2, <2>3 DEF Agree, IsBetting, Up
  <2>5. Load(x) = [x EXCEPT !.t = Fresh]  BY <1>7 DEF Load
  <2>. QED  BY <2>1, <2>2, <2>4, <2>5 DEF Kept, Up
<1>8. CASE RowThere(d)
  <2>1. CASE r.t.status = "betting"
    <3>1. Load(x) = Await(r)  BY <1>8, <2>1 DEF Load
    <3>2. Kept(Await(r)) /\ Await(r) \in Work  BY <1>5, <1>6, KeptTurn, TurnTyped, SeatsAre
    <3>3. Await(r).t.status = r.t.status  BY <1>5, AwaitStatus
    <3>. QED  BY <1>4, <1>5, <3>1, <3>2, <3>3
  <2>2. CASE r.t.status # "betting"
    <3>1. Load(x) = r  BY <1>8, <2>2 DEF Load
    <3>. QED  BY <1>4, <1>5, <1>6, <3>1
  <2>. QED  BY <2>1, <2>2
<1>. QED  BY <1>7, <1>8

LEMMA KeptFound ==
  ASSUME NEW x \in Work, Kept(x)
  PROVE  Kept(Found(x)) /\ (x.t.status # "closed" => Found(x).t.status \in Up)
<1>1. RowFull(x.db) /\ \A d \in x.trail : RowFull(d)  BY DEF Kept
<1>2. x.t.status \in Statuses  BY DEF Work, Table
<1>. QED  BY <1>1, <1>2, KeptLoad DEF Found, Statuses, Up

(* Who leaves does so between two games.                                   *)
LEMMA KeptLeave ==
  ASSUME NEW x \in Work, Kept(x), Idle(x.t), NEW s \in Seat
  PROVE  Kept(LeaveTable(x, s)) /\ (RoomType = 0 => Idle(LeaveTable(x, s).t))
<1>. DEFINE r == [x EXCEPT !.t = [@ EXCEPT !.banker = NoOne, !.games = 0]]
            a == IF RoomType = 1 /\ x.t.banker # NoOne THEN SaveBanker(r) ELSE x
            u == [a.t EXCEPT !.chair[s] = Flagless("none")]
            e == [a EXCEPT !.t.chair[s] = Flagless("none")]
            b == DeleteChair(e, s)
            c == IF RoomType = 1 THEN [b EXCEPT !.t = [Gone EXCEPT !.status = "closed"]] ELSE b
            n == [NoRow EXCEPT !.paid = c.db.paid]
<1>1. /\ r \in Work /\ r.db = x.db /\ r.trail = x.trail /\ r.t.status = x.t.status
      /\ \A m \in Seat : Held(r.t, m) <=> Held(x.t, m)
  <2>1. \A v \in Table : [v EXCEPT !.banker = NoOne, !.games = 0] \in Table
    <3>1. 0 \in 0..Many  BY DEF Many
    <3>. QED  BY <3>1 DEF Table
  <2>2. \A v \in Table : /\ [v EXCEPT !.banker = NoOne, !.games = 0].status = v.status
                         /\ [v EXCEPT !.banker = NoOne, !.games = 0].chair = v.chair
    BY DEF Table
  <2>. QED  BY <2>1, <2>2 DEF Work, Held
<1>. HIDE DEF r
<1>2. Unsaved(r)  BY <1>1 DEF Unsaved, Up, Kept, Agree, Idle, IsBetting
<1>3. a \in Work /\ Kept(a) /\ a.t.status = x.t.status
  <2>1. SaveBanker(r) \in Work /\ Kept(SaveBanker(r))  BY <1>1, <1>2, SaveBankerTyped, KeptSaveBanker
  <2>2. SaveBanker(r).t = r.t  BY <1>1, PutFields DEF SaveBanker
  <2>. QED  BY <1>1, <2>1, <2>2
<1>. HIDE DEF a
<1>4. u \in Table /\ u.status = a.t.status
      /\ ~Held(u, s) /\ \A m \in Seat : Held(u, m) => m # s /\ Held(a.t, m)
  <2>1. a.t \in Table  BY <1>3 DEF Work
  <2>2. Flagless("none") \in Chair /\ Flagless("none").who = "none"  BY FreshTyped DEF Flagless
  <2>. QED  BY <2>1, <2>2 DEF Table, Held
<1>5. e = [a EXCEPT !.t = u]  BY <1>3 DEF Work
<1>. HIDE DEF u
<1>6. e \in Work /\ e.t = u /\ e.db = a.db /\ e.trail = a.trail
  BY <1>3, <1>4, <1>5 DEF Work
<1>. HIDE DEF e
<1>7. /\ b \in Work /\ b.t = u /\ b.db.status = a.db.status
      /\ \A m \in Seat : m # s => b.db.chair[m] = a.db.chair[m]
      /\ b.trail = a.trail \cup {b.db}
  <2>. DEFINE d == [e.db EXCEPT !.chair[s] = NoChair]
  <2>1. b = Put(e, d)  BY DEF DeleteChair
  <2>2. d.status = e.db.status /\ \A m \in Seat : m # s => d.chair[m] = e.db.chair[m]
    BY <1>6 DEF Work, Database
  <2>3. b \in Work  BY <1>6, DeleteTyped
  <2>. HIDE DEF b, d
  <2>4. b.t = e.t /\ b.db = d /\ b.trail = e.trail \cup {d}  BY <1>6, <2>1, PutFields
  <2>. QED  BY <1>6, <2>2, <2>3, <2>4
<1>. HIDE DEF b
<1>8. Kept(b)
  <2>1. b.db.status \in Up /\ b.db.status # "betting"  BY <1>3, <1>7 DEF Kept, Agree, RowFull, Idle
  <2>2. Agree(b.t, b.db)
    BY <1>3, <1>4, <1>7, <2>1 DEF Kept, Agree, Idle, IsBetting, Up
  <2>. QED  BY <1>3, <1>7, <2>1, <2>2 DEF Kept, RowFull
<1>9. /\ c \in Work /\ c.trail = b.trail
      /\ RoomType # 1 => c = b
      /\ RoomType = 1 => c.t = [Gone EXCEPT !.status = "closed"]
  BY <1>7, FreshTyped DEF Work
<1>. HIDE DEF c
<1>10. n \in Database /\ n.status = "waiting"
  <2>1. c.db.paid \in [Seat -> Nat]  BY <1>9 DEF Work, Database
  <2>2. NoRow \in Database  BY FreshTyped
  <2>. QED  BY <2>1, <2>2 DEF Database, NoRow
<1>11. DeleteRow(c) = Put(c, n)  BY DEF DeleteRow
<1>. HIDE DEF n
<1>12. Empty(b.t) => Agree(c.t, n)
  <2>1. CASE RoomType = 1
    <3>1. c.t.status = "closed" /\ \A m \in Seat : ~Held(c.t, m)
      <4>1. [Gone EXCEPT !.status = "closed"].status = "closed"
            /\ \A m \in Seat : [Gone EXCEPT !.status = "closed"].chair[m].who = "none"
        BY DEF Gone, Fresh, Flagless
      <4>. QED  BY <1>9, <2>1, <4>1 DEF Held
    <3>. QED  BY <3>1 DEF Agree, IsBetting, Idle, Empty
  <2>2. CASE RoomType # 1
    BY <1>3, <1>4, <1>7, <1>9, <1>10, <2>2 DEF Agree, Empty, Idle, IsBetting, Up
  <2>. QED  BY <2>1, <2>2
<1>13. Empty(b.t) => Kept(DeleteRow(c))
  BY <1>8, <1>9, <1>10, <1>11, <1>12, PutFields DEF Kept, RowFull, Up
<1>14. RoomType = 0 => Idle(b.t) /\ Idle(DeleteRow(c).t)
  BY <1>3, <1>4, <1>7, <1>9, <1>11, PutFields DEF Idle
<1>15. LeaveTable(x, s) = IF Empty(b.t) THEN DeleteRow(c) ELSE b
  BY DEF LeaveTable, a, b, c, e, r
<1>. QED  BY <1>8, <1>13, <1>14, <1>15

-----------------------------------------------------------------------------
(* The invariant, and the actions.                                         *)
GameInv == TypeOK /\ RowFull(db) /\ Agree(t, db)

LEMMA KeptNow ==
  ASSUME GameInv
  PROVE  /\ Now \in Work /\ Now.t = t /\ Now.db = db /\ Kept(Now)
         /\ Found(Now) \in Work /\ Kept(Found(Now))
         /\ t.status # "closed" => Found(Now).t.status \in Up
<1>1. Now \in Work /\ Now.t = t /\ Now.db = db /\ Now.trail = {}
  BY NowTyped DEF GameInv, Now, Doing
<1>2. Kept(Now)  BY <1>1 DEF Kept, GameInv
<1>. QED  BY <1>1, <1>2, FoundTyped, KeptFound

(* Without a table there is nothing to agree on.                           *)
LEMMA GoneAgrees == \A d : Agree(Gone, d)
BY DEF Agree, Gone, Fresh, Flagless, Held, IsBetting, Idle, Empty

LEMMA StepKept ==
  ASSUME NEW x \in Work, Kept(x), Step(x)  PROVE RowFull(db') /\ Agree(t', db')
<1>1. CASE Completes(x)  BY <1>1 DEF Completes, Kept
<1>2. CASE CutShort(x)  BY <1>2, GoneAgrees DEF CutShort, Kept
<1>. QED  BY <1>1, <1>2 DEF Step

LEMMA KeptAwaitReady ==
  ASSUME NEW x \in Work, Kept(x)  PROVE Kept(AwaitReady(x))
<1>1. CASE Idle(x.t)
  <2>1. /\ StartReadyTimer(x).db = x.db /\ StartReadyTimer(x).trail = x.trail
        /\ StartReadyTimer(x).t.status = x.t.status
        /\ \A s \in Seat : Held(StartReadyTimer(x).t, s) <=> Held(x.t, s)
    BY DEF StartReadyTimer, Work, Table, Held
  <2>. QED  BY <1>1, <2>1 DEF AwaitReady, Kept, Agree, Idle, IsBetting, Up
<1>. QED  BY <1>1 DEF AwaitReady

(* A player's chair changes hands with its seat held before and after.     *)
LEMMA KeptChair ==
  ASSUME NEW x \in Work, Kept(x), NEW s \in Seat, Held(x.t, s)
  PROVE  /\ \A w \in {"on", "off"} : Kept([x EXCEPT !.t.chair[s].who = w])
         /\ Kept([x EXCEPT !.t.chair[s].ready = TRUE])
<1>1. x.t \in Table /\ x.t.chair[s] \in Chair  BY DEF Work, Table
<1>2. ASSUME NEW c \in Chair, c.who # "none"  PROVE Kept([x EXCEPT !.t.chair[s] = c])
  <2>1. SameTable(x.t, [x.t EXCEPT !.chair[s] = c])
    BY <1>1, <1>2 DEF SameTable, Held, Table
  <2>2. [x EXCEPT !.t.chair[s] = c] = [x EXCEPT !.t = [x.t EXCEPT !.chair[s] = c]]
    BY <1>1 DEF Work
  <2>. QED  BY <2>1, <2>2, KeptTable
<1>3. \A w \in {"on", "off"} : [x.t.chair[s] EXCEPT !.who = w] \in Chair
                               /\ [x.t.chair[s] EXCEPT !.who = w].who = w
  BY <1>1 DEF Chair
<1>4. [x.t.chair[s] EXCEPT !.ready = TRUE] \in Chair
      /\ [x.t.chair[s] EXCEPT !.ready = TRUE].who # "none"
  BY <1>1 DEF Chair, Held
<1>5. \A w : [x EXCEPT !.t.chair[s].who = w] = [x EXCEPT !.t.chair[s] = [x.t.chair[s] EXCEPT !.who = w]]
  BY DEF Work, Table
<1>6. [x EXCEPT !.t.chair[s].ready = TRUE] = [x EXCEPT !.t.chair[s] = [x.t.chair[s] EXCEPT !.ready = TRUE]]
  BY DEF Work, Table
<1>7. ASSUME NEW w \in {"on", "off"}  PROVE Kept([x EXCEPT !.t.chair[s].who = w])
  <2>1. w # "none"  OBVIOUS
  <2>2. Kept([x EXCEPT !.t.chair[s] = [x.t.chair[s] EXCEPT !.who = w]])  BY <1>2, <1>3, <2>1
  <2>. QED  BY <1>5, <2>2, Zenon
<1>8. Kept([x EXCEPT !.t.chair[s] = [x.t.chair[s] EXCEPT !.ready = TRUE]])  BY <1>2, <1>4
<1>9. Kept([x EXCEPT !.t.chair[s].ready = TRUE])  BY <1>6, <1>8, Zenon
<1>. QED  BY <1>7, <1>9

LEMMA KeptKickOut ==
  ASSUME NEW x \in Work, Kept(x), RoomType = 0, ~IsBetting(x.t), NEW s, NEW late \in SUBSET Seat
  PROVE  Kept(KickOut(x, s, late)) /\ ~IsBetting(KickOut(x, s, late).t)
<1>1. CASE s \in late /\ x.t.chair[s].who \in {"on", "off"}
  <2>1. s \in Seat /\ Held(x.t, s)  BY <1>1 DEF Held
  <2>2. Idle(x.t)  BY <2>1 DEF Kept, Agree, Empty, Up, IsBetting, Idle
  <2>3. Kept(LeaveTable(x, s)) /\ Idle(LeaveTable(x, s).t)  BY <2>1, <2>2, KeptLeave
  <2>. QED  BY <1>1, <2>3 DEF KickOut, Idle, IsBetting
<1>2. CASE ~(s \in late /\ x.t.chair[s].who \in {"on", "off"})  BY <1>2 DEF KickOut
<1>. QED  BY <1>1, <1>2

LEMMA GameStep == GameInv /\ Next => RowFull(db') /\ Agree(t', db')
<1>. SUFFICES ASSUME GameInv, Next  PROVE RowFull(db') /\ Agree(t', db')
  OBVIOUS
<1>1. /\ Now \in Work /\ Now.t = t /\ Now.db = db /\ Kept(Now)
      /\ Found(Now) \in Work /\ Kept(Found(Now))
      /\ t.status # "closed" => Found(Now).t.status \in Up
  BY KeptNow
<1>2. CASE SitNew
  <2>. DEFINE x == Found(Now)
              n == CHOOSE n \in Seat : ~Held(x.t, n) /\ \A m \in Seat : ~Held(x.t, m) => n <= m
              f == Flagless("on")
              u == [x.t EXCEPT !.chair[n] = f]
              y == [x EXCEPT !.t.chair[n] = f]
              z == SaveChair(y, n)
  <2>1. t.status # "closed" /\ ~Full(x.t) /\ Step(AwaitReady(z))
    BY <1>2 DEF SitNew
  <2>2. n \in Seat  BY <2>1, FirstFree
  <2>3. Idle(x.t)  BY <1>1, <2>1 DEF Kept, Agree, Up, IsBetting, Idle
  <2>. HIDE DEF n
  <2>4. f \in Chair  BY FreshTyped
  <2>. HIDE DEF f
  <2>5. y \in Work  BY <1>1, <2>2, <2>4, ChairTyped
  <2>6. u.status = x.t.status /\ \A m \in Seat : Held(u, m) => m = n \/ Held(x.t, m)
    BY <1>1, <2>2 DEF Held, Work, Table
  <2>7. y.t = u /\ y.db = x.db /\ y.trail = x.trail  BY <1>1 DEF Work
  <2>. HIDE DEF u, y
  <2>. DEFINE d == [y.db EXCEPT !.chair[n] = Serialized(y.t.chair[n])]
  <2>8. /\ SameRow(y.db, d) /\ d.chair[n].there
    <3>1. \A c : Serialized(c).there  BY DEF Serialized
    <3>2. /\ d.status = y.db.status /\ d.chair[n] = Serialized(y.t.chair[n])
          /\ \A m \in Seat : m # n => d.chair[m] = y.db.chair[m]
      BY <2>2, <2>5 DEF Work, Database
    <3>. HIDE DEF d
    <3>. QED  BY <3>1, <3>2 DEF SameRow
  <2>9. z = Put(y, d)  BY DEF SaveChair
  <2>. HIDE DEF d
  <2>10. z.t = u /\ z.db = d /\ z.trail = y.trail \cup {d}  BY <2>5, <2>7, <2>9, PutFields
  <2>11. RowFull(d) /\ d.status # "betting"
    BY <1>1, <2>3, <2>7, <2>8, SameRowFull DEF Kept, Agree, SameRow
  <2>12. Agree(u, d)
    BY <1>1, <2>3, <2>6, <2>7, <2>8, <2>11 DEF Kept, Agree, SameRow, Idle, IsBetting, Up
  <2>13. Kept(z)  BY <1>1, <2>7, <2>10, <2>11, <2>12 DEF Kept
  <2>14. z \in Work  BY <2>2, <2>5, SaveChairTyped
  <2>15. AwaitReady(z) \in Work /\ Kept(AwaitReady(z))
    BY <2>13, <2>14, AwaitReadyTyped, KeptAwaitReady
  <2>. QED  BY <2>1, <2>15, StepKept
<1>3. CASE Look  BY <1>1, <1>3, StepKept DEF Look
<1>4. ASSUME NEW s \in Seat, Return(s)  PROVE RowFull(db') /\ Agree(t', db')
  <2>. DEFINE y == [Found(Now) EXCEPT !.t.chair[s].who = "on"]
  <2>1. Held(Found(Now).t, s)  BY <1>4 DEF Return, IsOffline, Held
  <2>2. y \in Work /\ Kept(y)  BY <1>1, <2>1, ChairTyped, KeptChair
  <2>3. AwaitReady(y) \in Work /\ Kept(AwaitReady(y))
    BY <2>2, AwaitReadyTyped, KeptAwaitReady
  <2>. QED  BY <1>4, <2>3, StepKept DEF Return
<1>5. ASSUME NEW s \in Seat, Disconnect(s)  PROVE RowFull(db') /\ Agree(t', db')
  <2>1. Held(Now.t, s)  BY <1>1, <1>5 DEF Disconnect, Connected, Held
  <2>. QED  BY <1>1, <1>5, <2>1, ChairTyped, KeptChair, StepKept DEF Disconnect
<1>6. ASSUME NEW s \in Seat, Quit(s)  PROVE RowFull(db') /\ Agree(t', db')
  <2>1. Held(Now.t, s)  BY <1>1, <1>6 DEF Quit, Connected, Held
  <2>2. CASE IsBetting(t)
    BY <1>1, <1>6, <2>1, <2>2, ChairTyped, KeptChair, StepKept DEF Quit
  <2>3. CASE ~IsBetting(t)
    <3>1. Idle(Now.t)  BY <1>1, <2>1, <2>3 DEF Kept, Agree, Empty, Up, IsBetting, Idle
    <3>2. LeaveTable(Now, s) \in Work /\ Kept(LeaveTable(Now, s))
      BY <1>1, <3>1, LeaveTableTyped, KeptLeave
    <3>. QED  BY <1>6, <2>3, <3>2, StepKept DEF Quit
  <2>. QED  BY <2>2, <2>3
<1>7. ASSUME NEW s \in Seat, Ready(s)  PROVE RowFull(db') /\ Agree(t', db')
  <2>. DEFINE x == [Now EXCEPT !.t.chair[s].ready = TRUE]
  <2>1. Held(Now.t, s) /\ ~IsBetting(t)  BY <1>1, <1>7 DEF Ready, Connected, Held
  <2>2. x \in Work /\ Kept(x)  BY <1>1, <2>1, ChairTyped, KeptChair
  <2>3. x.t.status = t.status /\ (Held(Now.t, s) => Held(x.t, s))
    BY <1>1 DEF Work, Table, Chair, Held
  <2>. HIDE DEF x
  <2>4. Idle(x.t)
    BY <2>1, <2>2, <2>3 DEF Kept, Agree, Empty, Up, IsBetting, Idle
  <2>5. CASE \A n \in Seat : Held(x.t, n) /\ x.t.chair[n].ready
    <3>1. Full(x.t)  BY <2>5 DEF Full
    <3>2. \E deal \in Deals : \E dealer \in Dealers(deal) : Step(GameStart(x, deal, dealer))
      BY <1>7, <2>5 DEF Ready, x
    <3>3. PICK deal \in Deals : \E dealer \in Dealers(deal) : Step(GameStart(x, deal, dealer))
      BY <3>2
    <3>4. PICK dealer \in Dealers(deal) : Step(GameStart(x, deal, dealer))  BY <3>3
    <3>5. GameStart(x, deal, dealer) \in Work /\ Kept(GameStart(x, deal, dealer))
      BY <2>2, <2>4, <3>1, GameStartTyped, KeptGameStart
    <3>. QED  BY <3>4, <3>5, StepKept
  <2>6. CASE ~\A n \in Seat : Held(x.t, n) /\ x.t.chair[n].ready
    <3>1. Step(x)  BY <1>7, <2>6 DEF Ready, x
    <3>. QED  BY <2>2, <3>1, StepKept
  <2>. QED  BY <2>5, <2>6
<1>8. ASSUME NEW s \in Seat, Pass(s)  PROVE RowFull(db') /\ Agree(t', db')
  <2>1. ~t.newRound  BY <1>8 DEF Pass
  <2>2. AutoPlayCard(Now) \in Work /\ Kept(AutoPlayCard(Now))
    BY <1>1, <2>1, AutoPlayCardTyped, KeptAutoPlayCard
  <2>3. PassTurn(Now) \in Work /\ Kept(PassTurn(Now))
    BY <1>1, SeatsAre, PassTurnTyped, KeptTurn
  <2>. QED  BY <1>8, <2>2, <2>3, StepKept DEF Pass
<1>9. ASSUME NEW s \in Seat, Run(s)  PROVE RowFull(db') /\ Agree(t', db')
  BY <1>1, <1>9, GameEndTyped, KeptGameEnd, StepKept DEF Run
<1>10. ASSUME NEW s \in Seat, NEW cards \in SUBSET t.chair[t.curr].hand, Play(s, cards)
       PROVE  RowFull(db') /\ Agree(t', db')
  <2>. DEFINE y == CallPlayCard(Disarm(Now), cards, PlayedType(cards, t.chair[s].hand))
  <2>1. t.chair[t.curr].hand \in Hands  BY DEF GameInv, TypeOK, Table, Chair
  <2>2. cards \in Hands  BY <2>1, HandsClosed
  <2>3. Disarm(Now) \in Work /\ Kept(Disarm(Now))  BY <1>1, ArmTyped, KeptArm
  <2>4. y \in Work /\ Kept(y)  BY <2>2, <2>3, TypesAre, CallPlayCardTyped, KeptCallPlayCard
  <2>. QED  BY <1>10, <2>4, StepKept DEF Play
<1>11. CASE OnTimer_trustee
  <2>1. Disarm(Now) \in Work /\ Kept(Disarm(Now))  BY <1>1, ArmTyped, KeptArm
  <2>2. CASE Step(Disarm(Now))  BY <2>1, <2>2, StepKept
  <2>3. CASE t' = Gone /\ UNCHANGED <<db, crashes>>  BY <2>3, GoneAgrees DEF GameInv
  <2>4. CASE ~RobotDies /\ Step(AutoPlayCard(Disarm(Now)))
    <3>1. /\ Disarm(Now).t.newRound = t.newRound /\ Disarm(Now).t.chair = t.chair
          /\ Disarm(Now).t.curr = t.curr /\ Disarm(Now).t.opened = t.opened
      BY <1>1 DEF Disarm, Work, Table
    <3>2. AutoPlayCard(Disarm(Now)) \in Work /\ Kept(AutoPlayCard(Disarm(Now)))
      BY <2>1, <2>4, <3>1, AutoPlayCardTyped, KeptAutoPlayCard DEF RobotDies, OpensGame
    <3>. QED  BY <2>4, <3>2, StepKept
  <2>. QED  BY <1>11, <2>2, <2>3, <2>4 DEF OnTimer_trustee
<1>12. CASE OnTimer_ready
  <2>1. CASE StopReadyTimer
    <3>. DEFINE y == [Now EXCEPT !.t.readyOn = FALSE]
    <3>1. /\ y \in Work /\ y.t.status = t.status /\ ~y.t.readyOn /\ y.db = db /\ y.trail = Now.trail
          /\ \A s \in Seat : Held(y.t, s) <=> Held(t, s)
      BY <1>1 DEF Work, Table, Held
    <3>. HIDE DEF y
    <3>2. Kept(y)  BY <1>1, <3>1 DEF Kept, Agree, Full, Empty, IsBetting, Idle
    <3>. QED  BY <2>1, <3>1, <3>2, StepKept DEF StopReadyTimer, y
  <2>2. ASSUME NEW late \in SUBSET Seat, ThrowOut(late)  PROVE RowFull(db') /\ Agree(t', db')
    <3>. DEFINE a == KickOut(Now, 0, late)
                b == KickOut(a, 1, late)
                c == KickOut(b, 2, late)
    <3>1. t.readyOn /\ RoomType = 0 /\ Step(c)  BY <2>2 DEF ThrowOut
    <3>2. ~IsBetting(t)  BY <3>1 DEF GameInv, Agree
    <3>3. a \in Work /\ Kept(a) /\ ~IsBetting(a.t)  BY <1>1, <3>1, <3>2, KickOutTyped, KeptKickOut
    <3>. HIDE DEF a
    <3>4. b \in Work /\ Kept(b) /\ ~IsBetting(b.t)  BY <3>1, <3>3, KickOutTyped, KeptKickOut
    <3>. HIDE DEF b
    <3>5. c \in Work /\ Kept(c)  BY <3>1, <3>4, KickOutTyped, KeptKickOut
    <3>. QED  BY <3>1, <3>5, StepKept
  <2>. QED  BY <1>12, <2>1, <2>2 DEF OnTimer_ready
<1>13. CASE Tick
  <2>1. t.trustee - 1 \in 0..TurnTime
    BY <1>13, RulesAssumption DEF Tick, GameInv, TypeOK, Table, Off
  <2>. DEFINE u == [t EXCEPT !.trustee = t.trustee - 1]
  <2>2. [Now EXCEPT !.t.trustee = @ - 1] = [Now EXCEPT !.t = u]  BY <1>1 DEF Work, Table
  <2>3. u \in Table /\ SameTable(t, u)  BY <2>1 DEF GameInv, TypeOK, Table, SameTable, Held
  <2>. HIDE DEF u
  <2>4. [Now EXCEPT !.t = u] \in Work /\ Kept([Now EXCEPT !.t = u])
    BY <1>1, <2>3, OnTable, KeptTable
  <2>. QED  BY <1>13, <2>2, <2>4, StepKept DEF Tick
<1>14. CASE Crash  BY <1>14, GoneAgrees DEF Crash, GameInv
<1>. QED  BY <1>2, <1>3, <1>4, <1>5, <1>6, <1>7, <1>8, <1>9, <1>10, <1>11, <1>12, <1>13, <1>14
          DEF Next

(* A game keeps all its players and nobody is thrown out of it, at every   *)
(* table and through any number of crashes in the middle of any handler.   *)
THEOREM GamesAreFull == Spec => []GameIsFull
<1>1. Init => GameInv
  <2>1. Init => RowFull(db)  BY DEF Init, NoRow, RowFull, Up
  <2>. QED  BY <2>1, FreshTyped, GoneAgrees DEF Init, GameInv, TypeOK
<1>2. GameInv /\ [Next]_vars => GameInv'
  <2>1. GameInv /\ Next => GameInv'  BY TypedStep, GameStep DEF GameInv
  <2>2. GameInv /\ UNCHANGED vars => GameInv'
    BY DEF GameInv, TypeOK, vars, RowFull, Agree, Full, Empty, Held, IsBetting, Idle
  <2>. QED  BY <2>1, <2>2
<1>3. GameInv => GameIsFull  BY DEF GameInv, Agree, GameIsFull
<1>. QED  BY <1>1, <1>2, <1>3, PTL DEF Spec

-----------------------------------------------------------------------------
(***************************************************************************)
(* GameTable implements Seats, for every deck, deal, rule and number of    *)
(* crashes: what a handler does, finished or cut short, is one step of     *)
(* Seats or none.                                                          *)
(***************************************************************************)
(* The invariant.  A seat that is ready is one whose player has been here, *)
(* and a table in memory has no chair in its row that it does not know of. *)

Back(u) == \A s \in Seat : u.chair[s].ready => u.chair[s].who \in {"on", "off"}

Exact(u, d) == u.status \in Up => \A s \in Seat : d.chair[s].there => Held(u, s)

SeatInv == GameInv /\ Back(t) /\ Exact(t, db)

-----------------------------------------------------------------------------
(* What the handlers of a game do to the seats: they leave every chair to  *)
(* its player, make none of them ready, and take none out of the row,      *)
(* through all their writes.                                               *)

Rows(d, e) == \A s \in Seat : d.chair[s].there => e.chair[s].there

Sits(u, v) ==
  \A s \in Seat : v.chair[s].who = u.chair[s].who /\ (v.chair[s].ready => u.chair[s].ready)

Goes(x, y) ==
  /\ Sits(x.t, y.t) /\ Rows(x.db, y.db)
  /\ \A d \in y.trail : d \in x.trail \/ Rows(x.db, d)

LEMMA GoesOn ==
  ASSUME NEW x, NEW y, NEW z, Goes(x, y), Goes(y, z)  PROVE Goes(x, z)
BY DEF Goes, Sits, Rows

LEMMA GoesTable ==
  ASSUME NEW x \in Work, NEW u, Sits(x.t, u)  PROVE Goes(x, [x EXCEPT !.t = u])
BY DEF Goes, Rows, Work

LEMMA GoesPut ==
  ASSUME NEW x \in Work, NEW d, Rows(x.db, d)  PROVE Goes(x, Put(x, d))
BY PutFields DEF Goes, Sits

LEMMA GoesSaveChairs ==
  ASSUME NEW x \in Work  PROVE Goes(x, SaveChairs(x))
BY ChairsThere DEF Goes, Sits, Rows, SameRow

LEMMA GoesSaveBanker ==
  ASSUME NEW x \in Work  PROVE Goes(x, SaveBanker(x))
<1>1. Rows(x.db, [x.db EXCEPT !.begun = TRUE, !.status = x.t.status, !.banker = x.t.banker,
                              !.games = x.t.games])
  BY DEF Rows, Work, Database
<1>. QED  BY <1>1, GoesPut DEF SaveBanker

LEMMA GoesSaveGame ==
  ASSUME NEW x \in Work  PROVE Goes(x, SaveGame(x))
<1>1. SaveBanker(x) \in Work /\ Goes(x, SaveBanker(x))  BY SaveBankerTyped, GoesSaveBanker
<1>2. Goes(SaveBanker(x), SaveChairs(SaveBanker(x)))  BY <1>1, GoesSaveChairs
<1>. QED  BY <1>1, <1>2, GoesOn DEF SaveGame

LEMMA GoesSaveCall ==
  ASSUME NEW x \in Work  PROVE Goes(x, SaveCall(x))
<1>. DEFINE p == PrevSeat(x.t.curr)
            e == CallOf(x.db, x.t)
            d == [e EXCEPT !.chair[p] = Serialized(x.t.chair[p])]
<1>1. e \in Database /\ SameRow(x.db, e)  BY CallOfTyped, CallOfSame DEF Work
<1>. HIDE DEF e
<1>2. \A s \in Seat : d.chair[s] \in {e.chair[s], Serialized(x.t.chair[p])}
  BY <1>1 DEF Database
<1>3. \A c : Serialized(c).there  BY DEF Serialized
<1>. HIDE DEF d
<1>4. Rows(x.db, d)  BY <1>1, <1>2, <1>3 DEF Rows, SameRow
<1>. QED  BY <1>4, GoesPut DEF SaveCall, d, e

LEMMA GoesPay ==
  ASSUME NEW x \in Work, NEW prefixes  PROVE Goes(x, Pay(x, prefixes))
BY PaySame DEF Goes, Sits, Rows, SameRow

LEMMA GoesArm ==
  ASSUME NEW x \in Work  PROVE Goes(x, Arm(x)) /\ Goes(x, Disarm(x))
<1>1. \A n : Sits(x.t, [x.t EXCEPT !.trustee = n])  BY DEF Sits, Work, Table
<1>2. \A n : [x EXCEPT !.t.trustee = n] = [x EXCEPT !.t = [x.t EXCEPT !.trustee = n]]
  BY DEF Work, Table
<1>3. \A n : Goes(x, [x EXCEPT !.t.trustee = n])  BY <1>1, <1>2, GoesTable
<1>4. Arm(x) = [x EXCEPT !.t.trustee = IF x.t.trustee = Off THEN TurnTime ELSE x.t.trustee]
  BY DEF Arm, Work
<1>. QED  BY <1>3, <1>4 DEF Disarm

LEMMA GoesPlayBomb ==
  ASSUME NEW x \in Work, NEW bomber \in Seat  PROVE Goes(x, PlayBomb(x, bomber))
<1>. DEFINE C == [s \in Seat |-> [x.t.chair[s] EXCEPT !.bomb = @ + BombScore(bomber, s)]]
            u == [x.t EXCEPT !.chair = C]
            y == [x EXCEPT !.t.chair = C]
            z == Put(y, CallOf(y.db, y.t))
<1>1. x.t \in Table /\ \A s \in Seat : x.t.chair[s] \in Chair  BY DEF Work, Table
<1>2. \A s \in Seat : BombScore(bomber, s) \in Int  BY SeatsAre DEF BombScore
<1>3. C \in [Seat -> Chair]  BY <1>1, <1>2 DEF Chair
<1>4. \A s \in Seat : C[s].who = x.t.chair[s].who /\ C[s].ready = x.t.chair[s].ready
  BY <1>1 DEF Chair
<1>. HIDE DEF C
<1>5. u \in Table  BY <1>1, <1>3 DEF Table
<1>6. Sits(x.t, u)  BY <1>1, <1>4 DEF Sits, Table
<1>7. y = [x EXCEPT !.t = u]  BY DEF Work
<1>. HIDE DEF y, u
<1>8. y \in Work /\ Goes(x, y)  BY <1>5, <1>6, <1>7, OnTable, GoesTable
<1>9. CallOf(y.db, y.t) \in Database /\ Rows(y.db, CallOf(y.db, y.t))
  BY <1>8, CallOfTyped, CallOfSame DEF Work, Rows, SameRow
<1>10. z \in Work /\ Goes(y, z)  BY <1>8, <1>9, PutTyped, GoesPut
<1>. HIDE DEF z
<1>11. Goes(z, SaveChairs(z))  BY <1>10, GoesSaveChairs
<1>12. Goes(x, SaveChairs(z))  BY <1>8, <1>10, <1>11, GoesOn
<1>. QED  BY <1>12 DEF PlayBomb, y, z, C

LEMMA GoesPassed ==
  ASSUME NEW x \in Work  PROVE Goes(x, Passed(x))
<1>. DEFINE y == [Disarm(x) EXCEPT !.t = CountPass(@)]
            z == [y EXCEPT !.t = [@ EXCEPT !.newRound = TRUE, !.passes = 0]]
            b == IF x.t.lastType = "BOMB" THEN PlayBomb(z, NextSeat(x.t.curr)) ELSE z
            c == [b EXCEPT !.t = [@ EXCEPT !.last = {}, !.lastType = "ERROR"]]
<1>1. Disarm(x) \in Work /\ Goes(x, Disarm(x)) /\ x.t.curr \in Seat
  BY ArmTyped, GoesArm DEF Work, Table
<1>2. \A u \in Table : CountPass(u) \in Table /\ Sits(u, CountPass(u))
  <2>. TAKE u \in Table
  <2>1. \A n \in Nat : [u EXCEPT !.opened = TRUE, !.passes = n] \in Table  BY DEF Table
  <2>2. u.passes + 1 \in Nat  BY DEF Table
  <2>3. Sits(u, CountPass(u))  BY DEF CountPass, Sits, Table
  <2>. QED  BY <2>1, <2>2, <2>3 DEF CountPass
<1>3. y \in Work /\ Goes(x, y)
  <2>1. y \in Work /\ Goes(Disarm(x), y)  BY <1>1, <1>2, OnTable, GoesTable
  <2>. QED  BY <1>1, <2>1, GoesOn
<1>. HIDE DEF y
<1>4. z \in Work /\ Goes(x, z)
  <2>1. \A u \in Table : /\ [u EXCEPT !.newRound = TRUE, !.passes = 0] \in Table
                         /\ Sits(u, [u EXCEPT !.newRound = TRUE, !.passes = 0])
    BY DEF Table, Sits
  <2>2. z \in Work /\ Goes(y, z)  BY <1>3, <2>1, OnTable, GoesTable
  <2>. QED  BY <1>3, <2>2, GoesOn
<1>. HIDE DEF z
<1>5. b \in Work /\ Goes(x, b)
  <2>1. /\ PlayBomb(z, NextSeat(x.t.curr)) \in Work
        /\ Goes(z, PlayBomb(z, NextSeat(x.t.curr)))
    BY <1>1, <1>4, SeatsAre, PlayBombTyped, GoesPlayBomb
  <2>. QED  BY <1>4, <2>1, GoesOn
<1>. HIDE DEF b
<1>6. Goes(x, c)
  <2>1. \A u \in Table : Sits(u, [u EXCEPT !.last = {}, !.lastType = "ERROR"])
    BY DEF Table, Sits
  <2>2. Goes(b, c)  BY <1>5, <2>1, OnTable, GoesTable
  <2>. QED  BY <1>5, <2>2, GoesOn
<1>. HIDE DEF c
<1>. QED  BY <1>3, <1>6 DEF Passed, y, z, b, c

LEMMA GoesCalled ==
  ASSUME NEW x \in Work, NEW s \in Seat  PROVE Goes(x, Called(x, s))
<1>. DEFINE y == [x EXCEPT !.t.curr = s]
<1>1. Sits(x.t, [x.t EXCEPT !.curr = s])  BY DEF Sits, Work, Table
<1>2. y = [x EXCEPT !.t = [x.t EXCEPT !.curr = s]]  BY DEF Work, Table
<1>3. y \in Work  BY DEF Work, Table
<1>4. Goes(x, y)  BY <1>1, <1>2, GoesTable
<1>. HIDE DEF y
<1>5. Goes(y, SaveCall(y))  BY <1>3, GoesSaveCall
<1>6. Goes(x, SaveCall(y))  BY <1>4, <1>5, GoesOn
<1>. QED  BY <1>6 DEF Called, y

LEMMA GoesPassOn ==
  ASSUME NEW x \in Work  PROVE Goes(x, PassOn(x))
<1>. DEFINE y == Passed(x)
<1>1. y \in Work /\ Goes(x, y)  BY PassedTyped, GoesPassed
<1>2. NextSeat(y.t.curr) \in Seat  BY <1>1, SeatsAre DEF Work, Table
<1>. HIDE DEF y
<1>3. Goes(y, Called(y, NextSeat(y.t.curr)))  BY <1>1, <1>2, GoesCalled
<1>4. Goes(x, Called(y, NextSeat(y.t.curr)))  BY <1>1, <1>3, GoesOn
<1>. QED  BY <1>4 DEF PassOn, y

LEMMA GoesTurn ==
  ASSUME NEW x \in Work, NEW s \in Seat
  PROVE  Goes(x, Await(x)) /\ Goes(x, Turn(x, s)) /\ Goes(x, PassTurn(x))
<1>1. \A y \in Work : Goes(y, Await(y))
  <2>. TAKE y \in Work
  <2>1. PassOn(y) \in Work /\ Goes(y, PassOn(y))  BY PassOnTyped, GoesPassOn
  <2>2. PassOn(PassOn(y)) \in Work /\ Goes(PassOn(y), PassOn(PassOn(y)))
    BY <2>1, PassOnTyped, GoesPassOn
  <2>3. /\ Goes(y, Arm(y)) /\ Goes(PassOn(y), Arm(PassOn(y)))
        /\ Goes(PassOn(PassOn(y)), Arm(PassOn(PassOn(y))))
    BY <2>1, <2>2, GoesArm
  <2>4. Goes(y, Arm(PassOn(y)))  BY <2>1, <2>3, GoesOn
  <2>5. Goes(y, PassOn(PassOn(y)))  BY <2>1, <2>2, GoesOn
  <2>6. Goes(y, Arm(PassOn(PassOn(y))))  BY <2>3, <2>5, GoesOn
  <2>. QED  BY <2>3, <2>4, <2>6 DEF Await
<1>2. \A y \in Work, r \in Seat : Goes(y, Turn(y, r))
  <2>. TAKE y \in Work, r \in Seat
  <2>1. Called(y, r) \in Work /\ Goes(y, Called(y, r))  BY CalledTyped, GoesCalled
  <2>2. Goes(Called(y, r), Await(Called(y, r)))  BY <1>1, <2>1
  <2>. QED  BY <2>1, <2>2, GoesOn DEF Turn
<1>3. Goes(x, PassTurn(x))
  <2>. DEFINE y == Passed(x)
  <2>1. y \in Work /\ Goes(x, y)  BY PassedTyped, GoesPassed
  <2>2. NextSeat(y.t.curr) \in Seat  BY <2>1, SeatsAre DEF Work, Table
  <2>. HIDE DEF y
  <2>3. Goes(y, Turn(y, NextSeat(y.t.curr)))  BY <1>2, <2>1, <2>2
  <2>4. Goes(x, Turn(y, NextSeat(y.t.curr)))  BY <2>1, <2>3, GoesOn
  <2>. QED  BY <2>4 DEF PassTurn, y
<1>. QED  BY <1>1, <1>2, <1>3

LEMMA GoesSettle ==
  ASSUME NEW x \in Work, NEW winner \in Seat, NEW prefixes
  PROVE  Goes(x, Settle(x, winner, prefixes))
<1>. DEFINE w == [x EXCEPT !.t.status = "endgame"]
            a == Pay(w, prefixes)
            e == [a EXCEPT !.t.banker = IF RoomType = 1 THEN winner ELSE NoOne]
            b == SaveBanker(e)
            c == StartReadyTimer(b)
            r == [c EXCEPT !.t = ResetFlags(c.t)]
<1>1. w \in Work /\ Goes(x, w)
  <2>1. w \in Work  BY DEF Work, Table, Statuses
  <2>2. w = [x EXCEPT !.t = [x.t EXCEPT !.status = "endgame"]]  BY DEF Work
  <2>3. Sits(x.t, [x.t EXCEPT !.status = "endgame"])  BY DEF Sits, Work, Table
  <2>. QED  BY <2>1, <2>2, <2>3, GoesTable
<1>. HIDE DEF w
<1>2. a \in Work /\ Goes(x, a)  BY <1>1, PayTyped, GoesPay, GoesOn
<1>. HIDE DEF a
<1>3. e \in Work /\ Goes(x, e)
  <2>1. e \in Work  BY <1>2 DEF Work, Table
  <2>2. \A n : /\ [a EXCEPT !.t.banker = n] = [a EXCEPT !.t = [a.t EXCEPT !.banker = n]]
               /\ Sits(a.t, [a.t EXCEPT !.banker = n])
    BY <1>2 DEF Sits, Work, Table
  <2>3. Goes(a, e)  BY <1>2, <2>2, GoesTable
  <2>. QED  BY <1>2, <2>1, <2>3, GoesOn
<1>. HIDE DEF e
<1>4. b \in Work /\ Goes(x, b)  BY <1>3, SaveBankerTyped, GoesSaveBanker, GoesOn
<1>. HIDE DEF b
<1>5. c \in Work /\ Goes(x, c)
  <2>1. c \in Work  BY <1>4, StartReadyTimerTyped
  <2>2. Goes(b, c)  BY <1>4 DEF StartReadyTimer, Goes, Sits, Rows, Work, Table
  <2>. QED  BY <1>4, <2>1, <2>2, GoesOn
<1>. HIDE DEF c
<1>6. Goes(x, r)
  <2>1. c.t \in Table  BY <1>5 DEF Work
  <2>. DEFINE C == [s \in Seat |-> IF Held(c.t, s) THEN Flagless(c.t.chair[s].who) ELSE c.t.chair[s]]
  <2>2. \A s \in Seat : C[s].who = c.t.chair[s].who /\ (C[s].ready => c.t.chair[s].ready)
    BY DEF Flagless
  <2>. HIDE DEF C
  <2>3. Sits(c.t, [c.t EXCEPT !.chair = C])  BY <2>1, <2>2 DEF Sits, Table
  <2>4. Sits(c.t, ResetFlags(c.t))  BY <2>3 DEF ResetFlags, C
  <2>5. Goes(c, r)  BY <1>5, <2>4, GoesTable
  <2>. QED  BY <1>5, <2>5, GoesOn
<1>. QED  BY <1>6 DEF Settle, r, c, b, e, a, w

LEMMA GoesGameEnd ==
  ASSUME NEW x \in Work
  PROVE  Goes(x, GameEnd(x)) /\ \A runner \in Seat : Goes(x, GameEndSpecial(x, runner))
<1>1. x.t.curr \in Seat  BY DEF Work, Table
<1>2. Disarm(x) \in Work /\ Goes(x, Disarm(x))  BY ArmTyped, GoesArm
<1>3. \A y \in Work, winner \in Seat : \A prefixes :
        Goes(x, y) => Goes(x, Settle(y, winner, prefixes))
  BY GoesSettle, GoesOn
<1>4. Goes(x, x)  BY DEF Goes, Sits, Rows
<1>. QED  BY <1>1, <1>2, <1>3, <1>4, SeatsAre DEF GameEnd, GameEndSpecial

LEMMA GoesCallPlayCard ==
  ASSUME NEW x \in Work, NEW cards \in Hands, NEW type \in CardTypes
  PROVE  Goes(x, CallPlayCard(x, cards, type))
<1>. DEFINE s == x.t.curr
            left == x.t.chair[s].hand \ cards
            after == [x.t.chair[s] EXCEPT !.hand = left, !.single = @ \/ LastCard(left)]
            u == [x.t EXCEPT !.opened = TRUE, !.passes = 0, !.newRound = FALSE,
                             !.last = cards, !.lastType = type, !.chair[s] = after]
            y == [x EXCEPT !.t = u]
            z == IF type = "BOMB" THEN PlayBomb(y, s) ELSE y
<1>1. s \in Seat /\ x.t \in Table  BY DEF Work, Table
<1>2. left \in Hands
  <2>1. x.t.chair[s].hand \in Hands  BY <1>1 DEF Work, Table, Chair
  <2>. QED  BY <2>1, HandsClosed
<1>3. u \in Table  BY <1>1, <1>2, PlayedTyped
<1>4. Sits(x.t, u)
  <2>1. after.who = x.t.chair[s].who /\ after.ready = x.t.chair[s].ready
    BY <1>1 DEF Table, Chair
  <2>. HIDE DEF after
  <2>. QED  BY <1>1, <2>1 DEF Sits, Table
<1>. HIDE DEF u
<1>5. y \in Work /\ Goes(x, y)  BY <1>3, <1>4, OnTable, GoesTable
<1>. HIDE DEF y
<1>6. Goes(x, Turn(y, NextSeat(s)))
  <2>1. Goes(y, Turn(y, NextSeat(s)))  BY <1>1, <1>5, SeatsAre, GoesTurn
  <2>. QED  BY <1>5, <2>1, GoesOn
<1>7. z \in Work /\ Goes(x, z)
  <2>1. PlayBomb(y, s) \in Work /\ Goes(y, PlayBomb(y, s))
    BY <1>1, <1>5, PlayBombTyped, GoesPlayBomb
  <2>. QED  BY <1>5, <2>1, GoesOn
<1>. HIDE DEF z
<1>8. Goes(x, GameEnd(z))
  <2>1. Goes(z, GameEnd(z))  BY <1>7, GoesGameEnd
  <2>. QED  BY <1>7, <2>1, GoesOn
<1>. QED  BY <1>6, <1>8 DEF CallPlayCard, z, y, u

LEMMA GoesAutoPlayCard ==
  ASSUME NEW x \in Work,
         x.t.newRound /\ ~OpensGame(x.t) => x.t.chair[x.t.curr].hand # {}
  PROVE  Goes(x, AutoPlayCard(x))
<1>. DEFINE hand == x.t.chair[x.t.curr].hand
            lead == AutoLead(hand)
            follow == AutoFollow(x.t.lastType, x.t.last, hand)
<1>1. /\ x.t.curr \in Seat /\ hand \in Hands
      /\ x.t.last \in Hands /\ x.t.lastType \in CardTypes
  BY DEF Work, Table, Chair
<1>2. Top(hand) \in Hands /\ "ONE" \in CardTypes  BY <1>1, HandsClosed DEF Top, CardTypes
<1>3. Goes(x, CallPlayCard(x, Top(hand), "ONE"))  BY <1>2, GoesCallPlayCard
<1>4. CASE x.t.newRound /\ OpensGame(x.t)
  <2>1. {OpeningCard} \in Hands  BY <1>4, HandsClosed DEF OpensGame
  <2>2. Goes(x, CallPlayCard(x, {OpeningCard}, "ONE"))  BY <2>1, <1>2, GoesCallPlayCard
  <2>. QED  BY <1>4, <2>2 DEF AutoPlayCard
<1>5. CASE x.t.newRound /\ ~OpensGame(x.t)
  <2>1. lead \in Hands  BY <1>1, <1>5, LibraryAssumption, HandsClosed
  <2>2. Goes(x, CallPlayCard(x, lead, Kind(lead)))  BY <2>1, TypesAre, GoesCallPlayCard
  <2>. QED  BY <1>3, <1>5, <2>2 DEF AutoPlayCard
<1>6. CASE ~x.t.newRound
  <2>1. follow \in Hands  BY <1>1, LibraryAssumption, HandsClosed
  <2>2. Goes(x, CallPlayCard(x, follow, Kind(follow)))  BY <2>1, TypesAre, GoesCallPlayCard
  <2>3. Goes(x, PassTurn(x))  BY SeatsAre, GoesTurn
  <2>. QED  BY <1>3, <1>6, <2>2, <2>3 DEF AutoPlayCard
<1>. QED  BY <1>4, <1>5, <1>6

LEMMA GoesGameStart ==
  ASSUME NEW x \in Work, NEW deal \in Deals, NEW dealer \in Dealers(deal)
  PROVE  Goes(x, GameStart(x, deal, dealer))
<1>. DEFINE a == [x EXCEPT !.t = Dealt(x.t, deal, dealer), !.db.paid = [s \in Seat |-> 0]]
            e == [SaveGame(a) EXCEPT !.t = [@ EXCEPT !.status = "betting", !.newRound = TRUE]]
            b == SaveGame(e)
<1>1. dealer \in Seat
  <2>1. HolderOf(deal, OpeningCard, 0) \in Seat  BY SeatsAre, HolderTyped
  <2>. QED  BY <2>1 DEF Dealers
<1>2. Dealt(x.t, deal, dealer) \in Table  BY <1>1, DealtTyped DEF Work
<1>3. [x.db EXCEPT !.paid = [s \in Seat |-> 0]] \in Database  BY DEF Work, Database
<1>4. /\ a \in Work /\ a.t = Dealt(x.t, deal, dealer) /\ a.trail = x.trail
      /\ a.db.chair = x.db.chair
  BY <1>2, <1>3 DEF Work, Database
<1>5. Sits(x.t, a.t)
  <2>. DEFINE C == [s \in Seat |-> [Flagless(x.t.chair[s].who) EXCEPT !.hand = deal[s]]]
  <2>1. \A s \in Seat : C[s].who = x.t.chair[s].who /\ ~C[s].ready  BY DEF Flagless
  <2>2. Dealt(x.t, deal, dealer).chair = C  BY DEF Dealt, Work, Table
  <2>. HIDE DEF C
  <2>. QED  BY <1>4, <2>1, <2>2 DEF Sits
<1>6. a.t.banker \in Seat
  BY ZenonT(60), <1>1, <1>4 DEF Dealt, Work, Table
<1>. HIDE DEF a
<1>7. Goes(x, a)  BY <1>4, <1>5 DEF Goes, Rows
<1>8. SaveGame(a) \in Work /\ Goes(x, SaveGame(a)) /\ SaveGame(a).t = a.t
  <2>1. SaveBanker(a) \in Work /\ SaveBanker(a).t = a.t
    BY <1>4, SaveBankerTyped, PutFields DEF SaveBanker
  <2>2. SaveGame(a).t = a.t  BY <2>1, ChairsThere DEF SaveGame
  <2>3. SaveGame(a) \in Work /\ Goes(a, SaveGame(a))  BY <1>4, SaveGameTyped, GoesSaveGame
  <2>. QED  BY <1>7, <2>2, <2>3, GoesOn
<1>9. e \in Work /\ Goes(x, e) /\ e.t.banker \in Seat
  <2>. DEFINE v == [a.t EXCEPT !.status = "betting", !.newRound = TRUE]
  <2>1. a.t \in Table  BY <1>4 DEF Work
  <2>2. v \in Table /\ Sits(a.t, v) /\ v.banker = a.t.banker
    BY <2>1 DEF Table, Statuses, Sits
  <2>3. e = [SaveGame(a) EXCEPT !.t = v]  BY <1>8 DEF Work
  <2>. HIDE DEF v, e
  <2>4. e \in Work /\ e.t = v /\ Goes(SaveGame(a), e)
    BY <1>8, <2>2, <2>3, OnTable, GoesTable DEF Work
  <2>. QED  BY <1>6, <1>8, <2>2, <2>4, GoesOn
<1>. HIDE DEF e
<1>10. b \in Work /\ Goes(x, b) /\ b.t.banker \in Seat
  <2>1. SaveBanker(e) \in Work /\ SaveBanker(e).t = e.t
    BY <1>9, SaveBankerTyped, PutFields DEF SaveBanker
  <2>2. b.t = e.t  BY <2>1, ChairsThere DEF SaveGame
  <2>3. b \in Work /\ Goes(e, b)  BY <1>9, SaveGameTyped, GoesSaveGame
  <2>. QED  BY <1>9, <2>2, <2>3, GoesOn
<1>. HIDE DEF b
<1>11. Goes(b, Turn(b, b.t.banker))  BY <1>10, GoesTurn
<1>12. Goes(x, Turn(b, b.t.banker))  BY <1>10, <1>11, GoesOn
<1>. QED  BY <1>12 DEF GameStart, a, e, b

-----------------------------------------------------------------------------
(* The table a handler begins with: the one in memory, or the one LoadInfo *)
(* has just put back.  Its seats and its game are what the players see.    *)

Begun(x) ==
  /\ x \in Work /\ x.t.status \in Up
  /\ \A s \in Seat : Taking(x.t.chair[s].who) = SeatAs(s)
  /\ IsBetting(x.t) <=> GameOn
  /\ Back(x.t)
  /\ \A s \in Seat : x.db.chair[s].there <=> Held(x.t, s)
  /\ IF IsBetting(x.t) THEN Full(x.t) /\ \A d \in x.trail, s \in Seat : d.chair[s].there
     ELSE x.trail = {} /\ x.db.status # "betting"

LEMMA NowBegun ==
  ASSUME SeatInv, t.status \in Up  PROVE Begun(Now)
<1>1. Now \in Work /\ Now.t = t /\ Now.db = db  BY KeptNow DEF SeatInv
<1>2. Now.trail = {}  BY DEF Now, Doing
<1>3. GameOn = IsBetting(t) /\ \A s \in Seat : SeatAs(s) = Taking(t.chair[s].who)
  BY DEF GameOn, SeatAs, Up
<1>4. ~IsBetting(t) => db.status # "betting"
  BY DEF SeatInv, GameInv, Agree, Idle, IsBetting, Up
<1>. QED
  BY <1>1, <1>2, <1>3, <1>4 DEF Begun, SeatInv, GameInv, Agree, Exact

(* A chair by its players' view.                                           *)
LEMMA TakingIs ==
  /\ \A u, s : u \in Table /\ s \in Seat =>
       /\ Held(u, s) <=> Taking(u.chair[s].who) # "free"
       /\ u.chair[s].who \in {"on", "off"} <=> Taking(u.chair[s].who) \in {"here", "absent"}
       /\ IsOffline(u, s) <=> Taking(u.chair[s].who) \in {"absent", "restored"}
  /\ Taking("none") = "free" /\ Taking("on") = "here" /\ Taking("off") = "absent"
  /\ Taking("restored") = "restored"
<1>1. /\ Taking("none") = "free" /\ Taking("on") = "here" /\ Taking("off") = "absent"
      /\ Taking("restored") = "restored"
  BY DEF Taking
<1>2. \A u, s : u \in Table /\ s \in Seat => u.chair[s].who \in {"none", "on", "off", "restored"}
  BY DEF Table, Chair
<1>. QED  BY <1>1, <1>2 DEF Held, IsOffline

(* LoadInfo puts back what the row says, which is what the players see.    *)
LEMMA FoundBegun ==
  ASSUME SeatInv, t.status # "closed"  PROVE Begun(Found(Now))
<1>1. Now \in Work /\ Now.t = t /\ Now.db = db /\ Now.trail = {} /\ RowFull(db)
  BY KeptNow DEF SeatInv, GameInv, Now, Doing
<1>2. CASE t.status # "down"
  <2>1. t.status \in Up  BY <1>2 DEF SeatInv, GameInv, TypeOK, Table, Statuses, Up
  <2>. QED  BY <1>1, <1>2, <2>1, NowBegun DEF Found
<1>3. CASE t.status = "down"
  <2>. DEFINE Sat(s) == IF db.chair[s].there
                THEN [who |-> "restored", ready |-> FALSE, single |-> db.chair[s].single,
                      hand |-> db.chair[s].hand, bomb |-> db.chair[s].bomb]
                ELSE Flagless("none")
              C == [s \in Seat |-> Sat(s)]
              r == [Now EXCEPT !.t = Restored(db)]
  <2>1. Found(Now) = Load(Now)  BY <1>1, <1>3 DEF Found
  <2>2. /\ \A s \in Seat : SeatAs(s) = IF db.chair[s].there THEN "restored" ELSE "free"
        /\ GameOn <=> db.status = "betting"
    BY <1>3 DEF SeatAs, GameOn
  <2>3. CASE ~RowThere(db)
    <3>1. Load(Now) = [Now EXCEPT !.t = Fresh]  BY <1>1, <2>3 DEF Load
    <3>2. Load(Now) \in Work /\ Load(Now).t = Fresh /\ Load(Now).db = db /\ Load(Now).trail = {}
      BY <1>1, <3>1, FreshTyped DEF Work
    <3>3. \A s \in Seat : Fresh.chair[s].who = "none" /\ ~Fresh.chair[s].ready
      BY DEF Fresh, Flagless
    <3>4. Fresh.status = "waiting"  BY DEF Fresh
    <3>5. db.status # "betting" /\ \A s \in Seat : ~db.chair[s].there
      BY <1>1, <2>3, SeatsAre DEF RowThere, RowFull
    <3>. HIDE DEF C, r
    <3>. QED
      BY <2>1, <2>2, <3>2, <3>3, <3>4, <3>5, TakingIs DEF Begun, Up, IsBetting, Back, Held
  <2>4. CASE RowThere(db)
    <3>1. Restored(db) \in Table  BY <1>1, RestoredTyped DEF Work
    <3>2. /\ Restored(db).chair = C
          /\ Restored(db).status = IF db.status = "start" THEN "waiting" ELSE db.status
      <4>. HIDE DEF C
      <4>. QED  BY DEF Restored, Fresh, C
    <3>3. \A s \in Seat : /\ C[s].who = IF db.chair[s].there THEN "restored" ELSE "none"
                          /\ ~C[s].ready
      BY DEF Flagless
    <3>. HIDE DEF C
    <3>4. r \in Work /\ r.t = Restored(db) /\ r.db = db /\ r.trail = {}
      BY <1>1, <3>1 DEF Work
    <3>. HIDE DEF r
    <3>5. /\ \A s \in Seat : Taking(r.t.chair[s].who) = SeatAs(s) /\ ~r.t.chair[s].ready
          /\ \A s \in Seat : Held(r.t, s) <=> db.chair[s].there
      BY <2>2, <3>2, <3>3, <3>4, TakingIs DEF Held
    <3>6. CASE db.status = "betting"
      <4>1. r.t.status = "betting"  BY <3>2, <3>4, <3>6
      <4>2. Load(Now) = Await(r)  BY <1>1, <2>4, <4>1 DEF Load, r
      <4>3. /\ Await(r) \in Work /\ Await(r).t.status = "betting" /\ Goes(r, Await(r))
        BY <3>4, <4>1, SeatsAre, TurnTyped, AwaitStatus, GoesTurn
      <4>4. \A s \in Seat : db.chair[s].there  BY <1>1, <3>6 DEF RowFull
      <4>5. /\ \A s \in Seat : Await(r).t.chair[s].who = r.t.chair[s].who
            /\ \A s \in Seat : ~Await(r).t.chair[s].ready
            /\ \A s \in Seat : Await(r).db.chair[s].there
            /\ \A d \in Await(r).trail, s \in Seat : d.chair[s].there
        BY <3>4, <3>5, <4>3, <4>4 DEF Goes, Sits, Rows
      <4>6. \A s \in Seat : Held(Await(r).t, s)  BY <3>5, <4>4, <4>5 DEF Held
      <4>. QED
        BY <2>1, <2>2, <3>5, <3>6, <4>2, <4>3, <4>5, <4>6 DEF Begun, Up, IsBetting, Back, Full
    <3>7. CASE db.status # "betting"
      <4>1. Load(Now) = r
        BY <1>1, <2>4, <3>2, <3>4, <3>7 DEF Load, r
      <4>2. r.t.status \in Up /\ ~IsBetting(r.t)
        BY <1>1, <3>2, <3>4, <3>7 DEF RowFull, Up, IsBetting
      <4>. QED
        BY <2>1, <2>2, <3>4, <3>5, <3>7, <4>1, <4>2 DEF Begun, Back
    <3>. QED  BY <3>6, <3>7
  <2>. QED  BY <2>3, <2>4
<1>. QED  BY <1>2, <1>3

-----------------------------------------------------------------------------
(* Steps of Seats.                                                         *)

HeldSeats == {s \in Seat : SeatAs(s) # "free"}
Been(s) == SeatAs(s) \in {"here", "absent"}

(* A handler that is done: the table is in memory.                         *)
LEMMA SeatsAfter ==
  ASSUME t'.status # "down"
  PROVE  (\A s \in Seat : SeatAs(s)' = Taking(t'.chair[s].who)) /\ GameOn' = IsBetting(t')
BY DEF SeatAs, GameOn, IsBetting, Taking

(* A process that is gone: the seats and the game are those of the row.    *)
LEMMA Restarts ==
  ASSUME t' = Gone, NEW kept \in SUBSET Seat,
         \A s \in Seat : db'.chair[s].there <=> s \in kept,
         GameOn => kept = HeldSeats,
         \/ kept \subseteq HeldSeats
         \/ db'.status # "betting" /\ \E p \in Seat : p \notin HeldSeats /\ kept = HeldSeats \cup {p},
         \A s \in HeldSeats \ kept : Been(s),
         ~GameOn /\ db'.status = "betting" => kept = Seat /\ \A s \in Seat : Been(s)
  PROVE  Seats!Restart
<1>1. t'.status = "down"  BY DEF Gone
<1>2. GameOn' = (db'.status = "betting")  BY <1>1 DEF GameOn
<1>3. \A s \in Seat : SeatAs(s)' = IF s \in kept THEN "restored" ELSE "free"
  BY <1>1 DEF SeatAs
<1>4. [s \in Seat |-> SeatAs(s)]' = [s \in Seat |-> IF s \in kept THEN "restored" ELSE "free"]
  BY <1>3
<1>5. Seats!Taken([s \in Seat |-> SeatAs(s)]) = HeldSeats  BY DEF Seats!Taken, HeldSeats
<1>6. Seats!Which({"here", "absent"}) = {s \in Seat : Been(s)}  BY DEF Seats!Which, Been
<1>7. 0 \in Seat  BY SeatsAre
<1>8. (\A s \in Seat : Been(s)) => Seats!Complete /\ HeldSeats = Seat
  BY <1>6, <1>7 DEF Seats!Complete, Been, HeldSeats
<1>. DEFINE come == kept \ HeldSeats
            gone == HeldSeats \ kept
<1>9. gone \subseteq {s \in Seat : Been(s)}  BY DEF HeldSeats
<1>10. come = {} \/ (gone = {} /\ \E p \in Seat : come = {p} /\ ~GameOn')
  BY <1>2
<1>11. GameOn => come = {} /\ gone = {}  OBVIOUS
<1>12. ~GameOn /\ GameOn' => Seats!Complete /\ gone = {}  BY <1>2, <1>8
<1>13. GameOn' \in BOOLEAN  BY <1>2
<1>. QED
  BY <1>4, <1>5, <1>6, <1>9, <1>10, <1>11, <1>12, <1>13 DEF Seats!Restart

(* What every step has to do.                                              *)
Implements ==
  /\ Back(t') /\ Exact(t', db')
  /\ Seats!Next \/ UNCHANGED Seats!seats

LEMMA GoneFits == \A d : Back(Gone) /\ Exact(Gone, d)
BY DEF Back, Exact, Gone, Fresh, Flagless, Up

LEMMA GameOnOrNot == GameOn \in BOOLEAN /\ GameOn' \in BOOLEAN
<1>1. GameOn \in BOOLEAN
  <2>1. CASE t.status = "down"
    <3>1. GameOn = (db.status = "betting")  BY <2>1 DEF GameOn
    <3>2. (db.status = "betting") \in BOOLEAN  OBVIOUS
    <3>. QED  BY <3>1, <3>2, Zenon
  <2>2. CASE t.status # "down"
    <3>1. GameOn = IsBetting(t)  BY <2>2 DEF GameOn
    <3>2. IsBetting(t) \in BOOLEAN  BY DEF IsBetting
    <3>. QED  BY <3>1, <3>2, Zenon
  <2>. QED  BY <2>1, <2>2, Zenon
<1>2. GameOn' \in BOOLEAN
  <2>1. CASE t'.status = "down"
    <3>1. GameOn' = (db'.status = "betting")  BY <2>1 DEF GameOn
    <3>2. (db'.status = "betting") \in BOOLEAN  OBVIOUS
    <3>. QED  BY <3>1, <3>2, Zenon
  <2>2. CASE t'.status # "down"
    <3>1. GameOn' = IsBetting(t')  BY <2>2 DEF GameOn, IsBetting
    <3>2. IsBetting(t') \in BOOLEAN  BY DEF IsBetting
    <3>. QED  BY <3>1, <3>2, Zenon
  <2>. QED  BY <2>1, <2>2, Zenon
<1>. QED  BY <1>1, <1>2

LEMMA SameView ==
  ASSUME \A s \in Seat : SeatAs(s)' = SeatAs(s)
  PROVE  [s \in Seat |-> SeatAs(s)]' = [s \in Seat |-> SeatAs(s)]
OBVIOUS

(* A crash in a game, or where one starts, leaves every chair in the row.  *)
LEMMA CrashInGame ==
  ASSUME t' = Gone, \A s \in Seat : db'.chair[s].there, HeldSeats = Seat,
         GameOn \/ \A s \in Seat : Been(s)
  PROVE  Seats!Restart
<1>1. /\ \A s \in Seat : db'.chair[s].there <=> s \in Seat
      /\ Seat \subseteq HeldSeats /\ \A s \in HeldSeats \ Seat : Been(s)
  OBVIOUS
<1>. QED  BY <1>1, Restarts

(* The handlers of a game go on with it, or end it.                        *)
LEMMA GameKeeps ==
  ASSUME NEW x, Begun(x), Full(x.t), NEW y \in Work, Goes(x, y), Kept(y), Step(y),
         GameOn \/ \A s \in Seat : Been(s),
         x.trail # {} => IsBetting(x.t)
  PROVE  Implements
<1>1. /\ x.t \in Table /\ HeldSeats = Seat
      /\ \A s \in Seat : x.db.chair[s].there /\ \A d \in y.trail : d.chair[s].there
  <2>1. x.t \in Table /\ \A s \in Seat : x.db.chair[s].there
    BY DEF Begun, Work, Full
  <2>2. HeldSeats = Seat  BY <2>1, TakingIs DEF Begun, Full, HeldSeats
  <2>3. \A d \in x.trail, s \in Seat : d.chair[s].there  BY DEF Begun
  <2>. QED  BY <2>1, <2>2, <2>3 DEF Goes, Rows
<1>2. CASE Completes(y)
  <2>1. /\ t' = y.t /\ Full(t') /\ Back(t')
        /\ \A s \in Seat : Taking(t'.chair[s].who) = SeatAs(s)
    BY <1>2 DEF Completes, Goes, Sits, Begun, Back, Full, Held
  <2>2. t'.status \in Up
    BY <1>2, <2>1, SeatsAre DEF Completes, Kept, Agree, Empty, Full
  <2>3. Exact(t', db')  BY <2>1 DEF Exact, Full
  <2>4. t'.status # "down"  BY <2>2 DEF Up
  <2>5. (\A s \in Seat : SeatAs(s)' = SeatAs(s)) /\ GameOn' = IsBetting(t')
    BY <2>1, <2>4, SeatsAfter
  <2>6. [s \in Seat |-> SeatAs(s)]' = [s \in Seat |-> SeatAs(s)]  BY <2>5, SameView
  <2>7. GameOn \in BOOLEAN /\ GameOn' \in BOOLEAN  BY GameOnOrNot
  <2>8. (\A s \in Seat : Been(s)) => Seats!Complete
    BY SeatsAre DEF Been, Seats!Complete, Seats!Which
  <2>9. Seats!Start \/ Seats!End \/ UNCHANGED Seats!seats
    BY <2>6, <2>7, <2>8 DEF Seats!Start, Seats!End, Seats!seats
  <2>. QED  BY <2>1, <2>3, <2>9 DEF Implements, Seats!Next
<1>3. CASE CutShort(y)
  <2>1. t' = Gone /\ \A s \in Seat : db'.chair[s].there  BY <1>1, <1>3 DEF CutShort
  <2>2. Seats!Restart  BY <1>1, <2>1, CrashInGame
  <2>. QED  BY <2>1, <2>2, GoneFits DEF Implements, Seats!Next
<1>. QED  BY <1>2, <1>3 DEF Step

(* Handlers that write nothing of their own: who comes back to his chair,  *)
(* who loses his connection, or nobody.                                    *)
Alone(x, y) ==
  /\ y \in Work /\ y.t.status = x.t.status /\ y.db = x.db /\ y.trail = x.trail
  /\ Back(y.t)

LEMMA ChairKeeps ==
  ASSUME NEW x, Begun(x), NEW y, Alone(x, y), Step(y),
         \A s \in HeldSeats : Taking(y.t.chair[s].who) # "free"
  PROVE  /\ Back(t') /\ Exact(t', db')
         /\ \/ Seats!Restart
            \/ UNCHANGED GameOn /\ \A s \in Seat : SeatAs(s)' = Taking(y.t.chair[s].who)
<1>1. x.t \in Table /\ y.t \in Table  BY DEF Begun, Work, Alone
<1>2. CASE Completes(y)
  <2>1. /\ t' = y.t /\ db' = x.db /\ t'.status \in Up /\ t'.status # "down"
        /\ IsBetting(t') = IsBetting(x.t)
    BY <1>2 DEF Completes, Begun, Up, IsBetting, Alone
  <2>2. \A s \in Seat : Held(x.t, s) => Held(y.t, s)
    BY <1>1, TakingIs DEF Begun, HeldSeats
  <2>3. Exact(t', db')  BY <2>1, <2>2 DEF Exact, Begun
  <2>4. UNCHANGED GameOn  BY <2>1, SeatsAfter, GameOnOrNot DEF Begun
  <2>. QED  BY <2>1, <2>3, <2>4, SeatsAfter DEF Alone
<1>3. CASE CutShort(y)
  <2>1. IsBetting(x.t) /\ t' = Gone /\ \A s \in Seat : db'.chair[s].there
    BY <1>3 DEF CutShort, Begun, Alone
  <2>2. HeldSeats = Seat  BY <1>1, <2>1, TakingIs DEF Begun, Full, HeldSeats
  <2>3. Seats!Restart  BY <2>1, <2>2, CrashInGame DEF Begun
  <2>. QED  BY <2>1, <2>3, GoneFits
<1>. QED  BY <1>2, <1>3 DEF Step

LEMMA StillKeeps ==
  ASSUME NEW x, Begun(x), NEW y, Alone(x, y), Step(y),
         \A s \in Seat : Taking(y.t.chair[s].who) = SeatAs(s)
  PROVE  Implements
<1>1. \A s \in HeldSeats : Taking(y.t.chair[s].who) # "free"  BY DEF HeldSeats
<1>2. \/ Seats!Restart
      \/ UNCHANGED GameOn /\ \A s \in Seat : SeatAs(s)' = SeatAs(s)
  BY <1>1, ChairKeeps
<1>3. Seats!Restart \/ UNCHANGED Seats!seats  BY <1>2, SameView DEF Seats!seats
<1>. QED  BY <1>1, <1>3, ChairKeeps DEF Implements, Seats!Next

LEMMA ReturnKeeps ==
  ASSUME NEW x, Begun(x), NEW y, Alone(x, y), Step(y), NEW p \in HeldSeats,
         \A s \in Seat : Taking(y.t.chair[s].who) = IF s = p THEN "here" ELSE SeatAs(s)
  PROVE  Implements
<1>1. p \in Seat /\ \A s \in HeldSeats : Taking(y.t.chair[s].who) # "free"  BY DEF HeldSeats
<1>2. \/ Seats!Restart
      \/ /\ UNCHANGED GameOn
         /\ \A s \in Seat : SeatAs(s)' = IF s = p THEN "here" ELSE SeatAs(s)
  BY <1>1, ChairKeeps
<1>3. Seats!Restart \/ Seats!Return(p)
  BY <1>1, <1>2 DEF Seats!Return, Seats!Becomes, HeldSeats
<1>. QED  BY <1>1, <1>3, ChairKeeps DEF Implements, Seats!Next

LEMMA DropKeeps ==
  ASSUME NEW x, Begun(x), NEW y, Alone(x, y), Step(y), NEW p \in Seat, SeatAs(p) = "here",
         \A s \in Seat : Taking(y.t.chair[s].who) = IF s = p THEN "absent" ELSE SeatAs(s)
  PROVE  Implements
<1>1. \A s \in HeldSeats : Taking(y.t.chair[s].who) # "free"  BY DEF HeldSeats
<1>2. \/ Seats!Restart
      \/ /\ UNCHANGED GameOn
         /\ \A s \in Seat : SeatAs(s)' = IF s = p THEN "absent" ELSE SeatAs(s)
  BY <1>1, ChairKeeps
<1>3. Seats!Restart \/ Seats!Drop({p})
  BY <1>2 DEF Seats!Drop, Seats!Becomes, Seats!Which
<1>. QED  BY <1>1, <1>3, ChairKeeps DEF Implements, Seats!Next

(* A player sits down on a free seat, while no game is played.             *)
LEMMA SitKeeps ==
  ASSUME NEW x, Begun(x), ~Full(x.t), NEW n \in Seat, ~Held(x.t, n),
         Step(AwaitReady(SaveChair([x EXCEPT !.t.chair[n] = Flagless("on")], n)))
  PROVE  Implements
<1>. DEFINE f == Flagless("on")
            y == [x EXCEPT !.t.chair[n] = f]
            d == [y.db EXCEPT !.chair[n] = Serialized(y.t.chair[n])]
            z == SaveChair(y, n)
            r == AwaitReady(z)
<1>1. /\ x \in Work /\ x.t \in Table /\ x.t.status \in Up
      /\ ~IsBetting(x.t) /\ ~GameOn /\ x.trail = {} /\ x.db.status # "betting"
  BY DEF Begun, Work
<1>2. f.who = "on" /\ f \in Chair  BY FreshTyped DEF Flagless
<1>. HIDE DEF f
<1>3. /\ y \in Work /\ y.t.status = x.t.status /\ y.db = x.db /\ y.trail = {}
      /\ y.t.chair = [x.t.chair EXCEPT ![n] = f]
  <2>1. y \in Work  BY <1>1, <1>2, ChairTyped
  <2>. QED  BY <1>1, <2>1 DEF Work, Table
<1>. HIDE DEF y
<1>4. /\ z \in Work /\ z.t = y.t /\ z.db = d /\ z.trail = {d}
      /\ d.status = x.db.status /\ d.chair = [x.db.chair EXCEPT ![n] = Serialized(y.t.chair[n])]
  <2>1. z \in Work  BY <1>3, SaveChairTyped
  <2>2. z = Put(y, d)  BY DEF SaveChair
  <2>3. d.status = x.db.status /\ d.chair = [x.db.chair EXCEPT ![n] = Serialized(y.t.chair[n])]
    BY <1>1, <1>3 DEF Work, Database
  <2>. HIDE DEF z, d
  <2>4. z.t = y.t /\ z.db = d /\ z.trail = y.trail \cup {d}  BY <1>3, <2>2, PutFields
  <2>. QED  BY <1>3, <2>1, <2>3, <2>4
<1>. HIDE DEF d, z
<1>5. /\ r.t.status = x.t.status /\ r.t.chair = y.t.chair /\ r.db = d /\ r.trail = {d}
  BY <1>3, <1>4 DEF AwaitReady, StartReadyTimer, Work, Table
<1>6. \A s \in Seat : r.t.chair[s] = IF s = n THEN f ELSE x.t.chair[s]
  BY <1>1, <1>3, <1>5 DEF Table
<1>7. \A s \in Seat : d.chair[s].there <=> s = n \/ s \in HeldSeats
  <2>1. \A s \in Seat : d.chair[s] = IF s = n THEN Serialized(y.t.chair[n]) ELSE x.db.chair[s]
    BY <1>1, <1>4 DEF Work, Database
  <2>2. Serialized(y.t.chair[n]).there  BY DEF Serialized
  <2>3. \A s \in Seat : x.db.chair[s].there <=> s \in HeldSeats
    BY <1>1, TakingIs DEF Begun, HeldSeats
  <2>. QED  BY <2>1, <2>2, <2>3
<1>8. SeatAs(n) = "free"  BY <1>1, TakingIs DEF Begun
<1>. HIDE DEF r
<1>9. CASE Completes(r)
  <2>1. t' = r.t /\ db' = d /\ t'.status # "down" /\ ~IsBetting(t')
    BY <1>1, <1>5, <1>9 DEF Completes, Up, IsBetting
  <2>2. \A s \in Seat : SeatAs(s)' = IF s = n THEN "here" ELSE SeatAs(s)
    BY <1>2, <1>6, <2>1, SeatsAfter, TakingIs DEF Begun
  <2>3. [s \in Seat |-> SeatAs(s)]' = Seats!Becomes({n}, "here")
    BY <2>2 DEF Seats!Becomes
  <2>4. UNCHANGED GameOn  BY <1>1, <2>1, SeatsAfter, GameOnOrNot
  <2>5. Seats!Sit(n)  BY <1>1, <1>8, <2>3, <2>4 DEF Seats!Sit
  <2>6. Back(t')  BY <1>2, <1>6, <2>1 DEF Back, Begun
  <2>7. Exact(t', db')  BY <1>2, <1>6, <1>7, <2>1, <1>1, TakingIs DEF Exact, Held, HeldSeats, Begun
  <2>. QED  BY <2>5, <2>6, <2>7 DEF Implements, Seats!Next
<1>10. CASE CutShort(r)
  <2>. DEFINE kept == HeldSeats \cup {n}
  <2>1. t' = Gone /\ db' = d  BY <1>5, <1>10 DEF CutShort
  <2>2. kept \in SUBSET Seat /\ n \notin HeldSeats  BY <1>8 DEF HeldSeats
  <2>3. \A s \in Seat : db'.chair[s].there <=> s \in kept  BY <1>7, <2>1
  <2>4. db'.status # "betting"  BY <1>1, <1>4, <2>1
  <2>5. Seats!Restart  BY <1>1, <2>1, <2>2, <2>3, <2>4, Restarts
  <2>. QED  BY <2>1, <2>5, GoneFits DEF Implements, Seats!Next
<1>. QED  BY <1>9, <1>10 DEF Step, r, z, y, f

-----------------------------------------------------------------------------
(* Who leaves, one after the other, in one handler: S have left, and every *)
(* write on the way took out of the row some of them only.                 *)

Leaving(x, S) ==
  /\ x \in Work /\ x.t.status # "down" /\ ~IsBetting(x.t)
  /\ S \subseteq {s \in Seat : Been(s)}
  /\ \A s \in Seat : Taking(x.t.chair[s].who) = IF s \in S THEN "free" ELSE SeatAs(s)
  /\ Back(x.t)
  /\ x.db.status # "betting"
  /\ \A s \in Seat : x.db.chair[s].there <=> s \in HeldSeats \ S
  /\ \A d \in x.trail :
       /\ d.status # "betting"
       /\ \E R \in SUBSET S : \A s \in Seat : d.chair[s].there <=> s \in HeldSeats \ R

LEMMA LeavingKeeps ==
  ASSUME NEW x, NEW S, Leaving(x, S), ~GameOn, Step(x)  PROVE Implements
<1>1. x.t \in Table  BY DEF Leaving, Work
<1>2. CASE Completes(x)
  <2>1. t' = x.t /\ db' = x.db /\ t'.status # "down" /\ ~IsBetting(t')
    BY <1>2 DEF Completes, Leaving
  <2>2. [s \in Seat |-> SeatAs(s)]' = Seats!Becomes(S, "free")
    BY <2>1, SeatsAfter DEF Seats!Becomes, Leaving
  <2>3. UNCHANGED GameOn  BY <2>1, SeatsAfter, GameOnOrNot
  <2>4. S \in SUBSET Seat /\ S \subseteq Seats!Which({"here", "absent"})
    BY DEF Leaving, Been, Seats!Which
  <2>5. Seats!Leave(S)  BY <2>2, <2>3, <2>4 DEF Seats!Leave
  <2>6. Exact(t', db')  BY <1>1, <2>1, TakingIs DEF Exact, Leaving, HeldSeats
  <2>. QED  BY <2>1, <2>4, <2>5, <2>6 DEF Implements, Leaving, Seats!Next
<1>3. CASE CutShort(x)
  <2>1. t' = Gone /\ db' \in x.trail  BY <1>3 DEF CutShort
  <2>2. PICK R \in SUBSET S : \A s \in Seat : db'.chair[s].there <=> s \in HeldSeats \ R
    BY <2>1 DEF Leaving
  <2>. DEFINE kept == HeldSeats \ R
  <2>3. kept \in SUBSET Seat /\ kept \subseteq HeldSeats  BY DEF HeldSeats
  <2>4. \A s \in HeldSeats \ kept : Been(s)  BY DEF Leaving
  <2>5. db'.status # "betting"  BY <2>1 DEF Leaving
  <2>6. \A s \in Seat : db'.chair[s].there <=> s \in kept  BY <2>2
  <2>. HIDE DEF kept
  <2>7. Seats!Restart  BY <2>1, <2>3, <2>4, <2>5, <2>6, Restarts
  <2>. QED  BY <2>1, <2>7, GoneFits DEF Implements, Seats!Next
<1>. QED  BY <1>2, <1>3 DEF Step

LEMMA LeavingLeave ==
  ASSUME NEW x, NEW S, Leaving(x, S), Idle(x.t), NEW s \in Seat, x.t.chair[s].who \in {"on", "off"}
  PROVE  /\ Leaving(LeaveTable(x, s), S \cup {s})
         /\ RoomType = 0 => Idle(LeaveTable(x, s).t)
<1>. DEFINE r == [x EXCEPT !.t = [@ EXCEPT !.banker = NoOne, !.games = 0]]
            a == IF RoomType = 1 /\ x.t.banker # NoOne THEN SaveBanker(r) ELSE x
            u == [a.t EXCEPT !.chair[s] = Flagless("none")]
            e == [a EXCEPT !.t.chair[s] = Flagless("none")]
            b == DeleteChair(e, s)
            c == IF RoomType = 1 THEN [b EXCEPT !.t = [Gone EXCEPT !.status = "closed"]] ELSE b
            n == [NoRow EXCEPT !.paid = c.db.paid]
            T == S \cup {s}
<1>1. x \in Work /\ x.t \in Table /\ Been(s)  BY TakingIs DEF Leaving, Work, Been
<1>2. /\ r \in Work /\ r.db = x.db /\ r.trail = x.trail
      /\ r.t.status = x.t.status /\ r.t.chair = x.t.chair
  <2>1. \A v \in Table : [v EXCEPT !.banker = NoOne, !.games = 0] \in Table
    <3>1. 0 \in 0..Many  BY DEF Many
    <3>. QED  BY <3>1 DEF Table
  <2>2. \A v \in Table : /\ [v EXCEPT !.banker = NoOne, !.games = 0].status = v.status
                         /\ [v EXCEPT !.banker = NoOne, !.games = 0].chair = v.chair
    BY DEF Table
  <2>. QED  BY <1>1, <2>1, <2>2 DEF Work
<1>. HIDE DEF r
<1>3. Leaving(a, S) /\ a.t.status = x.t.status
  <2>. DEFINE d == [r.db EXCEPT !.begun = TRUE, !.status = r.t.status, !.banker = r.t.banker,
                                !.games = r.t.games]
  <2>1. d.status = x.t.status /\ d.chair = x.db.chair  BY <1>2 DEF Work, Database
  <2>2. SaveBanker(r) = Put(r, d)  BY DEF SaveBanker
  <2>3. SaveBanker(r) \in Work  BY <1>2, SaveBankerTyped
  <2>. HIDE DEF d
  <2>4. SaveBanker(r).t = r.t /\ SaveBanker(r).db = d /\ SaveBanker(r).trail = x.trail \cup {d}
    BY <1>2, <2>2, PutFields
  <2>5. x.t.status # "betting"  BY DEF Idle
  <2>6. {} \in SUBSET S /\ HeldSeats \ {} = HeldSeats  OBVIOUS
  <2>7. S \in SUBSET S  OBVIOUS
  <2>8. d.status # "betting" /\ \A m \in Seat : d.chair[m].there <=> m \in HeldSeats \ S
    BY <2>1, <2>5 DEF Leaving
  <2>9. Leaving(SaveBanker(r), S)
    <3>. DEFINE z == SaveBanker(r)
    <3>1. /\ z \in Work /\ z.t.status = x.t.status /\ z.t.chair = x.t.chair
          /\ z.db = d /\ z.trail = x.trail \cup {d}
      BY <1>2, <2>3, <2>4
    <3>. HIDE DEF z
    <3>2. /\ z.t.status # "down" /\ ~IsBetting(z.t) /\ Back(z.t)
          /\ S \subseteq {q \in Seat : Been(q)}
      BY <3>1 DEF Leaving, IsBetting, Back
    <3>3. \A q \in Seat : Taking(z.t.chair[q].who) = IF q \in S THEN "free" ELSE SeatAs(q)
      BY <3>1 DEF Leaving
    <3>4. \A f \in x.trail :
            /\ f.status # "betting"
            /\ \E R \in SUBSET S : \A m \in Seat : f.chair[m].there <=> m \in HeldSeats \ R
      BY DEF Leaving
    <3>5. \A f \in z.trail :
            /\ f.status # "betting"
            /\ \E R \in SUBSET S : \A m \in Seat : f.chair[m].there <=> m \in HeldSeats \ R
      BY <2>7, <2>8, <3>1, <3>4
    <3>6. Leaving(z, S)  BY <2>8, <3>1, <3>2, <3>3, <3>5 DEF Leaving
    <3>. QED  BY <3>6 DEF z
  <2>. QED  BY <1>2, <2>4, <2>9
<1>. HIDE DEF a
<1>4. a \in Work /\ a.t \in Table  BY <1>3 DEF Leaving, Work
<1>5. /\ u \in Table /\ u.status = x.t.status
      /\ \A m \in Seat : u.chair[m] = IF m = s THEN Flagless("none") ELSE a.t.chair[m]
  <2>1. Flagless("none") \in Chair  BY FreshTyped
  <2>. QED  BY <1>3, <1>4, <2>1 DEF Table
<1>6. e = [a EXCEPT !.t = u]  BY <1>4 DEF Work
<1>. HIDE DEF u
<1>7. e \in Work /\ e.t = u /\ e.db = a.db /\ e.trail = a.trail
  BY <1>4, <1>5, <1>6 DEF Work
<1>. HIDE DEF e
<1>8. /\ b \in Work /\ b.t = u /\ b.db.status = a.db.status
      /\ \A m \in Seat : b.db.chair[m] = IF m = s THEN NoChair ELSE a.db.chair[m]
      /\ b.trail = a.trail \cup {b.db}
  <2>. DEFINE d == [e.db EXCEPT !.chair[s] = NoChair]
  <2>1. b = Put(e, d)  BY DEF DeleteChair
  <2>2. /\ d.status = e.db.status
        /\ \A m \in Seat : d.chair[m] = IF m = s THEN NoChair ELSE e.db.chair[m]
    BY <1>7 DEF Work, Database
  <2>3. b \in Work  BY <1>7, DeleteTyped
  <2>. HIDE DEF b, d
  <2>4. b.t = e.t /\ b.db = d /\ b.trail = e.trail \cup {d}  BY <1>7, <2>1, PutFields
  <2>. QED  BY <1>7, <2>2, <2>3, <2>4
<1>. HIDE DEF b
<1>9. Leaving(b, T)
  <2>1. /\ b.t.status # "down" /\ ~IsBetting(b.t) /\ b.db.status # "betting"
        /\ T \subseteq {m \in Seat : Been(m)}
    BY <1>1, <1>3, <1>5, <1>8 DEF Leaving, IsBetting
  <2>2. Flagless("none").who = "none" /\ ~Flagless("none").ready  BY DEF Flagless
  <2>3. /\ \A m \in Seat : Taking(b.t.chair[m].who) = IF m \in T THEN "free" ELSE SeatAs(m)
        /\ Back(b.t)
    BY <1>3, <1>5, <1>8, <2>2, TakingIs DEF Leaving, Back
  <2>4. \A m \in Seat : b.db.chair[m].there <=> m \in HeldSeats \ T
    BY <1>3, <1>8 DEF Leaving, NoChair
  <2>5. ASSUME NEW d \in b.trail
        PROVE  /\ d.status # "betting"
               /\ \E R \in SUBSET T : \A m \in Seat : d.chair[m].there <=> m \in HeldSeats \ R
    <3>1. CASE d = b.db
      <4>1. T \in SUBSET T  OBVIOUS
      <4>. QED  BY <2>1, <2>4, <3>1, <4>1
    <3>2. CASE d \in a.trail
      <4>1. PICK R \in SUBSET S : \A m \in Seat : d.chair[m].there <=> m \in HeldSeats \ R
        BY <1>3, <3>2 DEF Leaving
      <4>2. R \in SUBSET T  OBVIOUS
      <4>3. d.status # "betting"  BY <1>3, <3>2 DEF Leaving
      <4>. QED  BY <4>1, <4>2, <4>3
    <3>. QED  BY <1>8, <3>1, <3>2
  <2>. QED  BY <1>8, <2>1, <2>3, <2>4, <2>5 DEF Leaving
<1>10. Idle(b.t)  BY <1>5, <1>8 DEF Idle
<1>11. /\ c \in Work /\ c.db = b.db /\ c.trail = b.trail
       /\ RoomType # 1 => c = b
       /\ RoomType = 1 => c.t = [Gone EXCEPT !.status = "closed"]
  BY <1>8, FreshTyped DEF Work
<1>. HIDE DEF c
<1>12. n \in Database /\ n.status = "waiting" /\ \A m \in Seat : ~n.chair[m].there
  <2>1. c.db.paid \in [Seat -> Nat]  BY <1>11 DEF Work, Database
  <2>2. NoRow \in Database  BY FreshTyped
  <2>3. n.status = "waiting" /\ n.chair = [m \in Seat |-> NoChair]  BY DEF NoRow
  <2>4. n \in Database  BY <2>1, <2>2 DEF Database
  <2>. QED  BY <2>3, <2>4 DEF NoChair
<1>13. DeleteRow(c) = Put(c, n)  BY DEF DeleteRow
<1>. HIDE DEF n
<1>14. /\ DeleteRow(c) \in Work /\ DeleteRow(c).t = c.t /\ DeleteRow(c).db = n
       /\ DeleteRow(c).trail = b.trail \cup {n}
  BY <1>11, <1>12, <1>13, PutTyped, PutFields
<1>15. ASSUME Empty(b.t)  PROVE Leaving(DeleteRow(c), T)
  <2>1. \A m \in Seat : Taking(b.t.chair[m].who) = "free" /\ ~b.t.chair[m].ready
    <3>1. b.t \in Table /\ \A m \in Seat : b.t.chair[m].who = "none"
      BY <1>5, <1>8, <1>15 DEF Empty, Held
    <3>. QED  BY <1>9, <3>1, TakingIs DEF Leaving, Back
  <2>2. HeldSeats \ T = {}  BY <1>9, <2>1 DEF Leaving, HeldSeats
  <2>3. /\ c.t.status # "down" /\ ~IsBetting(c.t)
        /\ \A m \in Seat : Taking(c.t.chair[m].who) = "free" /\ ~c.t.chair[m].ready
    <3>1. CASE RoomType = 1
      <4>1. /\ [Gone EXCEPT !.status = "closed"].status = "closed"
            /\ \A m \in Seat : /\ [Gone EXCEPT !.status = "closed"].chair[m].who = "none"
                               /\ ~[Gone EXCEPT !.status = "closed"].chair[m].ready
        BY DEF Gone, Fresh, Flagless
      <4>. QED  BY ZenonT(60), <1>11, <3>1, <4>1, TakingIs DEF IsBetting
    <3>2. CASE RoomType # 1
      BY <1>9, <1>11, <2>1, <3>2 DEF Leaving
    <3>. QED  BY <3>1, <3>2
  <2>4. \A m \in Seat : n.chair[m].there <=> m \in HeldSeats \ T  BY <1>12, <2>2
  <2>5. \A m \in Seat : Taking(c.t.chair[m].who) = IF m \in T THEN "free" ELSE SeatAs(m)
    BY <2>2, <2>3 DEF HeldSeats
  <2>6. T \in SUBSET T  OBVIOUS
  <2>7. \A d \in b.trail \cup {n} :
          /\ d.status # "betting"
          /\ \E R \in SUBSET T : \A m \in Seat : d.chair[m].there <=> m \in HeldSeats \ R
    BY <1>9, <1>12, <2>4, <2>6 DEF Leaving
  <2>. DEFINE z == DeleteRow(c)
  <2>8. /\ z \in Work /\ z.t = c.t /\ z.db = n /\ z.trail = b.trail \cup {n}  BY <1>14
  <2>. HIDE DEF z, T
  <2>9. T \subseteq {m \in Seat : Been(m)}  BY <1>9 DEF Leaving
  <2>10. Back(z.t)  BY <2>3, <2>8 DEF Back
  <2>11. z.db.status # "betting"  BY <1>12, <2>8
  <2>12. \A d \in z.trail :
           /\ d.status # "betting"
           /\ \E R \in SUBSET T : \A m \in Seat : d.chair[m].there <=> m \in HeldSeats \ R
    BY <2>7, <2>8
  <2>13. Leaving(z, T)
    BY <2>3, <2>4, <2>5, <2>8, <2>9, <2>10, <2>11, <2>12 DEF Leaving
  <2>. QED  BY <2>13 DEF z
<1>16. RoomType = 0 => Idle(DeleteRow(c).t)  BY <1>10, <1>11, <1>14
<1>17. LeaveTable(x, s) = IF Empty(b.t) THEN DeleteRow(c) ELSE b
  BY DEF LeaveTable, a, b, c, e, r
<1>. QED  BY <1>9, <1>10, <1>15, <1>16, <1>17

LEMMA LeavingKickOut ==
  ASSUME NEW x, NEW S, Leaving(x, S), Idle(x.t), RoomType = 0, NEW s, NEW late \in SUBSET Seat
  PROVE  \E T : Leaving(KickOut(x, s, late), T) /\ Idle(KickOut(x, s, late).t)
<1>1. CASE s \in late /\ x.t.chair[s].who \in {"on", "off"}
  <2>1. Leaving(LeaveTable(x, s), S \cup {s}) /\ Idle(LeaveTable(x, s).t)
    BY <1>1, LeavingLeave
  <2>. QED  BY <1>1, <2>1 DEF KickOut
<1>2. CASE ~(s \in late /\ x.t.chair[s].who \in {"on", "off"})  BY <1>2 DEF KickOut
<1>. QED  BY <1>1, <1>2

LEMMA NowLeaving ==
  ASSUME SeatInv, t.status \in Up, ~IsBetting(t)  PROVE Leaving(Now, {}) /\ Idle(Now.t) /\ ~GameOn
<1>1. Begun(Now)  BY NowBegun
<1>2. Now.t = t /\ Now.trail = {}  BY DEF Now, Doing
<1>3. Now \in Work /\ Now.t \in Table /\ Now.db.status # "betting" /\ ~GameOn
  BY <1>1, <1>2 DEF Begun, Work
<1>4. \A s \in Seat : Now.db.chair[s].there <=> s \in HeldSeats \ {}
  BY <1>1, <1>3, TakingIs DEF Begun, HeldSeats
<1>5. Leaving(Now, {})  BY SMTT(60), <1>1, <1>2, <1>3, <1>4 DEF Leaving, Begun, Up
<1>. QED  BY <1>2, <1>3, <1>5 DEF Idle, IsBetting, Up

-----------------------------------------------------------------------------
(* The actions.                                                            *)

(* A change of one chair leaves the others.                                *)
LEMMA OneChair ==
  ASSUME NEW x \in Work, NEW s \in Seat
  PROVE  /\ \A w \in {"on", "off"} :
              LET y == [x EXCEPT !.t.chair[s].who = w] IN
              /\ y \in Work /\ y.t.status = x.t.status /\ y.db = x.db /\ y.trail = x.trail
              /\ \A m \in Seat :
                   /\ y.t.chair[m].who = IF m = s THEN w ELSE x.t.chair[m].who
                   /\ y.t.chair[m].ready = x.t.chair[m].ready
         /\ LET y == [x EXCEPT !.t.chair[s].ready = TRUE] IN
            /\ y \in Work /\ y.t.status = x.t.status /\ y.db = x.db /\ y.trail = x.trail
            /\ \A m \in Seat :
                 /\ y.t.chair[m].who = x.t.chair[m].who
                 /\ y.t.chair[m].ready = (m = s \/ x.t.chair[m].ready)
<1>1. x.t \in Table /\ \A m \in Seat : x.t.chair[m] \in Chair  BY DEF Work, Table
<1>2. ASSUME NEW w \in {"on", "off"}
      PROVE  LET y == [x EXCEPT !.t.chair[s].who = w] IN
             /\ y \in Work /\ y.t.status = x.t.status /\ y.db = x.db /\ y.trail = x.trail
             /\ \A m \in Seat :
                  /\ y.t.chair[m].who = IF m = s THEN w ELSE x.t.chair[m].who
                  /\ y.t.chair[m].ready = x.t.chair[m].ready
  <2>. DEFINE y == [x EXCEPT !.t.chair[s].who = w]
  <2>1. y \in Work  BY ChairTyped
  <2>2. y.t.status = x.t.status /\ y.db = x.db /\ y.trail = x.trail  BY <1>1 DEF Work, Table
  <2>3. y.t.chair = [x.t.chair EXCEPT ![s] = [x.t.chair[s] EXCEPT !.who = w]]
    BY <1>1 DEF Work, Table
  <2>4. /\ [x.t.chair[s] EXCEPT !.who = w].who = w
        /\ [x.t.chair[s] EXCEPT !.who = w].ready = x.t.chair[s].ready
    BY <1>1 DEF Chair
  <2>. HIDE DEF y
  <2>5. \A m \in Seat : y.t.chair[m] = IF m = s THEN [x.t.chair[s] EXCEPT !.who = w]
                                       ELSE x.t.chair[m]
    BY <1>1, <2>3 DEF Table
  <2>6. \A m \in Seat : /\ y.t.chair[m].who = IF m = s THEN w ELSE x.t.chair[m].who
                        /\ y.t.chair[m].ready = x.t.chair[m].ready
    BY <2>4, <2>5
  <2>. QED  BY <2>1, <2>2, <2>6 DEF y
<1>3. LET y == [x EXCEPT !.t.chair[s].ready = TRUE] IN
      /\ y \in Work /\ y.t.status = x.t.status /\ y.db = x.db /\ y.trail = x.trail
      /\ \A m \in Seat :
           /\ y.t.chair[m].who = x.t.chair[m].who
           /\ y.t.chair[m].ready = (m = s \/ x.t.chair[m].ready)
  <2>. DEFINE y == [x EXCEPT !.t.chair[s].ready = TRUE]
  <2>1. y \in Work  BY ChairTyped
  <2>2. y.t.status = x.t.status /\ y.db = x.db /\ y.trail = x.trail  BY <1>1 DEF Work, Table
  <2>3. y.t.chair = [x.t.chair EXCEPT ![s] = [x.t.chair[s] EXCEPT !.ready = TRUE]]
    BY <1>1 DEF Work, Table
  <2>4. /\ [x.t.chair[s] EXCEPT !.ready = TRUE].who = x.t.chair[s].who
        /\ [x.t.chair[s] EXCEPT !.ready = TRUE].ready
        /\ \A m \in Seat : x.t.chair[m].ready \in BOOLEAN
        /\ [x.t.chair[s] EXCEPT !.ready = TRUE].ready \in BOOLEAN
    BY <1>1 DEF Chair
  <2>. HIDE DEF y
  <2>5. \A m \in Seat : y.t.chair[m] = IF m = s THEN [x.t.chair[s] EXCEPT !.ready = TRUE]
                                       ELSE x.t.chair[m]
    BY <1>1, <2>3 DEF Table
  <2>6. \A m \in Seat : /\ y.t.chair[m].who = x.t.chair[m].who
                        /\ y.t.chair[m].ready = (m = s \/ x.t.chair[m].ready)
    BY <2>4, <2>5
  <2>. QED  BY <2>1, <2>2, <2>6 DEF y
<1>. QED  BY <1>2, <1>3

(* Handlers that leave the seats and the row as they are.                  *)
LEMMA NothingKeeps ==
  ASSUME SeatInv, NEW y, Step(y), y.trail = {}, y.db = db, y.t.status = t.status,
         \A s \in Seat : y.t.chair[s].who = t.chair[s].who /\ (y.t.chair[s].ready => t.chair[s].ready)
  PROVE  Implements
<1>1. t' = y.t /\ db' = db  BY DEF Step, Completes, CutShort
<1>2. \A s \in Seat : SeatAs(s)' = SeatAs(s)  BY <1>1 DEF SeatAs
<1>3. UNCHANGED GameOn  BY <1>1 DEF GameOn, IsBetting
<1>4. UNCHANGED Seats!seats  BY <1>2, <1>3, SameView DEF Seats!seats
<1>5. Back(t') /\ Exact(t', db')  BY <1>1 DEF SeatInv, Back, Exact, Held
<1>. QED  BY <1>4, <1>5 DEF Implements

(* The end of Sitdown changes no chair.                                    *)
LEMMA AwaitReadyAlone ==
  ASSUME NEW x \in Work
  PROVE  /\ AwaitReady(x).t.status = x.t.status /\ AwaitReady(x).t.chair = x.t.chair
         /\ AwaitReady(x).db = x.db /\ AwaitReady(x).trail = x.trail
BY DEF AwaitReady, StartReadyTimer, Work, Table

(* What is done in a game on the table in memory.                          *)
LEMMA PlayStays ==
  ASSUME SeatInv, IsBetting(t), NEW y \in Work, Goes(Now, y), Kept(y), Step(y)
  PROVE  Implements
<1>1. t.status \in Up /\ Now.t = t /\ Full(t) /\ Now.trail = {}
  BY DEF IsBetting, Up, SeatInv, GameInv, Agree, Now, Doing
<1>2. Begun(Now) /\ GameOn  BY <1>1, NowBegun DEF Begun
<1>. QED  BY <1>1, <1>2, GameKeeps

LEMMA SeatStep == SeatInv /\ Next => Implements
<1>. SUFFICES ASSUME SeatInv, Next  PROVE Implements
  OBVIOUS
<1>1. /\ Now \in Work /\ Now.t = t /\ Now.db = db /\ Now.trail = {} /\ Kept(Now)
      /\ Found(Now) \in Work /\ t \in Table
  BY KeptNow DEF SeatInv, Now, Doing, Work
<1>2. ASSUME NEW s \in Seat, Connected(s)
      PROVE  Begun(Now) /\ SeatAs(s) = "here" /\ t.status \in Up /\ s \in HeldSeats
  <2>1. t.status \in Up
    BY <1>2 DEF Connected, SeatInv, GameInv, Agree, Empty, Held
  <2>2. Begun(Now)  BY <2>1, NowBegun
  <2>. QED  BY <1>1, <1>2, <2>1, <2>2, TakingIs DEF Connected, Begun, HeldSeats
<1>3. CASE SitNew
  <2>. DEFINE x == Found(Now)
              n == CHOOSE n \in Seat : ~Held(x.t, n) /\ \A m \in Seat : ~Held(x.t, m) => n <= m
  <2>1. /\ t.status # "closed" /\ ~Full(x.t)
        /\ Step(AwaitReady(SaveChair([x EXCEPT !.t.chair[n] = Flagless("on")], n)))
    BY <1>3 DEF SitNew
  <2>2. n \in Seat /\ ~Held(x.t, n)  BY <2>1, FirstFree
  <2>3. Begun(x)  BY <2>1, FoundBegun
  <2>. HIDE DEF n, x
  <2>. QED  BY <2>1, <2>2, <2>3, SitKeeps
<1>4. CASE Look
  <2>. DEFINE x == Found(Now)
  <2>1. Begun(x) /\ Step(x)  BY <1>4, FoundBegun DEF Look
  <2>. HIDE DEF x
  <2>2. Alone(x, x) /\ \A s \in Seat : Taking(x.t.chair[s].who) = SeatAs(s)
    BY <2>1 DEF Begun, Alone
  <2>. QED  BY <2>1, <2>2, StillKeeps
<1>5. ASSUME NEW s \in Seat, Return(s)  PROVE Implements
  <2>. DEFINE x == Found(Now)
              y == [x EXCEPT !.t.chair[s].who = "on"]
              z == AwaitReady(y)
  <2>1. IsOffline(x.t, s) /\ Step(z)  BY <1>5 DEF Return
  <2>2. t.status # "closed"
    <3>1. t.status = "closed" => x = Now /\ ~Held(t, s)
      BY <1>1 DEF Found, SeatInv, GameInv, Agree, Up, Empty
    <3>. QED  BY <1>1, <2>1, <3>1 DEF IsOffline, Held
  <2>3. Begun(x)  BY <2>2, FoundBegun
  <2>. HIDE DEF x
  <2>4. x \in Work /\ x.t \in Table  BY <2>3 DEF Begun, Work
  <2>5. /\ y \in Work /\ y.t.status = x.t.status /\ y.db = x.db /\ y.trail = x.trail
        /\ \A m \in Seat : /\ y.t.chair[m].who = IF m = s THEN "on" ELSE x.t.chair[m].who
                           /\ y.t.chair[m].ready = x.t.chair[m].ready
    <3>1. "on" \in {"on", "off"}  OBVIOUS
    <3>. QED  BY <2>4, <3>1, OneChair
  <2>. HIDE DEF y
  <2>6. /\ z \in Work /\ z.t.status = x.t.status /\ z.db = x.db /\ z.trail = x.trail
        /\ z.t.chair = y.t.chair
    BY <2>5, AwaitReadyTyped, AwaitReadyAlone
  <2>. HIDE DEF z
  <2>7. Alone(x, z)  BY <2>3, <2>5, <2>6 DEF Back, Begun, Alone
  <2>8. s \in HeldSeats  BY <2>1, <2>3, <2>4, TakingIs DEF Begun, HeldSeats
  <2>9. \A m \in Seat : Taking(z.t.chair[m].who) = IF m = s THEN "here" ELSE SeatAs(m)
    BY <2>3, <2>5, <2>6, TakingIs DEF Begun
  <2>. QED  BY <2>1, <2>3, <2>7, <2>8, <2>9, ReturnKeeps
<1>6. ASSUME NEW s \in Seat, Connected(s), Step([Now EXCEPT !.t.chair[s].who = "off"])
      PROVE  Implements
  <2>. DEFINE y == [Now EXCEPT !.t.chair[s].who = "off"]
  <2>1. Begun(Now) /\ SeatAs(s) = "here"  BY <1>2, <1>6
  <2>2. /\ y \in Work /\ y.t.status = Now.t.status /\ y.db = Now.db /\ y.trail = Now.trail
        /\ \A m \in Seat : /\ y.t.chair[m].who = IF m = s THEN "off" ELSE Now.t.chair[m].who
                           /\ y.t.chair[m].ready = Now.t.chair[m].ready
    <3>1. "off" \in {"on", "off"}  OBVIOUS
    <3>. QED  BY <1>1, <3>1, OneChair
  <2>3. Step(y)  BY <1>6
  <2>. HIDE DEF y
  <2>4. Alone(Now, y)  BY <2>1, <2>2 DEF Back, Begun, Alone
  <2>5. \A m \in Seat : Taking(y.t.chair[m].who) = IF m = s THEN "absent" ELSE SeatAs(m)
    BY <2>1, <2>2, TakingIs DEF Begun
  <2>. QED  BY <2>1, <2>3, <2>4, <2>5, DropKeeps
<1>7. ASSUME NEW s \in Seat, Disconnect(s)  PROVE Implements
  BY <1>6, <1>7 DEF Disconnect
<1>8. ASSUME NEW s \in Seat, Quit(s)  PROVE Implements
  <2>1. Connected(s)  BY <1>8 DEF Quit
  <2>2. CASE IsBetting(t)  BY <1>6, <1>8, <2>1, <2>2 DEF Quit
  <2>3. CASE ~IsBetting(t)
    <3>1. Leaving(Now, {}) /\ Idle(Now.t) /\ ~GameOn  BY <1>2, <2>1, <2>3, NowLeaving
    <3>2. Now.t.chair[s].who \in {"on", "off"}  BY <1>1, <2>1 DEF Connected
    <3>3. Leaving(LeaveTable(Now, s), {} \cup {s})  BY <3>1, <3>2, LeavingLeave
    <3>4. Step(LeaveTable(Now, s))  BY <1>8, <2>3 DEF Quit
    <3>. QED  BY <3>1, <3>3, <3>4, LeavingKeeps
  <2>. QED  BY <2>2, <2>3
<1>9. ASSUME NEW s \in Seat, Ready(s)  PROVE Implements
  <2>. DEFINE x == [Now EXCEPT !.t.chair[s].ready = TRUE]
  <2>1. Connected(s) /\ ~IsBetting(t)  BY <1>9 DEF Ready
  <2>2. Begun(Now) /\ t.status \in Up  BY <1>2, <2>1
  <2>3. /\ x \in Work /\ x.t.status = t.status /\ x.db = db /\ x.trail = {}
        /\ \A m \in Seat : /\ x.t.chair[m].who = t.chair[m].who
                           /\ x.t.chair[m].ready = (m = s \/ t.chair[m].ready)
    <3>1. /\ x \in Work /\ x.t.status = Now.t.status /\ x.db = Now.db /\ x.trail = Now.trail
          /\ \A m \in Seat : /\ x.t.chair[m].who = Now.t.chair[m].who
                             /\ x.t.chair[m].ready = (m = s \/ Now.t.chair[m].ready)
      BY <1>1, OneChair
    <3>. HIDE DEF x
    <3>. QED  BY <1>1, <3>1
  <2>4. Held(t, s) /\ Kept(x)  BY <1>1, <2>1, KeptChair DEF Connected, Held
  <2>5. /\ \E deal \in Deals : \E dealer \in Dealers(deal) : Step(GameStart(x, deal, dealer))
        /\ \A n \in Seat : Held(x.t, n) /\ x.t.chair[n].ready
        \/ Step(x)
    BY <1>9 DEF Ready, x
  <2>. HIDE DEF x
  <2>6. Back(x.t)  BY <2>1, <2>2, <2>3 DEF Back, Begun, Connected, SeatInv
  <2>7. Begun(x)
    BY <1>1, <2>1, <2>2, <2>3, <2>6 DEF Begun, IsBetting, Held
  <2>8. CASE Step(x)
    <3>1. Alone(x, x) /\ \A m \in Seat : Taking(x.t.chair[m].who) = SeatAs(m)
      BY <2>7 DEF Begun, Alone
    <3>. QED  BY <2>7, <2>8, <3>1, StillKeeps
  <2>9. CASE /\ \E deal \in Deals : \E dealer \in Dealers(deal) : Step(GameStart(x, deal, dealer))
             /\ \A n \in Seat : Held(x.t, n) /\ x.t.chair[n].ready
    <3>1. PICK deal \in Deals : \E dealer \in Dealers(deal) : Step(GameStart(x, deal, dealer))
      BY <2>9
    <3>2. PICK dealer \in Dealers(deal) : Step(GameStart(x, deal, dealer))  BY <3>1
    <3>3. Full(x.t) /\ Idle(x.t)
      BY <2>1, <2>2, <2>3, <2>9 DEF Full, Idle, IsBetting, Up
    <3>4. \A n \in Seat : Been(n)
      BY <2>3, <2>6, <2>7, <2>9, TakingIs DEF Back, Been, Begun
    <3>5. /\ GameStart(x, deal, dealer) \in Work /\ Kept(GameStart(x, deal, dealer))
          /\ Goes(x, GameStart(x, deal, dealer))
      BY <2>3, <2>4, <3>3, GameStartTyped, KeptGameStart, GoesGameStart
    <3>. QED  BY <2>3, <2>7, <3>2, <3>3, <3>4, <3>5, GameKeeps
  <2>. QED  BY <2>5, <2>8, <2>9
<1>10. ASSUME NEW s \in Seat, Pass(s)  PROVE Implements
  <2>1. ~t.newRound /\ IsBetting(t)  BY <1>10 DEF Pass, IsBetting
  <2>2. /\ AutoPlayCard(Now) \in Work /\ Kept(AutoPlayCard(Now)) /\ Goes(Now, AutoPlayCard(Now))
    BY <1>1, <2>1, AutoPlayCardTyped, KeptAutoPlayCard, GoesAutoPlayCard
  <2>3. PassTurn(Now) \in Work /\ Kept(PassTurn(Now)) /\ Goes(Now, PassTurn(Now))
    BY <1>1, SeatsAre, PassTurnTyped, KeptTurn, GoesTurn
  <2>. QED  BY <1>10, <2>1, <2>2, <2>3, PlayStays DEF Pass
<1>11. ASSUME NEW s \in Seat, Run(s)  PROVE Implements
  <2>1. IsBetting(t) /\ Step(GameEndSpecial(Now, s))  BY <1>11 DEF Run, IsBetting
  <2>2. /\ GameEndSpecial(Now, s) \in Work /\ Kept(GameEndSpecial(Now, s))
        /\ Goes(Now, GameEndSpecial(Now, s))
    BY <1>1, GameEndTyped, KeptGameEnd, GoesGameEnd
  <2>. QED  BY <2>1, <2>2, PlayStays
<1>12. Disarm(Now) \in Work /\ Kept(Disarm(Now)) /\ Goes(Now, Disarm(Now))
  BY <1>1, ArmTyped, KeptArm, GoesArm
<1>13. ASSUME NEW s \in Seat, NEW cards \in SUBSET t.chair[t.curr].hand, Play(s, cards)
       PROVE  Implements
  <2>. DEFINE type == PlayedType(cards, t.chair[s].hand)
              y == CallPlayCard(Disarm(Now), cards, type)
  <2>1. IsBetting(t) /\ Step(y)  BY <1>13 DEF Play, IsBetting
  <2>2. t.chair[t.curr].hand \in Hands  BY <1>1 DEF Table, Chair
  <2>3. cards \in Hands  BY <2>2, HandsClosed
  <2>4. type \in CardTypes  BY <2>3, TypesAre
  <2>. HIDE DEF type
  <2>5. y \in Work /\ Kept(y) /\ Goes(Disarm(Now), y)
    BY <1>12, <2>3, <2>4, CallPlayCardTyped, KeptCallPlayCard, GoesCallPlayCard
  <2>6. Goes(Now, y)  BY <1>12, <2>5, GoesOn
  <2>. QED  BY <2>1, <2>5, <2>6, PlayStays
<1>14. CASE OnTimer_trustee
  <2>1. /\ Disarm(Now).t.status = t.status /\ Disarm(Now).db = db /\ Disarm(Now).trail = {}
        /\ Disarm(Now).t.newRound = t.newRound /\ Disarm(Now).t.chair = t.chair
        /\ Disarm(Now).t.curr = t.curr /\ Disarm(Now).t.opened = t.opened
    BY <1>1 DEF Disarm, Work, Table
  <2>2. CASE Step(Disarm(Now))  BY <2>1, <2>2, NothingKeeps
  <2>3. CASE t.status = "betting" /\ t' = Gone /\ UNCHANGED <<db, crashes>>
    <3>1. HeldSeats = Seat /\ GameOn /\ \A s \in Seat : db.chair[s].there
      <4>1. Begun(Now) /\ Full(t)
        BY <2>3, NowBegun DEF Up, SeatInv, GameInv, Agree, IsBetting
      <4>. QED
        BY <1>1, <2>3, <4>1, TakingIs DEF Begun, Full, HeldSeats, IsBetting
    <3>2. Seats!Restart  BY <2>3, <3>1, CrashInGame
    <3>. QED  BY <2>3, <3>2, GoneFits DEF Implements, Seats!Next
  <2>4. CASE t.status = "betting" /\ ~RobotDies /\ Step(AutoPlayCard(Disarm(Now)))
    <3>1. /\ AutoPlayCard(Disarm(Now)) \in Work /\ Kept(AutoPlayCard(Disarm(Now)))
          /\ Goes(Disarm(Now), AutoPlayCard(Disarm(Now)))
      BY <1>12, <2>1, <2>4, AutoPlayCardTyped, KeptAutoPlayCard, GoesAutoPlayCard
         DEF RobotDies, OpensGame
    <3>2. Goes(Now, AutoPlayCard(Disarm(Now)))  BY <1>12, <3>1, GoesOn
    <3>. QED  BY <2>4, <3>1, <3>2, PlayStays DEF IsBetting
  <2>. QED  BY <1>14, <2>2, <2>3, <2>4 DEF OnTimer_trustee
<1>15. CASE OnTimer_ready
  <2>1. CASE StopReadyTimer
    <3>. DEFINE y == [Now EXCEPT !.t.readyOn = FALSE]
    <3>1. y.t.status = t.status /\ y.t.chair = t.chair /\ y.db = db /\ y.trail = {}
      BY <1>1 DEF Work, Table
    <3>2. Step(y)  BY <2>1 DEF StopReadyTimer
    <3>. HIDE DEF y
    <3>. QED  BY <3>1, <3>2, NothingKeeps
  <2>2. ASSUME NEW late \in (SUBSET Seat) \ {{}}, ThrowOut(late)  PROVE Implements
    <3>. DEFINE a == KickOut(Now, 0, late)
                b == KickOut(a, 1, late)
                c == KickOut(b, 2, late)
    <3>1. t.readyOn /\ RoomType = 0 /\ Step(c) /\ \A s \in late : Unready(s)
      BY <2>2 DEF ThrowOut
    <3>2. PICK s \in late : s \in Seat /\ Held(t, s)  BY <2>2, <3>1 DEF Unready
    <3>3. ~IsBetting(t) /\ t.status \in Up
      BY <3>1, <3>2 DEF SeatInv, GameInv, Agree, Empty
    <3>4. Leaving(Now, {}) /\ Idle(Now.t) /\ ~GameOn  BY <3>3, NowLeaving
    <3>5. PICK A : Leaving(a, A) /\ Idle(a.t)  BY <3>1, <3>4, LeavingKickOut
    <3>. HIDE DEF a
    <3>6. PICK B : Leaving(b, B) /\ Idle(b.t)  BY <3>1, <3>5, LeavingKickOut
    <3>. HIDE DEF b
    <3>7. PICK C : Leaving(c, C)  BY <3>1, <3>6, LeavingKickOut
    <3>. HIDE DEF c
    <3>. QED  BY <3>1, <3>4, <3>7, LeavingKeeps
  <2>. QED  BY <1>15, <2>1, <2>2 DEF OnTimer_ready
<1>16. CASE Tick
  <2>. DEFINE y == [Now EXCEPT !.t.trustee = @ - 1]
  <2>1. y.t.status = t.status /\ y.t.chair = t.chair /\ y.db = db /\ y.trail = {}
    BY <1>1 DEF Work, Table
  <2>2. Step(y)  BY <1>16 DEF Tick
  <2>. HIDE DEF y
  <2>. QED  BY <2>1, <2>2, NothingKeeps
<1>17. CASE Crash
  <2>1. t' = Gone /\ db' = db /\ t.status \in Up
    BY <1>1, <1>17 DEF Crash, Table, Statuses, Up
  <2>2. Begun(Now)  BY <2>1, NowBegun
  <2>3. \A s \in Seat : db'.chair[s].there <=> s \in HeldSeats
    BY <1>1, <2>1, <2>2, TakingIs DEF Begun, HeldSeats
  <2>4. ~GameOn => db'.status # "betting"  BY <1>1, <2>1, <2>2 DEF Begun
  <2>5. HeldSeats \in SUBSET Seat  BY DEF HeldSeats
  <2>6. Seats!Restart  BY <2>1, <2>3, <2>4, <2>5, Restarts
  <2>. QED  BY <2>1, <2>6, GoneFits DEF Implements, Seats!Next
<1>. QED
  BY <1>3, <1>4, <1>5, <1>7, <1>8, <1>9, <1>10, <1>11, <1>13, <1>14, <1>15, <1>16, <1>17
     DEF Next

-----------------------------------------------------------------------------
LEMMA SeatInit == Init => SeatInv /\ Seats!Init
<1>. SUFFICES ASSUME Init  PROVE SeatInv /\ Seats!Init
  OBVIOUS
<1>1. RowFull(db)  BY DEF Init, NoRow, RowFull, Up
<1>2. GameInv  BY <1>1, FreshTyped, GoneAgrees DEF Init, GameInv, TypeOK
<1>3. SeatInv  BY <1>2, GoneFits DEF Init, SeatInv
<1>4. t.status = "down" /\ db.status = "waiting" /\ \A s \in Seat : ~db.chair[s].there
  BY DEF Init, Gone, NoRow, NoChair
<1>5. \A s \in Seat : SeatAs(s) = "free"  BY <1>4 DEF SeatAs
<1>6. GameOn = FALSE  BY <1>4, GameOnOrNot DEF GameOn
<1>. QED  BY <1>3, <1>5, <1>6 DEF Seats!Init

(* The table keeps what Seats promises: Sitdown, Standup, KickOut, Offline,*)
(* GameStart and GameEnd change the seats only as it says, whatever is     *)
(* dealt and played, and what Init and LoadInfo put back after a crash at  *)
(* any write of any handler is what a restart may leave.                   *)
THEOREM SeatsImplemented == Spec => KeepsSeats
<1>1. Init => SeatInv /\ Seats!Init  BY SeatInit
<1>2. SeatInv /\ [Next]_vars => SeatInv' /\ [Seats!Next]_(Seats!seats)
  <2>. SUFFICES ASSUME SeatInv, [Next]_vars  PROVE SeatInv' /\ [Seats!Next]_(Seats!seats)
    OBVIOUS
  <2>1. CASE Next
    <3>1. Implements  BY <2>1, SeatStep
    <3>2. GameInv'  BY <2>1, TypedStep, GameStep DEF SeatInv, GameInv
    <3>. QED  BY <3>1, <3>2 DEF Implements, SeatInv
  <2>2. CASE UNCHANGED vars
    <3>1. t' = t /\ db' = db /\ crashes' = crashes  BY <2>2 DEF vars
    <3>2. SeatInv'
      BY <3>1 DEF SeatInv, GameInv, TypeOK, RowFull, Agree, Full, Empty, Held, IsBetting, Idle,
                  Back, Exact
    <3>3. \A s \in Seat : SeatAs(s)' = SeatAs(s)  BY <3>1 DEF SeatAs
    <3>4. UNCHANGED GameOn  BY <3>1 DEF GameOn, IsBetting
    <3>5. UNCHANGED Seats!seats  BY <3>3, <3>4, SameView DEF Seats!seats
    <3>. QED  BY <3>2, <3>5
  <2>. QED  BY <2>1, <2>2
<1>. QED  BY <1>1, <1>2, PTL DEF Spec, KeepsSeats, Seats!Spec

Promise == INSTANCE SeatsProofs
             WITH Places <- Seat, seat <- [s \in Seat |-> SeatAs(s)], game <- GameOn

(* So a player loses his chair only while no game is played and after he   *)
(* has come back to it since the last restart.                             *)
THEOREM ChairsKept == Spec => Seats!SeatKept
<1>1. Seats!Spec => Seats!SeatKept
  BY Promise!SeatsKept, PTL
     DEF Seats!Spec, Seats!Init, Seats!Next, Seats!seats, Seats!Sit,
         Seats!Return, Seats!Drop, Seats!Leave, Seats!Start, Seats!End,
         Seats!Restart, Seats!Taken, Seats!Which, Seats!Becomes,
         Seats!Complete, Seats!SeatKept, Promise!Spec, Promise!Init,
         Promise!Next, Promise!seats, Promise!Sit, Promise!Return,
         Promise!Drop, Promise!Leave, Promise!Start, Promise!End,
         Promise!Restart, Promise!Taken, Promise!Which, Promise!Becomes,
         Promise!Complete, Promise!SeatKept
<1>. QED  BY <1>1, SeatsImplemented DEF KeepsSeats
=============================================================================
