----------------------------- MODULE GameTable -----------------------------
(***************************************************************************)
(* One table of the server (src/gameTable.cpp): its seats, the game that   *)
(* is played at it, its two timers and its row in the database, from which *)
(* the table is rebuilt after a restart of the process.                    *)
(*                                                                         *)
(* Every handler runs to completion on the event loop, so a handler is one *)
(* action.  A handler is written as a transformer of x = [t, db, trail]:   *)
(* the table in memory, the database, and every state the database went    *)
(* through on the way.  A crash in the middle of the handler leaves one of *)
(* those and no table.                                                     *)
(***************************************************************************)
EXTENDS Integers, FiniteSets

CONSTANTS
  NP,             \* _Game_Players: 2 or 3
  RoomType,       \* GetRoomType(): 0 for the server's tables, 1 for friends' rooms
  FirstRule,      \* _firstCard: the first play has to hold the three of spades
  BirdRule,       \* _birdCard: the seat of the ten of hearts plays for double
  HighStake,      \* GetBaseMoney() >= 10000: bombs are free and a player may run
  TurnTime,       \* TIMEOUT_ACTION in ticks
  MaxCrashes,     \* bound: restarts of the process
  OpeningCard,    \* the three of spades
  BirdCard,       \* the ten of hearts
  Deals,          \* bound: the deals of the shuffled deck
  Kind(_), Rank(_), TripleGroups(_),   \* CardAnalysis, see PlayRules
  HasTip(_, _),         \* CardFind::tip(last, hand) finds a play
  AutoFollow(_, _, _),  \* the first play of CardFind::find(type, last, hand), or {}
  AutoLead(_)           \* HoleCards::robot(hand)

INSTANCE PlayRules

Seat == 0..(NP - 1)
NoOne == -1     \* an unset _banker_seatid or _birdSeatid
Off == -1       \* a timer that is not enabled
Many == 2       \* _gameTimes counts further, but is only compared with 1

ASSUME PlayersAssumption == NP \in 2..3 /\ RoomType \in 0..1
ASSUME RulesAssumption ==
  /\ FirstRule \in BOOLEAN /\ BirdRule \in BOOLEAN /\ HighStake \in BOOLEAN
  /\ TurnTime \in Nat \ {0} /\ MaxCrashes \in Nat
(* get_hole_cards takes the cards of a player, several ones, off the deck. *)
ASSUME DealsAssumption ==
  /\ Deals # {}
  /\ \A d \in Deals :
       /\ DOMAIN d = Seat
       /\ \A s \in Seat : d[s] \subseteq Nat /\ IsFiniteSet(d[s]) /\ Cardinality(d[s]) > 1
       /\ \A r, s \in Seat : r # s => d[r] \cap d[s] = {}
  /\ NP = 3 => \A d \in Deals : \E s \in Seat : OpeningCard \in d[s]

(* The hands of a game, and the plays from them.                           *)
Hands == {{}} \cup UNION {SUBSET d[s] : d \in Deals, s \in Seat}

(* The library plays cards of the hand it is asked about.                  *)
ASSUME LibraryAssumption ==
  \A hand \in Hands :
    /\ Kind(hand) \in CardTypes
    /\ hand # {} => AutoLead(hand) \subseteq hand /\ AutoLead(hand) # {}
    /\ \A type \in CardTypes, last \in Hands : AutoFollow(type, last, hand) \subseteq hand

(* A card by itself is a single, and higher cards have higher faces:       *)
(* Card::compare looks at the face first.                                  *)
ASSUME SinglesAssumption ==
  \A hand \in Hands : \A c \in hand :
    Kind({c}) = "ONE" /\ \A d \in hand : c <= d => Rank({c}) <= Rank({d})

VARIABLES
  t,        \* the GameTable object
  db,       \* its row in redis, and the payments of the money database
  crashes   \* restarts so far

vars == <<t, db, crashes>>

-----------------------------------------------------------------------------
(* "down": no object is in memory.  "closed": a friends' room is dismissed. *)
Statuses == {"down", "closed", "waiting", "start", "betting", "endgame"}

(***************************************************************************)
(* A seat.  who tells the chair and its player's connection apart: "none"  *)
(* is a free chair, "off" a player whose connection broke, "restored" one  *)
(* that LoadInfo put back and who has not come to the table since.         *)
(***************************************************************************)
Chair == [who : {"none", "on", "off", "restored"}, ready : BOOLEAN, single : BOOLEAN,
          hand : Hands, bomb : Int]

Table == [status : Statuses, chair : [Seat -> Chair], curr : Seat,
          newRound : BOOLEAN, opened : BOOLEAN, passes : Nat,
          last : Hands, lastType : CardTypes,
          banker : Seat \cup {NoOne}, bird : Seat \cup {NoOne}, games : 0..Many,
          readyOn : BOOLEAN, trustee : (0..TurnTime) \cup {Off}]

(***************************************************************************)
(* The row.  A field that was never written reads as 0: begun says whether *)
(* status, banker and gameTimes were written, called whether the fields of *)
(* SaveCallInfo were.  The row never stores the ready flags of a chair as  *)
(* set, nor _birdSeatid.  paid counts, for the game in progress, how often *)
(* its settlement was booked on the account of a seat.                     *)
(***************************************************************************)
SavedChair == [there : BOOLEAN, single : BOOLEAN, hand : Hands, bomb : Int]

Database == [begun : BOOLEAN, status : Statuses, banker : Seat \cup {NoOne}, games : 0..Many,
             chair : [Seat -> SavedChair],
             called : BOOLEAN, curr : Seat, opened : BOOLEAN, passes : Nat,
             newRound : BOOLEAN, last : Hands,
             paid : [Seat -> Nat]]

(* TableChair::Clear and ResetFlags.                                       *)
Flagless(who) == [who |-> who, ready |-> FALSE, single |-> FALSE, hand |-> {}, bomb |-> 0]

(* Init and InitChair.                                                     *)
Fresh == [status |-> "waiting", chair |-> [s \in Seat |-> Flagless("none")], curr |-> 0,
          newRound |-> TRUE, opened |-> FALSE, passes |-> 0, last |-> {}, lastType |-> "ERROR",
          banker |-> NoOne, bird |-> NoOne, games |-> 0, readyOn |-> FALSE, trustee |-> Off]

Gone == [Fresh EXCEPT !.status = "down"]

NoChair == [there |-> FALSE, single |-> FALSE, hand |-> {}, bomb |-> 0]

NoRow == [begun |-> FALSE, status |-> "waiting", banker |-> 0, games |-> 0,
          chair |-> [s \in Seat |-> NoChair],
          called |-> FALSE, curr |-> 0, opened |-> FALSE, passes |-> 0,
          newRound |-> FALSE, last |-> {}, paid |-> [s \in Seat |-> 0]]

RowThere(d) == d.begun \/ d.called \/ \E s \in Seat : d.chair[s].there

Init == t = Gone /\ db = NoRow /\ crashes = 0

Held(u, s) == u.chair[s].who # "none"
Full(u) == \A s \in Seat : Held(u, s)
Empty(u) == \A s \in Seat : ~Held(u, s)
Connected(s) == t.chair[s].who = "on"
IsOffline(u, s) == u.chair[s].who \in {"off", "restored"}
IsBetting(u) == u.status \in {"start", "betting"}
Idle(u) == u.status \in {"waiting", "endgame"}

NextSeat(s) == (s + 1) % NP
PrevSeat(s) == (s + NP - 1) % NP

(* Mutant of Top: the hand is sorted the other way round.                  *)
Bottom(hand) == {c \in hand : \A d \in hand : d >= c}

(* The play of the highest card of a hand.                                 *)
Top(hand) == {c \in hand : \A d \in hand : d <= c}

-----------------------------------------------------------------------------
(* Writes to the database.                                                 *)

Doing(u, d) == [t |-> u, db |-> d, trail |-> {}]

Put(x, d) == [x EXCEPT !.db = d, !.trail = @ \cup {d}]

(* Mutant of Serialized: the report of the last card is not stored.        *)
SerializedSilent(c) == [there |-> TRUE, single |-> FALSE, hand |-> c.hand, bomb |-> c.bomb]

Serialized(c) == [there |-> TRUE, single |-> c.single, hand |-> c.hand, bomb |-> c.bomb]

(* SaveChairInfo of one chair.                                             *)
SaveChair(x, s) == Put(x, [x.db EXCEPT !.chair[s] = Serialized(x.t.chair[s])])

(* The chairs in a row, each with a command of its own.                    *)
SaveChairs(x) ==
  LET Upto(n) == [x.db EXCEPT !.chair =
        [s \in Seat |-> IF s <= n THEN Serialized(x.t.chair[s]) ELSE x.db.chair[s]]]
  IN [x EXCEPT !.db = Upto(NP - 1), !.trail = @ \cup {Upto(n) : n \in Seat}]

(* SaveBankerInfo, and the first command of SaveGameInfo.                  *)
SaveBanker(x) ==
  Put(x, [x.db EXCEPT !.begun = TRUE, !.status = x.t.status,
                      !.banker = x.t.banker, !.games = x.t.games])

SaveGame(x) == SaveChairs(SaveBanker(x))

(* The call fields, which SaveCallInfo and SaveChairInfo() both write.     *)
CallOf(d, u) == [d EXCEPT !.called = TRUE, !.curr = u.curr, !.opened = u.opened,
                          !.passes = u.passes, !.newRound = u.newRound, !.last = u.last]

(* Mutant of SaveCall: it writes the chair that has the turn.              *)
SaveCallNext(x) ==
  Put(x, [CallOf(x.db, x.t) EXCEPT !.chair[x.t.curr] = Serialized(x.t.chair[x.t.curr])])

(* SaveCallInfo writes the chair that played or passed last with them.     *)
SaveCall(x) ==
  LET p == PrevSeat(x.t.curr) IN
  Put(x, [CallOf(x.db, x.t) EXCEPT !.chair[p] = Serialized(x.t.chair[p])])

DeleteChair(x, s) == Put(x, [x.db EXCEPT !.chair[s] = NoChair])

DeleteRow(x) == Put(x, [NoRow EXCEPT !.paid = x.db.paid])

(* The accounts of the seats, in the order of the sets of seats paid.      *)
Pay(x, prefixes) ==
  LET Paid(P) == [x.db EXCEPT !.paid =
        [s \in Seat |-> IF s \in P THEN x.db.paid[s] + 1 ELSE x.db.paid[s]]]
  IN [x EXCEPT !.db = Paid(Seat), !.trail = @ \cup {Paid(P) : P \in prefixes}]

-----------------------------------------------------------------------------
(* The turn.                                                               *)

(* Mutant of BombScore: the seat of the bomb pays itself.                  *)
BombScoreOfAll(bomber, s) ==
  LET money == IF HighStake THEN 0 ELSE 1 IN
  IF s = bomber THEN money * NP ELSE 0 - money

(* Every other seat pays the seat of the bomb.                             *)
BombScore(bomber, s) ==
  LET money == IF HighStake THEN 0 ELSE 1 IN
  IF s = bomber THEN money * (NP - 1) ELSE 0 - money

PlayBomb(x, bomber) ==
  LET y == [x EXCEPT !.t.chair =
              [s \in Seat |-> [x.t.chair[s] EXCEPT !.bomb = @ + BombScore(bomber, s)]]]
  IN SaveChairs(Put(y, CallOf(y.db, y.t)))

(* Mutants of Arm: the time of an enabled timer is extended; the timer is  *)
(* not started.                                                            *)
ArmLonger(x) == [x EXCEPT !.t.trustee = @ + TurnTime]
ArmNever(x) == x

(* Reset of an enabled timer changes nothing.                              *)
Arm(x) == [x EXCEPT !.t.trustee = IF @ = Off THEN TurnTime ELSE @]

Disarm(x) == [x EXCEPT !.t.trustee = Off]

CountPass(u) == [u EXCEPT !.opened = TRUE, !.passes = @ + 1]

(* Mutant of Passed: the passes of a round that is over are kept.          *)
PassedOnAndOn(x) ==
  LET y == [Disarm(x) EXCEPT !.t = CountPass(@)] IN
  IF y.t.passes < NP - 1 THEN y
  ELSE [y EXCEPT !.t = [@ EXCEPT !.newRound = TRUE, !.last = {}, !.lastType = "ERROR"]]

(* The part of UserPass that both callers reach, up to UpdateCallInfo.     *)
Passed(x) ==
  LET y == [Disarm(x) EXCEPT !.t = CountPass(@)]
      z == [y EXCEPT !.t = [@ EXCEPT !.newRound = TRUE, !.passes = 0]]
      b == IF x.t.lastType = "BOMB" THEN PlayBomb(z, NextSeat(x.t.curr)) ELSE z
  IN IF y.t.passes < NP - 1 THEN y
     ELSE [b EXCEPT !.t = [@ EXCEPT !.last = {}, !.lastType = "ERROR"]]

(* UpdateCallInfo up to its save.                                          *)
Called(x, s) == SaveCall([x EXCEPT !.t.curr = s])

(* AutoPass: an absent player passes at once when there is nothing to play. *)
PassesAlone(x) ==
  /\ IsOffline(x.t, x.t.curr)
  /\ ~x.t.newRound
  /\ ~HasTip(x.t.last, x.t.chair[x.t.curr].hand)

(***************************************************************************)
(* UpdateCallInfo after its save.  AutoPass calls UserPass, which calls    *)
(* UpdateCallInfo for the next seat: at most NP - 1 passes end the round,  *)
(* and whoever opens a round does not pass.                                *)
(***************************************************************************)
PassOn(x) == LET y == Passed(x) IN Called(y, NextSeat(y.t.curr))

Await(x) ==
  IF ~PassesAlone(x) THEN Arm(x)
  ELSE LET y == PassOn(x) IN
       IF ~PassesAlone(y) THEN Arm(y) ELSE Arm(PassOn(y))

Turn(x, s) == Await(Called(x, s))

-----------------------------------------------------------------------------
(* The end of a game.                                                      *)

ResetFlags(u) ==
  [u EXCEPT !.chair = [s \in Seat |-> IF Held(u, s) THEN Flagless(u.chair[s].who) ELSE u.chair[s]]]

StartReadyTimer(x) == [x EXCEPT !.t.readyOn = TRUE]

(* Mutant of Settle: the banker of the game opens the next one.            *)
SettleForBanker(x, winner, prefixes) ==
  LET a == SaveBanker(Pay([x EXCEPT !.t.status = "endgame"], prefixes))
  IN [StartReadyTimer(a) EXCEPT !.t = ResetFlags(StartReadyTimer(a).t)]

(* GameEnd and GameEndSpecial, from the payments on.                       *)
Settle(x, winner, prefixes) ==
  LET a == Pay([x EXCEPT !.t.status = "endgame"], prefixes)
      b == SaveBanker([a EXCEPT !.t.banker = IF RoomType = 1 THEN winner ELSE NoOne])
  IN [StartReadyTimer(b) EXCEPT !.t = ResetFlags(StartReadyTimer(b).t)]

GameEnd(x) == Settle(x, x.t.curr, {0..n : n \in Seat})

(* Of two players, the one who runs loses and is booked first.             *)
GameEndSpecial(x, runner) ==
  LET winner == NextSeat(runner) IN Settle(Disarm(x), winner, {{runner}, {runner, winner}})

(* Mutant of LastCard: two cards are reported, too.                        *)
LastCards(left) == Cardinality(left) \in 1..2

(* A seat reports its last card.                                           *)
LastCard(left) == Cardinality(left) = 1

(***************************************************************************)
(* CallPlayCard: the cards leave the hand of the seat whose turn it is.    *)
(* A bomb that is the last play is booked before the game ends.            *)
(***************************************************************************)
CallPlayCard(x, cards, type) ==
  LET s == x.t.curr
      left == x.t.chair[s].hand \ cards
      after == [x.t.chair[s] EXCEPT !.hand = left, !.single = @ \/ LastCard(left)]
      y == [x EXCEPT !.t = [@ EXCEPT !.opened = TRUE, !.passes = 0, !.newRound = FALSE,
                                     !.last = cards, !.lastType = type, !.chair[s] = after]]
  IN IF left # {} THEN Turn(y, NextSeat(s))
     ELSE GameEnd(IF type = "BOMB" THEN PlayBomb(y, s) ELSE y)

(* Mutant of PassTurn: the turn stays.                                     *)
PassInPlace(x) == LET y == Passed(x) IN Turn(y, y.t.curr)

(* UserPass, when it has been checked that the seat may pass.              *)
PassTurn(x) == LET y == Passed(x) IN Turn(y, NextSeat(y.t.curr))

(* Whether the server opens a game of three with the three of spades.      *)
OpensGame(u) == ~u.opened /\ FirstRule /\ NP = 3

(* AutoPlayCard: what the server plays for the seat whose turn it is.      *)
AutoPlayCard(x) ==
  LET hand == x.t.chair[x.t.curr].hand
      nextIsSingle == x.t.chair[NextSeat(x.t.curr)].single
      top == Top(hand)
      lead == AutoLead(hand)
      follow == AutoFollow(x.t.lastType, x.t.last, hand)
  IN IF x.t.newRound
     THEN IF OpensGame(x.t) THEN CallPlayCard(x, {OpeningCard}, "ONE")
          ELSE IF Kind(lead) = "ONE" /\ nextIsSingle THEN CallPlayCard(x, top, "ONE")
          ELSE CallPlayCard(x, lead, Kind(lead))
     ELSE IF x.t.lastType = "ONE" /\ nextIsSingle /\ Rank(top) > Rank(x.t.last)
          THEN CallPlayCard(x, top, "ONE")
          ELSE IF follow = {} THEN PassTurn(x) ELSE CallPlayCard(x, follow, Kind(follow))

-----------------------------------------------------------------------------
(* The start of a game.                                                    *)

(* Mutant of HolderOf: the search stops before the last seat.              *)
HolderBeforeLast(deal, card, otherwise) ==
  LET First == 0..(NP - 2) IN
  IF \E s \in First : card \in deal[s] THEN CHOOSE s \in First : card \in deal[s] ELSE otherwise

HolderOf(deal, card, otherwise) ==
  IF \E s \in Seat : card \in deal[s] THEN CHOOSE s \in Seat : card \in deal[s] ELSE otherwise

(* Mutant of Dealers: chance names the dealer of three players, too.       *)
AnyDealer(deal) == Seat

(* GameStart.  Three players hold the whole deck, so the three of spades   *)
(* names the dealer; of two players, a random card does, or chance.        *)
Dealers(deal) == IF NP = 3 THEN {HolderOf(deal, OpeningCard, 0)} ELSE Seat

Dealt(u, deal, dealer) ==
  [u EXCEPT !.status = "start", !.games = IF @ < Many THEN @ + 1 ELSE Many,
            !.readyOn = FALSE, !.opened = FALSE, !.passes = 0, !.last = {}, !.lastType = "ERROR",
            !.chair = [s \in Seat |-> [Flagless(u.chair[s].who) EXCEPT !.hand = deal[s]]],
            !.bird = IF BirdRule THEN HolderOf(deal, BirdCard, NoOne) ELSE NoOne,
            !.banker = IF @ = NoOne THEN dealer ELSE @]

(* PlayCard: the game is saved as started, then as being played.           *)
GameStart(x, deal, dealer) ==
  LET a == [x EXCEPT !.t = Dealt(x.t, deal, dealer), !.db.paid = [s \in Seat |-> 0]]
      b == SaveGame([SaveGame(a) EXCEPT !.t = [@ EXCEPT !.status = "betting", !.newRound = TRUE]])
  IN Turn(b, b.t.banker)

-----------------------------------------------------------------------------
(* Coming and going.                                                       *)

(***************************************************************************)
(* LoadInfo.  Chairs come back as those of absent players; what a game in  *)
(* progress needs comes back from the call fields, the type of the last    *)
(* play from an analysis of its cards.  _birdSeatid is read although       *)
(* nothing writes it, and reads as seat 0.  A table saved as started is    *)
(* one that waits, but only after its ready timer was considered.          *)
(***************************************************************************)
Restored(d) ==
  LET Sat(s) == IF d.chair[s].there
                THEN [who |-> "restored", ready |-> FALSE, single |-> d.chair[s].single,
                      hand |-> d.chair[s].hand, bomb |-> d.chair[s].bomb]
                ELSE Flagless("none")
      seated == [Fresh EXCEPT !.status = d.status, !.chair = [s \in Seat |-> Sat(s)],
                              !.banker = d.banker, !.games = d.games]
  IN CASE d.status = "betting" ->
            [seated EXCEPT
               !.bird = IF BirdRule THEN 0 ELSE NoOne,
               !.curr = d.curr, !.opened = d.opened,
               !.newRound = IF d.called THEN d.newRound ELSE TRUE,
               !.passes = IF d.called THEN d.passes ELSE 0,
               !.last = d.last, !.lastType = IF d.last = {} THEN "ERROR" ELSE Kind(d.last)]
       [] d.status = "start" -> [seated EXCEPT !.status = "waiting"]
       [] OTHER -> [seated EXCEPT !.readyOn = TRUE]

Load(x) ==
  IF ~RowThere(x.db) THEN [x EXCEPT !.t = Fresh]
  ELSE LET y == [x EXCEPT !.t = Restored(x.db)] IN
       IF y.t.status = "betting" THEN Await(y) ELSE y

(* The table as FindTable gives it to who enters.                          *)
Found(x) == IF x.t.status = "down" THEN Load(x) ELSE x

(* Mutant of AwaitReady: the timer is not started.                         *)
AwaitNothing(x) == x

(* The end of Sitdown.                                                     *)
AwaitReady(x) == IF Idle(x.t) THEN StartReadyTimer(x) ELSE x

(* LeaveTable.  Who leaves a friends' room ends its row of games; the last *)
(* one to leave deletes the row, and dismisses a friends' room.            *)
LeaveTable(x, s) ==
  LET a == IF RoomType = 1 /\ x.t.banker # NoOne
           THEN SaveBanker([x EXCEPT !.t = [@ EXCEPT !.banker = NoOne, !.games = 0]]) ELSE x
      b == DeleteChair([a EXCEPT !.t.chair[s] = Flagless("none")], s)
      c == IF RoomType = 1 THEN [b EXCEPT !.t = [Gone EXCEPT !.status = "closed"]] ELSE b
  IN IF Empty(b.t) THEN DeleteRow(c) ELSE b

-----------------------------------------------------------------------------
(* Actions.                                                                *)

(* A handler ends, or the process dies after one of its writes.            *)
Completes(x) == t' = x.t /\ db' = x.db /\ UNCHANGED crashes

CutShort(x) ==
  /\ crashes < MaxCrashes
  /\ t' = Gone /\ db' \in x.trail /\ crashes' = crashes + 1

Step(x) == Completes(x) \/ CutShort(x)

Now == Doing(t, db)

(* Sitdown of a player who has no chair, on the first free one.  Chance    *)
(* leads a player to a table in memory or a new one; msg_Login lets him    *)
(* name any other, which FindTable then loads.                             *)
SitNew ==
  LET x == Found(Now)
      s == CHOOSE n \in Seat : ~Held(x.t, n) /\ \A m \in Seat : ~Held(x.t, m) => n <= m
  IN /\ t.status # "closed"
     /\ ~Full(x.t)
     /\ Step(AwaitReady(SaveChair([x EXCEPT !.t.chair[s] = Flagless("on")], s)))

(* A player who may not sit down has the table loaded: it turns out to be  *)
(* full, or EnterRoom only then asks whether he has the money to enter.    *)
Look == t.status = "down" /\ Step(Found(Now))

(* Mutant of Return: the chair of who returns is cleared.                  *)
ReturnCleared(s) ==
  LET x == Found(Now) IN
  /\ IsOffline(x.t, s)
  /\ Step(AwaitReady([x EXCEPT !.t.chair[s] = Flagless("on")]))

(* Sitdown of a player who has a chair.                                    *)
Return(s) ==
  LET x == Found(Now) IN
  /\ IsOffline(x.t, s)
  /\ Step(AwaitReady([x EXCEPT !.t.chair[s].who = "on"]))

(* Offline.                                                                *)
Disconnect(s) ==
  /\ Connected(s)
  /\ Step([Now EXCEPT !.t.chair[s].who = "off"])

(* Mutant of Quit: a player leaves a game that is played.                  *)
QuitAnytime(s) == Connected(s) /\ Step(LeaveTable(Now, s))

(* GameRoom::Logout: Standup, or Offline while a game is played.           *)
Quit(s) ==
  /\ Connected(s)
  /\ Step(IF IsBetting(t) THEN [Now EXCEPT !.t.chair[s].who = "off"] ELSE LeaveTable(Now, s))

(* handle_ready of a player who has the money.                             *)
Ready(s) ==
  LET x == [Now EXCEPT !.t.chair[s].ready = TRUE] IN
  /\ Connected(s) /\ ~IsBetting(t)
  /\ IF \A n \in Seat : Held(x.t, n) /\ x.t.chair[n].ready
     THEN \E deal \in Deals : \E dealer \in Dealers(deal) : Step(GameStart(x, deal, dealer))
     ELSE Step(x)

(* The rule of a room's first play.  Cards are compared by operator==,     *)
(* which compares their faces.                                             *)
FirstPlayOK(cards) ==
  NP = 3 /\ ~t.opened /\ t.games <= 1 /\ FirstRule =>
    \E c \in cards : Rank({c}) = Rank({OpeningCard})

(* handle_bet and UserPlayCard, when the play is accepted.                 *)
Play(s, cards) ==
  /\ t.status = "betting" /\ s = t.curr /\ Connected(s)
  /\ Accepts(cards, t.chair[s].hand, t.newRound, t.last, t.lastType, t.chair[NextSeat(s)].single)
  /\ FirstPlayOK(cards)
  /\ Step(CallPlayCard(Disarm(Now), cards, PlayedType(cards, t.chair[s].hand)))

(* handle_bet and UserPass.  Who could play does: the server plays for him. *)
Pass(s) ==
  /\ t.status = "betting" /\ s = t.curr /\ Connected(s)
  /\ ~t.newRound
  /\ Step(IF HasTip(t.last, t.chair[s].hand) THEN AutoPlayCard(Now) ELSE PassTurn(Now))

(* Mutant of Run: a player runs from a game that has ended.                *)
RunAnytime(s) == Connected(s) /\ NP = 2 /\ HighStake /\ Step(GameEndSpecial(Now, s))

(* handle_run.                                                             *)
Run(s) ==
  /\ t.status = "betting" /\ Connected(s) /\ NP = 2 /\ HighStake
  /\ Step(GameEndSpecial(Now, s))

(* HoleCards::robot reads the first card of the triples of an empty hand,  *)
(* an empty vector: the process dies.                                      *)
RobotDies == t.newRound /\ ~OpensGame(t) /\ t.chair[t.curr].hand = {}

(* OnTimer_trustee: the timer is no longer enabled when it calls.          *)
OnTimer_trustee ==
  /\ t.trustee = 0
  /\ IF RoomType = 1 \/ t.status # "betting" THEN Step(Disarm(Now))
     ELSE IF RobotDies THEN t' = Gone /\ UNCHANGED <<db, crashes>>
     ELSE Step(AutoPlayCard(Disarm(Now)))

(* OnTimer_ready throws out the seats whose time to get ready is over, but *)
(* not the restored ones: KickOut asks for the table the player is at.     *)
KickOut(x, s, late) ==
  IF s \in late /\ x.t.chair[s].who \in {"on", "off"} THEN LeaveTable(x, s) ELSE x

Unready(s) == Held(t, s) /\ ~t.chair[s].ready

ThrowOut(late) ==
  /\ t.readyOn /\ RoomType = 0
  /\ \A s \in late : Unready(s)
  /\ Step(KickOut(KickOut(KickOut(Now, 0, late), 1, late), 2, late))

(* Mutant of StopReadyTimer: it stops while there are free seats.          *)
StopWhileFree ==
  /\ t.readyOn /\ (~Full(t) \/ RoomType = 1)
  /\ Step([Now EXCEPT !.t.readyOn = FALSE])

StopReadyTimer ==
  /\ t.readyOn /\ (Empty(t) \/ RoomType = 1)
  /\ Step([Now EXCEPT !.t.readyOn = FALSE])

OnTimer_ready == StopReadyTimer \/ \E late \in (SUBSET Seat) \ {{}} : ThrowOut(late)

Tick ==
  /\ t.trustee > 0
  /\ Step([Now EXCEPT !.t.trustee = @ - 1])

(* The process dies between two handlers.                                  *)
Crash ==
  /\ t.status \notin {"down", "closed"} /\ crashes < MaxCrashes
  /\ t' = Gone /\ crashes' = crashes + 1 /\ UNCHANGED db

Next ==
  \/ SitNew \/ Look
  \/ \E s \in Seat :
       Return(s) \/ Disconnect(s) \/ Quit(s) \/ Ready(s) \/ Pass(s) \/ Run(s)
  \/ \E s \in Seat, cards \in SUBSET t.chair[t.curr].hand : Play(s, cards)
  \/ OnTimer_trustee \/ OnTimer_ready \/ Tick
  \/ Crash

Spec == Init /\ [][Next]_vars

(* Weak fairness: libev calls a timer that is due.  Time goes on, and the  *)
(* trustee plays.  For the long handlers the guard is written out in place *)
(* of ENABLED, which TLC would work out slowly: a timer that is due always *)
(* changes the state.                                                      *)
TrusteeFairness ==
  /\ WF_vars(Tick)
  /\ []<>(t.trustee # 0) \/ []<><<OnTimer_trustee>>_vars

(* The ready timer polls, and the time to get ready of every seat ends.    *)
MayBeThrownOut(s) ==
  t.readyOn /\ RoomType = 0 /\ Unready(s) /\ t.chair[s].who # "restored"

ThrowsOut(s) == \E late \in SUBSET Seat : s \in late /\ ThrowOut(late)

ReadyFairness == \A s \in Seat : []<>~MayBeThrownOut(s) \/ []<><<ThrowsOut(s)>>_vars

FairSpec == Spec /\ TrusteeFairness /\ ReadyFairness

-----------------------------------------------------------------------------
(***************************************************************************)
(* The table as its players see it.  One that is not in memory is what its *)
(* row says, for LoadInfo puts it back so.                                 *)
(***************************************************************************)
Taking(who) ==
  CASE who = "none" -> "free"
    [] who = "on" -> "here"
    [] who = "off" -> "absent"
    [] OTHER -> "restored"

SeatAs(s) ==
  IF t.status = "down" THEN IF db.chair[s].there THEN "restored" ELSE "free"
  ELSE Taking(t.chair[s].who)

GameOn == IF t.status = "down" THEN db.status = "betting" ELSE IsBetting(t)

Seats == INSTANCE Seats WITH Places <- Seat, seat <- [s \in Seat |-> SeatAs(s)], game <- GameOn

-----------------------------------------------------------------------------
(* Properties.                                                             *)

Playing == t.status = "betting"

Hand(s) == t.chair[s].hand

(* The table, its row and the accounts stay within their types.            *)
TypeOK == t \in Table /\ db \in Database /\ crashes \in Nat

(* Standup and KickOut refuse while a game is played, and GameStart stops  *)
(* the ready timer: a game keeps all its players and nobody is thrown out. *)
GameIsFull == IsBetting(t) => Full(t) /\ ~t.readyOn

(* A card is in one hand, or was played: CallPlayCard relies on its        *)
(* callers to play cards of the hand whose turn it is.                     *)
CardsPlayOnce ==
  Playing => \A s \in Seat :
    /\ Hand(s) \cap t.last = {}
    /\ \A r \in Seat : r # s => Hand(s) \cap Hand(r) = {}

(* Rounds: who opens one follows nothing, everyone else follows a play,    *)
(* and the pass that would end the round has ended it.                     *)
RoundShape ==
  Playing => IF t.newRound THEN t.last = {} /\ t.passes = 0
             ELSE t.last # {} /\ t.opened /\ t.passes < NP - 1

(* The scores of the bombs of a game cancel out, whatever was played.      *)
BombsBalance ==
  t.chair[0].bomb + t.chair[1].bomb + (IF NP = 3 THEN t.chair[2].bomb ELSE 0) = 0

(* A seat has reported its last card exactly when it holds one, and a game *)
(* ends with the first empty hand.                                         *)
SingleReported ==
  Playing => \A s \in Seat :
    Hand(s) # {} /\ (t.chair[s].single <=> Cardinality(Hand(s)) = 1)

(* Between two handlers, LoadInfo would find in the row the game that is   *)
(* in memory: a process that dies there loses nothing of it.               *)
RowCurrent ==
  LET r == Restored(db) IN
  Playing =>
    /\ <<r.status, r.banker, r.games>> = <<t.status, t.banker, t.games>>
    /\ <<r.curr, r.opened, r.newRound, r.passes, r.last>>
         = <<t.curr, t.opened, t.newRound, t.passes, t.last>>
    /\ \A s \in Seat :
         /\ <<r.chair[s].hand, r.chair[s].single>> = <<t.chair[s].hand, t.chair[s].single>>
         /\ r.chair[s].bomb = t.chair[s].bomb

(* Who has to open a round can: UserPlayCard accepts some play of the hand, *)
(* for a pass is refused.                                                  *)
LeaderCanPlay ==
  Playing /\ t.newRound =>
    \E cards \in SUBSET Hand(t.curr) :
      /\ Accepts(cards, Hand(t.curr), TRUE, {}, "ERROR", t.chair[NextSeat(t.curr)].single)
      /\ FirstPlayOK(cards)

(* Who holds the ten of hearts has the seat that plays for double.         *)
BirdHolder == Playing /\ BirdRule => \A s \in Seat : BirdCard \in Hand(s) => t.bird = s

(* A game that ends, by its last card or by a player who runs, is settled  *)
(* once on every account; one that is played on is settled on none.        *)
PaidOnce ==
  /\ t.status = "endgame" => \A s \in Seat : db.paid[s] = 1
  /\ IsBetting(t) => \A s \in Seat : db.paid[s] = 0

(* A table of the server polls for late seats while anyone waits who has   *)
(* come to it since it is in memory, present or not.                       *)
ReadyPolled ==
  RoomType = 0 /\ Idle(t) /\ (\E s \in Seat : t.chair[s].who \in {"on", "off"}) => t.readyOn

(* While a game goes on, only the seat whose turn it is loses cards.       *)
OnlyTurnPlays ==
  [][Playing /\ Playing' =>
       \A s \in Seat : Hand(s)' \subseteq Hand(s) /\ (s # t.curr => Hand(s)' = Hand(s))]_vars

(* The cards that leave the hand whose turn it is.                         *)
CardsLeft == IF t'.status = "betting" THEN t.chair[t.curr].hand \ t'.chair[t.curr].hand
             ELSE t.chair[t.curr].hand

(* What leaves a hand, played by the player or by the server, by the turn  *)
(* timer or for who wanted to pass, obeys the rules for a player's plays.  *)
PlaysAccepted ==
  [][/\ Playing /\ t'.status \in {"betting", "endgame"} /\ CardsLeft # {}
     /\ ~\E s \in Seat : Run(s)
     => Accepts(CardsLeft, t.chair[t.curr].hand, t.newRound, t.last, t.lastType,
                t.chair[NextSeat(t.curr)].single)]_vars

(* The seat that played last, while others pass.                           *)
LastPlayer == (t.curr + NP + NP - t.passes - 1) % NP

(* The turn goes round without leaving anyone out, whoever passes by       *)
(* himself, by the server or because he is absent, and when all the others *)
(* have passed it is the last player's turn to open the next round.        *)
TurnOrder ==
  [][Playing /\ Playing' =>
       LET player == IF t.newRound \/ CardsLeft # {} THEN t.curr ELSE LastPlayer
       IN IF t'.newRound THEN t'.curr = player ELSE LastPlayer' = player]_vars

(* A seat that gets the turn has the whole time to play.                   *)
FullTurnTime ==
  [][Playing' /\ (~Playing \/ t'.curr # t.curr) => t'.trustee = TurnTime]_vars

(* Every game at a table of the server ends, whoever is there to play it.  *)
GameEnds == Playing ~> ~Playing

(* A seat that does not get ready is freed.                                *)
LateSeatFreed ==
  \A s \in Seat : (Idle(t) /\ Unready(s)) ~> ~(Idle(t) /\ Unready(s))

(* The table keeps what Seats promises: Sitdown, Standup, KickOut, Offline,*)
(* GameStart and GameEnd change the seats only as it says, and what Init   *)
(* and LoadInfo put back is what a restart may leave.                      *)
KeepsSeats == Seats!Spec

=============================================================================
