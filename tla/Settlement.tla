----------------------------- MODULE Settlement -----------------------------
(***************************************************************************)
(* The money of the players of a table (src/gameTable.cpp, player.cpp,     *)
(* gamedb.cpp): the account of each in the database, the amount that the   *)
(* server remembers of it, and how a game is settled between them.  The    *)
(* turns of the game are those of GameTable; here a game is its bombs and  *)
(* the number of cards that each seat is left with.                        *)
(***************************************************************************)
EXTENDS Integers

CONSTANTS
  NP,           \* _Game_Players: 2 or 3
  Stakes,       \* bound: the base money of the tables
  Fee,          \* GetFee()
  LeaveMoney,   \* GetLeaveMoney()
  FullHand,     \* _gameCardNo: who keeps them all pays for double
  BirdRule,     \* _birdCard
  Starts,       \* bound: what an account holds at first
  TopUp,        \* what a player recharges
  MaxBombs, MaxGames, MaxExtras   \* bounds: bombs of a game, games, extra bookings

Seat == 0..(NP - 1)
NoBird == -1
PhotoPrice == 10

ASSUME PlayersAssumption == NP \in 2..3 /\ BirdRule \in BOOLEAN
ASSUME MoneyAssumption ==
  /\ Stakes \subseteq Nat /\ Fee \in Nat /\ LeaveMoney \in Int /\ TopUp \in Nat
  /\ FullHand \in Nat /\ Starts \subseteq Int
ASSUME BoundsAssumption == MaxBombs \in Nat /\ MaxGames \in Nat /\ MaxExtras \in Nat

VARIABLES
  base,       \* GetBaseMoney(), set with the table
  account,    \* hu:<uid> money of the player on each seat
  known,      \* _userInfo.money
  playing,
  score,      \* bombScore
  bombs, games, extras   \* counts, for the bounds

vars == <<base, account, known, playing, score, bombs, games, extras>>

HighStake == base >= 10000
BombMoney == IF HighStake THEN 0 ELSE 10 * base

Init ==
  /\ base \in Stakes
  /\ account \in [Seat -> Starts] /\ known = account
  /\ playing = FALSE /\ score = [s \in Seat |-> 0]
  /\ bombs = 0 /\ games = 0 /\ extras = 0

(* handle_ready of all: who seems to lack the money is looked up again.    *)
GameStart ==
  LET seen == [s \in Seat |-> IF known[s] < LeaveMoney THEN account[s] ELSE known[s]] IN
  /\ ~playing /\ games < MaxGames
  /\ \A s \in Seat : seen[s] >= LeaveMoney
  /\ known' = seen /\ playing' = TRUE /\ score' = [s \in Seat |-> 0]
  /\ bombs' = 0 /\ games' = games + 1
  /\ UNCHANGED <<base, account, extras>>

PlayBomb(bomber) ==
  /\ playing /\ bombs < MaxBombs
  /\ score' = [s \in Seat |-> score[s] +
                 IF s = bomber THEN BombMoney * (NP - 1) ELSE 0 - BombMoney]
  /\ bombs' = bombs + 1
  /\ UNCHANGED <<base, account, known, playing, games, extras>>

(* A payment from outside, of which the server only hears later.           *)
Pay(s) ==
  /\ extras < MaxExtras
  /\ account' = [account EXCEPT ![s] = @ + TopUp]
  /\ extras' = extras + 1
  /\ UNCHANGED <<base, known, playing, score, bombs, games>>

handle_recharge(s) ==
  /\ known' = [known EXCEPT ![s] = account[s]]
  /\ UNCHANGED <<base, account, playing, score, bombs, games, extras>>

(* handle_forward of a paid picture: IncrMoney returns the new amount.     *)
handle_forward(s, count) ==
  /\ extras < MaxExtras
  /\ known[s] >= count * PhotoPrice + LeaveMoney
  /\ account' = [account EXCEPT ![s] = @ - count * PhotoPrice]
  /\ known' = [known EXCEPT ![s] = account'[s]]
  /\ extras' = extras + 1
  /\ UNCHANGED <<base, playing, score, bombs, games>>

-----------------------------------------------------------------------------
(* GameEnd.                                                                *)

(* What a seat owes the winner for the cards it is left with.              *)
Owed(s, winner, cards, bird) ==
  LET cost == IF cards >= FullHand THEN cards * base * 2
              ELSE IF cards > 1 THEN cards * base ELSE 0
  IN IF HighStake THEN 0 ELSE IF bird \in {s, winner} THEN 2 * cost ELSE cost

(* useMoney: the cards, then the bombs.                                    *)
Total(f) == f[0] + f[1] + (IF NP = 3 THEN f[2] ELSE 0)

Raw(winner, left, bird) ==
  LET owed == [s \in Seat |-> IF s = winner THEN 0 ELSE Owed(s, winner, left[s], bird)]
  IN [s \in Seat |-> score[s] + (IF s = winner THEN Total(owed) ELSE 0 - owed[s])]

(* A seat loses no more than it has, and nothing when it has less than 0.  *)
Capped(raw, has) ==
  [s \in Seat |-> IF raw[s] < 0 /\ has[s] < 0 - raw[s]
                  THEN IF has[s] < 0 THEN 0 ELSE 0 - has[s]
                  ELSE raw[s]]

(* Mutants of Balanced: what is missing is taken from nobody, or twice     *)
(* from who wins.                                                          *)
Unbalanced(capped, missing, winner) == capped

TakenTwice(capped, missing, winner) ==
  [s \in Seat |-> IF capped[s] > 0 THEN capped[s] - 2 * missing ELSE capped[s]]

(* What the losers could not pay is taken from those who win, in the order *)
(* of the seats after the winner's.  A seat that wins less is set to 0     *)
(* before its amount is subtracted from what is still to be taken, so that *)
(* this never becomes less: the first seat that wins enough pays for all.  *)
Balanced(capped, missing, winner) ==
  LET Place(s) == (s - winner - 1) % NP
      Enough(s) == capped[s] > 0 /\ capped[s] >= missing
      Spared(s) == \E r \in Seat : Enough(r) /\ Place(r) < Place(s)
  IN [s \in Seat |->
        IF missing = 0 \/ capped[s] <= 0 \/ Spared(s) THEN capped[s]
        ELSE IF Enough(s) THEN capped[s] - missing ELSE 0]

UseMoney(winner, left, bird, has) ==
  LET raw == Raw(winner, left, bird)
      capped == Capped(raw, has)
  IN Balanced(capped, Total(capped) - Total(raw), winner)

(* The fee is booked first, and tells the server what the accounts hold.   *)
GameEnd(winner, left, bird) ==
  LET has == [s \in Seat |-> account[s] - Fee]
      use == UseMoney(winner, left, bird, has)
  IN /\ playing
     /\ account' = [s \in Seat |-> has[s] + use[s]]
     /\ known' = account' /\ playing' = FALSE
     /\ score' = [s \in Seat |-> 0] /\ bombs' = 0
     /\ UNCHANGED <<base, games, extras>>

(* Mutant of Penalty: a runner pays without having the money.              *)
PenaltyOnCredit(runner) == IF runner = 0 THEN base ELSE 0

(* GameEndSpecial of two players: only a runner on seat 0 pays.            *)
Penalty(runner) == IF runner = 0 /\ account[0] >= base THEN base ELSE 0

GameEndSpecial(runner) ==
  /\ playing /\ NP = 2 /\ HighStake
  /\ account' = [s \in Seat |-> account[s] + score[s] +
                   IF s = runner THEN 0 - Penalty(runner) ELSE Penalty(runner)]
  /\ known' = account' /\ playing' = FALSE
  /\ score' = [s \in Seat |-> 0] /\ bombs' = 0
  /\ UNCHANGED <<base, games, extras>>

(* The winner has no cards left, everyone else has some.                   *)
Lefts(winner) == {left \in [Seat -> 0..FullHand] : \A s \in Seat : left[s] = 0 <=> s = winner}

Birds == IF BirdRule THEN Seat ELSE {NoBird}

Ends == \E winner \in Seat : \E left \in Lefts(winner), bird \in Birds : GameEnd(winner, left, bird)

Next ==
  \/ GameStart \/ Ends
  \/ \E s \in Seat :
       PlayBomb(s) \/ Pay(s) \/ handle_recharge(s) \/ GameEndSpecial(s)
       \/ \E count \in 1..2 : handle_forward(s, count)

Spec == Init /\ [][Next]_vars

-----------------------------------------------------------------------------
TypeOK ==
  /\ base \in Nat
  /\ account \in [Seat -> Int] /\ known \in [Seat -> Int] /\ score \in [Seat -> Int]
  /\ playing \in BOOLEAN /\ bombs \in Nat /\ games \in Nat /\ extras \in Nat

Settles == playing /\ ~playing'

(* A settlement moves money between the seats, whatever a loser cannot pay: *)
(* the server keeps the fee of each, or none when a player ran.            *)
Conserved ==
  [][Settles => Total(account') \in {Total(account) - NP * Fee, Total(account)}]_vars

(* What a seat loses beyond its fee never takes its account below zero.    *)
NoOverdraft ==
  [][Settles => \A s \in Seat : account'[s] >= 0 \/ account'[s] >= account[s] - Fee]_vars

(* Whom the cards and the bombs owe nothing is not made to pay for others: *)
(* balancing (UseMoney) is charged to those who win.                       *)
WinnersPayNothing ==
  \A winner \in Seat : \A left \in Lefts(winner), bird \in Birds :
    GameEnd(winner, left, bird) =>
      \A s \in Seat : Raw(winner, left, bird)[s] >= 0 => account'[s] >= account[s] - Fee

WinnersDoNotPay == [][WinnersPayNothing]_vars
=============================================================================
