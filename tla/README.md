# Verification of the pdk card-game server

The repository is the game server of *pao de kuai* (跑得快, "run fast"): two or three
players at a table shed their hands, the first empty hand wins, the others pay for the
cards they are left with. This directory holds TLA+ modules that model the server's core,
TLC configurations that check them on small instances, and proofs for all instances.

The server is a single process around a libev loop. Each message of a player and each
timer is a handler that runs to its end before the next one starts. What has to survive
the process is in redis: a row (hash) per table, a record per player, counters. A table
that is not in memory is rebuilt from its row when somebody enters it. There are no
threads; what is hard is what happens *between* handlers (players who come, go, lose the
connection and return at any moment, two timers per table), *within* one (calls that
nest: a play calls for the next turn, which passes for absent players, which ends rounds
and books bombs), and *when the process dies* between two of the commands that a handler
sends to redis.

The models follow the build that the Makefile makes: without `_ROBOT`, with `TRUSTEE`.

## 1. Inventory

| component | state it keeps | operations | hard behaviour | what makes it correct |
|---|---|---|---|---|
| `GameTable` (gameTable.cpp/.h) | `_status`, chairs (`_ChairInfo`), turn (`_curr_bet`, `_pass_times`, `_bet_times`, `_new_round`, last play), `_banker_seatid`, `_birdSeatid`, `_gameTimes`, two timers, the row | `Sitdown`, `Standup`, `KickOut`, `Offline`, `handle_ready`, `handle_bet` (play, pass), `handle_run`, `handle_recharge`, `handle_forward`, `OnTimer_ready`, `OnTimer_trustee`, `Save*`, `Del*`, `LoadInfo` | absent players are passed for and played for; recursion `UpdateCallInfo` - `AutoPass` - `UserPass`; many commands per handler; restart | a game keeps its players, cards are played once and by whose turn it is, plays obey the rules whoever makes them, the turn goes round, every game ends and is settled once, the row is the game |
| rules of a play (`UserPlayCard`, `CheckPlayCard`) | none | accept or refuse | types that may be played only last; planes made of lines of triples | server and player obey the same rules |
| card library (Cardlib/) | none | `statistics`, `analysis`, `find`, `tip`, `robot` | wings of planes, bombs that lend triples, lines at the ends of the deck, options of the room | what it finds is what the rules accept |
| settlement (`GameEnd`, `GameEndSpecial`, `Player::IncrMoney`, gamedb) | accounts in redis, the server's memory of them, bomb scores | fee, cards, bombs, bird, cap, balancing, penalty | a loser cannot pay, several winners | money moves between the seats and no one is overdrawn |
| `GameServer` | `_setPlayer` (connection to player), `_setOnline`, `_setOffline` (user to player), `_setTempClient`, `_setConnTick` | connect, `msg_Login`, `msg_Logout`, `onClose`, `OnTimeOut`, `OnTimer_tick`, `KickOut`, `CreateUser` | a second login replaces a connection that is closed later; players of a restored table are not there | one object per user, connection and player lead to each other, strangers are closed |
| `GameRoom` | `_setTable`, `_setPlayer`, `_setOffline`, `_setUserTable`, `_arrDismiss` | `EnterRoom`, `FindTable`, `ChangeTable`, `Logout`, `Offline`, `DismissLater`, `OnTimer_dismiss` | a table dismissed seconds after it left the list; a row that is loaded when somebody asks for it | a player is at one table, where his chair is; his last room leads him to it |
| `Player` | id, connection, online, table, room, money | `login`, `logout`, `OnDisconnect`, `EnterRoom`, `OnLeaveRoom`, `IncrMoney`, `GetMoney`, `SetLastRoom` | memory of the money against the account; an account that cannot be read | the memory is the account, up to what failed |
| `EvTimer` | `_enable`, the libev timer | `CreateTimer`, `Reset`, `Stop`, callback | `Reset` of an enabled timer does nothing | the time that was asked for |
| redis client (Database/) | `m_pRedisClient`, the result | `command`, `query`, `execute` | connections that break before, in and after a command; retry loops inside one another | a command happens once or is reported as failed; a write that is repeated survives one fault |
| gamedb | keys of players, rooms, log | `CheckUser`, `GetUserInfo`, `GetZid`, `SetLastRoom`, `IncrMoney`, `GetMoney`, event log | a failure is a 0 | |
| `ClassAward`, JSON, start-up, vendored headers | - | - | not called, or formatting and input/output only | |

How they interact: `GameServer` authenticates a connection and hands messages on to the
`GameRoom`, which finds or makes the `GameTable` and calls its handlers. The table calls
back (`OnLeaveTable`, `DismissLater`), owns two `EvTimer`s whose callbacks are its
methods, asks the card library, and sends commands to redis, each of which is
synchronous. `PROJECT.json` lists the hazards this leads to, each at its line.

## 2. Modules

| module | models | used by |
|---|---|---|
| `PokerCards` | cards, deck, `CardStatistics`, `CardAnalysis::analysis` | `CardFind` |
| `CardFind` | `CardFind::find` with all its searches, `tip`, `HoleCards::robot` | `CardPlays`, `MCGameTable` |
| `PlayRules` | `UserPlayCard`'s verdict, `CheckPlayCard` | `CardPlays`, `GameTable` |
| `CardPlays`, `MCCardPlays` | the library against the rules, on hands that grow card by card | TLC |
| `Seats` | what the server promises to the players of a table (abstract) | `GameTable`, `Session`, `SeatsProofs`, `GameTableProofs` |
| `GameTable` | one table: seats, game, timers, row, crashes | `MCGameTable` and the three modules of proofs about it |
| `MCGameTable` | a table with real cards, whose library is `CardFind` | TLC |
| `Settlement` | the money of a table's players | `MCSettlement`, `SettlementProofs` |
| `MCSettlement` | amounts of money | TLC |
| `Session` | server, room and players around several tables, their accounts and rows, restarts, commands that fail | `MCSession`, `SessionProofs`, `SessionPlaces` |
| `MCSession` | users and connections | TLC |
| `RedisClient` | one command of redis at a time, under its callers' loops, with broken connections and lost replies | TLC, `RedisClientProofs` |
| `GameTableProofs`, `GameTableTurns`, `GameTablePlay`, `SettlementProofs`, `SeatsProofs`, `RedisClientProofs`, `SessionProofs`, `SessionPlaces` | theorems and proofs | TLAPS |

The modules look at the same server from three distances. `GameTable` has all of one
table and its game, and players that come and go as they like. `Session` has all that
makes them come and go, for several tables, of which it keeps who sits where and whether
a game is played. Both implement `Seats`, which is what they have in common and what a
player relies on. `RedisClient` looks into a command, which the other modules take for one
step that happens or not.

Definitions that start with a comment "Mutant of ..." are deliberately wrong versions of
the definition that follows them. They model nothing; each was put in the place of the
original once, and the property it is meant for failed.

### GameTable

A handler is a transformer of a record `x = [t, db, trail]`: the table in memory, the
row, and the set of rows that the database went through since the handler began. Each
function of the code is an operator from such a record to the next (`SaveChair`,
`PlayBomb`, `Passed`, `Turn`, `CallPlayCard`, `GameEnd`, `LeaveTable`, `Load`, ...), and
an operator calls another where the code does. An action applies the transformer of its
handler to `Now` and then `Step`s: the handler completes, or (`CutShort`) the process died
after one of its writes, which leaves one of the rows of the trail and no table. `Crash`
is a death between two handlers. Deaths are bounded by `MaxCrashes`.

| action | code |
|---|---|
| `SitNew`, `Return`, `Look` | `GameRoom::EnterRoom`, `FindTable`, `Sitdown` of a player without and with a chair, and of one who is turned away after the table was loaded |
| `Disconnect`, `Quit` | `GameRoom::Offline`, `GameRoom::Logout` (`Standup`, or `Offline` during a game) |
| `Ready` | `handle_ready`; the last one starts the game: `GameStart`, `PlayCard`, `UpdateCallInfo` |
| `Play`, `Pass` | `handle_bet`: `UserPlayCard`, `UserPass` |
| `Run` | `handle_run`: `GameEndSpecial` |
| `OnTimer_trustee` | `AutoPlayCard` when the time to play is over |
| `OnTimer_ready` | `KickOut` of who is late, or the timer stops |
| `Tick` | libev's clock |

The value `down` of `t.status` says that no object is in memory, `closed` that a friends'
room was dismissed. A seat's `who` is free, present, absent, or `restored`: put back by
`LoadInfo`, its player not at the table yet (which is what `KickOut` finds out by
`_GetTableID`). The row distinguishes the fields of `SaveBankerInfo` (`begun`) and those
of `SaveCallInfo` (`called`), because a field that was never written reads as 0.

What is abstracted:

- Cards are natural numbers and what the library says of them is a parameter (`Kind`,
  `Rank`, `HasTip`, `AutoFollow`, `AutoLead`). The proofs need only that it plays cards
  of the hand, opens with some, and takes a card by itself for a single of its face. For TLC, `MCGameTable` asks `CardFind` about every hand that can come out
  of the deals and keeps the answers in tables (`KindTable` to `LeadTable`), so that they
  are worked out once.
- A play is a set of cards of the hand; packets that are not well formed are left out, as one
  that names a card twice (gameTable.cpp:1532).
- `_last_playType` after `LoadInfo` of an empty last play, which the code leaves uninitialised in a
  new object (a deal, a pass and a play set it: gameTable.cpp:820, 1717, 1803), is `"ERROR"`: a new round is on, and the first play sets it.
- `last_playCards` and `isPass` of a chair are for the client's display. `last_playCards` is
  read once more by `LoadInfo`, when the call fields cannot be parsed after a pass, which
  a row that the server wrote never leads to.
- The ready flag of a chair is written to the row only by `SaveChairInfo` of a player who
  has just sat down, or after `ResetFlags`: it is always unset.
- `_gameTimes` is compared with 1 only and counts to 2. The money check of `handle_ready`
  is in `Settlement`; here every player has the money. `paid` counts the bookings of a
  settlement, their amounts are in `Settlement`.
- The time to get ready (`GetReadySec`) is not counted: any set of seats that are not
  ready may be late when the ready timer calls.
- A command succeeds (`Put` is one atomic step). Commands that fail are in `Session`, what
  makes them fail in `RedisClient`.
- Records, replays, logs, broadcasts, the lobby's index (`UpdateStatus`, `MarkTableUsers`)
  and the left-over hand of two players change nothing that a property is about.

### Card library

A card is `4 * face + suit`, a hand a set, a result of a search the sequence of cards in
the order the code pushes them, so that a card that is pushed twice shows. The long
case analyses over vectors are written over faces and groups. `PokerCards!Result` keeps
the line lengths that `CardFind` reads from the statistics of the last play, as `analysis`
changes them on the way. Client-side overloads are left out.

### Settlement

Accounts and the server's memory of them are separate, since payments from outside reach
only the account. `base`, the stake, is a variable that never changes: the initial states
choose it from the constant `Stakes`. A game is its bombs and the number of cards each seat is left with.
`Balanced` is the loop that takes what losers lack from who wins, with its order of
assignments.

### Seats

`seat` says of each place whether it is free, its player is here, absent, or not back since
a restart; `game` whether a game is played. Players sit, return, drop and leave, a game
starts and ends, and the process may die. `Restart` is the weakest that the two
implementations need: it leaves the seats as they were, or as the handler that was cut
short was about to make them, or for some of the players that were leaving. It never
takes a seat in a game nor one that was not there. `KeepsSeats` in `GameTable` and
`Session` is the refinement; the mapping is `SeatAs` and `GameOn`: a table that is not in
memory is what its row says, and a player is *restored* until his object is at the table.

### Session

Handlers are transformers of a record `x = [m, db, trail, lost, found, ok]` in the same
way: `m` is all the memory of the process, `db` the rows, the last rooms of the accounts, the
friends' rooms and the counter of tables. `roomType`, which the server is started with, is a
variable that never changes: the initial states choose it from `RoomTypes`.

| action | code |
|---|---|
| `Connect`, `onClose`, `OnTimeOut`, `OnTimer_tick` | `onConnected`, `onClose` (closed by the client or the network), the timer of a connection without a login, the closing of who was kicked |
| `msg_Login` | `msg_Login` with `GetZid`, `Login`, `KickOut`, `EnterRoom`, `FindTable`, `LoadInfo`, `CreateUser`, `Sitdown` |
| `msg_Logout`, `ChangeTable` | `msg_Logout` with `GameRoom::Logout`, `Standup`, `LeaveTable`; `GameRoom::ChangeTable` |
| `handle_ready`, `GameEnd`, `ThrowOut` | the table's handlers that seats depend on |
| `OnTimer_dismiss` | release of the tables of friends' rooms |
| `Crash`, `CutShort` | the process dies between two handlers, or after a command of one |

A `Player` object has a number; `live` are those that exist, and a number is taken again
after `delete`, as memory is. What is null is 0, and so is the user of a free chair, as in
the code, so that `GetChairInfo` of a player without data finds a free chair. `insert` of
a map keeps what is there (`Insert`), on which two of the oddities below depend.

Faults are parameters. `lost` names the kind of command that fails in a handler: the last
room read (`zid`), an account read at login (`info`) or for a restored chair (`create`), the
last room written (`enter`) or reset (`leave`), the row read (`row`), the counter of tables
(`tid`), a friends' room read (`htid`). A configuration says which of them may fail
(`Failing`) and how often; `rest` stands for the death of the process after a command of a
handler. Money is told to be enough or not (`rich`). `SwitchUser` allows a second login on a
connection with another account; a login that is repeated with the same one changes nothing
and is left out.

### RedisClient

Between two rounds of `command` only the network and the servers act. A round ends in one
of five ways: the command is answered (`Answer`), executed but the reply is lost
(`LoseReply`), refused (`Refuse`), the connection turns out to be broken (`FindDead`), or
there is none and none can be made (`FailToConnect`). `NetError` is the condition of the
loop, `Return` the caller's loop. The six kinds of commands stand for all of the game's:
those that are repeated by their callers (rows, game logs) and those that are not (money,
event log, lookups). The process keeps what it believes (`known`): the cached money, what it
was told is saved.

## 3. What is checked

TLC explores all behaviours of every run; each takes a minute and a half at most. The decks, deals and amounts are in the MC modules and the configurations.

### Card library (`MCCardPlays`)

States are a table (deck, options, plays that may have come before), a last play and a hand
that grows by higher cards; with no last play the seat opens a round, and the hand is any
play it may make. `TipComplete`: whenever `UserPlayCard` would accept some play,
`tip` finds one, so that nobody passes, or is passed for, while he could play. `TipSound`:
all that `tip` offers are distinct cards and acceptable. `RobotAccepted`: what the server
opens a round with is acceptable. `PlaneRecognised`: a play of at most 15 cards counts as
plane with wings (`analysis`, `CheckPlayCard`) exactly when it is one, whatever bombs and
further triples it holds, with one exception that the property names.

| run | cards | properties |
|---|---|---|
| `cards` | five tables. `Groups`: singles, pairs, triples, bombs, hands to 8, four may take three along. `Lines`: straights and lines of pairs, up to the two, hands to 8. `Planes`: planes of ten cards without bombs, 15-card game, hands to 10. `BombPlanes` and `BombPlanes15`: no last play; up to four cards of each of five consecutive faces, up to three aces (one in the 15-card game), the two; hands to 15 | all four hold; without a last play `TipComplete` and `TipSound` ask nothing |

The decks have each kind of group the code tells apart, on both sides of the last play and
of each other, and the ends of the lines. A hand of ten is the smallest that can follow a
plane. `PlaneRecognised` needs no last play, so its hands go to three triples with six
cards: all counts of six faces, next to each other, with gaps or with an ace apart. The bound
of 15 is what a play of a hand of 16 has that leaves a card: a whole hand of 16 with four consecutive
triples is called a plane with wings at a length that no plane has, and the game is over with it. The searches treat the suits of a face alike, so hands take the low suits first.
`CHECK_DEADLOCK FALSE`, since a full hand stops growing.

### Table (`MCGameTable`)

| run | instance | properties |
|---|---|---|
| `table_server` | 3 players, server's table, both options, 3 deals, fairness | types; `CardsPlayOnce`, `RoundShape`, `SingleReported`, `LeaderCanPlay`, `BirdHolder`, `BombsBalance`; steps `PlaysAccepted`; liveness `GameEnds`, `LateSeatFreed` |
| `table_duel` | 2 players in a friends' room for high stakes, a bomb, a player may run | `PaidOnce`, `RowCurrent` |
| `table_restart` | 3 players, server's table, 2 deals; a crash after any write or between handlers | `GameIsFull`, `RowCurrent`, `ReadyPolled`; steps `OnlyTurnPlays`, `TurnOrder`; it implements `Seats` (`KeepsSeats`) |
| `table_turn_time` | 3 players, server's table | `FullTurnTime` is violated: finding |

A crash is possible in `table_restart` and never has to come, so that its properties hold
with and without one.

Bounds. Hands of two to five cards stand for the last moments of a game: the table asks
of a hand only whether it is empty or has one card left, and the rest through the
library. The deals have singles, pairs and a bomb: rounds that nobody, one and all
others pass in, a bomb in the middle of a game and as last play, a seat that reports its
last card before and after the seat whose turn it is, an opening seat other than 0, and
the ten of hearts in different seats. `TurnTime = 1` gives a state before and after each
tick; a timer only has to be told apart when it is off, running and due. One crash is
enough to leave every row of every handler behind once, and a table that was restored goes
through all further handlers; the proofs are for any number. Games follow each other in
all runs, so that what one leaves behind meets the next.
`CHECK_DEADLOCK FALSE` is for `table_duel`, as friends' rooms close for good, and for
`table_turn_time`.

Fairness, for `table_server`. `TrusteeFairness`: time goes on
(weak fairness of `Tick`), and a turn timer that is due is called: nothing in the process
can keep the loop from a due timer, as handlers run to their end. `ReadyFairness`: the ready
timer repeats every second and `GetReadySec` goes to zero for each seat that stays unready,
so a seat that could be thrown out again and again is thrown out. Players owe nothing: no
action of theirs is fair. Both are weak fairness; for the two timer callbacks the guard is
written out (`t.trustee # 0`, `MayBeThrownOut`) in place of ENABLED, which TLC would have to
work out through the whole handler. In friends' rooms `OnTimer_trustee` returns at once, so
a player can be waited for without end; that is intended, and `GameEnds` is stated of
server's tables.

### Settlement (`MCSettlement`)

| run | instance | properties |
|---|---|---|
| `settle_two` | 2 players at a low and at a high stake, where a player may run; bombs, bird, recharges, paid pictures, 2 games | `Conserved`, `NoOverdraft`, `WinnersDoNotPay` |
| `settle_bombs` | 3 players, 2 bombs, who lack money | `Conserved` is violated: finding |

`NoOverdraft` and `WinnersDoNotPay` are proved for three players, too.

The accounts are chosen so that losers can pay nothing, something and all of what they
owe; hands of up to three cards give all branches of the price (full hand, more than one
card, one card). Bombs cost nothing at high stakes and running is for high stakes
only, hence two stakes in one run.

### Server and room (`MCSession`)

| run | instance | properties |
|---|---|---|
| `session` | 2 users, 2 connections, 2 tables for two, of the server or of friends' rooms, one restart between any two handlers, one failure of the counter of tables, of the data of a restored player, or of the reset of a last room | types; `ConnectionsAgree`, `PointersLive`, `RoomAgrees`, `TablesAgree`, `GameKeepsPlayers`; as long as no command has failed, `OnePlayerPerUser`, `ChairFound`, `ComesBack`, and it implements `Seats` for every table (`KeepsSeats`) |
| `session_timers` | 1 user, 3 connections, fairness, a restart between two handlers or inside one | `StrangersLeave` |
| `session_size` | 2 users, 2 connections, tables for two and for three, a restart | `PlacesTaken` is violated: finding |

Bounds. Two users are a pair whose seats, maps and accounts can be confused; each may have
two connections, so that a login meets an old connection that is open, about to be closed,
or gone. Users and connections are interchangeable: `Same` is the symmetry of both, except
in `session_timers`, where liveness rules it out. Two tables make a wrong one possible, and
the counter of tables runs out, which the code treats as a failed command. `FourObjs` leaves
room for a second object of each user. Tables for two make games start and end with both
users; `session_size` has both sizes. One restart meets every state of memory and rows, and
all handlers go on after it.
Failures of the other commands break most of the properties, as the code takes a failed
lookup for an empty answer; so does a death inside a handler. What then happens is under
"Other oddities".

Fairness, for `session_timers`: libev calls the timer of a new
connection (`OnTimeOut`) and the timer that closes kicked connections (`OnTimer_tick`)
when they are due, and nothing can keep it from that: weak fairness of both. No client
owes anything.

### Redis client (`RedisClient`)

| run | instance | properties |
|---|---|---|
| `redis_calls` | 3 calls, 3 broken connections, a refusal, a server that goes away and may come back | `MoneyKnown`, `WritesKept`, `OneLossMasked`; liveness `CallsEnd` |
| `redis_retry` | 1 broken connection | `NetErrorRetried` is violated: finding |

Three calls are a booking, one that fails, and one that shows what is believed after it;
three faults exhaust both loops of a repeated write and leave one. A booking is followed by
the command for the event log. The bounds on calls make the system stop, hence
`CHECK_DEADLOCK FALSE`. Fairness: `WF_vars(Round)`, as a command blocks the loop and so goes
on; this assumes that a server answers or closes, as the client sets no time limit on replies.

### Findings

| run | what the code does |
|---|---|
| `table_turn_time` | a pass that turns into a play leaves the timer running: the next seat gets the rest |
| `settle_bombs` | with two winners money is taken and given to nobody |
| `session_size` | a table that is loaded has as many places as the login that loads it asks for: a game of three goes on at a table for two |
| `redis_retry` | the loop of `command` ends after one round: a broken connection fails a lookup, which is taken for 0 |

Each entry in `PROJECT.json` quotes the comment or message of the source that says
otherwise.

Other oddities are modelled as they are, so that a property that would rule them out was
not stated, or a run was kept away from them:

- Planes with wings next to a bomb are not found by `tip`, and an odd single is pushed twice
  into some planes with bombs as wings; hence no bombs in the deck `Planes`.
- In the game of 16 cards, five triples of which four are consecutive (333 444 555 666 888)
  are refused unless they are the last cards: `analysis` sees four that lack cards, not
  three with six (card_analysis.cpp:651). With 15 cards to a hand they are a plane. This is the
  exception of `PlaneRecognised` (`TakenForFour`).
- A plane is compared by its lowest face, but by its highest when bombs lend it triples (card_analysis.cpp:504
  and 538): 666 777 with wings does not follow 555 6666 with three cards.
- The robot opens with a triple and a bomb when it has nothing else, which is a play only
  with the option that four may take three along; hence the option at `Groups`.
- With the option that three aces are a bomb, `tip` does not offer them, as it does not hand
  the option on to `find` (card_find.cpp:1671); hence no such option in the run `cards`.
- `birdSeatid` is read from the row but never written: after a restart the seat that plays
  for double is 0 (gameTable.cpp:2132); hence `BirdHolder` without restarts.
- A restored seat whose player stays away is never freed: `KickOut` refuses a player whose
  own table is another one (gameTable.cpp:246); hence `LateSeatFreed` without restarts.
- After a crash between the save of the first game and that of its turn (gameTable.cpp:1480)
  seat 0 has to open with a card that it does not hold, and must not pass, until the server
  plays the three of spades for it (`AutoPlayCard`); hence `LeaderCanPlay` without restarts.
- When the lookup of the last room fails (`zid`), a login elsewhere sits down at a second
  table; `EnterRoom` forgets the first one (gameRoom.cpp:157), and the chair there outlives
  its player object: `PointersLive` fails.
- The same happens after a crash between the save of a chair and that of the last room
  (gameTable.cpp:190), or when a friends' room cannot be read (`htid`): a player who is online
  at no table is put on a restored chair by `CreateUser`, and is deleted when he leaves.
- After a crash inside a leave, between the reset of the last room and the deletion of the
  chair (gameTable.cpp:715), the user enters another table; when the old one is loaded while
  he is absent, `CreateUser` makes a second object of him: it does not look among the absent
  ones, as it is meant for a restart only (gameServer.cpp:801). `OnePlayerPerUser` fails.
- A second login on a connection with another account leaves the connection with the first
  player (gameServer.cpp:583): `ConnectionsAgree` fails with `SwitchUser`.
- The end of a game does not handle the room's offline table, as a comment says it does
  (gameRoom.cpp:130): who was absent is in it until he comes back or loses his seat.
- Neither a login that enters no room nor a logout inside a game leaves a timer on the
  connection (gameServer.cpp:577, 604): it may stay without a player in the game for ever.
- A crash between the save of `PlayBomb` and that of the turn gives the next round to the
  seat that passed.
- Any three opens the first game, not only the three of spades (`FirstPlayOK`).
- Only a runner on seat 0 pays the penalty (`Penalty`).
- A login whose account cannot be read gives a player of id 0, who sits on a free chair.
- The table that matches a player is the last one that suits, not the first (`Matching`).
- A player who is absent from a table of the server between games is not thrown out of the
  room's maps until the ready timer throws him off his seat.

## 4. What is proved

Constants are arbitrary under the named assumptions. At the table: two or three players
(`PlayersAssumption`), any time and number of crashes (`RulesAssumption`), any deals of
several cards to each seat, none of them twice, in which, of three players, one holds the
three of spades (`DealsAssumption`: `get_hole_cards` takes the cards off one deck), a library
that plays cards of the hand it is asked about and opens with at least one
(`LibraryAssumption`), and for which a card by itself is a single whose rank grows with the
card (`SinglesAssumption`: `Card::compare` looks at the face first). TLC evaluates them on
every run. The last two are not proved of `CardFind`; TLC checks them for the hands of the
runs.

`GameTableProofs`

- `Typed` (`TypeOK`): one lemma for each operator of the model says that it maps a typed
  record `[t, db, trail]` to one; `StepTyped` turns this into the step, completed or cut
  short.
- `GamesAreFull` (`GameIsFull`): a game has all its players and no ready timer. This is
  not inductive alone: after a crash the table is what the row says. The invariant is
  `GameInv == TypeOK /\ RowFull(db) /\ Agree(t, db)`: a row whose status is *betting* has
  every chair (`RowFull`), and while a game is in memory the chairs in the row are those of
  a full table (`Agree`). `Kept` extends it to every row of a handler's trail, and each
  operator has a lemma that keeps it. It shows that no order of writes of the handlers
  leaves a game behind without its players, through any number of restarts, and in
  particular that `LeaveTable` never runs during one.
- `SeatsImplemented` (`KeepsSeats`): a handler, finished or cut short after any of its
  writes, is one step of `Seats` or none. It needs more than `GameInv`: that only who has
  been at the table since the last restart is ready (`Back`: the players of a game that
  starts are then complete, as `Start` asks), and that the row of a table in memory holds
  no chair the table does not know of (`Exact`: a crash then brings back nobody who had
  left). `Goes` says of the handlers of a game that they leave every chair to its player
  and take none out of the row through all their writes, so that one cut short is a
  `Restart`; `Leaving` says the same of a handler that frees several seats one after
  another, of which a crash keeps those not yet deleted.
- `ChairsKept` (`Seats!SeatKept`) follows from it and from `SeatsKept` below: nobody loses
  his chair during a game, nor after a restart before he is back.

`GameTableTurns`: the turn. Its invariant is `RoundInv == GameInv /\ RoundOK(t) /\
RowRound(db)`: a round that goes on has been passed by fewer than all the others, on the
table and in every row that a handler writes on its way (`Rounds`), as a restart continues
the round of the row. Each operator has a lemma that says what it leaves: `InTurn` (status,
seats, hands, reports and payments stay and the bomb scores still cancel out), `RoundKept` (the
turn moves, but the seat that played last, `LastOf`, stays the same), `Played`, `Ended`, and
`Current` (the row is the game of the table). `GameOutcomes` puts them together: a step of a
game is a death, a step that leaves the game alone, passes, a play or an end.

- `TurnsOnlyPlay` (`OnlyTurnPlays`) and `TurnsGoRound` (`TurnOrder`) read these two action
  properties off the outcomes, through any number of crashes and restarts. The nested calls of
  `UpdateCallInfo`, `AutoPass` and `UserPass` are where a seat could be left out: `LastStays` is
  the arithmetic of two and of three seats.

`GameTablePlay`: the game, from its deal to its settlement. `Betweens` is the counterpart of
`GameOutcomes` for a table without a game: the process dies, a friends' room closes, a
game starts (`Started`), or the same table goes on with other players or as `LoadInfo` put it
back (`Seated`).

- `RowKeepsGame` (`RowCurrent`): between handlers the row is the game in memory, whatever
  crashed before. The invariant adds `Current(t, db)` during a game to `RoundInv`; what makes
  it inductive is that a handler may leave one chair unsaved until the call is saved, and that
  this is the chair `SaveCallInfo` writes (`WrittenBut`).
- `WaitersPolled` (`ReadyPolled`): the ready timer runs while anyone waits who has come to the
  table since it is in memory. `GameStart` stops it, and it is the end of a game, not the
  next player, that has to start it again.
- `CardsApartAlways` (`CardsPlayOnce`), `RoundsShaped` (`RoundShape`), `LastCardReported`
  (`SingleReported`), `BombsCancel` (`BombsBalance`), `BirdStays` (`BirdHolder`), `SettledOnce`
  (`PaidOnce`), `LeaderOpens` (`LeaderCanPlay`), each for a process that has not crashed so
  far (`crashes = 0 => ...`): after a crash inside a handler several of them can fail, as
  the oddities above tell, and the runs that check them have no crash. They rest on one
  invariant, `PlayInv == RoundInv /\ Lived`, in which a game (`InGame`) has all of
  these facts at once and a table without a game (`Waiting`) has no cards, no scores and, if it
  is a server's, no banker. They need one another: a seat with one card reports it only
  because plays are not empty and come from its hand; plays come from the hand because the
  three of spades, which the server plays unasked, is in the hand of who opens (`OpenerKnown`);
  that holds because a game of a server's table, or the first one in a friends' room, has no
  banker before its deal; and the dealer is who holds it because no card is dealt twice.

`SettlementProofs`

- `NeverOverdrawn` (`NoOverdraft`), for every set of stakes, fee and account (with the
  supporting invariant `Typed`).
- `WinnersSpared` (`WinnersDoNotPay`): whom the cards and bombs owe nothing pays the fee at
  most, for two players and for three.
- `TwoConserve` (`Conserved`), of two players, or of three without bombs: the case the
  run `settle_bombs` refutes is exactly what the hypothesis leaves out. All rest on
  the invariant that the scores of the bombs cancel out (`ScoresCancel`) and on bounds of
  what the cap and the balancing do to an amount.

`SeatsProofs`: of any set of places, a game keeps all its seats (`GamesPlayed`, with the type
invariant as strengthening: `Restart` has to start a game with complete seats only) and no
step takes a seat in a game or from who is not back (`SeatsKept`). What implements `Seats`
inherits both, as `ChairsKept` shows for the table.

`RedisClientProofs`, for any number of commands, faults, errors and outages
(`BoundsAssumption`): the types (`Typed`); `BookedOnce` (`MoneyKnown`), which needs that a
booking is tried once by its caller and, as `--nRetryCount <= 0` is false at first, sent once
by the client (`OneRound`: the count is 2 whenever a round begins); `ReportedWrites` (`WritesKept`);
and `SingleFaults` (`OneLossMasked`), from an invariant that relates the rounds of the running
write and the broken connections to the faults counted so far.

`SessionProofs`: the server with any number of users, connections and tables, and any number
of failures and restarts, under `Steady`:

- no connection changes its account: `SwitchUser` breaks `ConnectionsAgree`;
- the logins that load a table ask for its size, that of the friends' rooms: this is what the
  finding `session_size` is about, and a table that is loaded with fewer places than it has
  players loses one of them when the next game starts;
- no account is read as empty at login (`info`): the player of id 0 that comes of it takes free
  chairs for his own;
- no row is read as empty (`row`): the table is then loaded without its players and its game,
  and the next one that starts overwrites them.

The other failures (`zid`, `enter`, `leave`, `htid`, `tid`, `create`) and the death of the
process after any command of a handler (`rest`) are all allowed, which no run does.

- `TypesHold` (`TypeOK`), which says in particular that the count of the players of a table
  is never more than 3 nor less than 0: `LeaveTable` and `Sitdown` count down and up without
  a look at the chairs.
- `ConnectionsAgreeHolds` (`ConnectionsAgree`) and `GameKeepsPlayersHolds`
  (`GameKeepsPlayers`).

The invariant is `SessionInv == TypeOK /\ Rooms(m, db) /\ Served(m) /\ Placed(m)`. `Served` is
the server's side: connections, sessions and the maps of players, with the ids of the players
in them. `Rooms` is that of the tables: as many chairs taken as counted, the chairs in the
row the same ones, a game in the row exactly when there is one in memory, and then all
places taken. `Placed` ties the two: who has a table is not on its way out of the memory of
the process, so that a chair that is freed is one that is counted. Each operator of the model
has a lemma that says what it changes (`LeaveTableDoes`, `RestoreDoes`, `LoginTakes`, ...), and
the handlers are put together from them. `Well` says that a handler keeps the invariant in
the states of its trail as well, on which a death inside it comes back; `ClosingAll` shows
of `OnTimer_tick`, which closes a set of connections one by one, what every `Close` keeps.

`SessionPlaces` goes on where `SessionProofs` stops: it ties the players to their chairs, rows and
accounts, for any number of users, connections, tables, restarts and failures under
`Forgiving`, which is `Steady` and leaves three commands to fail: the account read for a
restored chair (`create`), the last room reset (`leave`) and the counter of tables (`tid`). Each of the others
makes one of the theorems false, which TLC shows within a few steps when `Failing` of
`session.cfg` names it alone: the last room that cannot be read (`zid`) or written (`enter`)
ends `RoomAgrees`, the friends' room that cannot be read (`htid`) and the death inside a
handler (`rest`) end `PointersLive`, the row that reads as empty ends `TablesAgree`, the account
that reads as empty ends `ConnectionsAgree`. The oddities above tell how.

None of the properties is inductive, and they do not follow from one another. The
invariant is `PlacesInv == SessionInv /\ Homes`, where `Homes` says of each user that all that the
server knows of him agrees: there is one object of him, on line or absent (`Known`); its table,
the table he is matched with and the chair he has in memory are the same
(`Placing`, `Chaired`); the chair in the row is there too, and in no other row (`Booked`); the last room
of his account leads to that row (`Lodged`); and a user the server does not know has no
chair in memory but a restored one (`Home`). A crash leaves of all this the rows and the
accounts, from which `LoadInfo` and `CreateUser` have to make it again, so each fact
is needed in the memory and in what is saved. Each operator has a lemma that says which
users it concerns and leaves the others `Same`.

- `PlacesHold` is the invariant; `PointersLiveHolds` (`PointersLive`), `OnePlayerPerUserHolds`,
  `RoomAgreesHolds`, `ChairFoundHolds` and `TablesAgreeHolds` are read off it.
- `PlacesTakenHolds` (`PlacesTaken`): a game has all the places of its table. It
  needs `Steady` only; what the finding `session_size` refutes is exactly what `Steady` leaves
  out when it asks that a table is loaded with its own size.
- `ComesBackHolds` (`ComesBack`), an action property: nobody but a login puts a player on a connection
  (`Narrows`, of every other handler), and one who has a chair comes back to it with nothing written in
  the row (`Back`, of the login).
- `KeepsSeatsHolds` (`KeepsSeats`): the server, the room and the rows implement `Seats` at every
  table; `SeatsAlwaysKept` says it of the steps after a failure too. `Homes` makes the mapping
  one of the row and the maps alone (`Shown`: a chair is free, or its user is here, absent or
  restored), so that each handler need only say what it does to them (`Turned`): a player goes
  (`Goes`), seats are given up (`Vacates`), one arrives (`Arrives`), one changes tables
  (`Changes`), or a game starts or ends (`Plays`). Each of these is one step of `Seats` or none at
  every table. `Start` asks that all players of a game are back: the invariant needs
  `Readied` for it, that who is ready is at a table, which a restored chair never is.

Only model-checked: liveness (the prover does not do fairness), the card library (its
searches walk sequences, and what they compute is compared with the rules over bounded
hands) and with it `PlaysAccepted`, which is about what the library plays for a seat.

## 5. Not modelled

- `ClassAward` is entered by nothing: `OnCreateTable` and `OnDismissTable` have no caller.
- The administration's messages of `GameServer` (a password, then orders to print, to
  broadcast or to stop), `DeleteOffline` and `QuitGame`, which nothing calls, and the
  destruction of the room when the process stops.
- The data of a user for display, the count of his games, the lobby's index.
- The overloads of the card library for clients, printing, the shuffle.
- The event log's keys: bookings of a player in the same second at one table share one.
- JSON, logs, configuration, pools and the vendored headers are formatting, input/output
  and memory.

`PROJECT.json` lists the hazards without a property with the reason: an account that
cannot be read at login, which breaks nearly everything and of which nothing is promised; a
line of triples that a restart analyses anew. A friends' room waits for an absent player
as intended. A settlement after which the process dies before
the status is saved is booked again after the restart (`PaidOnce` is checked without
crashes; no comment promises more).

## 6. Plan

Done, in this order: `PlayRules`, `PokerCards`, `CardFind`, `CardPlays`; `GameTable`;
`Settlement` and their proofs; `Session`; `Seats` as what both implement; `RedisClient`; the
proofs of `Seats` and `RedisClient`; the proof that a table implements `Seats`; the proofs of
`Session`'s invariants, and that `Session` implements `Seats` too.

Worth adding:

1. Deals with five triples in `MCGameTable`, for the second analysis of a stored line of
   triples; three aces and four-with-three at the table.
2. Three users at tables of both sizes in `Session`, and the other commands that fail, once
   the code reports a failed lookup as one.
