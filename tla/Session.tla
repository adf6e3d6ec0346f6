------------------------------ MODULE Session ------------------------------
(***************************************************************************)
(* The server around its tables (src/gameServer.cpp, src/gameRoom.cpp,     *)
(* src/player.cpp, src/gamedb.cpp): connections, logins, the players known *)
(* to the server and to the room, who sits at which table, the last room   *)
(* of an account, and what of all this survives a restart.                 *)
(*                                                                         *)
(* Every handler runs to completion on the event loop, so a handler is one *)
(* action.  It is written as a transformer of a record x: m, the memory of *)
(* the process, db, the databases, and trail, the states the databases     *)
(* went through; lost names the command of this handler that fails, found  *)
(* is the table FindTable returns and ok the result of Sitdown, Standup    *)
(* and EnterRoom.  A game is only told to be played or not: what happens   *)
(* in it is in GameTable.                                                  *)
(***************************************************************************)
EXTENDS Integers, FiniteSetsExt

CONSTANTS
  Users,       \* the accounts
  Conns,       \* bound: connections at a time
  Objs,        \* bound: Player objects at a time, numbers above 0
  MaxTid,      \* bound: tables that are ever created
  Sizes,       \* the numbers of players a login may ask for
  RoomSize,    \* the number of players of a friends' room, from htid
  RoomTypes,   \* bound: the kinds of rooms, 0 for the server's tables, 1 for friends' rooms
  SwitchUser,  \* whether a connection may log in again with another account
  Failing,     \* what may fail: a command of a handler, or all after one of them ("rest")
  MaxFailures, \* bound: handlers that something fails in
  MaxCrashes   \* bound: restarts of the process

Null == 0                \* NULL, OBJECT_ID_UNDEFINED, and "not in the map"
Ids == Users \cup {Null}
Tids == 1..MaxTid
Seat == 0..2             \* _Game_Users

ASSUME NamesAssumption ==
  /\ Null \notin Users /\ Null \notin Conns /\ Objs \subseteq Nat \ {0}
  /\ IsFiniteSet(Users) /\ IsFiniteSet(Objs) /\ IsFiniteSet(Conns) /\ MaxTid \in Nat \ {0}
ASSUME RoomAssumption ==
  /\ Sizes \subseteq 2..3 /\ Sizes # {} /\ RoomSize \in 2..3 /\ RoomTypes \subseteq 0..1
  /\ SwitchUser \in BOOLEAN
ASSUME FaultsAssumption ==
  /\ Failing \subseteq {"zid", "info", "create", "enter", "leave", "row", "htid", "tid", "rest"}
  /\ MaxFailures \in Nat /\ MaxCrashes \in Nat

VARIABLES
  m,         \* the process: GameServer, GameRoom, Player and GameTable objects
  db,        \* the databases
  roomType,  \* GetRoomType(), which the server is started with
  failures,  \* handlers that something failed in so far
  crashes    \* restarts so far

vars == <<m, db, roomType, failures, crashes>>

-----------------------------------------------------------------------------
(***************************************************************************)
(* A Player: the id of its _userInfo, its connection and its table.  Its   *)
(* room is set and cleared with its table.                                 *)
(***************************************************************************)
Player == [uid : Ids, conn : Conns \cup {Null}, online : BOOLEAN, table : Tids \cup {Null}]
NoPlayer == [uid |-> Null, conn |-> Null, online |-> FALSE, table |-> Null]

Chair == [uid : Ids, obj : Objs \cup {Null}, offline : BOOLEAN, ready : BOOLEAN]

(* TableChair::Clear.                                                      *)
FreeChair == [uid |-> Null, obj |-> Null, offline |-> TRUE, ready |-> FALSE]

Table == [size : 2..3, playing : BOOLEAN, amount : 0..3, chair : [Seat -> Chair]]

(* Init and InitChair.                                                     *)
FreshTable(size) ==
  [size |-> size, playing |-> FALSE, amount |-> 0, chair |-> [s \in Seat |-> FreeChair]]

(***************************************************************************)
(* The process.  open are the connections of the event loop, fresh those   *)
(* whose timer of _setTempClient runs, tick is _setConnTick.  session is   *)
(* _setPlayer of the server; online and offline are its maps of players.   *)
(* here, away and at are _setPlayer, _setOffline and _setUserTable of the  *)
(* room, tables its _setTable and dismissed its _arrDismiss.  live are the *)
(* Player objects that exist.                                              *)
(***************************************************************************)
Memory ==
  [open : SUBSET Conns, fresh : SUBSET Conns, tick : SUBSET Conns,
   session : [Conns -> Objs \cup {Null}],
   online : [Ids -> Objs \cup {Null}], offline : [Ids -> Objs \cup {Null}],
   live : SUBSET Objs, obj : [Objs -> Player],
   here : [Ids -> Objs \cup {Null}], away : [Ids -> Objs \cup {Null}],
   at : [Ids -> Tids \cup {Null}],
   tables : SUBSET Tids, dismissed : SUBSET Tids, table : [Tids -> Table]]

Booted ==
  [open |-> {}, fresh |-> {}, tick |-> {}, session |-> [c \in Conns |-> Null],
   online |-> [u \in Ids |-> Null], offline |-> [u \in Ids |-> Null],
   live |-> {}, obj |-> [o \in Objs |-> NoPlayer],
   here |-> [u \in Ids |-> Null], away |-> [u \in Ids |-> Null], at |-> [u \in Ids |-> Null],
   tables |-> {}, dismissed |-> {}, table |-> [n \in Tids |-> FreshTable(RoomSize)]]

(***************************************************************************)
(* The databases.  zid is the table of the last room of an account (GetZid *)
(* does not look at the room), row the row of a table: whether its status  *)
(* was ever written, whether it says that a game is played, and the users  *)
(* of its chairs.  rooms are the friends' rooms (htid), which the platform *)
(* creates; tid is the counter of the server's tables.                     *)
(***************************************************************************)
Row == [begun : BOOLEAN, playing : BOOLEAN, chair : [Seat -> Ids]]
NoRow == [begun |-> FALSE, playing |-> FALSE, chair |-> [s \in Seat |-> Null]]

Database == [zid : [Ids -> Tids \cup {Null}], row : [Tids -> Row],
             rooms : SUBSET Tids, tid : 0..MaxTid]

Init ==
  /\ m = Booted /\ roomType \in RoomTypes
  /\ db = [zid |-> [u \in Ids |-> Null], row |-> [n \in Tids |-> NoRow],
           rooms |-> IF roomType = 1 THEN Tids ELSE {}, tid |-> 0]
  /\ failures = 0 /\ crashes = 0

Doing(cmd) == [m |-> m, db |-> db, trail |-> {}, lost |-> cmd, found |-> Null, ok |-> TRUE]
Now == Doing("none")

Put(x, d) == [x EXCEPT !.db = d, !.trail = @ \cup {d}]

(* insert of a map keeps what is there.                                    *)
Insert(f, k, v) == IF f[k] = Null THEN [f EXCEPT ![k] = v] ELSE f

Uid(x, o) == x.m.obj[o].uid

(* GameTable::GetChairInfo: the chairs of a user; a free chair is one of 0. *)
ChairsOf(x, n, u) ==
  {s \in 0..(x.m.table[n].size - 1) : x.m.table[n].chair[s].uid = u}

(* TableChair::IsOccupied.                                                 *)
Occupied(chair) == chair.uid # Null /\ chair.obj # Null

-----------------------------------------------------------------------------
(* Player objects.                                                         *)

FreeObj(x) == Min(Objs \ x.m.live)

(* new Player, with login: the id is 0 when the account cannot be read.    *)
NewPlayer(x, o, u, c, cmd) ==
  [x EXCEPT !.m.live = @ \cup {o},
            !.m.obj[o] = [uid |-> IF x.lost = cmd THEN Null ELSE u, conn |-> c,
                          online |-> c # Null, table |-> Null]]

DeletePlayer(x, o) == [x EXCEPT !.m.live = @ \ {o}, !.m.obj[o] = NoPlayer]

(* Player::SetLastRoom.                                                    *)
SetLastRoom(x, u, n) ==
  IF x.lost = (IF n = Null THEN "leave" ELSE "enter") THEN x
  ELSE Put(x, [x.db EXCEPT !.zid[u] = n])

(* Mutant of CreateUser: the players who are online are not looked at.     *)
CreateUserAnew(x, n, s, u) ==
  LET new == FreeObj(x)
      y == NewPlayer(x, new, u, Null, "create")
      z == [y EXCEPT !.m.offline = Insert(@, u, new)]
  IN [z EXCEPT !.m.table[n].chair[s] = [uid |-> u, obj |-> new, offline |-> TRUE, ready |-> FALSE]]

(* CreateUser, for the user of a chair that LoadInfo finds in a row: the   *)
(* player who is online, else a new one, who is offline.                   *)
CreateUser(x, n, s, u) ==
  LET new == FreeObj(x)
      y == NewPlayer(x, new, u, Null, "create")
      z == IF x.m.online[u] # Null THEN x ELSE [y EXCEPT !.m.offline = Insert(@, u, new)]
      o == IF x.m.online[u] # Null THEN x.m.online[u] ELSE new
  IN [z EXCEPT !.m.table[n].chair[s] = [uid |-> u, obj |-> o, offline |-> TRUE, ready |-> FALSE]]

-----------------------------------------------------------------------------
(* Tables.                                                                 *)

RowThere(d, n) == d.row[n].begun \/ \E s \in Seat : d.row[n].chair[s] # Null

Restore(x, n, s) ==
  LET u == x.db.row[n].chair[s] IN
  IF u = Null THEN x ELSE [CreateUser(x, n, s, u) EXCEPT !.m.table[n].amount = @ + 1]

(* GameTable::Init with LoadInfo; its result is that there is a row.       *)
Load(x, n, size) ==
  LET y == [x EXCEPT !.m.table[n] = FreshTable(size), !.m.tables = @ \cup {n}, !.found = n]
      z == [y EXCEPT !.m.table[n].playing = x.db.row[n].playing]
  IN IF x.lost = "row" \/ ~RowThere(x.db, n) THEN y
     ELSE Restore(Restore(Restore(z, n, 0), n, 1), n, 2)

(* The tables with a free chair on which chance leads a player.            *)
Matching(x, except, size) ==
  {n \in x.m.tables \ {except} :
     LET t == x.m.table[n] IN t.amount < t.size /\ t.size = size /\ ~t.playing}

(* FindTable of a room with the server's tables.  A number that is wanted  *)
(* is either in memory or in the database.  Without one, the last table    *)
(* that suits is taken, else a new one is made.                            *)
NewTable(x, size) ==
  LET n == x.db.tid + 1 IN
  IF x.lost = "tid" \/ n > MaxTid THEN [x EXCEPT !.found = Null]
  ELSE Load(Put(x, [x.db EXCEPT !.tid = n]), n, size)

FindServerTable(x, u, n, except, size) ==
  CASE n = Null ->
         IF Matching(x, except, size) = {} THEN NewTable(x, size)
         ELSE [x EXCEPT !.found = Max(Matching(x, except, size))]
    [] n \in x.m.tables -> [x EXCEPT !.found = n]
    [] OTHER ->
         IF x.lost # "row" /\ RowThere(x.db, n) THEN Load(x, n, size)
         ELSE [SetLastRoom(x, u, Null) EXCEPT !.found = Null]

(* FindTable of friends' rooms: Init succeeds without a row, too.          *)
FindFriendsTable(x, n) ==
  CASE n \in x.m.tables -> [x EXCEPT !.found = n]
    [] n \notin x.m.tables /\ n \in x.db.rooms /\ x.lost # "htid" -> Load(x, n, RoomSize)
    [] OTHER -> [x EXCEPT !.found = Null]

FindTable(x, u, n, except, size) ==
  IF roomType = 0 THEN FindServerTable(x, u, n, except, size) ELSE FindFriendsTable(x, n)

(* Mutant of Return: the seat that is taken again is counted again.        *)
ReturnCounted(x, o, n, s) ==
  [x EXCEPT !.m.table[n].chair[s].obj = IF @ = Null THEN o ELSE @,
            !.m.table[n].chair[s].offline = FALSE, !.m.table[n].amount = @ + 1, !.ok = TRUE]

(* Sitdown of a player who has a chair.                                    *)
Return(x, o, n, s) ==
  [x EXCEPT !.m.table[n].chair[s].obj = IF @ = Null THEN o ELSE @,
            !.m.table[n].chair[s].offline = FALSE, !.ok = TRUE]

(* Sitdown of a player who has none, on the first one that is free.        *)
SitNew(x, o, n) ==
  LET free == {s \in 0..(x.m.table[n].size - 1) : ~Occupied(x.m.table[n].chair[s])}
      s == Min(free)
      y == [x EXCEPT !.m.table[n].chair[s] =
                        [uid |-> Uid(x, o), obj |-> o, offline |-> FALSE, ready |-> FALSE],
                     !.m.table[n].amount = @ + 1, !.ok = TRUE]
  IN IF free = {} THEN [x EXCEPT !.ok = TRUE]
     ELSE IF Uid(x, o) = Null THEN y
     ELSE Put(y, [y.db EXCEPT !.row[n].chair[s] = Uid(x, o)])

Sitdown(x, o, n) ==
  LET t == x.m.table[n]
      mine == ChairsOf(x, n, Uid(x, o))
      c == t.chair[Min(mine)]
  IN IF mine = {}
     THEN IF t.amount >= t.size THEN [x EXCEPT !.ok = FALSE] ELSE SitNew(x, o, n)
     ELSE IF c.offline \/ c.obj = o THEN Return(x, o, n, Min(mine)) ELSE [x EXCEPT !.ok = FALSE]

-----------------------------------------------------------------------------
(* Leaving a table.                                                        *)

(* Mutant of LeaveRoom: the user's table is not forgotten.                 *)
LeaveRoomOnly(x, o) ==
  LET u == Uid(x, o) IN
  [x EXCEPT !.m.obj[o].table = Null, !.m.here[u] = Null, !.m.away[u] = Null]

LeaveRoom(x, o) ==
  LET u == Uid(x, o) IN
  [x EXCEPT !.m = [@ EXCEPT !.obj = [x.m.obj EXCEPT ![o].table = Null],
                            !.here = [x.m.here EXCEPT ![u] = Null],
                            !.away = [x.m.away EXCEPT ![u] = Null],
                            !.at = [x.m.at EXCEPT ![u] = Null]]]

(* Mutant of DismissLater: the table stays in the map of tables.           *)
DismissKept(x, n) ==
  [Put(x, [x.db EXCEPT !.rooms = @ \ {n}]) EXCEPT !.m.dismissed = @ \cup {n}]

DismissLater(x, n) ==
  [Put(x, [x.db EXCEPT !.rooms = @ \ {n}]) EXCEPT
     !.m.tables = @ \ {n}, !.m.dismissed = @ \cup {n}]

(* The player is told to leave the room, the last room of his account is   *)
(* reset, then his chair is freed in memory and in the row.                *)
LeaveTable(x, o, n, s) ==
  LET a == LeaveRoom(SetLastRoom([x EXCEPT !.m.obj[o].table = Null], Uid(x, o), Null), o)
      b == [a EXCEPT !.m.table[n].chair[s] = FreeChair, !.m.table[n].amount = @ - 1]
      c == Put(b, [b.db EXCEPT !.row[n].chair[s] = Null])
      d == Put(c, [c.db EXCEPT !.row[n] = NoRow])
  IN IF c.m.table[n].amount # 0 THEN c
     ELSE IF roomType = 1 THEN DismissLater(d, n) ELSE d

(* Mutant of Standup: the game is not considered.                          *)
StandupAnytime(x, o, n) ==
  LET mine == ChairsOf(x, n, Uid(x, o)) IN
  IF mine = {} THEN [x EXCEPT !.ok = TRUE]
  ELSE [LeaveTable(x, o, n, Min(mine)) EXCEPT !.ok = TRUE]

Standup(x, o, n) ==
  LET mine == ChairsOf(x, n, Uid(x, o)) IN
  IF mine = {} THEN [x EXCEPT !.ok = TRUE]
  ELSE IF x.m.table[n].playing THEN [x EXCEPT !.ok = FALSE]
  ELSE [LeaveTable(x, o, n, Min(mine)) EXCEPT !.ok = TRUE]

(* The player goes to the offline table of the room (GameTable::Offline).  *)
Absent(x, o, n) ==
  LET u == Uid(x, o)
      y == [x EXCEPT !.m.here[u] = Null, !.m.away = Insert(@, u, o)]
  IN IF ChairsOf(x, n, u) = {} THEN y
     ELSE [y EXCEPT !.m.table[n].chair[Min(ChairsOf(x, n, u))].offline = TRUE]

(* GameRoom::Logout: ok tells whether he is out of the room.               *)
RoomLogout(x, o) ==
  LET n == x.m.obj[o].table
      y == Standup(x, o, n)
  IN IF n = Null THEN [x EXCEPT !.ok = TRUE]
     ELSE IF y.ok THEN y ELSE [Absent(x, o, n) EXCEPT !.ok = FALSE]

-----------------------------------------------------------------------------
(* Entering the room.                                                      *)

(* Both ends of EnterRoom: JoinTable, the maps of the room, the last room. *)
Join(x, o, n) ==
  LET u == Uid(x, o)
      y == Sitdown(x, o, n)
      z == [y EXCEPT !.m.obj[o].table = n, !.m.at = Insert(@, u, n),
                     !.m.here = Insert(@, u, o), !.m.away[u] = Null]
  IN IF y.ok THEN SetLastRoom(z, u, n) ELSE y

(* Whoever is in the room's map of players is told to leave, and his table *)
(* is not forgotten; who is in the offline table without a table is taken  *)
(* out of it.                                                              *)
ForgetInRoom(x, u) ==
  LET y == [x EXCEPT !.m.away[u] = Null] IN
  IF x.m.here[u] = Null THEN y
  ELSE [y EXCEPT !.m.obj[x.m.here[u]].table = Null, !.m.here[u] = Null]

(* EnterRoom: back to the table of before the player was absent, else to   *)
(* the one FindTable gives, if he has a chair there or money enough.       *)
EnterRoom(x, o, n, except, size, rich) ==
  LET u == Uid(x, o)
      y == FindTable(ForgetInRoom(x, u), u, n, except, size)
      may == y.found # Null /\ (rich \/ ChairsOf(y, y.found, u) # {})
  IN IF x.m.away[u] # Null /\ x.m.at[u] # Null THEN Join(x, o, x.m.at[u])
     ELSE IF may THEN Join(y, o, y.found) ELSE [y EXCEPT !.ok = FALSE]

(* ChangeTable: out of this table and into another one of its size.        *)
ChangeTo(x, o, rich) ==
  LET n == x.m.at[Uid(x, o)]
      y == Standup(x, o, n)
  IN IF roomType = 1 \/ n = Null \/ ~rich THEN x
     ELSE IF ~y.ok THEN x ELSE EnterRoom(y, o, Null, n, x.m.table[n].size, rich)

-----------------------------------------------------------------------------
(* Players of the server.                                                  *)

UserLogout(x, o) ==
  LET u == Uid(x, o)
      y == [x EXCEPT !.m.obj[o].online = FALSE, !.m.offline[u] = Null]
  IN IF x.m.online[u] = Null THEN y
     ELSE DeletePlayer([y EXCEPT !.m.online[u] = Null], o)

UserOffline(x, o) ==
  LET u == Uid(x, o) IN
  [x EXCEPT !.m.obj[o].online = FALSE, !.m.offline = Insert(@, u, o), !.m.online[u] = Null]

(* OnDisconnect: who is at a table keeps his place, in a game or not.      *)
OnDisconnect(x, o) ==
  LET y == [x EXCEPT !.m.obj[o].online = FALSE, !.m.obj[o].conn = Null]
      n == x.m.obj[o].table
  IN IF n = Null THEN UserLogout(y, o) ELSE UserOffline(Absent(y, o, n), o)

(* Mutant of KickOut: the session of the old connection is kept.           *)
KickOutLater(x, o) == [x EXCEPT !.m.tick = @ \cup {x.m.obj[o].conn}]

(* KickOut of the connection of a player who logs in on another one.       *)
KickOut(x, o) ==
  LET c == x.m.obj[o].conn IN
  IF c = Null THEN x
  ELSE [x EXCEPT !.m.session[c] = Null, !.m.tick = @ \cup {c}]

(* The connection is gone: its timer, its place in _setConnTick, its player. *)
Close(x, c) ==
  LET y == [x EXCEPT !.m.open = @ \ {c}, !.m.fresh = @ \ {c}, !.m.tick = @ \ {c}] IN
  IF x.m.session[c] = Null THEN y
  ELSE [OnDisconnect(y, x.m.session[c]) EXCEPT !.m.session[c] = Null]

(* Login, of an account whose key is right: the player online or offline,  *)
(* or a new one.                                                           *)
LoginObj(x, u) ==
  CASE x.m.online[u] # Null -> x.m.online[u]
    [] x.m.online[u] = Null /\ x.m.offline[u] # Null -> x.m.offline[u]
    [] OTHER -> FreeObj(x)

Login(x, c, u) ==
  LET o == LoginObj(x, u)
      known == x.m.online[u] # Null \/ x.m.offline[u] # Null
      kicked == IF x.m.online[u] # Null THEN KickOut(x, o) ELSE x
      entry == [kicked EXCEPT !.m.obj[o].conn = c, !.m.obj[o].online = TRUE,
                              !.m.obj[o].uid = IF x.lost = "info" THEN Null ELSE u]
  IN IF ~known THEN [NewPlayer(x, o, u, c, "info") EXCEPT !.m.online[u] = o]
     ELSE [entry EXCEPT !.m.offline[u] = Null, !.m.online[u] = o]

-----------------------------------------------------------------------------
(* Actions.                                                                *)

Counted(x) == failures' = failures + (IF x.lost = "none" THEN 0 ELSE 1)

Completes(x) == m' = x.m /\ db' = x.db /\ Counted(x) /\ UNCHANGED <<roomType, crashes>>

(* The process dies after one of the handler's commands.                   *)
CutShort(x) ==
  /\ "rest" \in Failing /\ x.lost = "none" /\ failures < MaxFailures /\ crashes < MaxCrashes
  /\ m' = Booted /\ db' \in x.trail \ {x.db}
  /\ failures' = failures + 1 /\ crashes' = crashes + 1 /\ UNCHANGED roomType

Step(x) == \E y \in {x} : Completes(y) \/ CutShort(y)

(* A command of a handler may fail.  Only failures are of interest that do *)
(* not lead where the handler leads without one.                           *)
Fates == {"none"} \cup (IF failures < MaxFailures THEN Failing \ {"rest"} ELSE {})

Matters(x, usual) == x.lost # "none" => \A y \in usual : <<x.m, x.db>> # <<y.m, y.db>>

(* onConnected.                                                            *)
Connect(c) ==
  /\ c \notin m.open
  /\ Step([Now EXCEPT !.m.open = @ \cup {c}, !.m.fresh = @ \cup {c}])

(* Mutant of Wanted: the room that was asked for comes first.              *)
WantedRoom(x, u, room) == IF room # Null THEN room ELSE x.db.zid[u]

(* The last room of the account comes before the room that is asked for.   *)
Wanted(x, u, room) ==
  IF x.lost # "zid" /\ x.db.zid[u] # Null THEN x.db.zid[u] ELSE room

(* msg_Login.  The same login again on the same connection only sends the  *)
(* state of the table again: it changes nothing.                           *)
LoggedIn(x, c, u, room, size, rich) ==
  LET y == Login(x, c, u)
      o == y.m.online[u]
      z == [y EXCEPT !.m.fresh = @ \ {c}, !.m.session = Insert(@, c, o)]
  IN EnterRoom(z, o, Wanted(x, u, room), Null, size, rich)

msg_Login(c, u) ==
  LET After(fate) == {LoggedIn(Doing(fate), c, u, room, size, rich) :
                        room \in Tids \cup {Null}, size \in Sizes, rich \in BOOLEAN}
      usual == After("none")
  IN /\ c \in m.open
     /\ Cardinality(m.live) + Cardinality(Users) <= Cardinality(Objs)
     /\ m.online[u] # Null => m.obj[m.online[u]].conn # c
     /\ SwitchUser \/ m.session[c] = Null
     /\ \E fate \in Fates : \E x \in After(fate) : Matters(x, usual) /\ Step(x)

(* msg_Logout: a player without a room is not logged out.                  *)
msg_Logout(c) ==
  LET o == m.session[c]
      x == RoomLogout(Now, o)
      y == IF x.ok THEN UserLogout(x, o) ELSE UserOffline(x, o)
  IN /\ o # Null /\ m.obj[o].table # Null
     /\ Step([y EXCEPT !.m.session[c] = Null])

ChangeTable(c) ==
  LET o == m.session[c]
      After(fate) == {ChangeTo(Doing(fate), o, rich) : rich \in BOOLEAN}
      usual == After("none")
  IN /\ o # Null
     /\ \E fate \in Fates : \E x \in After(fate) : Matters(x, usual) /\ Step(x)

(* The row of a table whose game starts or ends: SaveGameInfo writes the   *)
(* status and then the chairs, twice; GameEnd writes the status.           *)
SaveStatus(x, n, playing) ==
  Put(x, [x.db EXCEPT !.row[n].begun = TRUE, !.row[n].playing = playing])

Unready(x, n) ==
  [x EXCEPT !.m.table[n].chair = [s \in Seat |-> [@[s] EXCEPT !.ready = FALSE]]]

SaveChairs(x, n) ==
  LET t == x.m.table[n] IN
  Put(x, [x.db EXCEPT !.row[n].chair =
            [s \in Seat |-> IF s < t.size THEN t.chair[s].uid ELSE @[s]]])

GameStart(x, n) ==
  LET y == SaveChairs(SaveStatus(Unready(x, n), n, FALSE), n) IN
  [SaveChairs(SaveStatus(y, n, TRUE), n) EXCEPT !.m.table[n].playing = TRUE]

(* handle_ready of a player who has the money.                             *)
handle_ready(c) ==
  LET o == m.session[c]
      n == m.obj[o].table
      x == [Now EXCEPT !.m.table[n].chair[Min(ChairsOf(Now, n, Uid(Now, o)))].ready = TRUE]
      all == x.m.table[n].amount = x.m.table[n].size
             /\ \A s \in 0..(x.m.table[n].size - 1) :
                  Occupied(x.m.table[n].chair[s]) /\ x.m.table[n].chair[s].ready
  IN /\ o # Null /\ n # Null /\ ~m.table[n].playing /\ ChairsOf(Now, n, Uid(Now, o)) # {}
     /\ Step(IF all THEN GameStart(x, n) ELSE x)

(* A game ends: GameEnd and GameEndSpecial save the status.                *)
GameEnd(n) ==
  /\ n \in m.tables /\ m.table[n].playing
  /\ Step([SaveStatus(Unready(Now, n), n, FALSE) EXCEPT !.m.table[n].playing = FALSE])

(* OnTimer_ready throws out the seats that are late, but not players whose *)
(* table is another one.                                                   *)
ThrowOutOne(x, n, s, late) ==
  LET o == x.m.table[n].chair[s].obj IN
  IF s \in late /\ x.m.obj[o].table = n THEN LeaveTable(x, o, n, s) ELSE x

ThrowOut(n, late) ==
  /\ roomType = 0 /\ n \in m.tables /\ ~m.table[n].playing
  /\ late # {} /\ late \subseteq 0..(m.table[n].size - 1)
  /\ \A s \in late : LET c == m.table[n].chair[s] IN
       Occupied(c) /\ ~c.ready /\ m.obj[c.obj].table = n
  /\ Step(ThrowOutOne(ThrowOutOne(ThrowOutOne(Now, n, 0, late), n, 1, late), n, 2, late))

(* onClose of a connection that the client or the network closes.          *)
onClose(c) == c \in m.open /\ Step(Close(Now, c))

(* Mutant of OnTimeOut: the connection is not closed.                      *)
OnTimeOutIdle(c) == c \in m.fresh /\ Step([Now EXCEPT !.m.fresh = @ \ {c}])

(* OnTimeOut of a connection without a login, with KickClient.             *)
OnTimeOut(c) ==
  /\ c \in m.fresh
  /\ Step([Now EXCEPT !.m.fresh = @ \ {c}, !.m.tick = @ \cup {c}])

(* OnTimer_tick closes the connections that were kicked.                   *)
OnTimer_tick ==
  /\ m.tick # {}
  /\ Step(FoldSet(LAMBDA c, x : Close(x, c), Now, m.tick))

(* OnTimer_dismiss releases the tables of friends' rooms.                  *)
OnTimer_dismiss ==
  /\ m.dismissed # {}
  /\ Step([Now EXCEPT !.m.dismissed = {}])

(* The process dies between two handlers.                                  *)
Crash ==
  /\ m # Booted /\ crashes < MaxCrashes
  /\ m' = Booted /\ crashes' = crashes + 1 /\ UNCHANGED <<db, roomType, failures>>

Next ==
  \/ \E c \in Conns :
       \/ Connect(c) \/ (\E u \in Users : msg_Login(c, u)) \/ msg_Logout(c) \/ ChangeTable(c)
       \/ handle_ready(c) \/ onClose(c) \/ OnTimeOut(c)
  \/ \E n \in Tids : GameEnd(n) \/ \E late \in SUBSET Seat : ThrowOut(n, late)
  \/ OnTimer_tick \/ OnTimer_dismiss \/ Crash

Spec == Init /\ [][Next]_vars

(* Weak fairness: libev calls a timer that is due.                         *)
FairSpec ==
  /\ Spec
  /\ \A c \in Conns : WF_vars(OnTimeOut(c))
  /\ WF_vars(OnTimer_tick)

-----------------------------------------------------------------------------
(***************************************************************************)
(* A table as its players see it.  One that is not in memory is what its   *)
(* row says.  A player whom LoadInfo put back has no table until he comes. *)
(***************************************************************************)
SeatAs(n, s) ==
  LET c == m.table[n].chair[s] IN
  CASE n \notin m.tables -> IF db.row[n].chair[s] = Null THEN "free" ELSE "restored"
    [] n \in m.tables /\ c.uid = Null -> "free"
    [] n \in m.tables /\ c.uid # Null /\ ~c.offline -> "here"
    [] OTHER -> IF m.obj[c.obj].table = n THEN "absent" ELSE "restored"

GameOn(n) == IF n \in m.tables THEN m.table[n].playing ELSE db.row[n].playing

Seats(n) ==
  INSTANCE Seats WITH Places <- 0..(RoomSize - 1),
                      seat <- [s \in 0..(RoomSize - 1) |-> SeatAs(n, s)], game <- GameOn(n)

-----------------------------------------------------------------------------
(* Properties.                                                             *)

(* The memory, the databases and the counts stay within their types; in    *)
(* particular a table never counts more players than it has chairs.        *)
TypeOK ==
  /\ m \in Memory /\ db \in Database /\ roomType \in RoomTypes
  /\ failures \in 0..MaxFailures /\ crashes \in 0..MaxCrashes

(* msg_Login, KickOut, msg_Logout and onClose keep the server's two maps   *)
(* together: a connection leads to a player exactly when this player is    *)
(* online on it, and only connections that are open are left.              *)
ConnectionsAgree ==
  /\ \A c \in Conns : LET o == m.session[c] IN
       o # Null => c \in m.open /\ m.obj[o].conn = c /\ m.online[m.obj[o].uid] = o
  /\ \A u \in Users : LET o == m.online[u] IN
       o # Null => m.obj[o].online /\ m.session[m.obj[o].conn] = o
  /\ m.tick \subseteq m.open

(* No map and no chair leads to a Player object that was deleted.          *)
PointersLive ==
  LET Alive(f) == \A k \in DOMAIN f : f[k] # Null => f[k] \in m.live IN
  /\ Alive(m.session) /\ Alive(m.online) /\ Alive(m.offline)
  /\ Alive(m.here) /\ Alive(m.away)
  /\ \A n \in m.tables : Alive([s \in Seat |-> m.table[n].chair[s].obj])

(* A user has one Player object at most, which the server knows under his  *)
(* id, either online or offline: CreateUser and Login make no second one,  *)
(* as long as no command has failed.                                       *)
OnePlayerPerUser == failures = 0 =>
  /\ \A o \in m.live : LET u == m.obj[o].uid IN
       u # Null /\ {m.online[u], m.offline[u]} = {o, Null}
  /\ \A o, p \in m.live : m.obj[o].uid = m.obj[p].uid => o = p

SeatOf(n, u) == {s \in Seat : m.table[n].chair[s].uid = u}

(* The room's map of tables, the players' tables and the chairs agree: a   *)
(* player is at the table that has his chair, and the room knows him as    *)
(* here or as absent just as his chair does.                               *)
RoomAgrees ==
  \A u \in Users : LET n == m.at[u] IN
    /\ (n = Null) => m.here[u] = Null /\ m.away[u] = Null
    /\ (n # Null) =>
         /\ n \in m.tables /\ Cardinality(SeatOf(n, u)) = 1
         /\ LET c == m.table[n].chair[Min(SeatOf(n, u))] IN
              /\ m.obj[c.obj].table = n /\ m.obj[c.obj].uid = u
              /\ <<m.here[u], m.away[u]>> = IF c.offline THEN <<Null, c.obj>> ELSE <<c.obj, Null>>
              /\ c.offline <=> m.offline[u] = c.obj
    /\ \A o \in m.live : m.obj[o].uid = u => m.obj[o].table = n

(* A user has one chair at most, in all the rows together, and the last    *)
(* room of his account leads to it: who comes back finds his chair, as     *)
(* long as no command has failed.                                          *)
ChairFound == failures = 0 =>
  \A n \in Tids, u \in Users :
    Cardinality({s \in Seat : db.row[n].chair[s] = u}) = IF db.zid[u] = n THEN 1 ELSE 0

(* A table counts its players, its row has the same chairs, and a table    *)
(* that is dismissed has none: OnTimer_dismiss deletes nobody's table.     *)
TablesAgree ==
  /\ \A n \in m.tables : LET t == m.table[n] IN
       /\ t.amount = Cardinality({s \in Seat : t.chair[s].uid # Null})
       /\ \A s \in Seat : t.chair[s].uid = db.row[n].chair[s]
       /\ t.playing <=> db.row[n].playing
       /\ t.playing => t.amount = t.size
  /\ \A n \in m.dismissed :
       /\ n \notin m.tables /\ \A u \in Users : m.at[u] # n
       /\ \A o \in m.live : m.obj[o].table # n

(* Whoever logs in and has a chair, sits on it again, whatever room he     *)
(* asks for and whatever money he has (msg_Login, EnterRoom, Sitdown), as  *)
(* long as no command has failed.                                          *)
ComesBack ==
  [][failures' = 0 => \A u \in Users :
       db.zid[u] # Null /\ m'.online[u] # Null
         /\ (m.online[u] = Null \/ m.obj[m.online[u]].conn # m'.obj[m'.online[u]].conn)
       => m'.obj[m'.online[u]].table = db.zid[u] /\ db'.zid = db.zid /\ db'.row = db.row]_vars

(* A game that is played keeps its players, whoever comes, goes, loses the *)
(* connection or logs in twice, whichever command fails that does not take *)
(* an account or a row for an empty one, and through a restart.            *)
GameKeepsPlayers ==
  [][\A n \in Tids : db.row[n].playing => db'.row[n].chair = db.row[n].chair]_vars

(* A connection that does not log in in time is closed, and so is the one  *)
(* that a login elsewhere replaced (onConnected, OnTimeOut, KickOut and    *)
(* OnTimer_tick).                                                          *)
StrangersLeave ==
  \A c \in Conns :
    /\ c \in m.fresh ~> c \notin m.open \/ m.session[c] # Null
    /\ c \in m.tick ~> c \notin m.open

(* A game that is played has as many players as its table has places: the  *)
(* assertion of GameStart, for the whole game.                             *)
PlacesTaken == \A n \in m.tables : m.table[n].playing => m.table[n].amount = m.table[n].size

(* Every table keeps what Seats promises, when all have the same number of *)
(* places: whoever logs in, on any connection, wherever he was, changes no *)
(* seat but his own, and a restart takes none, as long as no command fails. *)
KeepsSeats ==
  /\ \A n \in Tids : Seats(n)!Init
  /\ [][failures' = 0 => \A n \in Tids : UNCHANGED Seats(n)!seats \/ Seats(n)!Next]_vars

=============================================================================
