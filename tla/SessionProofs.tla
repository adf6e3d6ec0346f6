--------------------------- MODULE SessionProofs ---------------------------
(***************************************************************************)
(* What Session promises for every number of users, connections and        *)
(* tables, for every failure it can bear and any number of restarts: TLC   *)
(* checks the same properties with two users and one failure.              *)
(***************************************************************************)
EXTENDS Session, TLAPS, FiniteSetTheorems

-----------------------------------------------------------------------------
(* Natural numbers.                                                        *)

LEMMA LeastThere ==
  ASSUME NEW S \in SUBSET Nat, S # {}
  PROVE  Min(S) \in S /\ \A k \in S : Min(S) <= k
<1>. DEFINE T == {0..k : k \in S}
            R == StrictSubsetOrdering(Nat)
<1>1. IsWellFoundedOn(R, FiniteSubsetsOf(Nat))  BY FS_StrictSubsetOrderingWellFounded
<1>2. T \subseteq FiniteSubsetsOf(Nat)
  <2>1. \A k \in S : 0..k \in SUBSET Nat /\ IsFiniteSet(0..k)  BY FS_Interval
  <2>. QED  BY <2>1 DEF FiniteSubsetsOf
<1>3. T # {}  BY Zenon
<1>4. PICK a \in T : \A b \in T : <<b, a>> \notin R
  <2>. HIDE DEF R, T
  <2>. QED  BY <1>1, <1>2, <1>3, WFMin
<1>5. PICK k \in S : a = 0..k  OBVIOUS
<1>6. ASSUME NEW j \in S  PROVE k <= j
  <2>. SUFFICES ASSUME j < k  PROVE FALSE  OBVIOUS
  <2>1. 0..j \subseteq 0..k /\ 0..j # 0..k /\ 0..j \in SUBSET Nat /\ 0..k \in SUBSET Nat
    <3>1. k \in 0..k /\ k \notin 0..j  OBVIOUS
    <3>. QED  BY <3>1
  <2>2. <<0..j, 0..k>> \in R  BY <2>1 DEF StrictSubsetOrdering
  <2>. QED  BY Zenon, <1>4, <1>5, <2>2
<1>. QED  BY Zenon, <1>6 DEF Min

LEMMA AllNaturals ==
  ASSUME NEW K, 0 \in K, \A k \in Nat : k \in K => k + 1 \in K
  PROVE  \A k \in Nat : k \in K
<1>. DEFINE S == {k \in Nat : k \notin K}
<1>. SUFFICES ASSUME S # {}  PROVE FALSE  OBVIOUS
<1>1. Min(S) \in S /\ \A k \in S : Min(S) <= k  BY LeastThere
<1>2. Min(S) # 0 /\ Min(S) - 1 \in Nat  BY <1>1
<1>3. Min(S) - 1 \in K  BY <1>1, <1>2
<1>4. Min(S) - 1 + 1 \in K  BY <1>2, <1>3
<1>. QED  BY <1>1, <1>2, <1>4

LEMMA GreatestThere ==
  ASSUME NEW b \in Nat, NEW S \in SUBSET (0..b), S # {}
  PROVE  Max(S) \in S
<1>. DEFINE D == {k \in 0..b : b - k \in S}
<1>1. D \in SUBSET Nat  OBVIOUS
<1>2. PICK j \in S : TRUE  BY Zenon
<1>3. b - j \in 0..b /\ b - (b - j) = j  OBVIOUS
<1>4. b - j \in D  BY <1>3
<1>5. Min(D) \in D /\ \A k \in D : Min(D) <= k  BY Zenon, <1>1, <1>4, LeastThere
<1>6. ASSUME NEW k \in S  PROVE b - Min(D) >= k
  <2>1. b - k \in 0..b /\ b - (b - k) = k  OBVIOUS
  <2>2. b - k \in D  BY <2>1
  <2>. QED  BY <1>5, <2>2
<1>7. b - Min(D) \in S  BY <1>5
<1>. QED  BY Zenon, <1>6, <1>7 DEF Max

-----------------------------------------------------------------------------
(* Whatever every Close keeps, closing all connections of a set keeps.     *)
LEMMA ClosingAll ==
  ASSUME NEW S, IsFiniteSet(S), NEW G, NEW base \in G,
         \A x \in G, c \in S : Close(x, c) \in G
  PROVE  FoldSet(LAMBDA c, x : Close(x, c), base, S) \in G
<1>. DEFINE One(s) == CHOOSE c \in s : TRUE
            Rest(g, s) == IF s = {} THEN base ELSE Close(g[s \ {One(s)}], One(s))
            All(g) == [s \in SUBSET S |-> Rest(g, s)]
            all == CHOOSE g : g = All(g)
            Upto(k) == {s \in SUBSET S : Cardinality(s) <= k}
            K == {k \in Nat : \E g : \A s \in Upto(k) : g[s] = Rest(g, s)}
<1>1. FoldSet(LAMBDA c, x : Close(x, c), base, S) = all[S]  BY DEF FoldSet, MapThenFoldSet
<1>2. \A s \in SUBSET S : IsFiniteSet(s) /\ Cardinality(s) \in Nat  BY FS_Subset, FS_CardinalityType
<1>3. ASSUME NEW s \in SUBSET S, s # {}
      PROVE  /\ One(s) \in s /\ s \ {One(s)} \in SUBSET S
             /\ Cardinality(s \ {One(s)}) = Cardinality(s) - 1
  <2>1. One(s) \in s  BY <1>3
  <2>. HIDE DEF One
  <2>. QED  BY <1>2, <2>1, FS_RemoveElement
<1>4. \A s \in SUBSET S : s # {} => Cardinality(s) > 0
  BY <1>2, FS_EmptySet
<1>. HIDE DEF One, all
<1>5. ASSUME NEW k \in Nat, NEW s \in Upto(k + 1), s # {}
      PROVE  One(s) \in S /\ s \ {One(s)} \in Upto(k)
  <2>1. s \in SUBSET S /\ Cardinality(s) <= k + 1 /\ Cardinality(s) \in Nat  BY <1>2
  <2>2. Cardinality(s) - 1 <= k  BY <2>1
  <2>. QED  BY <1>3, <1>5, <2>1, <2>2
<1>6. 0 \in K
  <2>. DEFINE g == [s \in SUBSET S |-> base]
  <2>1. ASSUME NEW s \in Upto(0)  PROVE g[s] = Rest(g, s)
    <3>1. s = {}  BY <1>2, <1>4
    <3>. QED  BY <3>1
  <2>. HIDE DEF g, Rest, Upto
  <2>. QED  BY <2>1
<1>7. ASSUME NEW k \in Nat, k \in K  PROVE k + 1 \in K
  <2>1. PICK g : \A s \in Upto(k) : g[s] = Rest(g, s)  BY Zenon, <1>7
  <2>. DEFINE h == All(g)
  <2>2. \A s \in SUBSET S : h[s] = Rest(g, s)
    <3>. HIDE DEF Rest
    <3>. QED  OBVIOUS
  <2>3. ASSUME NEW s \in Upto(k + 1)  PROVE h[s] = Rest(h, s)
    <3>1. CASE s = {}  BY <2>2, <3>1
    <3>2. CASE s # {}
      <4>. DEFINE t == s \ {One(s)}
      <4>1. t \in Upto(k)  BY <1>5, <3>2
      <4>2. h[t] = g[t]  BY Zenon, <2>1, <2>2, <4>1
      <4>3. h[s] = Close(g[t], One(s))  BY <2>2, <3>2
      <4>4. Rest(h, s) = Close(h[t], One(s))  BY <3>2
      <4>. QED  BY <4>2, <4>3, <4>4
    <3>. QED  BY <3>1, <3>2
  <2>. HIDE DEF h, Rest, Upto
  <2>. QED  BY <2>3
<1>8. Cardinality(S) \in K
  <2>. HIDE DEF K
  <2>. QED  BY <1>2, <1>6, <1>7, AllNaturals
<1>9. PICK g : \A s \in SUBSET S : g[s] = Rest(g, s)
  <2>1. SUBSET S = Upto(Cardinality(S))  BY <1>2, FS_Subset
  <2>. QED  BY Zenon, <1>8, <2>1
<1>10. all = All(all)
  <2>. DEFINE h == All(g)
  <2>1. \A s \in SUBSET S : h[s] = g[s]  BY Zenon, <1>9
  <2>2. ASSUME NEW s \in SUBSET S  PROVE Rest(h, s) = Rest(g, s)
    <3>1. CASE s = {}  BY <3>1
    <3>2. CASE s # {}  BY Zenon, <1>3, <2>1, <3>2
    <3>. QED  BY Zenon, <3>1, <3>2
  <2>3. h = All(h)
    <3>. HIDE DEF Rest
    <3>. QED  BY Zenon, <2>2
  <2>. HIDE DEF h, All
  <2>. QED  BY <2>3 DEF all
<1>11. \A s \in SUBSET S : all[s] = Rest(all, s)
  <2>. HIDE DEF Rest
  <2>. QED  BY <1>10
<1>. DEFINE J == {k \in Nat : \A s \in Upto(k) : all[s] \in G}
<1>12. 0 \in J
  <2>1. ASSUME NEW s \in Upto(0)  PROVE all[s] \in G
    <3>1. s = {}  BY <1>2, <1>4
    <3>. QED  BY Zenon, <1>11, <3>1
  <2>. QED  BY <2>1
<1>13. ASSUME NEW k \in Nat, k \in J  PROVE k + 1 \in J
  <2>1. ASSUME NEW s \in Upto(k + 1)  PROVE all[s] \in G
    <3>1. CASE s = {}  BY Zenon, <1>11, <3>1
    <3>2. CASE s # {}
      <4>. DEFINE t == s \ {One(s)}
      <4>1. t \in Upto(k) /\ One(s) \in S  BY <1>5, <3>2
      <4>2. all[t] \in G  BY <1>13, <4>1
      <4>3. all[s] = Close(all[t], One(s))  BY <1>11, <3>2
      <4>. QED  BY <4>1, <4>2, <4>3
    <3>. QED  BY <3>1, <3>2
  <2>. QED  BY <2>1
<1>14. Cardinality(S) \in J
  <2>. HIDE DEF J
  <2>. QED  BY <1>2, <1>12, <1>13, AllNaturals
<1>15. S \in Upto(Cardinality(S))  BY <1>2
<1>. QED  BY Zenon, <1>1, <1>14, <1>15

-----------------------------------------------------------------------------
(***************************************************************************)
(* What a handler works on, and the parts of the memory that a step of it  *)
(* leaves alone: the server, the maps of the room, the tables.             *)
(***************************************************************************)
Work == [m : Memory, db : Database, trail : SUBSET Database,
         lost : Failing \cup {"none"}, found : Tids \cup {Null}, ok : BOOLEAN]

SameServer(g, h) ==
  /\ h.open = g.open /\ h.fresh = g.fresh /\ h.tick = g.tick /\ h.session = g.session
  /\ h.online = g.online /\ h.offline = g.offline /\ h.live = g.live
SameRoom(g, h) == h.here = g.here /\ h.away = g.away /\ h.at = g.at
SameTables(g, h) == h.tables = g.tables /\ h.dismissed = g.dismissed /\ h.table = g.table
SameRest(x, y) == y.db = x.db /\ y.trail = x.trail /\ y.lost = x.lost

LEMMA NullIsNone ==
  /\ Null \in Ids /\ Null \notin Users /\ Null \notin Conns /\ Null \notin Objs /\ Null \notin Tids
  /\ Objs \subseteq Nat /\ Tids \subseteq Nat /\ MaxTid \in Nat /\ Users \subseteq Ids
  BY NamesAssumption DEF Null, Ids, Tids

LEMMA SeatsAre ==
  /\ Seat = {0, 1, 2} /\ RoomSize \in {2, 3} /\ Seat \subseteq Nat
  /\ \A k \in 2..3 : 0..(k - 1) \subseteq Seat /\ 0 \in 0..(k - 1) /\ 1 \in 0..(k - 1)
<1>1. Seat = {0, 1, 2} /\ Seat \subseteq Nat  BY DEF Seat
<1>2. RoomSize \in {2, 3}  BY RoomAssumption
<1>3. \A k \in 2..3 : 0..(k - 1) \subseteq Seat /\ 0 \in 0..(k - 1) /\ 1 \in 0..(k - 1)
  BY DEF Seat
<1>. QED  BY <1>1, <1>2, <1>3

LEMMA FreshTyped ==
  /\ NoPlayer \in Player /\ FreeChair \in Chair
  /\ \A k \in 2..3 : FreshTable(k) \in Table
  /\ NoRow \in Row /\ Booted \in Memory
<1>1. NoPlayer \in Player  BY NullIsNone DEF NoPlayer, Player
<1>2. FreeChair \in Chair  BY NullIsNone DEF FreeChair, Chair
<1>3. \A k \in 2..3 : FreshTable(k) \in Table  BY <1>2 DEF FreshTable, Table
<1>4. NoRow \in Row  BY NullIsNone DEF NoRow, Row
<1>5. RoomSize \in 2..3  BY RoomAssumption
<1>6. Booted \in Memory
  <2>. DEFINE none == [u \in Ids |-> Null]
  <2>1. none \in [Ids -> Objs \cup {Null}] /\ none \in [Ids -> Tids \cup {Null}]  OBVIOUS
  <2>2. [c \in Conns |-> Null] \in [Conns -> Objs \cup {Null}]  OBVIOUS
  <2>3. [o \in Objs |-> NoPlayer] \in [Objs -> Player]  BY <1>1
  <2>4. [n \in Tids |-> FreshTable(RoomSize)] \in [Tids -> Table]  BY <1>3, <1>5
  <2>. QED  BY <2>1, <2>2, <2>3, <2>4, Zenon DEF Booted, Memory
<1>. QED  BY <1>1, <1>2, <1>3, <1>4, <1>6

LEMMA PutDoes ==
  ASSUME NEW x \in Work, NEW d \in Database
  PROVE  LET y == Put(x, d) IN
         /\ y \in Work /\ y.m = x.m /\ y.db = d /\ y.trail = x.trail \cup {d}
         /\ y.lost = x.lost /\ y.found = x.found /\ y.ok = x.ok
  BY Zenon DEF Put, Work

LEMMA InsertTyped ==
  ASSUME NEW S, NEW T, NEW f \in [S -> T], NEW k \in S, NEW v \in T
  PROVE  /\ Insert(f, k, v) \in [S -> T]
         /\ \A j \in S : Insert(f, k, v)[j] = IF j = k /\ f[k] = Null THEN v ELSE f[j]
  BY DEF Insert

LEMMA SetLastRoomDoes ==
  ASSUME NEW x \in Work, NEW u \in Ids, NEW n \in Tids \cup {Null}
  PROVE  LET y == SetLastRoom(x, u, n)
             failed == x.lost = (IF n = Null THEN "leave" ELSE "enter") IN
         /\ y \in Work /\ y.m = x.m /\ y.lost = x.lost /\ y.found = x.found /\ y.ok = x.ok
         /\ y.db.row = x.db.row /\ y.db.rooms = x.db.rooms /\ y.db.tid = x.db.tid
         /\ y.db.zid = IF failed THEN x.db.zid ELSE [x.db.zid EXCEPT ![u] = n]
         /\ y.trail = IF failed THEN x.trail ELSE x.trail \cup {y.db}
<1>. DEFINE failed == x.lost = (IF n = Null THEN "leave" ELSE "enter")
            d == [x.db EXCEPT !.zid[u] = n]
<1>1. x.db \in Database  BY DEF Work
<1>2. /\ d \in Database /\ d.row = x.db.row /\ d.rooms = x.db.rooms /\ d.tid = x.db.tid
      /\ d.zid = [x.db.zid EXCEPT ![u] = n]
  BY <1>1 DEF Database
<1>3. SetLastRoom(x, u, n) = IF failed THEN x ELSE Put(x, d)  BY DEF SetLastRoom
<1>. HIDE DEF d, failed
<1>4. CASE failed  BY <1>3, <1>4 DEF failed
<1>5. CASE ~failed  BY <1>2, <1>3, <1>5, PutDoes DEF failed
<1>. QED  BY <1>4, <1>5

LEMMA LeaveRoomDoes ==
  ASSUME NEW x \in Work, NEW o \in Objs
  PROVE  LET y == LeaveRoom(x, o)
             u == x.m.obj[o].uid IN
         /\ y \in Work /\ SameRest(x, y) /\ y.found = x.found /\ y.ok = x.ok
         /\ SameServer(x.m, y.m) /\ SameTables(x.m, y.m)
         /\ y.m.obj = [x.m.obj EXCEPT ![o].table = Null]
         /\ y.m.here = [x.m.here EXCEPT ![u] = Null]
         /\ y.m.away = [x.m.away EXCEPT ![u] = Null]
         /\ y.m.at = [x.m.at EXCEPT ![u] = Null]
<1>. DEFINE u == Uid(x, o)
            obj == [x.m.obj EXCEPT ![o].table = Null]
            here == [x.m.here EXCEPT ![u] = Null]
            away == [x.m.away EXCEPT ![u] = Null]
            at == [x.m.at EXCEPT ![u] = Null]
            g == [x.m EXCEPT !.obj = obj, !.here = here, !.away = away, !.at = at]
<1>1. x.m \in Memory  BY DEF Work
<1>2. LeaveRoom(x, o) = [x EXCEPT !.m = g]  BY Zenon DEF LeaveRoom
<1>3. /\ obj \in [Objs -> Player] /\ here \in [Ids -> Objs \cup {Null}]
      /\ away \in [Ids -> Objs \cup {Null}] /\ at \in [Ids -> Tids \cup {Null}]
  BY ZenonT(60), <1>1 DEF Memory, Player
<1>. HIDE DEF obj, here, away, at
<1>4. /\ g \in Memory /\ SameServer(x.m, g) /\ SameTables(x.m, g)
      /\ g.obj = obj /\ g.here = here /\ g.away = away /\ g.at = at
  <2>1. g \in Memory  BY Zenon, <1>1, <1>3 DEF Memory
  <2>2. SameServer(x.m, g) /\ SameTables(x.m, g)
    BY Zenon, <1>1 DEF Memory, SameServer, SameTables
  <2>3. g.obj = obj /\ g.here = here /\ g.away = away /\ g.at = at  BY Zenon, <1>1 DEF Memory
  <2>. QED  BY <2>1, <2>2, <2>3, Zenon
<1>. HIDE DEF g
<1>5. LeaveRoom(x, o).m = g /\ LeaveRoom(x, o) \in Work /\ SameRest(x, LeaveRoom(x, o))
      /\ LeaveRoom(x, o).found = x.found /\ LeaveRoom(x, o).ok = x.ok
  BY <1>2, <1>4 DEF Work, SameRest
<1>6. Uid(x, o) = x.m.obj[o].uid  BY DEF Uid
<1>. QED  BY <1>4, <1>5, <1>6 DEF obj, here, away, at

(* The table and the row after a chair is freed, and what else a handler   *)
(* saves on its way there.                                                 *)
Emptied(t, s) == [t EXCEPT !.chair[s] = FreeChair, !.amount = @ - 1]
Without(r, s) == [r EXCEPT !.chair[s] = Null]

Leaves(x, o, n, s, y) ==
  LET u == x.m.obj[o].uid
      last == x.m.table[n].amount = 1
      row == [x.db.row EXCEPT ![n] = Without(x.db.row[n], s)] IN
  /\ y \in Work /\ y.lost = x.lost /\ y.found = x.found /\ y.ok = x.ok
  /\ SameServer(x.m, y.m)
  /\ y.m.obj = [x.m.obj EXCEPT ![o].table = Null]
  /\ y.m.here = [x.m.here EXCEPT ![u] = Null]
  /\ y.m.away = [x.m.away EXCEPT ![u] = Null]
  /\ y.m.at = [x.m.at EXCEPT ![u] = Null]
  /\ y.m.table = [x.m.table EXCEPT ![n] = Emptied(x.m.table[n], s)]
  /\ y.m.tables = IF last /\ roomType = 1 THEN x.m.tables \ {n} ELSE x.m.tables
  /\ y.m.dismissed = IF last /\ roomType = 1 THEN x.m.dismissed \cup {n} ELSE x.m.dismissed
  /\ y.db.zid = IF x.lost = "leave" THEN x.db.zid ELSE [x.db.zid EXCEPT ![u] = Null]
  /\ y.db.row = IF last THEN [x.db.row EXCEPT ![n] = NoRow] ELSE row
  /\ y.db.rooms = IF last /\ roomType = 1 THEN x.db.rooms \ {n} ELSE x.db.rooms
  /\ y.db.tid = x.db.tid
  /\ \A d \in y.trail : \/ d \in x.trail
                        \/ d.tid = x.db.tid /\ d.row \in {x.db.row, row, y.db.row}

LEMMA LeaveTableDoes ==
  ASSUME NEW x \in Work, NEW o \in Objs, NEW n \in Tids, NEW s \in Seat,
         x.m.table[n].amount # 0
  PROVE  Leaves(x, o, n, s, LeaveTable(x, o, n, s))
<1>. DEFINE u == x.m.obj[o].uid
            x1 == [x EXCEPT !.m.obj[o].table = Null]
            x2 == SetLastRoom(x1, Uid(x, o), Null)
            a == LeaveRoom(x2, o)
            t == Emptied(x.m.table[n], s)
            b == [a EXCEPT !.m.table[n].chair[s] = FreeChair, !.m.table[n].amount = @ - 1]
            row == [x.db.row EXCEPT ![n] = Without(x.db.row[n], s)]
            c1 == [b.db EXCEPT !.row[n].chair[s] = Null]
            c == Put(b, c1)
            d1 == [c.db EXCEPT !.row[n] = NoRow]
            d == Put(c, d1)
            obj == [x.m.obj EXCEPT ![o].table = Null]
            last == x.m.table[n].amount = 1
<1>1. /\ x.m \in Memory /\ x.db \in Database /\ x.m.obj \in [Objs -> Player]
      /\ x.m.table \in [Tids -> Table] /\ x.m.table[n] \in Table /\ x.db.row \in [Tids -> Row]
  BY DEF Work, Memory, Database
<1>2. obj \in [Objs -> Player] /\ obj[o].uid = u /\ u \in Ids
      /\ [obj EXCEPT ![o].table = Null] = obj
  BY <1>1 DEF Player
<1>3. /\ x1 \in Work /\ SameRest(x, x1) /\ x1.found = x.found /\ x1.ok = x.ok
      /\ SameServer(x.m, x1.m) /\ SameRoom(x.m, x1.m) /\ SameTables(x.m, x1.m) /\ x1.m.obj = obj
  <2>. DEFINE g == [x.m EXCEPT !.obj = obj]
  <2>1. x1 = [x EXCEPT !.m = g]  OBVIOUS
  <2>. HIDE DEF x1, obj
  <2>2. g \in Memory /\ SameServer(x.m, g) /\ SameRoom(x.m, g) /\ SameTables(x.m, g) /\ g.obj = obj
    BY Zenon, <1>1, <1>2 DEF Memory, SameServer, SameRoom, SameTables
  <2>. HIDE DEF g
  <2>. QED  BY <2>1, <2>2 DEF Work, SameRest
<1>. HIDE DEF x1
<1>4. /\ x2 \in Work /\ x2.m = x1.m /\ x2.lost = x.lost /\ x2.found = x.found /\ x2.ok = x.ok
      /\ x2.db.row = x.db.row /\ x2.db.rooms = x.db.rooms /\ x2.db.tid = x.db.tid
      /\ x2.db.zid = IF x.lost = "leave" THEN x.db.zid ELSE [x.db.zid EXCEPT ![u] = Null]
      /\ \A e \in x2.trail : e \in x.trail \/ e = x2.db
  <2>1. x2 = SetLastRoom(x1, u, Null)  BY DEF Uid
  <2>. HIDE DEF x2, u
  <2>2. /\ x2 \in Work /\ x2.m = x1.m
        /\ x2.lost = x1.lost /\ x2.found = x1.found /\ x2.ok = x1.ok
        /\ x2.db.row = x1.db.row /\ x2.db.rooms = x1.db.rooms /\ x2.db.tid = x1.db.tid
        /\ x2.db.zid = IF x1.lost = "leave" THEN x1.db.zid ELSE [x1.db.zid EXCEPT ![u] = Null]
        /\ x2.trail = IF x1.lost = "leave" THEN x1.trail ELSE x1.trail \cup {x2.db}
    BY SMTT(60), <1>2, <1>3, <2>1, SetLastRoomDoes
  <2>. QED  BY <1>3, <2>2 DEF SameRest
<1>. HIDE DEF x2
<1>5. /\ a \in Work /\ SameRest(x2, a) /\ a.found = x.found /\ a.ok = x.ok
      /\ SameServer(x.m, a.m) /\ SameTables(x.m, a.m)
      /\ a.m.obj = obj
      /\ a.m.here = [x.m.here EXCEPT ![u] = Null]
      /\ a.m.away = [x.m.away EXCEPT ![u] = Null]
      /\ a.m.at = [x.m.at EXCEPT ![u] = Null]
  <2>1. x2.m.obj = obj /\ x2.m.obj[o].uid = u  BY Zenon, <1>2, <1>3, <1>4
  <2>. HIDE DEF a, obj, u
  <2>2. /\ a \in Work /\ SameRest(x2, a) /\ a.found = x2.found /\ a.ok = x2.ok
        /\ SameServer(x2.m, a.m) /\ SameTables(x2.m, a.m)
        /\ a.m.obj = [x2.m.obj EXCEPT ![o].table = Null]
        /\ a.m.here = [x2.m.here EXCEPT ![u] = Null]
        /\ a.m.away = [x2.m.away EXCEPT ![u] = Null]
        /\ a.m.at = [x2.m.at EXCEPT ![u] = Null]
    BY Zenon, <1>4, <2>1, LeaveRoomDoes DEF a
  <2>. QED  BY <1>2, <1>3, <1>4, <2>1, <2>2 DEF SameServer, SameRoom, SameTables
<1>. HIDE DEF a, obj, u
<1>6. t \in Table /\ t.amount = x.m.table[n].amount - 1
  <2>1. /\ x.m.table[n].amount \in 0..3 /\ x.m.table[n].chair \in [Seat -> Chair]
        /\ x.m.table[n].amount - 1 \in 0..3
    BY <1>1 DEF Table
  <2>2. [x.m.table[n].chair EXCEPT ![s] = FreeChair] \in [Seat -> Chair]
    BY <2>1, FreshTyped
  <2>3. t = [x.m.table[n] EXCEPT !.chair = [x.m.table[n].chair EXCEPT ![s] = FreeChair],
                                 !.amount = x.m.table[n].amount - 1]
    BY DEF Emptied
  <2>. HIDE DEF t
  <2>. QED  BY Zenon, <1>1, <2>1, <2>2, <2>3 DEF Table
<1>7. /\ b \in Work /\ SameRest(a, b) /\ b.found = x.found /\ b.ok = x.ok
      /\ SameServer(x.m, b.m) /\ SameRoom(a.m, b.m) /\ b.m.obj = obj
      /\ b.m.tables = x.m.tables /\ b.m.dismissed = x.m.dismissed
      /\ b.m.table = [x.m.table EXCEPT ![n] = t]
  <2>. DEFINE g == [a.m EXCEPT !.table = [x.m.table EXCEPT ![n] = t]]
  <2>1. a.m.table = x.m.table /\ a.m \in Memory  BY <1>5 DEF SameTables, Work
  <2>2. b = [a EXCEPT !.m = g]  BY ZenonT(60), <1>1, <2>1 DEF Emptied, Table
  <2>. HIDE DEF b, t
  <2>3. [x.m.table EXCEPT ![n] = t] \in [Tids -> Table]  BY <1>1, <1>6
  <2>4. /\ g \in Memory /\ SameServer(a.m, g) /\ SameRoom(a.m, g) /\ g.obj = a.m.obj
        /\ g.tables = a.m.tables /\ g.dismissed = a.m.dismissed
        /\ g.table = [x.m.table EXCEPT ![n] = t]
    BY Zenon, <2>1, <2>3 DEF Memory, SameServer, SameRoom
  <2>. HIDE DEF g
  <2>5. b \in Work /\ b.m = g /\ SameRest(a, b) /\ b.found = a.found /\ b.ok = a.ok
    BY <1>5, <2>2, <2>4 DEF Work, SameRest
  <2>. QED  BY <1>5, <2>4, <2>5 DEF SameServer, SameTables
<1>. HIDE DEF b, t
<1>8. b.db.row = x.db.row /\ b.db = x2.db /\ b.db \in Database /\ b.trail = x2.trail
  BY <1>4, <1>5, <1>7 DEF SameRest, Work
<1>9. /\ c1 \in Database /\ c1.row = row /\ c1.zid = x2.db.zid /\ c1.rooms = x.db.rooms
      /\ c1.tid = x.db.tid
  <2>1. Without(x.db.row[n], s) \in Row  BY <1>1 DEF Without, Row, Ids
  <2>2. row \in [Tids -> Row]  BY <1>1, <2>1
  <2>3. c1 = [b.db EXCEPT !.row = row]  BY <1>8 DEF Without
  <2>. HIDE DEF row, c1
  <2>. QED  BY <1>4, <1>8, <2>2, <2>3 DEF Database
<1>. HIDE DEF c1
<1>10. /\ c \in Work /\ c.m = b.m /\ c.db = c1 /\ c.trail = b.trail \cup {c1}
       /\ c.lost = x.lost /\ c.found = x.found /\ c.ok = x.ok
  BY <1>4, <1>5, <1>7, <1>9, PutDoes DEF SameRest
<1>. HIDE DEF c
<1>11. /\ d1 \in Database /\ d1.row = [x.db.row EXCEPT ![n] = NoRow] /\ d1.zid = x2.db.zid
       /\ d1.rooms = x.db.rooms /\ d1.tid = x.db.tid
  <2>1. [row EXCEPT ![n] = NoRow] = [x.db.row EXCEPT ![n] = NoRow]  BY <1>1
  <2>2. [row EXCEPT ![n] = NoRow] \in [Tids -> Row]  BY <1>1, <2>1, FreshTyped
  <2>. HIDE DEF row
  <2>3. d1 = [c1 EXCEPT !.row = [row EXCEPT ![n] = NoRow]]  BY <1>9, <1>10
  <2>. HIDE DEF d1
  <2>. QED  BY <1>9, <2>1, <2>2, <2>3 DEF Database
<1>. HIDE DEF d1
<1>12. /\ d \in Work /\ d.m = b.m /\ d.db = d1 /\ d.trail = c.trail \cup {d1}
       /\ d.lost = x.lost /\ d.found = x.found /\ d.ok = x.ok
  BY <1>10, <1>11, PutDoes
<1>. HIDE DEF d
<1>13. c.m.table[n].amount = x.m.table[n].amount - 1
  BY <1>1, <1>6, <1>7, <1>10
<1>14. x.m.table[n].amount \in 0..3  BY <1>1 DEF Table
<1>15. LeaveTable(x, o, n, s) =
         IF c.m.table[n].amount # 0 THEN c ELSE IF roomType = 1 THEN DismissLater(d, n) ELSE d
  BY Zenon DEF LeaveTable, c, d, d1, c1, b, a, x2, x1
<1>16. CASE ~last
  <2>1. LeaveTable(x, o, n, s) = c  BY <1>13, <1>14, <1>15, <1>16
  <2>. QED  BY <1>4, <1>5, <1>7, <1>8, <1>9, <1>10, <1>16, <2>1
       DEF Leaves, SameServer, SameRoom, SameTables, SameRest, obj, t, u
<1>17. CASE last /\ roomType # 1
  <2>1. LeaveTable(x, o, n, s) = d  BY <1>13, <1>14, <1>15, <1>17
  <2>. QED  BY <1>4, <1>5, <1>7, <1>8, <1>9, <1>10, <1>11, <1>12, <1>17, <2>1
       DEF Leaves, SameServer, SameRoom, SameTables, SameRest, obj, t, u
<1>18. CASE last /\ roomType = 1
  <2>. DEFINE e1 == [d.db EXCEPT !.rooms = @ \ {n}]
              e == Put(d, e1)
              y == [e EXCEPT !.m.tables = @ \ {n}, !.m.dismissed = @ \cup {n}]
              g == [e.m EXCEPT !.tables = @ \ {n}, !.dismissed = @ \cup {n}]
  <2>1. LeaveTable(x, o, n, s) = y  BY <1>13, <1>14, <1>15, <1>18 DEF DismissLater
  <2>2. /\ e1 \in Database /\ e1.row = d1.row /\ e1.zid = d1.zid /\ e1.tid = d1.tid
        /\ e1.rooms = d1.rooms \ {n}
    BY <1>11, <1>12 DEF Database
  <2>. HIDE DEF e1
  <2>3. /\ e \in Work /\ e.m = b.m /\ e.db = e1 /\ e.trail = d.trail \cup {e1}
        /\ e.lost = x.lost /\ e.found = x.found /\ e.ok = x.ok
    BY <1>12, <2>2, PutDoes
  <2>. HIDE DEF e
  <2>4. e.m \in Memory  BY <2>3 DEF Work
  <2>5. /\ g \in Memory /\ SameServer(e.m, g) /\ SameRoom(e.m, g) /\ g.obj = e.m.obj
        /\ g.table = e.m.table /\ g.tables = e.m.tables \ {n}
        /\ g.dismissed = e.m.dismissed \cup {n}
    BY Zenon, <2>4 DEF Memory, SameServer, SameRoom
  <2>6. y = [e EXCEPT !.m = g]  BY Zenon
  <2>. HIDE DEF g, y
  <2>7. y \in Work /\ y.m = g /\ SameRest(e, y) /\ y.found = e.found /\ y.ok = e.ok
    BY <2>3, <2>5, <2>6 DEF Work, SameRest
  <2>. QED  BY <1>4, <1>5, <1>7, <1>8, <1>9, <1>10, <1>11, <1>12, <1>18,
               <2>1, <2>2, <2>3, <2>5, <2>7
       DEF Leaves, SameServer, SameRoom, SameTables, SameRest, obj, t, u
<1>. QED  BY <1>16, <1>17, <1>18

-----------------------------------------------------------------------------
(***************************************************************************)
(* The room: a table counts its players and, once it is in memory, has the *)
(* chairs of its row; nobody has two chairs in a row; a game has all its   *)
(* players.  These facts need nothing of the server's maps.                *)
(***************************************************************************)
Taken(t) ==
  LET One(s) == IF t.chair[s].uid = Null THEN 0 ELSE 1 IN One(0) + One(1) + One(2)

TableWell(t) ==
  /\ t.size = RoomSize /\ t.amount = Taken(t)
  /\ \A s \in Seat : t.chair[s].uid = Null <=> t.chair[s].obj = Null
  /\ \A s \in Seat : s >= RoomSize => t.chair[s].uid = Null

RowWell(r) ==
  /\ \A s, q \in Seat : s # q /\ r.chair[s] # Null => r.chair[s] # r.chair[q]
  /\ \A s \in Seat : s >= RoomSize => r.chair[s] = Null
  /\ r.playing => r.begun /\ \A s \in 0..(RoomSize - 1) : r.chair[s] # Null

Mirrors(t, r) == (t.playing <=> r.playing) /\ \A s \in Seat : t.chair[s].uid = r.chair[s]

RowsWell(d) ==
  /\ \A n \in Tids : RowWell(d.row[n])
  /\ roomType = 0 => \A n \in Tids : n > d.tid => d.row[n] = NoRow

Rooms(g, d) ==
  /\ RowsWell(d)
  /\ \A n \in Tids : TableWell(g.table[n])
  /\ \A n \in g.tables : Mirrors(g.table[n], d.row[n])
  /\ \A n \in Tids \ g.tables : g.table[n].amount = 0 /\ ~g.table[n].playing
  /\ roomType = 0 => \A n \in g.tables : n <= d.tid
  /\ \A n \in g.dismissed : n \notin g.tables /\ n \notin d.rooms /\ roomType = 1

(* What a handler may not do to the rows of the games that are played.     *)
Keeps(e, d) ==
  \A n \in Tids : e.row[n].playing => d.row[n].playing /\ d.row[n].chair = e.row[n].chair

Good(e, x) ==
  /\ x \in Work /\ Rooms(x.m, x.db) /\ Keeps(e, x.db)
  /\ \A d \in x.trail : RowsWell(d) /\ Keeps(e, d)

LEMMA WorkTyped ==
  ASSUME NEW x \in Work
  PROVE  /\ x.m \in Memory /\ x.db \in Database
         /\ x.m.open \subseteq Conns /\ x.m.fresh \subseteq Conns /\ x.m.tick \subseteq Conns
         /\ x.m.session \in [Conns -> Objs \cup {Null}]
         /\ x.m.online \in [Ids -> Objs \cup {Null}] /\ x.m.offline \in [Ids -> Objs \cup {Null}]
         /\ x.m.live \subseteq Objs /\ x.m.obj \in [Objs -> Player]
         /\ x.m.here \in [Ids -> Objs \cup {Null}] /\ x.m.away \in [Ids -> Objs \cup {Null}]
         /\ x.m.at \in [Ids -> Tids \cup {Null}]
         /\ x.m.tables \subseteq Tids /\ x.m.dismissed \subseteq Tids
         /\ x.m.table \in [Tids -> Table]
         /\ x.db.zid \in [Ids -> Tids \cup {Null}] /\ x.db.row \in [Tids -> Row]
         /\ x.db.rooms \subseteq Tids /\ x.db.tid \in 0..MaxTid
         /\ x.found \in Tids \cup {Null} /\ x.ok \in BOOLEAN /\ x.lost \in Failing \cup {"none"}
         /\ x.trail \subseteq Database
<1>1. x.m \in Memory /\ x.db \in Database  BY DEF Work
<1>. QED  BY <1>1 DEF Work, Memory, Database

LEMMA TableTyped ==
  ASSUME NEW t \in Table
  PROVE  /\ t.size \in 2..3 /\ t.playing \in BOOLEAN /\ t.amount \in 0..3
         /\ t.chair \in [Seat -> Chair]
         /\ \A s \in Seat : /\ t.chair[s] \in Chair
                            /\ t.chair[s].uid \in Ids /\ t.chair[s].obj \in Objs \cup {Null}
                            /\ t.chair[s].offline \in BOOLEAN /\ t.chair[s].ready \in BOOLEAN
  BY DEF Table, Chair

LEMMA PlayerTyped ==
  ASSUME NEW p \in Player
  PROVE  /\ p.uid \in Ids /\ p.conn \in Conns \cup {Null} /\ p.online \in BOOLEAN
         /\ p.table \in Tids \cup {Null}
  BY DEF Player

LEMMA NoRowWell == RowWell(NoRow)
  BY SeatsAre DEF RowWell, NoRow

(* A table without players has no chair that is taken, and a full one none *)
(* that is free.                                                           *)
LEMMA TakenAre ==
  ASSUME NEW t \in Table, TableWell(t)
  PROVE  /\ t.amount = 0 <=> \A s \in Seat : t.chair[s].uid = Null
         /\ t.amount <= t.size
         /\ t.amount = t.size <=> \A s \in 0..(RoomSize - 1) : t.chair[s].uid # Null
<1>1. \A s \in Seat : t.chair[s].uid = Null \/ t.chair[s].uid # Null  OBVIOUS
<1>2. CASE RoomSize = 2
  <2>1. 0..(RoomSize - 1) = {0, 1} /\ t.chair[2].uid = Null /\ t.size = 2
    BY <1>2, SeatsAre DEF TableWell
  <2>. QED  BY <2>1, SeatsAre DEF TableWell, Taken
<1>3. CASE RoomSize = 3
  <2>1. 0..(RoomSize - 1) = {0, 1, 2} /\ t.size = 3
    BY <1>3 DEF TableWell
  <2>. QED  BY <2>1, SeatsAre DEF TableWell, Taken
<1>. QED  BY <1>2, <1>3, SeatsAre

(* A step at a table in memory, with its row.                              *)
LEMMA RowChanges ==
  ASSUME NEW e, NEW x, NEW y \in Work, Good(e, x),
         NEW n \in Tids, NEW t \in Table, NEW r \in Row, NEW q \in Row,
         TableWell(t), RowWell(r), Mirrors(t, r), RowWell(q),
         y.m.table = [x.m.table EXCEPT ![n] = t],
         y.db.row = [x.db.row EXCEPT ![n] = r], y.db.tid = x.db.tid,
         roomType = 0 => n <= x.db.tid,
         \/ /\ n \in x.m.tables \/ n \notin x.m.dismissed
            /\ y.m.tables = x.m.tables \cup {n} /\ y.m.dismissed = x.m.dismissed
            /\ y.db.rooms = x.db.rooms
         \/ /\ roomType = 1 /\ t.amount = 0 /\ ~t.playing
            /\ y.m.tables = x.m.tables \ {n} /\ y.m.dismissed = x.m.dismissed \cup {n}
            /\ y.db.rooms = x.db.rooms \ {n},
         e.row[n].playing =>
           r.playing /\ r.chair = e.row[n].chair /\ q.playing /\ q.chair = e.row[n].chair,
         \A d \in y.trail : \/ d \in x.trail
                            \/ d.tid = x.db.tid /\ d.row \in {x.db.row, [x.db.row EXCEPT ![n] = q],
                                                              y.db.row}
  PROVE  Good(e, y)
<1>1. x \in Work /\ Rooms(x.m, x.db) /\ Keeps(e, x.db) /\ RowsWell(x.db)  BY DEF Good, Rooms
<1>2. /\ x.m.table \in [Tids -> Table] /\ x.db.row \in [Tids -> Row]
      /\ x.m.tables \subseteq Tids /\ x.db.tid \in Nat /\ Tids \subseteq Nat
  BY <1>1, WorkTyped, NullIsNone
<1>4. ASSUME NEW v \in Row, RowWell(v),
             e.row[n].playing => v.playing /\ v.chair = e.row[n].chair,
             NEW d, d.row = [x.db.row EXCEPT ![n] = v], d.tid = x.db.tid
      PROVE  RowsWell(d) /\ Keeps(e, d)
  <2>1. \A j \in Tids : d.row[j] = IF j = n THEN v ELSE x.db.row[j]  BY <1>2, <1>4
  <2>2. \A j \in Tids : RowWell(d.row[j])  BY <1>1, <1>4, <2>1 DEF RowsWell
  <2>3. roomType = 0 => \A j \in Tids : j > d.tid => d.row[j] = NoRow
    BY <1>1, <1>2, <1>4, <2>1 DEF RowsWell
  <2>4. Keeps(e, d)  BY <1>1, <1>4, <2>1 DEF Keeps
  <2>. QED  BY <2>2, <2>3, <2>4 DEF RowsWell
<1>5. RowsWell(y.db) /\ Keeps(e, y.db)  BY <1>4
<1>6. ASSUME NEW d \in y.trail  PROVE RowsWell(d) /\ Keeps(e, d)
  <2>1. CASE d \in x.trail  BY <2>1 DEF Good
  <2>2. CASE d.tid = x.db.tid /\ d.row = x.db.row  BY <1>1, <2>2 DEF RowsWell, Keeps
  <2>3. CASE d.tid = x.db.tid /\ d.row = [x.db.row EXCEPT ![n] = q]  BY <1>4, <2>3
  <2>4. CASE d.tid = x.db.tid /\ d.row = y.db.row  BY <1>4, <2>4
  <2>. QED  BY <1>6, <2>1, <2>2, <2>3, <2>4
<1>7. \A j \in Tids : /\ y.m.table[j] = IF j = n THEN t ELSE x.m.table[j]
                      /\ y.db.row[j] = IF j = n THEN r ELSE x.db.row[j]
  BY <1>2
<1>8. Rooms(y.m, y.db)
  <2>1. \A j \in Tids : TableWell(y.m.table[j])  BY <1>1, <1>7 DEF Rooms
  <2>2. \A j \in y.m.tables : Mirrors(y.m.table[j], y.db.row[j])  BY <1>1, <1>2, <1>7 DEF Rooms
  <2>3. \A j \in Tids \ y.m.tables : y.m.table[j].amount = 0 /\ ~y.m.table[j].playing
    BY <1>1, <1>7 DEF Rooms
  <2>4. roomType = 0 => \A j \in y.m.tables : j <= y.db.tid  BY <1>1 DEF Rooms
  <2>5. \A j \in y.m.dismissed : j \notin y.m.tables /\ j \notin y.db.rooms /\ roomType = 1
    BY <1>1 DEF Rooms
  <2>. QED  BY <1>5, <2>1, <2>2, <2>3, <2>4, <2>5 DEF Rooms
<1>. QED  BY <1>5, <1>6, <1>8 DEF Good

(* Such a step, when no game ends.                                         *)
LEMMA TableChanges ==
  ASSUME NEW e, NEW x, NEW y \in Work, Good(e, x),
         NEW n \in Tids, NEW t \in Table, NEW r \in Row, NEW q \in Row,
         TableWell(t), RowWell(r), Mirrors(t, r), RowWell(q),
         y.m.table = [x.m.table EXCEPT ![n] = t],
         y.db.row = [x.db.row EXCEPT ![n] = r], y.db.tid = x.db.tid,
         roomType = 0 => n <= x.db.tid,
         \/ /\ n \in x.m.tables \/ n \notin x.m.dismissed
            /\ y.m.tables = x.m.tables \cup {n} /\ y.m.dismissed = x.m.dismissed
            /\ y.db.rooms = x.db.rooms
         \/ /\ roomType = 1 /\ t.amount = 0 /\ ~t.playing
            /\ y.m.tables = x.m.tables \ {n} /\ y.m.dismissed = x.m.dismissed \cup {n}
            /\ y.db.rooms = x.db.rooms \ {n},
         x.db.row[n].playing =>
           r.playing /\ r.chair = x.db.row[n].chair /\ q.playing /\ q.chair = x.db.row[n].chair,
         \A d \in y.trail : \/ d \in x.trail
                            \/ d.tid = x.db.tid /\ d.row \in {x.db.row, [x.db.row EXCEPT ![n] = q],
                                                              y.db.row}
  PROVE  Good(e, y)
<1>1. e.row[n].playing => x.db.row[n].playing /\ x.db.row[n].chair = e.row[n].chair
  BY DEF Good, Keeps
<1>2. e.row[n].playing =>
        r.playing /\ r.chair = e.row[n].chair /\ q.playing /\ q.chair = e.row[n].chair
  BY <1>1
<1>. QED  BY <1>2, RowChanges

-----------------------------------------------------------------------------
(* Steps of the room leave the server's maps and the players' connections. *)
SamePeople(g, h) ==
  \A p \in Objs : /\ h.obj[p].uid = g.obj[p].uid /\ h.obj[p].conn = g.obj[p].conn
                  /\ h.obj[p].online = g.obj[p].online

LEMMA TableOfOne ==
  ASSUME NEW f \in [Objs -> Player], NEW o \in Objs, NEW v \in Tids \cup {Null}
  PROVE  LET g == [f EXCEPT ![o].table = v] IN
         \A p \in Objs : /\ g[p].uid = f[p].uid /\ g[p].conn = f[p].conn
                         /\ g[p].online = f[p].online
                         /\ g[p].table = IF p = o THEN v ELSE f[p].table
<1>. DEFINE g == [f EXCEPT ![o].table = v]
<1>1. ASSUME NEW p \in Objs
      PROVE  /\ g[p].uid = f[p].uid /\ g[p].conn = f[p].conn /\ g[p].online = f[p].online
             /\ g[p].table = IF p = o THEN v ELSE f[p].table
  <2>1. f[p] \in Player  OBVIOUS
  <2>2. g[p] = IF p = o THEN [f[p] EXCEPT !.table = v] ELSE f[p]  OBVIOUS
  <2>. HIDE DEF g
  <2>. QED  BY <2>1, <2>2 DEF Player
<1>. QED  BY <1>1

LEMMA SetLastRoomGood ==
  ASSUME NEW e, NEW x, Good(e, x), NEW u \in Ids, NEW n \in Tids \cup {Null}
  PROVE  Good(e, SetLastRoom(x, u, n))
<1>. DEFINE y == SetLastRoom(x, u, n)
<1>1. x \in Work /\ Rooms(x.m, x.db) /\ Keeps(e, x.db) /\ RowsWell(x.db)  BY DEF Good, Rooms
<1>2. /\ y \in Work /\ y.m = x.m /\ y.db.row = x.db.row /\ y.db.rooms = x.db.rooms
      /\ y.db.tid = x.db.tid /\ \A d \in y.trail : d \in x.trail \/ d = y.db
  <2>. DEFINE failed == x.lost = (IF n = Null THEN "leave" ELSE "enter")
  <2>1. /\ y \in Work /\ y.m = x.m /\ y.db.row = x.db.row /\ y.db.rooms = x.db.rooms
        /\ y.db.tid = x.db.tid
        /\ y.trail = IF failed THEN x.trail ELSE x.trail \cup {y.db}
    BY ZenonT(60), <1>1, SetLastRoomDoes
  <2>. HIDE DEF failed, y
  <2>. QED  BY <2>1
<1>. HIDE DEF y
<1>3. RowsWell(y.db) /\ Keeps(e, y.db)  BY <1>1, <1>2 DEF RowsWell, Keeps
<1>4. Rooms(y.m, y.db)  BY <1>1, <1>2, <1>3 DEF Rooms
<1>5. \A d \in y.trail : RowsWell(d) /\ Keeps(e, d)  BY <1>2, <1>3 DEF Good
<1>6. Good(e, y)  BY <1>2, <1>3, <1>4, <1>5 DEF Good
<1>. QED  BY <1>6 DEF y

(* A chair that is freed.                                                  *)
LEMMA EmptiedWell ==
  ASSUME NEW t \in Table, TableWell(t), NEW s \in Seat, t.chair[s].uid # Null
  PROVE  /\ Emptied(t, s) \in Table /\ TableWell(Emptied(t, s)) /\ t.amount # 0
         /\ Emptied(t, s).amount = t.amount - 1 /\ Emptied(t, s).playing = t.playing
         /\ \A q \in Seat : Emptied(t, s).chair[q] = IF q = s THEN FreeChair ELSE t.chair[q]
<1>. DEFINE v == Emptied(t, s)
<1>1. /\ t.amount \in 0..3 /\ t.chair \in [Seat -> Chair] /\ FreeChair \in Chair
      /\ t.amount = Taken(t) /\ t.amount # 0
  BY TableTyped, FreshTyped, TakenAre DEF TableWell
<1>2. v = [t EXCEPT !.chair = [t.chair EXCEPT ![s] = FreeChair], !.amount = t.amount - 1]
  BY DEF Emptied
<1>3. [t.chair EXCEPT ![s] = FreeChair] \in [Seat -> Chair] /\ t.amount - 1 \in 0..3
  BY <1>1
<1>. HIDE DEF v
<1>4. /\ v \in Table /\ v.amount = t.amount - 1 /\ v.playing = t.playing /\ v.size = t.size
      /\ v.chair = [t.chair EXCEPT ![s] = FreeChair]
  BY Zenon, <1>2, <1>3 DEF Table
<1>5. \A q \in Seat : v.chair[q] = IF q = s THEN FreeChair ELSE t.chair[q]  BY <1>1, <1>4
<1>6. FreeChair.uid = Null /\ FreeChair.obj = Null  BY DEF FreeChair
<1>7. v.amount = Taken(v)
  BY <1>1, <1>4, <1>5, <1>6, SeatsAre DEF Taken
<1>8. TableWell(v)  BY <1>4, <1>5, <1>6, <1>7 DEF TableWell
<1>. QED  BY <1>1, <1>4, <1>5, <1>8 DEF v

LEMMA WithoutWell ==
  ASSUME NEW r \in Row, RowWell(r), ~r.playing, NEW s \in Seat
  PROVE  /\ Without(r, s) \in Row /\ RowWell(Without(r, s)) /\ ~Without(r, s).playing
         /\ \A q \in Seat : Without(r, s).chair[q] = IF q = s THEN Null ELSE r.chair[q]
<1>. DEFINE v == Without(r, s)
<1>1. /\ v \in Row /\ ~v.playing /\ v.chair = [r.chair EXCEPT ![s] = Null]
  BY NullIsNone DEF Without, Row
<1>2. \A q \in Seat : v.chair[q] = IF q = s THEN Null ELSE r.chair[q]  BY <1>1 DEF Row
<1>. HIDE DEF v
<1>3. RowWell(v)  BY <1>1, <1>2 DEF RowWell
<1>. QED  BY <1>1, <1>2, <1>3 DEF v

LEMMA LeaveTableGood ==
  ASSUME NEW e, NEW x, Good(e, x), NEW o \in Objs, NEW n \in x.m.tables, NEW s \in Seat,
         x.m.table[n].chair[s].uid # Null, ~x.m.table[n].playing
  PROVE  LET y == LeaveTable(x, o, n, s) IN
         Good(e, y) /\ SameServer(x.m, y.m) /\ SamePeople(x.m, y.m)
<1>. DEFINE y == LeaveTable(x, o, n, s)
            t == x.m.table[n]
            r == x.db.row[n]
            last == t.amount = 1
            new == IF last THEN NoRow ELSE Without(r, s)
<1>1. /\ x \in Work /\ Rooms(x.m, x.db) /\ n \in Tids /\ t \in Table /\ r \in Row
      /\ x.db.row \in [Tids -> Row] /\ x.m.obj \in [Objs -> Player] /\ x.m.tables \subseteq Tids
  BY WorkTyped DEF Good
<1>2. /\ TableWell(t) /\ RowWell(r) /\ Mirrors(t, r) /\ ~r.playing
      /\ roomType = 0 => n <= x.db.tid
  BY <1>1 DEF Rooms, RowsWell, Mirrors
<1>. HIDE DEF t, r
<1>3. /\ Emptied(t, s) \in Table /\ TableWell(Emptied(t, s)) /\ t.amount # 0
      /\ Emptied(t, s).amount = t.amount - 1 /\ ~Emptied(t, s).playing
      /\ \A q \in Seat : Emptied(t, s).chair[q] = IF q = s THEN FreeChair ELSE t.chair[q]
  BY <1>1, <1>2, EmptiedWell DEF t
<1>4. /\ Without(r, s) \in Row /\ RowWell(Without(r, s)) /\ ~Without(r, s).playing
      /\ \A q \in Seat : Without(r, s).chair[q] = IF q = s THEN Null ELSE r.chair[q]
  BY <1>1, <1>2, WithoutWell
<1>5. new \in Row /\ RowWell(new) /\ ~new.playing
  BY <1>4, FreshTyped, NoRowWell DEF NoRow
<1>6. Mirrors(Emptied(t, s), new)
  <2>1. CASE last
    <3>1. Emptied(t, s).amount = 0  BY <1>1, <1>3, <2>1 DEF Table
    <3>2. \A q \in Seat : Emptied(t, s).chair[q].uid = Null  BY <1>3, <3>1, TakenAre
    <3>. QED  BY <1>3, <2>1, <3>2 DEF Mirrors, NoRow
  <2>2. CASE ~last
    <3>1. \A q \in Seat : Emptied(t, s).chair[q].uid = Without(r, s).chair[q]
      BY <1>2, <1>3, <1>4 DEF Mirrors, FreeChair
    <3>. QED  BY <1>3, <1>4, <2>2, <3>1 DEF Mirrors
  <2>. QED  BY <2>1, <2>2
<1>7. /\ y \in Work /\ SameServer(x.m, y.m)
      /\ y.m.obj = [x.m.obj EXCEPT ![o].table = Null]
      /\ y.m.table = [x.m.table EXCEPT ![n] = Emptied(t, s)]
      /\ y.m.tables = IF last /\ roomType = 1 THEN x.m.tables \ {n} ELSE x.m.tables
      /\ y.m.dismissed = IF last /\ roomType = 1 THEN x.m.dismissed \cup {n} ELSE x.m.dismissed
      /\ y.db.row = IF last THEN [x.db.row EXCEPT ![n] = NoRow]
                            ELSE [x.db.row EXCEPT ![n] = Without(r, s)]
      /\ y.db.rooms = IF last /\ roomType = 1 THEN x.db.rooms \ {n} ELSE x.db.rooms
      /\ y.db.tid = x.db.tid
      /\ \A d \in y.trail :
           \/ d \in x.trail
           \/ d.tid = x.db.tid
              /\ d.row \in {x.db.row, [x.db.row EXCEPT ![n] = Without(r, s)], y.db.row}
  <2>1. x.m.table[n].amount # 0  BY <1>3 DEF t
  <2>2. Leaves(x, o, n, s, y)  BY <1>1, <2>1, LeaveTableDoes
  <2>. HIDE DEF y
  <2>. QED  BY <2>2 DEF Leaves, t, r
<1>. HIDE DEF y
<1>8. y.db.row = [x.db.row EXCEPT ![n] = new]  BY <1>7
<1>9. SamePeople(x.m, y.m)  BY <1>1, <1>7, TableOfOne, NullIsNone DEF SamePeople
<1>10. \/ /\ n \in x.m.tables \/ n \notin x.m.dismissed
          /\ y.m.tables = x.m.tables \cup {n} /\ y.m.dismissed = x.m.dismissed
          /\ y.db.rooms = x.db.rooms
       \/ /\ roomType = 1 /\ Emptied(t, s).amount = 0 /\ ~Emptied(t, s).playing
          /\ y.m.tables = x.m.tables \ {n} /\ y.m.dismissed = x.m.dismissed \cup {n}
          /\ y.db.rooms = x.db.rooms \ {n}
  BY <1>1, <1>3, <1>7 DEF Table
<1>. HIDE DEF new, last
<1>11. Good(e, y)
  BY Zenon, <1>1, <1>2, <1>3, <1>4, <1>5, <1>6, <1>7, <1>8, <1>10, TableChanges DEF r
<1>. QED  BY <1>7, <1>9, <1>11 DEF y

(***************************************************************************)
(* Steps that leave the databases alone and take and free no chair.        *)
(***************************************************************************)
Alike(t, v) ==
  /\ v.size = t.size /\ v.playing = t.playing /\ v.amount = t.amount
  /\ \A s \in Seat : v.chair[s].uid = t.chair[s].uid /\ v.chair[s].obj = t.chair[s].obj

SameChairs(g, h) ==
  /\ h.tables = g.tables /\ h.dismissed = g.dismissed
  /\ \A n \in Tids : Alike(g.table[n], h.table[n])

LEMMA ChairsKept ==
  ASSUME NEW e, NEW x, Good(e, x), NEW y \in Work,
         SameRest(x, y), SameChairs(x.m, y.m)
  PROVE  Good(e, y)
<1>1. x \in Work /\ Rooms(x.m, x.db) /\ y.db = x.db  BY DEF Good, SameRest
<1>2. \A n \in Tids : Alike(x.m.table[n], y.m.table[n])  BY DEF SameChairs
<1>3. ASSUME NEW t, NEW v, Alike(t, v)
      PROVE  /\ TableWell(t) => TableWell(v)
             /\ \A r : Mirrors(t, r) => Mirrors(v, r)
  BY <1>3, SeatsAre DEF Alike, TableWell, Taken, Mirrors
<1>4. x.m.tables \subseteq Tids  BY <1>1, WorkTyped
<1>5. \A n \in Tids : TableWell(y.m.table[n])  BY <1>1, <1>2, <1>3 DEF Rooms
<1>6. \A n \in y.m.tables : Mirrors(y.m.table[n], y.db.row[n])
  BY <1>1, <1>2, <1>3, <1>4 DEF Rooms, SameChairs
<1>7. \A n \in Tids \ y.m.tables : y.m.table[n].amount = 0 /\ ~y.m.table[n].playing
  BY <1>1, <1>2 DEF Rooms, SameChairs, Alike
<1>8. Rooms(y.m, y.db)
  BY <1>1, <1>5, <1>6, <1>7 DEF Rooms, SameChairs
<1>. QED  BY <1>1, <1>8 DEF Good, SameRest

LEMMA SameTablesAlike ==
  ASSUME NEW g, NEW h, SameTables(g, h)  PROVE SameChairs(g, h)
  BY DEF SameTables, SameChairs, Alike

(* ok and found are only notes.                                            *)
LEMMA NotesDo ==
  ASSUME NEW x \in Work, NEW b \in BOOLEAN, NEW n \in Tids \cup {Null}
  PROVE  /\ [x EXCEPT !.ok = b] \in Work /\ [x EXCEPT !.ok = b].m = x.m
         /\ SameRest(x, [x EXCEPT !.ok = b]) /\ [x EXCEPT !.ok = b].found = x.found
         /\ [x EXCEPT !.ok = b].ok = b
         /\ [x EXCEPT !.found = n] \in Work /\ [x EXCEPT !.found = n].m = x.m
         /\ SameRest(x, [x EXCEPT !.found = n]) /\ [x EXCEPT !.found = n].found = n
         /\ [x EXCEPT !.found = n].ok = x.ok
  BY DEF Work, SameRest

LEMMA NotesGood ==
  ASSUME NEW e, NEW x, Good(e, x), NEW y \in Work, y.m = x.m, SameRest(x, y)
  PROVE  Good(e, y)
<1>1. SameTables(x.m, y.m)  BY DEF SameTables
<1>. QED  BY <1>1, SameTablesAlike, ChairsKept

LEMMA ChairsOfAre ==
  ASSUME NEW x \in Work, NEW n \in Tids, NEW u
  PROVE  LET mine == ChairsOf(x, n, u) IN
         /\ mine \subseteq Seat
         /\ mine # {} => Min(mine) \in mine
         /\ \A s \in mine : x.m.table[n].chair[s].uid = u /\ s < x.m.table[n].size
<1>. DEFINE mine == ChairsOf(x, n, u)
<1>1. x.m.table[n].size \in 2..3  BY WorkTyped, TableTyped
<1>2. mine \subseteq Seat  BY <1>1, SeatsAre DEF ChairsOf
<1>3. mine # {} => Min(mine) \in mine  BY <1>2, SeatsAre, LeastThere
<1>4. \A s \in mine : x.m.table[n].chair[s].uid = u /\ s < x.m.table[n].size
  BY <1>1 DEF ChairsOf
<1>. QED  BY <1>2, <1>3, <1>4

(* Who has a chair at a table that is well, is in memory with it.          *)
LEMMA SeatedInMemory ==
  ASSUME NEW e, NEW x, Good(e, x), NEW n \in Tids, NEW s \in Seat,
         x.m.table[n].chair[s].uid # Null
  PROVE  n \in x.m.tables
<1>1. x \in Work /\ Rooms(x.m, x.db)  BY DEF Good
<1>2. x.m.table[n] \in Table /\ TableWell(x.m.table[n])  BY <1>1, WorkTyped DEF Rooms
<1>3. x.m.table[n].amount # 0  BY <1>2, TakenAre
<1>. QED  BY <1>1, <1>3 DEF Rooms

-----------------------------------------------------------------------------
(* Leaving.                                                                *)

(* What the steps of the room promise to the server.                       *)
InRoom(e, x, y) ==
  /\ Good(e, y) /\ SameServer(x.m, y.m) /\ SamePeople(x.m, y.m)
  /\ y.lost = x.lost

LEMMA InRoomTransitive ==
  ASSUME NEW e, NEW x, NEW y, NEW z, InRoom(e, x, y), InRoom(e, y, z)
  PROVE  InRoom(e, x, z)
  BY DEF InRoom, SameServer, SamePeople

LEMMA StandupInRoom ==
  ASSUME NEW e, NEW x, Good(e, x), NEW o \in Objs, Uid(x, o) # Null, NEW n \in Tids
  PROVE  InRoom(e, x, Standup(x, o, n))
<1>. DEFINE mine == ChairsOf(x, n, Uid(x, o))
            s == Min(mine)
            a == LeaveTable(x, o, n, s)
<1>1. x \in Work  BY DEF Good
<1>2. CASE mine = {} \/ x.m.table[n].playing
  <2>1. PICK b \in BOOLEAN : Standup(x, o, n) = [x EXCEPT !.ok = b]
    BY Zenon, <1>2 DEF Standup
  <2>. DEFINE y == [x EXCEPT !.ok = b]
  <2>2. y \in Work /\ y.m = x.m /\ SameRest(x, y)  BY Zenon, <1>1, NotesDo, NullIsNone
  <2>. HIDE DEF y
  <2>3. Good(e, y)  BY <2>2, NotesGood
  <2>4. InRoom(e, x, y)
    BY <2>2, <2>3 DEF InRoom, SameServer, SamePeople, SameRest
  <2>. QED  BY <2>1, <2>4 DEF y
<1>3. CASE mine # {} /\ ~x.m.table[n].playing
  <2>1. Standup(x, o, n) = [a EXCEPT !.ok = TRUE]  BY <1>3 DEF Standup
  <2>2. s \in Seat /\ x.m.table[n].chair[s].uid # Null  BY <1>1, <1>3, ChairsOfAre
  <2>. HIDE DEF s
  <2>3. n \in x.m.tables  BY <2>2, SeatedInMemory
  <2>4. Good(e, a) /\ SameServer(x.m, a.m) /\ SamePeople(x.m, a.m)
    BY <1>3, <2>2, <2>3, LeaveTableGood
  <2>5. a.lost = x.lost
    <3>1. x.m.table[n] \in Table /\ TableWell(x.m.table[n])
      BY <1>1, WorkTyped DEF Good, Rooms
    <3>2. x.m.table[n].amount # 0  BY <2>2, <3>1, TakenAre
    <3>3. Leaves(x, o, n, s, a)  BY <1>1, <2>2, <3>2, LeaveTableDoes
    <3>. QED  BY <3>3 DEF Leaves
  <2>. HIDE DEF a
  <2>. DEFINE y == [a EXCEPT !.ok = TRUE]
  <2>6. a \in Work  BY <2>4 DEF Good
  <2>7. y \in Work /\ y.m = a.m /\ SameRest(a, y)  BY Zenon, <2>6, NotesDo, NullIsNone
  <2>. HIDE DEF y
  <2>8. Good(e, y)  BY <2>4, <2>7, NotesGood
  <2>9. InRoom(e, x, y)  BY <2>4, <2>5, <2>7, <2>8 DEF InRoom, SameServer, SamePeople, SameRest
  <2>. QED  BY <2>1, <2>9 DEF y
<1>. QED  BY <1>2, <1>3

(* GameTable::Offline at a table.                                          *)
GoneOff(t, s) == [t EXCEPT !.chair[s].offline = TRUE]

GoesOff(x, o, n, y) ==
  LET u == x.m.obj[o].uid
      mine == ChairsOf(x, n, u) IN
  /\ y \in Work /\ SameRest(x, y) /\ y.found = x.found /\ y.ok = x.ok
  /\ SameServer(x.m, y.m) /\ y.m.obj = x.m.obj
  /\ y.m.here = [x.m.here EXCEPT ![u] = Null] /\ y.m.away = Insert(x.m.away, u, o)
  /\ y.m.at = x.m.at /\ y.m.tables = x.m.tables /\ y.m.dismissed = x.m.dismissed
  /\ y.m.table = IF mine = {} THEN x.m.table
                 ELSE [x.m.table EXCEPT ![n] = GoneOff(x.m.table[n], Min(mine))]

LEMMA GoneOffAlike ==
  ASSUME NEW t \in Table, NEW s \in Seat
  PROVE  /\ GoneOff(t, s) \in Table /\ Alike(t, GoneOff(t, s))
         /\ \A q \in Seat : GoneOff(t, s).chair[q] =
              IF q = s THEN [t.chair[s] EXCEPT !.offline = TRUE] ELSE t.chair[q]
<1>. DEFINE c == [t.chair[s] EXCEPT !.offline = TRUE]
            v == GoneOff(t, s)
<1>1. t.chair \in [Seat -> Chair] /\ t.chair[s] \in Chair  BY TableTyped
<1>2. c \in Chair /\ c.uid = t.chair[s].uid /\ c.obj = t.chair[s].obj  BY Zenon, <1>1 DEF Chair
<1>3. v = [t EXCEPT !.chair = [t.chair EXCEPT ![s] = c]]  BY DEF GoneOff
<1>. HIDE DEF c, v
<1>4. [t.chair EXCEPT ![s] = c] \in [Seat -> Chair]  BY <1>1, <1>2
<1>5. /\ v \in Table /\ v.size = t.size /\ v.playing = t.playing /\ v.amount = t.amount
      /\ v.chair = [t.chair EXCEPT ![s] = c]
  BY <1>3, <1>4 DEF Table
<1>6. \A q \in Seat : v.chair[q] = IF q = s THEN c ELSE t.chair[q]  BY <1>1, <1>5
<1>7. Alike(t, v)  BY <1>2, <1>5, <1>6 DEF Alike
<1>. QED  BY Zenon, <1>5, <1>6, <1>7 DEF c, v

LEMMA AbsentDoes ==
  ASSUME NEW x \in Work, NEW o \in Objs, NEW n \in Tids
  PROVE  GoesOff(x, o, n, Absent(x, o, n))
<1>. DEFINE u == x.m.obj[o].uid
            mine == ChairsOf(x, n, u)
            here == [x.m.here EXCEPT ![u] = Null]
            away == Insert(x.m.away, u, o)
            tables == IF mine = {} THEN x.m.table
                      ELSE [x.m.table EXCEPT ![n] = GoneOff(x.m.table[n], Min(mine))]
            g == [x.m EXCEPT !.here = here, !.away = away, !.table = tables]
            y == [x EXCEPT !.m = g]
<1>1. u \in Ids /\ x.m \in Memory  BY WorkTyped, PlayerTyped
<1>2. here \in [Ids -> Objs \cup {Null}] /\ away \in [Ids -> Objs \cup {Null}]
  BY ZenonT(60), <1>1, WorkTyped, InsertTyped
<1>3. tables \in [Tids -> Table]
  <2>1. x.m.table \in [Tids -> Table]  BY WorkTyped
  <2>2. mine # {} => Min(mine) \in Seat  BY ChairsOfAre
  <2>. HIDE DEF mine
  <2>3. mine # {} => GoneOff(x.m.table[n], Min(mine)) \in Table  BY Zenon, <2>1, <2>2, GoneOffAlike
  <2>. QED  BY <2>1, <2>3
<1>4. Absent(x, o, n) = y
  <2>. DEFINE x1 == [x EXCEPT !.m.here[u] = Null, !.m.away = Insert(@, u, o)]
              g1 == [x.m EXCEPT !.here = here, !.away = away]
  <2>1. x1 = [x EXCEPT !.m = g1]  BY Zenon
  <2>. HIDE DEF here, away
  <2>2. g1.table = x.m.table /\ x1.m = g1  BY Zenon, <1>1, <2>1 DEF Memory, Work
  <2>3. ChairsOf(x1, n, u) = mine  BY Zenon, <2>2 DEF ChairsOf
  <2>4. Absent(x, o, n) = IF mine = {} THEN x1
                          ELSE [x1 EXCEPT !.m.table[n].chair[Min(mine)].offline = TRUE]
    BY <2>3 DEF Absent, Uid, here, away
  <2>. HIDE DEF x1, mine
  <2>5. CASE mine = {}
    <3>1. g = g1  BY Zenon, <1>1, <2>5 DEF Memory
    <3>. QED  BY <2>1, <2>4, <2>5, <3>1
  <2>6. CASE mine # {}
    <3>1. [x1 EXCEPT !.m.table[n].chair[Min(mine)].offline = TRUE]
            = [x1 EXCEPT !.m = [g1 EXCEPT !.table = tables]]
      BY Zenon, <2>2, <2>6 DEF GoneOff
    <3>2. [g1 EXCEPT !.table = tables] = g  BY <1>1 DEF Memory
    <3>3. [x1 EXCEPT !.m = g] = y  BY Zenon, <2>1 DEF Work
    <3>. QED  BY <2>4, <2>6, <3>1, <3>2, <3>3
  <2>. QED  BY <2>5, <2>6
<1>. HIDE DEF here, away, tables, mine, u
<1>5. /\ g \in Memory /\ SameServer(x.m, g) /\ g.obj = x.m.obj /\ g.here = here
      /\ g.away = away /\ g.at = x.m.at /\ g.tables = x.m.tables
      /\ g.dismissed = x.m.dismissed /\ g.table = tables
  BY Zenon, <1>1, <1>2, <1>3 DEF Memory, SameServer
<1>. HIDE DEF g
<1>6. y \in Work /\ y.m = g /\ SameRest(x, y) /\ y.found = x.found /\ y.ok = x.ok
  BY <1>5 DEF Work, SameRest
<1>. HIDE DEF y
<1>7. GoesOff(x, o, n, y)  BY <1>5, <1>6 DEF GoesOff, u, mine, here, away, tables
<1>. QED  BY <1>4, <1>7

LEMMA AbsentInRoom ==
  ASSUME NEW e, NEW x, Good(e, x), NEW o \in Objs, NEW n \in Tids
  PROVE  InRoom(e, x, Absent(x, o, n))
<1>. DEFINE y == Absent(x, o, n)
            u == x.m.obj[o].uid
            mine == ChairsOf(x, n, u)
<1>1. x \in Work /\ x.m.table \in [Tids -> Table]  BY WorkTyped DEF Good
<1>2. GoesOff(x, o, n, y)  BY <1>1, AbsentDoes
<1>. HIDE DEF y
<1>3. mine # {} => Min(mine) \in Seat  BY <1>1, ChairsOfAre
<1>4. y.m.table = IF mine = {} THEN x.m.table
                  ELSE [x.m.table EXCEPT ![n] = GoneOff(x.m.table[n], Min(mine))]
  BY <1>2 DEF GoesOff
<1>. HIDE DEF mine
<1>5. \A j \in Tids : Alike(x.m.table[j], y.m.table[j])
  <2>1. \A t : Alike(t, t)  BY DEF Alike
  <2>2. mine # {} => Alike(x.m.table[n], GoneOff(x.m.table[n], Min(mine)))
    BY Zenon, <1>1, <1>3, GoneOffAlike
  <2>. QED  BY <1>1, <1>4, <2>1, <2>2
<1>6. SameChairs(x.m, y.m) /\ y \in Work /\ SameRest(x, y)
  BY <1>2, <1>5 DEF GoesOff, SameChairs
<1>7. Good(e, y)  BY <1>6, ChairsKept
<1>8. SameServer(x.m, y.m) /\ SamePeople(x.m, y.m) /\ y.lost = x.lost
  BY <1>2 DEF GoesOff, SamePeople, SameRest
<1>9. InRoom(e, x, y)  BY <1>7, <1>8 DEF InRoom
<1>. QED  BY <1>9 DEF y

LEMMA RoomLogoutInRoom ==
  ASSUME NEW e, NEW x, Good(e, x), NEW o \in Objs, Uid(x, o) # Null
  PROVE  InRoom(e, x, RoomLogout(x, o))
<1>. DEFINE n == x.m.obj[o].table
            a == Absent(x, o, n)
<1>1. x \in Work /\ n \in Tids \cup {Null}  BY WorkTyped, PlayerTyped DEF Good
<1>2. ASSUME NEW z, NEW b \in BOOLEAN, InRoom(e, x, z)  PROVE InRoom(e, x, [z EXCEPT !.ok = b])
  <2>. DEFINE y == [z EXCEPT !.ok = b]
  <2>1. z \in Work  BY <1>2 DEF InRoom, Good
  <2>2. y \in Work /\ y.m = z.m /\ SameRest(z, y)  BY Zenon, <2>1, NotesDo, NullIsNone
  <2>. HIDE DEF y
  <2>3. Good(e, y)  BY <1>2, <2>2, NotesGood DEF InRoom
  <2>4. InRoom(e, x, y)  BY <1>2, <2>2, <2>3 DEF InRoom, SameServer, SamePeople, SameRest
  <2>. QED  BY <2>4 DEF y
<1>3. InRoom(e, x, x)  BY DEF InRoom, SameServer, SamePeople
<1>. HIDE DEF n
<1>4. CASE n = Null
  <2>1. RoomLogout(x, o) = [x EXCEPT !.ok = TRUE]  BY <1>4 DEF RoomLogout, n
  <2>. QED  BY Zenon, <1>2, <1>3, <2>1
<1>5. CASE n # Null
  <2>1. n \in Tids  BY <1>1, <1>5
  <2>2. InRoom(e, x, Standup(x, o, n)) /\ InRoom(e, x, a)  BY <2>1, StandupInRoom, AbsentInRoom
  <2>. HIDE DEF a
  <2>3. RoomLogout(x, o) \in {Standup(x, o, n), [a EXCEPT !.ok = FALSE]}
    BY <1>5, Zenon DEF RoomLogout, n, a
  <2>. QED  BY Zenon, <1>2, <2>2, <2>3
<1>. QED  BY <1>4, <1>5

-----------------------------------------------------------------------------
(* Sitting down.                                                           *)
Newcomer(u, o) == [uid |-> u, obj |-> o, offline |-> FALSE, ready |-> FALSE]
SatOn(t, s, u, o) == [t EXCEPT !.chair[s] = Newcomer(u, o), !.amount = @ + 1]
With(r, s, u) == [r EXCEPT !.chair[s] = u]
CameBack(t, s, o) ==
  [t EXCEPT !.chair[s].obj = IF @ = Null THEN o ELSE @, !.chair[s].offline = FALSE]

Sits(x, o, n, s, y) ==
  LET u == x.m.obj[o].uid IN
  /\ y \in Work /\ y.lost = x.lost /\ y.found = x.found /\ y.ok = TRUE
  /\ SameServer(x.m, y.m) /\ SameRoom(x.m, y.m) /\ y.m.obj = x.m.obj
  /\ y.m.tables = x.m.tables /\ y.m.dismissed = x.m.dismissed
  /\ y.m.table = [x.m.table EXCEPT ![n] = SatOn(x.m.table[n], s, u, o)]
  /\ y.db.zid = x.db.zid /\ y.db.rooms = x.db.rooms /\ y.db.tid = x.db.tid
  /\ y.db.row = [x.db.row EXCEPT ![n] = With(x.db.row[n], s, u)]
  /\ y.trail = x.trail \cup {y.db}

Returns(x, o, n, s, y) ==
  /\ y \in Work /\ SameRest(x, y) /\ y.found = x.found /\ y.ok = TRUE
  /\ SameServer(x.m, y.m) /\ SameRoom(x.m, y.m) /\ y.m.obj = x.m.obj
  /\ y.m.tables = x.m.tables /\ y.m.dismissed = x.m.dismissed
  /\ y.m.table = [x.m.table EXCEPT ![n] = CameBack(x.m.table[n], s, o)]

LEMMA SatOnWell ==
  ASSUME NEW t \in Table, TableWell(t), NEW s \in Seat, t.chair[s].uid = Null,
         s < RoomSize, NEW u \in Ids \ {Null}, NEW o \in Objs
  PROVE  LET v == SatOn(t, s, u, o) IN
         /\ v \in Table /\ TableWell(v) /\ v.amount = t.amount + 1 /\ v.playing = t.playing
         /\ \A q \in Seat : v.chair[q] = IF q = s THEN Newcomer(u, o) ELSE t.chair[q]
<1>. DEFINE c == Newcomer(u, o)
            v == SatOn(t, s, u, o)
<1>1. /\ t.amount \in 0..3 /\ t.chair \in [Seat -> Chair] /\ t.amount = Taken(t)
      /\ t.size = RoomSize /\ t.size \in 2..3
  BY TableTyped DEF TableWell
<1>2. c \in Chair /\ c.uid = u /\ c.obj = o /\ o # Null  BY NullIsNone DEF Newcomer, Chair
<1>3. s \in 0..(RoomSize - 1)
  <2>1. s \in Nat /\ RoomSize \in Nat  BY SeatsAre
  <2>. QED  BY <2>1
<1>4. t.amount # t.size /\ t.amount <= t.size  BY <1>3, TakenAre
<1>5. t.amount + 1 \in 0..3  BY <1>1, <1>4
<1>6. v = [t EXCEPT !.chair = [t.chair EXCEPT ![s] = c], !.amount = t.amount + 1]
  BY DEF SatOn
<1>7. [t.chair EXCEPT ![s] = c] \in [Seat -> Chair]  BY <1>1, <1>2
<1>. HIDE DEF c, v
<1>8. /\ v \in Table /\ v.amount = t.amount + 1 /\ v.playing = t.playing /\ v.size = t.size
      /\ v.chair = [t.chair EXCEPT ![s] = c]
  BY Zenon, <1>5, <1>6, <1>7 DEF Table
<1>9. \A q \in Seat : v.chair[q] = IF q = s THEN c ELSE t.chair[q]  BY <1>1, <1>8
<1>10. v.amount = Taken(v)  BY <1>1, <1>2, <1>8, <1>9, SeatsAre DEF Taken
<1>11. \A q \in Seat : q >= RoomSize => q # s
  BY SeatsAre
<1>12. TableWell(v)  BY <1>2, <1>8, <1>9, <1>10, <1>11 DEF TableWell
<1>. QED  BY <1>8, <1>9, <1>12 DEF v, c

LEMMA WithWell ==
  ASSUME NEW r \in Row, RowWell(r), NEW s \in Seat, s < RoomSize, NEW u \in Ids \ {Null},
         \A q \in Seat : r.chair[q] # u
  PROVE  /\ With(r, s, u) \in Row /\ RowWell(With(r, s, u))
         /\ With(r, s, u).playing = r.playing
         /\ \A q \in Seat : With(r, s, u).chair[q] = IF q = s THEN u ELSE r.chair[q]
<1>. DEFINE v == With(r, s, u)
<1>1. /\ v \in Row /\ v.playing = r.playing /\ v.begun = r.begun
      /\ v.chair = [r.chair EXCEPT ![s] = u]
  BY DEF With, Row
<1>2. \A q \in Seat : v.chair[q] = IF q = s THEN u ELSE r.chair[q]  BY <1>1 DEF Row
<1>. HIDE DEF v
<1>3. \A q \in Seat : q >= RoomSize => q # s  BY SeatsAre
<1>4. 0..(RoomSize - 1) \subseteq Seat  BY RoomAssumption, SeatsAre
<1>5. RowWell(v)  BY <1>1, <1>2, <1>3, <1>4 DEF RowWell
<1>. QED  BY <1>1, <1>2, <1>5 DEF v

LEMMA CameBackAlike ==
  ASSUME NEW t \in Table, NEW s \in Seat, NEW o \in Objs, t.chair[s].obj # Null
  PROVE  /\ CameBack(t, s, o) \in Table /\ Alike(t, CameBack(t, s, o))
         /\ \A q \in Seat : CameBack(t, s, o).chair[q] =
              IF q = s THEN [t.chair[s] EXCEPT !.offline = FALSE] ELSE t.chair[q]
<1>. DEFINE c == [t.chair[s] EXCEPT !.offline = FALSE]
            v == CameBack(t, s, o)
<1>1. t.chair \in [Seat -> Chair] /\ t.chair[s] \in Chair  BY TableTyped
<1>2. c \in Chair /\ c.uid = t.chair[s].uid /\ c.obj = t.chair[s].obj  BY Zenon, <1>1 DEF Chair
<1>3. v = [t EXCEPT !.chair = [t.chair EXCEPT ![s] = c]]
  <2>1. v = [t EXCEPT !.chair = [t.chair EXCEPT ![s] =
               [t.chair[s] EXCEPT !.obj = t.chair[s].obj, !.offline = FALSE]]]
    BY Zenon, <1>1 DEF CameBack
  <2>2. [t.chair[s] EXCEPT !.obj = t.chair[s].obj, !.offline = FALSE] = c  BY Zenon, <1>1 DEF Chair
  <2>. QED  BY Zenon, <2>1, <2>2
<1>. HIDE DEF c, v
<1>4. [t.chair EXCEPT ![s] = c] \in [Seat -> Chair]  BY <1>1, <1>2
<1>5. /\ v \in Table /\ v.size = t.size /\ v.playing = t.playing /\ v.amount = t.amount
      /\ v.chair = [t.chair EXCEPT ![s] = c]
  BY <1>3, <1>4 DEF Table
<1>6. \A q \in Seat : v.chair[q] = IF q = s THEN c ELSE t.chair[q]  BY <1>1, <1>5
<1>7. Alike(t, v)  BY <1>2, <1>5, <1>6 DEF Alike
<1>. QED  BY Zenon, <1>5, <1>6, <1>7 DEF c, v

(* Sitdown takes the chair that the player has, or a free one, or none.    *)
LEMMA SitdownDoes ==
  ASSUME NEW e, NEW x, Good(e, x), NEW o \in Objs, Uid(x, o) # Null, NEW n \in x.m.tables
  PROVE  LET y == Sitdown(x, o, n)
             t == x.m.table[n]
             u == x.m.obj[o].uid IN
         \/ y = [x EXCEPT !.ok = FALSE]
         \/ \E s \in Seat : /\ s < RoomSize /\ t.chair[s].uid = Null
                            /\ (\A q \in Seat : t.chair[q].uid # u)
                            /\ ~t.playing /\ Sits(x, o, n, s, y)
         \/ \E s \in Seat : /\ t.chair[s].uid = u /\ Returns(x, o, n, s, y)
<1>. DEFINE y == Sitdown(x, o, n)
            t == x.m.table[n]
            u == x.m.obj[o].uid
            mine == ChairsOf(x, n, u)
            free == {s \in 0..(t.size - 1) : ~Occupied(t.chair[s])}
<1>1. /\ x \in Work /\ n \in Tids /\ t \in Table /\ TableWell(t) /\ u \in Ids /\ u # Null
      /\ Mirrors(t, x.db.row[n]) /\ RowWell(x.db.row[n]) /\ x.db.row[n] \in Row
      /\ x.m \in Memory /\ x.db \in Database /\ x.m.table \in [Tids -> Table]
      /\ x.db.row \in [Tids -> Row]
  BY WorkTyped, PlayerTyped DEF Good, Rooms, RowsWell, Uid
<1>2. /\ mine \subseteq Seat /\ (mine # {} => Min(mine) \in mine)
      /\ \A s \in mine : t.chair[s].uid = u
  BY <1>1, ChairsOfAre
<1>. HIDE DEF y
<1>3. CASE y = [x EXCEPT !.ok = FALSE]  BY <1>3 DEF y
<1>4. CASE mine # {} /\ y = Return(x, o, n, Min(mine))
  <2>. DEFINE s == Min(mine)
              v == CameBack(t, s, o)
              g == [x.m EXCEPT !.table = [x.m.table EXCEPT ![n] = v]]
  <2>. HIDE DEF mine
  <2>1. s \in Seat /\ t.chair[s].uid = u  BY <1>2, <1>4
  <2>. HIDE DEF s
  <2>2. v \in Table  BY Zenon, <1>1, <2>1, CameBackAlike DEF TableWell
  <2>3. y = [x EXCEPT !.m = g, !.ok = TRUE]
    <3>. DEFINE g1 == [x.m EXCEPT !.table = [x.m.table EXCEPT ![n].chair[s].obj =
                                               IF @ = Null THEN o ELSE @]]
                x1 == [x EXCEPT !.m = g1]
                g2 == [x1.m EXCEPT !.table = [x1.m.table EXCEPT ![n].chair[s].offline = FALSE]]
                x2 == [x1 EXCEPT !.m = g2]
    <3>1. y = [x2 EXCEPT !.ok = TRUE]  BY <1>4, Zenon DEF Return, s
    <3>2. x1.m = g1 /\ g1.table = [x.m.table EXCEPT ![n].chair[s].obj = IF @ = Null THEN o ELSE @]
      BY <1>1 DEF Work, Memory
    <3>3. [x1.m.table EXCEPT ![n].chair[s].offline = FALSE] = [x.m.table EXCEPT ![n] = v]
      <4>. HIDE DEF x1, g1
      <4>. QED  BY Zenon, <1>1, <3>2 DEF CameBack, Table
    <3>4. g2 = g
      <4>. HIDE DEF x1, v
      <4>. QED  BY Zenon, <1>1, <3>2, <3>3 DEF Memory
    <3>. HIDE DEF g, g2, v
    <3>5. [x2 EXCEPT !.ok = TRUE] = [x EXCEPT !.m = g, !.ok = TRUE]  BY Zenon, <1>1, <3>4 DEF Work
    <3>. QED  BY <3>1, <3>5
  <2>. HIDE DEF v
  <2>4. [x.m.table EXCEPT ![n] = v] \in [Tids -> Table]  BY <1>1, <2>2
  <2>5. /\ g \in Memory /\ SameServer(x.m, g) /\ SameRoom(x.m, g) /\ g.obj = x.m.obj
        /\ g.tables = x.m.tables /\ g.dismissed = x.m.dismissed
        /\ g.table = [x.m.table EXCEPT ![n] = v]
    BY Zenon, <1>1, <2>4 DEF Memory, SameServer, SameRoom
  <2>. HIDE DEF g
  <2>6. y \in Work /\ y.m = g /\ SameRest(x, y) /\ y.found = x.found /\ y.ok = TRUE
    BY Zenon, <1>1, <2>3, <2>5 DEF Work, SameRest
  <2>7. Returns(x, o, n, s, y)  BY <2>5, <2>6 DEF Returns, v
  <2>. QED  BY <2>1, <2>7 DEF y
<1>5. CASE mine = {} /\ t.amount < t.size /\ y = SitNew(x, o, n)
  <2>. DEFINE s == Min(free)
              v == SatOn(t, s, u, o)
              g == [x.m EXCEPT !.table = [x.m.table EXCEPT ![n] = v]]
              z == [x EXCEPT !.m = g, !.ok = TRUE]
              d == [z.db EXCEPT !.row[n].chair[s] = u]
              w == With(x.db.row[n], s, u)
  <2>1. t.size = RoomSize /\ RoomSize \in 2..3 /\ 0..(RoomSize - 1) \subseteq Seat
    BY <1>1, RoomAssumption, SeatsAre DEF TableWell
  <2>2. \A q \in 0..(RoomSize - 1) : Occupied(t.chair[q]) <=> t.chair[q].uid # Null
    BY <1>1, <2>1 DEF Occupied, TableWell
  <2>3. t.amount # t.size  BY <1>1, <1>5, TableTyped
  <2>4. \E q \in 0..(RoomSize - 1) : t.chair[q].uid = Null
    <3>1. t.amount = t.size <=> \A q \in 0..(RoomSize - 1) : t.chair[q].uid # Null
      BY <1>1, TakenAre
    <3>. QED  BY <2>3, <3>1
  <2>5. free # {} /\ free \subseteq Nat  BY <2>1, <2>2, <2>4
  <2>6. s \in free  BY Zenon, <2>5, LeastThere
  <2>7. s \in Seat /\ s < RoomSize /\ t.chair[s].uid = Null
    <3>1. s \in 0..(RoomSize - 1) /\ ~Occupied(t.chair[s])  BY <2>1, <2>6
    <3>. HIDE DEF s
    <3>2. s < RoomSize  BY <2>1, <3>1
    <3>. QED  BY <2>1, <2>2, <3>1, <3>2
  <2>8. y = Put(z, d)
    <3>1. Uid(x, o) = u  BY DEF Uid
    <3>2. SitNew(x, o, n) =
            LET z1 == [x EXCEPT !.m.table[n].chair[s] = Newcomer(u, o),
                                !.m.table[n].amount = @ + 1, !.ok = TRUE]
            IN Put(z1, [z1.db EXCEPT !.row[n].chair[s] = u])
      BY Zenon, <1>1, <2>5, <3>1 DEF SitNew, Newcomer
    <3>3. [x EXCEPT !.m.table[n].chair[s] = Newcomer(u, o),
                    !.m.table[n].amount = @ + 1, !.ok = TRUE] = z
      <4>. HIDE DEF s
      <4>. DEFINE t1 == [t EXCEPT !.chair[s] = Newcomer(u, o)]
                  g1 == [x.m EXCEPT !.table = [x.m.table EXCEPT ![n].chair[s] = Newcomer(u, o)]]
                  x1 == [x EXCEPT !.m = g1]
                  g2 == [x1.m EXCEPT !.table = [x1.m.table EXCEPT ![n].amount = @ + 1]]
                  x2 == [x1 EXCEPT !.m = g2]
      <4>1. [x EXCEPT !.m.table[n].chair[s] = Newcomer(u, o),
                      !.m.table[n].amount = @ + 1, !.ok = TRUE] = [x2 EXCEPT !.ok = TRUE]
        BY ZenonT(60)
      <4>2. x1.m = g1 /\ g1.table = [x.m.table EXCEPT ![n].chair[s] = Newcomer(u, o)]
        BY <1>1 DEF Work, Memory
      <4>3. [x1.m.table EXCEPT ![n].amount = @ + 1] = [x.m.table EXCEPT ![n] = v]
        <5>. HIDE DEF x1, g1
        <5>. QED  BY SMTT(60), <1>1, <4>2 DEF SatOn, Table
      <4>4. g2 = g
        <5>. HIDE DEF x1, v
        <5>. QED  BY Zenon, <1>1, <4>2, <4>3 DEF Memory
      <4>. HIDE DEF g, g2, v
      <4>5. [x2 EXCEPT !.ok = TRUE] = z  BY Zenon, <1>1, <4>4 DEF Work
      <4>. QED  BY <4>1, <4>5
    <3>. HIDE DEF z, s
    <3>. QED  BY Zenon, <1>5, <3>2, <3>3
  <2>. HIDE DEF s, free
  <2>9. v \in Table  BY <1>1, <2>7, SatOnWell
  <2>. HIDE DEF v
  <2>10. [x.m.table EXCEPT ![n] = v] \in [Tids -> Table]  BY <1>1, <2>9
  <2>11. /\ g \in Memory /\ SameServer(x.m, g) /\ SameRoom(x.m, g) /\ g.obj = x.m.obj
         /\ g.tables = x.m.tables /\ g.dismissed = x.m.dismissed
         /\ g.table = [x.m.table EXCEPT ![n] = v]
    BY Zenon, <1>1, <2>10 DEF Memory, SameServer, SameRoom
  <2>. HIDE DEF g
  <2>12. z \in Work /\ z.m = g /\ SameRest(x, z) /\ z.found = x.found /\ z.ok = TRUE
    BY Zenon, <1>1, <2>11 DEF Work, SameRest
  <2>. HIDE DEF z
  <2>13. /\ d \in Database /\ d.row = [x.db.row EXCEPT ![n] = w] /\ d.zid = x.db.zid
         /\ d.rooms = x.db.rooms /\ d.tid = x.db.tid
    <3>1. w \in Row  BY Zenon, <1>1, <2>7 DEF With, Row
    <3>2. d = [x.db EXCEPT !.row = [x.db.row EXCEPT ![n] = w]]  BY <2>12 DEF With, SameRest
    <3>. HIDE DEF w, d
    <3>3. [x.db.row EXCEPT ![n] = w] \in [Tids -> Row]  BY <1>1, <3>1
    <3>. QED  BY <1>1, <3>2, <3>3 DEF Database
  <2>. HIDE DEF d
  <2>14. /\ y \in Work /\ y.m = g /\ y.db = d /\ y.trail = x.trail \cup {d}
         /\ y.lost = x.lost /\ y.found = x.found /\ y.ok = TRUE
    BY <2>8, <2>12, <2>13, PutDoes DEF SameRest
  <2>15. Sits(x, o, n, s, y)  BY <2>11, <2>13, <2>14 DEF Sits, v
  <2>16. \A q \in Seat : t.chair[q].uid # u
    <3>1. ASSUME NEW q \in Seat, t.chair[q].uid = u  PROVE FALSE
      <4>1. q < RoomSize
        <5>1. q \in Nat /\ RoomSize \in Nat /\ ~(q >= RoomSize)
          BY <1>1, <3>1, SeatsAre DEF TableWell
        <5>. QED  BY <5>1
      <4>2. q \in 0..(t.size - 1)  BY <2>1, <4>1, SeatsAre
      <4>3. q \in mine  BY <3>1, <4>2 DEF ChairsOf
      <4>. QED  BY <1>5, <4>3
    <3>. QED  BY <3>1
  <2>17. ~t.playing
    <3>1. t.playing => \A q \in 0..(RoomSize - 1) : t.chair[q].uid # Null
      BY <1>1, <2>1 DEF Mirrors, RowWell
    <3>. QED  BY <2>4, <3>1
  <2>. QED  BY <2>7, <2>15, <2>16, <2>17 DEF y
<1>6. \/ y = [x EXCEPT !.ok = FALSE]
      \/ mine # {} /\ y = Return(x, o, n, Min(mine))
      \/ mine = {} /\ t.amount < t.size /\ y = SitNew(x, o, n)
  <2>1. t.amount \in Nat /\ t.size \in Nat  BY <1>1, TableTyped
  <2>2. t.amount < t.size \/ t.amount >= t.size  BY <2>1
  <2>3. y = IF mine = {}
            THEN IF t.amount >= t.size THEN [x EXCEPT !.ok = FALSE] ELSE SitNew(x, o, n)
            ELSE IF t.chair[Min(mine)].offline \/ t.chair[Min(mine)].obj = o
                 THEN Return(x, o, n, Min(mine)) ELSE [x EXCEPT !.ok = FALSE]
    BY Zenon DEF Sitdown, y, Uid, t, mine, u
  <2>. HIDE DEF mine, t
  <2>4. t.amount >= t.size => ~(t.amount < t.size)  BY SMTT(60), <2>1
  <2>. QED  BY <2>2, <2>3, <2>4, Zenon
<1>. QED  BY <1>3, <1>4, <1>5, <1>6

LEMMA SitdownInRoom ==
  ASSUME NEW e, NEW x, Good(e, x), NEW o \in Objs, Uid(x, o) # Null, NEW n \in x.m.tables
  PROVE  InRoom(e, x, Sitdown(x, o, n))
<1>. DEFINE y == Sitdown(x, o, n)
            t == x.m.table[n]
            r == x.db.row[n]
            u == x.m.obj[o].uid
<1>1. /\ x \in Work /\ n \in Tids /\ t \in Table /\ TableWell(t) /\ u \in Ids /\ u # Null
      /\ Mirrors(t, r) /\ RowWell(r) /\ r \in Row /\ x.m.table \in [Tids -> Table]
      /\ (roomType = 0 => n <= x.db.tid) /\ x.m.tables \subseteq Tids
  BY WorkTyped, PlayerTyped DEF Good, Rooms, RowsWell, Uid
<1>2. \/ y = [x EXCEPT !.ok = FALSE]
      \/ \E s \in Seat : /\ s < RoomSize /\ t.chair[s].uid = Null
                         /\ (\A q \in Seat : t.chair[q].uid # u)
                         /\ ~t.playing /\ Sits(x, o, n, s, y)
      \/ \E s \in Seat : /\ t.chair[s].uid = u /\ Returns(x, o, n, s, y)
  BY SitdownDoes
<1>. HIDE DEF y
<1>3. ASSUME Good(e, y), SameServer(x.m, y.m), y.m.obj = x.m.obj, y.lost = x.lost
      PROVE  InRoom(e, x, y)
  BY <1>3 DEF InRoom, SamePeople
<1>4. CASE y = [x EXCEPT !.ok = FALSE]
  <2>1. y \in Work /\ y.m = x.m /\ SameRest(x, y)  BY Zenon, <1>1, <1>4, NotesDo, NullIsNone
  <2>2. Good(e, y)  BY <2>1, NotesGood
  <2>. QED  BY <1>3, <2>1, <2>2 DEF SameServer, SameRest, y
<1>5. ASSUME NEW s \in Seat, s < RoomSize, t.chair[s].uid = Null,
             \A q \in Seat : t.chair[q].uid # u, ~t.playing, Sits(x, o, n, s, y)
      PROVE  InRoom(e, x, y)
  <2>. DEFINE v == SatOn(t, s, u, o)
              w == With(r, s, u)
  <2>1. /\ v \in Table /\ TableWell(v) /\ v.playing = t.playing
        /\ \A q \in Seat : v.chair[q] = IF q = s THEN Newcomer(u, o) ELSE t.chair[q]
    BY <1>1, <1>5, SatOnWell
  <2>2. \A q \in Seat : r.chair[q] # u  BY <1>1, <1>5 DEF Mirrors
  <2>3. /\ w \in Row /\ RowWell(w) /\ w.playing = r.playing
        /\ \A q \in Seat : w.chair[q] = IF q = s THEN u ELSE r.chair[q]
    BY <1>1, <1>5, <2>2, WithWell
  <2>4. /\ y \in Work /\ SameServer(x.m, y.m) /\ y.m.obj = x.m.obj /\ y.lost = x.lost
        /\ y.m.tables = x.m.tables /\ y.m.dismissed = x.m.dismissed
        /\ y.m.table = [x.m.table EXCEPT ![n] = v]
        /\ y.db.rooms = x.db.rooms /\ y.db.tid = x.db.tid
        /\ y.db.row = [x.db.row EXCEPT ![n] = w]
        /\ y.trail = x.trail \cup {y.db}
    BY <1>5 DEF Sits
  <2>. HIDE DEF v, w
  <2>5. Mirrors(v, w)  BY <1>1, <2>1, <2>3 DEF Mirrors, Newcomer
  <2>6. ~x.db.row[n].playing  BY <1>1, <1>5 DEF Mirrors
  <2>7. \A d \in y.trail : d \in x.trail \/ (d.tid = x.db.tid /\ d.row = y.db.row)  BY <2>4
  <2>8. x.m.tables \cup {n} = x.m.tables  OBVIOUS
  <2>9. Good(e, y)
    BY <1>1, <2>1, <2>3, <2>4, <2>5, <2>6, <2>7, <2>8, TableChanges
  <2>. QED  BY <1>3, <2>4, <2>9
<1>6. ASSUME NEW s \in Seat, t.chair[s].uid = u, Returns(x, o, n, s, y)
      PROVE  InRoom(e, x, y)
  <2>1. t.chair[s].obj # Null  BY <1>1, <1>6 DEF TableWell
  <2>2. Alike(t, CameBack(t, s, o))  BY Zenon, <1>1, <2>1, CameBackAlike
  <2>3. \A j \in Tids : Alike(x.m.table[j], x.m.table[j])  BY DEF Alike
  <2>4. /\ y \in Work /\ SameServer(x.m, y.m) /\ y.m.obj = x.m.obj /\ SameRest(x, y)
        /\ y.m.tables = x.m.tables /\ y.m.dismissed = x.m.dismissed
        /\ y.m.table = [x.m.table EXCEPT ![n] = CameBack(t, s, o)]
    BY <1>6 DEF Returns
  <2>5. \A j \in Tids : Alike(x.m.table[j], y.m.table[j])  BY <1>1, <2>2, <2>3, <2>4
  <2>6. Good(e, y)  BY Zenon, <2>4, <2>5, ChairsKept DEF SameChairs
  <2>. QED  BY <1>3, <2>4, <2>6 DEF SameRest
<1>. QED  BY <1>2, <1>4, <1>5, <1>6 DEF y

-----------------------------------------------------------------------------
(* Steps in the maps of the room alone.                                    *)
Enters(x, o, n, u, y) ==
  /\ y \in Work /\ SameRest(x, y) /\ y.found = x.found /\ y.ok = x.ok
  /\ SameServer(x.m, y.m) /\ SameTables(x.m, y.m)
  /\ y.m.obj = [x.m.obj EXCEPT ![o].table = n]
  /\ y.m.at = Insert(x.m.at, u, n) /\ y.m.here = Insert(x.m.here, u, o)
  /\ y.m.away = [x.m.away EXCEPT ![u] = Null]

Entered(x, o, n, u) ==
  [x EXCEPT !.m.obj[o].table = n, !.m.at = Insert(@, u, n),
            !.m.here = Insert(@, u, o), !.m.away[u] = Null]

LEMMA EnteredDoes ==
  ASSUME NEW x \in Work, NEW o \in Objs, NEW n \in Tids, NEW u \in Ids
  PROVE  Enters(x, o, n, u, Entered(x, o, n, u))
<1>. DEFINE obj == [x.m.obj EXCEPT ![o].table = n]
            at == Insert(x.m.at, u, n)
            here == Insert(x.m.here, u, o)
            away == [x.m.away EXCEPT ![u] = Null]
            g == [x.m EXCEPT !.obj = obj, !.at = at, !.here = here, !.away = away]
            y == [x EXCEPT !.m = g]
<1>1. x.m \in Memory  BY WorkTyped
<1>2. /\ obj \in [Objs -> Player] /\ at \in [Ids -> Tids \cup {Null}]
      /\ here \in [Ids -> Objs \cup {Null}] /\ away \in [Ids -> Objs \cup {Null}]
  <2>1. obj \in [Objs -> Player]  BY SMTT(60), WorkTyped DEF Player
  <2>2. at \in [Ids -> Tids \cup {Null}] /\ here \in [Ids -> Objs \cup {Null}]
    BY Zenon, WorkTyped, InsertTyped
  <2>3. away \in [Ids -> Objs \cup {Null}]  BY WorkTyped
  <2>. QED  BY <2>1, <2>2, <2>3
<1>3. Entered(x, o, n, u) = y  BY ZenonT(60) DEF Entered
<1>. HIDE DEF obj, at, here, away
<1>4. /\ g \in Memory /\ SameServer(x.m, g) /\ SameTables(x.m, g)
      /\ g.obj = obj /\ g.at = at /\ g.here = here /\ g.away = away
  BY Zenon, <1>1, <1>2 DEF Memory, SameServer, SameTables
<1>. HIDE DEF g
<1>5. y \in Work /\ y.m = g /\ SameRest(x, y) /\ y.found = x.found /\ y.ok = x.ok
  BY <1>4 DEF Work, SameRest
<1>. HIDE DEF y
<1>. QED  BY <1>3, <1>4, <1>5 DEF Enters, obj, at, here, away

LEMMA InMapsInRoom ==
  ASSUME NEW e, NEW x, Good(e, x), NEW y \in Work, SameRest(x, y),
         SameServer(x.m, y.m), SamePeople(x.m, y.m), SameTables(x.m, y.m)
  PROVE  InRoom(e, x, y)
<1>1. Good(e, y)  BY SameTablesAlike, ChairsKept
<1>. QED  BY <1>1 DEF InRoom, SameRest

LEMMA JoinInRoom ==
  ASSUME NEW e, NEW x, Good(e, x), NEW o \in Objs, Uid(x, o) # Null, NEW n \in x.m.tables
  PROVE  InRoom(e, x, Join(x, o, n))
<1>. DEFINE u == Uid(x, o)
            y == Sitdown(x, o, n)
            z == Entered(y, o, n, u)
            w == SetLastRoom(z, u, n)
<1>1. x \in Work /\ n \in Tids /\ u \in Ids  BY WorkTyped, PlayerTyped DEF Good, Uid
<1>2. InRoom(e, x, y)  BY SitdownInRoom
<1>3. Join(x, o, n) = IF y.ok THEN w ELSE y  BY Zenon DEF Join, Entered, u, y, z, w
<1>. HIDE DEF y, u
<1>4. y \in Work /\ Good(e, y)  BY <1>2 DEF InRoom, Good
<1>5. Enters(y, o, n, u, z)  BY <1>1, <1>4, EnteredDoes
<1>. HIDE DEF z
<1>6. SamePeople(y.m, z.m)
  BY <1>1, <1>4, <1>5, TableOfOne, WorkTyped DEF Enters, SamePeople
<1>7. InRoom(e, y, z)  BY <1>4, <1>5, <1>6, InMapsInRoom DEF Enters
<1>8. z \in Work /\ Good(e, z)  BY <1>7 DEF InRoom, Good
<1>9. w.m = z.m /\ w.lost = z.lost /\ Good(e, w)
  <2>1. n \in Tids \cup {Null}  BY <1>1
  <2>2. w.m = z.m /\ w.lost = z.lost  BY ZenonT(60), <1>1, <1>8, <2>1, SetLastRoomDoes
  <2>3. Good(e, w)  BY <1>1, <1>8, <2>1, SetLastRoomGood
  <2>. QED  BY <2>2, <2>3
<1>. HIDE DEF w
<1>10. InRoom(e, z, w)  BY <1>9 DEF InRoom, SameServer, SamePeople
<1>11. InRoom(e, x, w)  BY <1>2, <1>7, <1>10, InRoomTransitive
<1>. QED  BY <1>2, <1>3, <1>11

Forgets(x, u, y) ==
  LET o == x.m.here[u] IN
  /\ y \in Work /\ SameRest(x, y) /\ y.found = x.found /\ y.ok = x.ok
  /\ SameServer(x.m, y.m) /\ SameTables(x.m, y.m)
  /\ y.m.obj = IF o = Null THEN x.m.obj ELSE [x.m.obj EXCEPT ![o].table = Null]
  /\ y.m.at = x.m.at /\ y.m.here = [x.m.here EXCEPT ![u] = Null]
  /\ y.m.away = [x.m.away EXCEPT ![u] = Null]

LEMMA ForgetInRoomDoes ==
  ASSUME NEW x \in Work, NEW u \in Ids
  PROVE  Forgets(x, u, ForgetInRoom(x, u))
<1>. DEFINE o == x.m.here[u]
            obj == IF o = Null THEN x.m.obj ELSE [x.m.obj EXCEPT ![o].table = Null]
            here == [x.m.here EXCEPT ![u] = Null]
            away == [x.m.away EXCEPT ![u] = Null]
            g == [x.m EXCEPT !.obj = obj, !.here = here, !.away = away]
            y == [x EXCEPT !.m = g]
            a == [x EXCEPT !.m.away[u] = Null]
            h == [x.m EXCEPT !.away = away]
<1>1. /\ x.m \in Memory /\ o \in Objs \cup {Null} /\ x.m.obj \in [Objs -> Player]
      /\ x.m.here \in [Ids -> Objs \cup {Null}] /\ x.m.away \in [Ids -> Objs \cup {Null}]
  BY WorkTyped
<1>2. obj \in [Objs -> Player]  BY <1>1 DEF Player
<1>3. here \in [Ids -> Objs \cup {Null}] /\ away \in [Ids -> Objs \cup {Null}]  BY <1>1
<1>4. a = [x EXCEPT !.m = h] /\ h \in Memory /\ h.obj = x.m.obj /\ h.here = x.m.here
  <2>1. a = [x EXCEPT !.m = h]  OBVIOUS
  <2>. HIDE DEF away, a
  <2>. QED  BY Zenon, <1>1, <1>3, <2>1 DEF Memory
<1>5. ForgetInRoom(x, u) =
        IF o = Null THEN a
        ELSE [a EXCEPT !.m.obj[o].table = Null, !.m.here[u] = Null]
  BY Zenon DEF ForgetInRoom, o, a
<1>. HIDE DEF a
<1>6. a.m = h /\ [a EXCEPT !.m = g] = y
  <2>. HIDE DEF h, g
  <2>. QED  BY Zenon, <1>4 DEF Work
<1>7. ForgetInRoom(x, u) = y
  <2>1. CASE o = Null
    <3>1. here = x.m.here /\ obj = x.m.obj  BY <1>1, <2>1
    <3>. HIDE DEF here, obj, away
    <3>2. h = g  BY Zenon, <1>1, <3>1 DEF Memory
    <3>. QED  BY <1>4, <1>5, <2>1, <3>2
  <2>2. CASE o # Null
    <3>1. [a EXCEPT !.m.obj[o].table = Null, !.m.here[u] = Null]
            = [a EXCEPT !.m = [a.m EXCEPT !.obj = [a.m.obj EXCEPT ![o].table = Null],
                                          !.here = [a.m.here EXCEPT ![u] = Null]]]
      BY Zenon
    <3>2. [a.m EXCEPT !.obj = [a.m.obj EXCEPT ![o].table = Null],
                      !.here = [a.m.here EXCEPT ![u] = Null]] = [h EXCEPT !.obj = obj, !.here = here]
      <4>1. a.m = h /\ a.m.obj = x.m.obj /\ a.m.here = x.m.here  BY Zenon, <1>4, <1>6
      <4>2. obj = [a.m.obj EXCEPT ![o].table = Null] /\ here = [a.m.here EXCEPT ![u] = Null]
        BY <2>2, <4>1
      <4>. HIDE DEF h, obj, here
      <4>. QED  BY <4>1, <4>2
    <3>. HIDE DEF here, obj, away
    <3>3. [h EXCEPT !.obj = obj, !.here = here] = g  BY Zenon, <1>1 DEF Memory
    <3>. QED  BY <1>5, <1>6, <2>2, <3>1, <3>2, <3>3
  <2>. QED  BY <2>1, <2>2
<1>. HIDE DEF obj, here, away
<1>8. /\ g \in Memory /\ SameServer(x.m, g) /\ SameTables(x.m, g)
      /\ g.obj = obj /\ g.at = x.m.at /\ g.here = here /\ g.away = away
  BY Zenon, <1>1, <1>2, <1>3 DEF Memory, SameServer, SameTables
<1>. HIDE DEF g
<1>9. y \in Work /\ y.m = g /\ SameRest(x, y) /\ y.found = x.found /\ y.ok = x.ok
  BY <1>8 DEF Work, SameRest
<1>. HIDE DEF y
<1>. QED  BY <1>7, <1>8, <1>9 DEF Forgets, obj, here, away

LEMMA ForgetInRoomInRoom ==
  ASSUME NEW e, NEW x, Good(e, x), NEW u \in Ids
  PROVE  InRoom(e, x, ForgetInRoom(x, u))
<1>. DEFINE y == ForgetInRoom(x, u)
<1>1. x \in Work  BY DEF Good
<1>2. Forgets(x, u, y)  BY <1>1, ForgetInRoomDoes
<1>. HIDE DEF y
<1>3. x.m.here[u] \in Objs \cup {Null} /\ x.m.obj \in [Objs -> Player]  BY <1>1, WorkTyped
<1>4. SamePeople(x.m, y.m)
  BY <1>2, <1>3, TableOfOne, NullIsNone DEF Forgets, SamePeople
<1>5. InRoom(e, x, y)  BY <1>2, <1>4, InMapsInRoom DEF Forgets
<1>. QED  BY <1>5 DEF y

-----------------------------------------------------------------------------
(***************************************************************************)
(* The server: its two maps of players, the sessions of the connections    *)
(* and the timers.                                                         *)
(***************************************************************************)
Online(g, u, o) ==
  /\ u # Null /\ o \in g.live /\ g.obj[o].uid = u /\ g.obj[o].online
  /\ g.obj[o].conn # Null /\ g.session[g.obj[o].conn] = o

Offline(g, u, o) ==
  /\ u # Null /\ o \in g.live /\ ~g.obj[o].online /\ g.online[u] = Null
  /\ \A v \in Ids : g.offline[v] = o => v = u

Connected(g, c, o) == c \in g.open /\ g.obj[o].conn = c /\ g.online[g.obj[o].uid] = o

Served(g) ==
  /\ \A u \in Ids : g.online[u] # Null => Online(g, u, g.online[u])
  /\ \A u \in Ids : g.offline[u] # Null => Offline(g, u, g.offline[u])
  /\ \A c \in Conns : g.session[c] # Null => Connected(g, c, g.session[c])
  /\ g.tick \subseteq g.open /\ g.fresh \subseteq g.open

SameNet(g, h) ==
  /\ h.open = g.open /\ h.fresh = g.fresh /\ h.tick = g.tick /\ h.session = g.session
  /\ h.online = g.online

(* Nobody's object changes who it is.                                      *)
LiveKept(g, h) ==
  /\ g.live \subseteq h.live
  /\ \A p \in g.live : /\ h.obj[p].uid = g.obj[p].uid /\ h.obj[p].conn = g.obj[p].conn
                       /\ h.obj[p].online = g.obj[p].online

(* What entering promises to the server: players may be created.           *)
Grows(e, x, y) ==
  Good(e, y) /\ Served(y.m) /\ SameNet(x.m, y.m) /\ LiveKept(x.m, y.m) /\ y.lost = x.lost

LEMMA ServedKept ==
  ASSUME NEW x \in Work, NEW y \in Work, Served(x.m),
         SameServer(x.m, y.m), SamePeople(x.m, y.m)
  PROVE  Served(y.m)
<1>1. /\ x.m.online \in [Ids -> Objs \cup {Null}] /\ x.m.offline \in [Ids -> Objs \cup {Null}]
      /\ x.m.session \in [Conns -> Objs \cup {Null}]
  BY SMTT(60), WorkTyped
<1>2. \A u \in Ids : y.m.online[u] # Null => Online(y.m, u, y.m.online[u])
  BY <1>1 DEF Served, Online, SameServer, SamePeople
<1>3. \A u \in Ids : y.m.offline[u] # Null => Offline(y.m, u, y.m.offline[u])
  BY <1>1 DEF Served, Offline, SameServer, SamePeople
<1>4. \A c \in Conns : y.m.session[c] # Null => Connected(y.m, c, y.m.session[c])
  BY <1>1 DEF Served, Connected, SameServer, SamePeople
<1>. QED  BY <1>2, <1>3, <1>4 DEF Served, SameServer

LEMMA InRoomGrows ==
  ASSUME NEW e, NEW x, Good(e, x), Served(x.m), NEW y, InRoom(e, x, y)
  PROVE  Grows(e, x, y)
<1>1. x \in Work /\ y \in Work /\ x.m.live \subseteq Objs  BY WorkTyped DEF Good, InRoom
<1>2. Served(y.m)  BY <1>1, ServedKept DEF InRoom
<1>. QED  BY <1>1, <1>2 DEF Grows, InRoom, SameNet, SameServer, LiveKept, SamePeople

LEMMA GrowsTransitive ==
  ASSUME NEW e, NEW x, NEW y, NEW z, Grows(e, x, y), Grows(e, y, z)
  PROVE  Grows(e, x, z)
  BY DEF Grows, SameNet, LiveKept

(* Who is connected is a player with an id.                                *)
LEMMA WhoIsConnected ==
  ASSUME NEW x \in Work, Served(x.m), NEW c \in Conns, x.m.session[c] # Null
  PROVE  LET o == x.m.session[c] IN
         /\ o \in Objs /\ o \in x.m.live /\ Uid(x, o) \in Ids /\ Uid(x, o) # Null
         /\ x.m.online[Uid(x, o)] = o /\ x.m.obj[o].conn = c /\ c \in x.m.open
<1>. DEFINE o == x.m.session[c]
            u == Uid(x, o)
<1>1. o \in Objs /\ x.m.obj[o] \in Player  BY WorkTyped
<1>2. u \in Ids  BY <1>1, PlayerTyped DEF Uid
<1>3. x.m.online[u] = o /\ x.m.obj[o].conn = c /\ c \in x.m.open
  BY DEF Served, Connected, Uid
<1>4. Online(x.m, u, o)  BY <1>2, <1>3 DEF Served
<1>. QED  BY <1>1, <1>2, <1>3, <1>4 DEF Online

-----------------------------------------------------------------------------
(* Restoring a chair of a row.                                             *)
Absentee(x, u) ==
  [uid |-> IF x.lost = "create" THEN Null ELSE u, conn |-> Null, online |-> FALSE,
   table |-> Null]

RestoredAs(u, o) == [uid |-> u, obj |-> o, offline |-> TRUE, ready |-> FALSE]
Restored(t, s, u, o) == [t EXCEPT !.chair[s] = RestoredAs(u, o), !.amount = @ + 1]

Owner(x, u) == IF x.m.online[u] # Null THEN x.m.online[u] ELSE FreeObj(x)

Restores(x, n, s, y) ==
  LET u == x.db.row[n].chair[s]
      o == Owner(x, u)
      known == x.m.online[u] # Null IN
  /\ y \in Work /\ SameRest(x, y) /\ y.found = x.found /\ y.ok = x.ok
  /\ SameNet(x.m, y.m) /\ SameRoom(x.m, y.m)
  /\ y.m.tables = x.m.tables /\ y.m.dismissed = x.m.dismissed
  /\ y.m.table = [x.m.table EXCEPT ![n] = Restored(x.m.table[n], s, u, o)]
  /\ y.m.live = IF known THEN x.m.live ELSE x.m.live \cup {o}
  /\ y.m.obj = IF known THEN x.m.obj ELSE [x.m.obj EXCEPT ![o] = Absentee(x, u)]
  /\ y.m.offline = IF known THEN x.m.offline ELSE Insert(x.m.offline, u, o)

LEMMA RestoreDoes ==
  ASSUME NEW x \in Work, NEW n \in Tids, NEW s \in Seat, x.db.row[n].chair[s] # Null,
         x.m.online[x.db.row[n].chair[s]] # Null \/ Objs \ x.m.live # {},
         x.m.table[n].amount < 3
  PROVE  /\ Restores(x, n, s, Restore(x, n, s))
         /\ Owner(x, x.db.row[n].chair[s]) \in Objs
         /\ x.m.online[x.db.row[n].chair[s]] = Null =>
              Owner(x, x.db.row[n].chair[s]) \notin x.m.live
<1>. DEFINE u == x.db.row[n].chair[s]
            known == x.m.online[u] # Null
            o == Owner(x, u)
            t == x.m.table[n]
            v == Restored(t, s, u, o)
            live == IF known THEN x.m.live ELSE x.m.live \cup {o}
            obj == IF known THEN x.m.obj ELSE [x.m.obj EXCEPT ![o] = Absentee(x, u)]
            off == IF known THEN x.m.offline ELSE Insert(x.m.offline, u, o)
            tables == [x.m.table EXCEPT ![n] = v]
            g == [x.m EXCEPT !.live = live, !.obj = obj, !.offline = off, !.table = tables]
            y == [x EXCEPT !.m = g]
<1>1. /\ x.m \in Memory /\ u \in Ids /\ t \in Table /\ x.m.table \in [Tids -> Table]
      /\ x.m.live \subseteq Objs /\ x.m.obj \in [Objs -> Player]
      /\ x.m.online \in [Ids -> Objs \cup {Null}] /\ x.m.offline \in [Ids -> Objs \cup {Null}]
  BY WorkTyped DEF Row
<1>2. o \in Objs /\ (~known => o = FreeObj(x) /\ o \notin x.m.live)
  <2>1. CASE known  BY <1>1, <2>1 DEF Owner
  <2>2. CASE ~known
    <3>1. Objs \ x.m.live # {} /\ Objs \ x.m.live \in SUBSET Nat  BY <2>2, NullIsNone
    <3>2. FreeObj(x) \in Objs \ x.m.live  BY <3>1, LeastThere DEF FreeObj
    <3>. QED  BY <2>2, <3>2 DEF Owner
  <2>. QED  BY SMTT(60), <2>1, <2>2
<1>. HIDE DEF o
<1>3. v \in Table
  <2>1. RestoredAs(u, o) \in Chair  BY <1>1, <1>2 DEF RestoredAs, Chair
  <2>2. t.chair \in [Seat -> Chair] /\ t.amount + 1 \in 0..3
    <3>1. t.amount \in 0..3 /\ t.amount < 3  BY <1>1, TableTyped
    <3>. QED  BY <1>1, <3>1, TableTyped
  <2>3. [t.chair EXCEPT ![s] = RestoredAs(u, o)] \in [Seat -> Chair]  BY <2>1, <2>2
  <2>4. v = [t EXCEPT !.chair = [t.chair EXCEPT ![s] = RestoredAs(u, o)], !.amount = t.amount + 1]
    BY DEF Restored
  <2>. HIDE DEF v, t
  <2>. QED  BY Zenon, <1>1, <2>2, <2>3, <2>4 DEF Table
<1>4. /\ live \subseteq Objs /\ obj \in [Objs -> Player]
      /\ off \in [Ids -> Objs \cup {Null}] /\ tables \in [Tids -> Table]
  <2>1. live \subseteq Objs  BY <1>1, <1>2
  <2>2. Absentee(x, u) \in Player  BY <1>1, NullIsNone DEF Absentee, Player
  <2>3. obj \in [Objs -> Player]
    <3>. HIDE DEF known
    <3>. QED  BY Zenon, <1>1, <2>2
  <2>4. off \in [Ids -> Objs \cup {Null}]
    <3>1. Insert(x.m.offline, u, o) \in [Ids -> Objs \cup {Null}]  BY Zenon, <1>1, <1>2, InsertTyped
    <3>. HIDE DEF known, u
    <3>. QED  BY <1>1, <3>1
  <2>5. tables \in [Tids -> Table]
    <3>. HIDE DEF v
    <3>. QED  BY <1>1, <1>3
  <2>. QED  BY ZenonT(60), <2>1, <2>3, <2>4, <2>5
<1>5. Restore(x, n, s) = y
  <2>. DEFINE a == [x EXCEPT !.m.live = x.m.live \cup {o}, !.m.obj[o] = Absentee(x, u)]
              b == [a EXCEPT !.m.offline = Insert(x.m.offline, u, o)]
              z == IF known THEN x ELSE b
              h == [x.m EXCEPT !.live = live, !.obj = obj, !.offline = off]
              t1 == [t EXCEPT !.chair[s] = RestoredAs(u, o)]
              w == [z EXCEPT !.m.table[n].chair[s] = RestoredAs(u, o)]
  <2>1. Restore(x, n, s) = [w EXCEPT !.m.table[n].amount = @ + 1]
    <3>1. Restore(x, n, s) = [CreateUser(x, n, s, u) EXCEPT !.m.table[n].amount = @ + 1]
      BY DEF Restore
    <3>2. CreateUser(x, n, s, u) = w
      <4>1. CASE known
        <5>1. o = x.m.online[u]  BY <4>1 DEF o, Owner
        <5>2. CreateUser(x, n, s, u) = [x EXCEPT !.m.table[n].chair[s] = RestoredAs(u, o)]
          BY <4>1, <5>1 DEF CreateUser, RestoredAs
        <5>3. z = x  BY <4>1
        <5>. HIDE DEF z
        <5>. QED  BY <5>2, <5>3
      <4>2. CASE ~known
        <5>1. FreeObj(x) = o  BY <1>2, <4>2
        <5>2. NewPlayer(x, o, u, Null, "create") = a  BY Zenon DEF NewPlayer, Absentee
        <5>3. a.m.offline = x.m.offline
          <6>1. x.m \in Memory  BY <1>1
          <6>. DEFINE h1 == [x.m EXCEPT !.live = x.m.live \cup {o},
                                        !.obj = [x.m.obj EXCEPT ![o] = Absentee(x, u)]]
          <6>2. a = [x EXCEPT !.m = h1]  BY Zenon
          <6>3. h1.offline = x.m.offline  BY <6>1 DEF Memory
          <6>. HIDE DEF h1, a
          <6>. QED  BY <6>2, <6>3 DEF Work
        <5>. HIDE DEF a
        <5>4. [a EXCEPT !.m.offline = Insert(@, u, o)] = b
          BY <5>3
        <5>. HIDE DEF b, u
        <5>5. CreateUser(x, n, s, u) = [b EXCEPT !.m.table[n].chair[s] = RestoredAs(u, o)]
          BY ZenonT(60), <4>2, <5>1, <5>2, <5>4 DEF CreateUser, RestoredAs
        <5>. QED  BY <4>2, <5>5
      <4>. QED  BY Zenon, <4>1, <4>2
    <3>. HIDE DEF w
    <3>. QED  BY SMTT(60), <3>1, <3>2
  <2>2. z = [x EXCEPT !.m = h] /\ h \in Memory
    <3>1. CASE known
      <4>1. live = x.m.live /\ obj = x.m.obj /\ off = x.m.offline  BY <3>1
      <4>. HIDE DEF live, obj, off
      <4>2. h = x.m  BY Zenon, <1>1, <4>1 DEF Memory
      <4>3. [x EXCEPT !.m = x.m] = x  BY DEF Work
      <4>. HIDE DEF h
      <4>. QED  BY <1>1, <3>1, <4>2, <4>3
    <3>2. CASE ~known
      <4>. DEFINE h1 == [x.m EXCEPT !.live = live, !.obj = obj]
      <4>1. live = x.m.live \cup {o} /\ obj = [x.m.obj EXCEPT ![o] = Absentee(x, u)]
            /\ off = Insert(x.m.offline, u, o)
        BY <3>2
      <4>2. a = [x EXCEPT !.m = h1]  BY Zenon, <4>1
      <4>. HIDE DEF live, obj, off, a
      <4>3. a.m = h1  BY <4>2 DEF Work
      <4>4. b = [a EXCEPT !.m = [a.m EXCEPT !.offline = off]]  BY <4>1
      <4>5. [h1 EXCEPT !.offline = off] = h  BY <1>1 DEF Memory
      <4>6. [a EXCEPT !.m = h] = [x EXCEPT !.m = h]
        <5>. HIDE DEF h, h1
        <5>. QED  BY Zenon, <4>2 DEF Work
      <4>7. h \in Memory  BY Zenon, <1>1, <1>4 DEF Memory
      <4>. HIDE DEF h, h1, b
      <4>. QED  BY <3>2, <4>3, <4>4, <4>5, <4>6, <4>7
    <3>. QED  BY ZenonT(60), <3>1, <3>2
  <2>. HIDE DEF z
  <2>3. z.m = h /\ h.table = x.m.table /\ z \in Work
    <3>1. h.table = x.m.table  BY <1>1 DEF Memory
    <3>. HIDE DEF h
    <3>. QED  BY <2>2, <3>1 DEF Work
  <2>. DEFINE h2 == [h EXCEPT !.table = [x.m.table EXCEPT ![n] = t1]]
  <2>4. w = [z EXCEPT !.m = h2]
    <3>. HIDE DEF h
    <3>. QED  BY <2>3
  <2>. HIDE DEF w, h
  <2>5. w.m = h2 /\ h2.table = [x.m.table EXCEPT ![n] = t1]
    BY SMTT(60), <2>2, <2>3, <2>4 DEF Work, Memory
  <2>. HIDE DEF h2
  <2>6. [w EXCEPT !.m.table[n].amount = @ + 1]
          = [w EXCEPT !.m = [h2 EXCEPT !.table = [x.m.table EXCEPT ![n] = v]]]
    <3>1. [w.m.table EXCEPT ![n].amount = @ + 1] = [x.m.table EXCEPT ![n] = v]
      BY <1>1, <2>5 DEF Restored, Table
    <3>2. [w EXCEPT !.m.table[n].amount = @ + 1]
            = [w EXCEPT !.m = [w.m EXCEPT !.table = [w.m.table EXCEPT ![n].amount = @ + 1]]]
      OBVIOUS
    <3>. HIDE DEF v
    <3>. QED  BY SMTT(60), <2>5, <3>1, <3>2
  <2>7. [h2 EXCEPT !.table = tables] = g
    <3>. HIDE DEF tables, live, obj, off, t1
    <3>. QED  BY Zenon, <1>1 DEF h2, h, Memory
  <2>8. [w EXCEPT !.m = g] = y
    <3>. HIDE DEF g
    <3>. QED  BY Zenon, <2>2, <2>4 DEF Work
  <2>. QED  BY Zenon, <2>1, <2>6, <2>7, <2>8
<1>. HIDE DEF live, obj, off, tables, known, u
<1>6. /\ g \in Memory /\ SameNet(x.m, g) /\ SameRoom(x.m, g)
      /\ g.tables = x.m.tables /\ g.dismissed = x.m.dismissed
      /\ g.live = live /\ g.obj = obj /\ g.offline = off /\ g.table = tables
  BY Zenon, <1>1, <1>4 DEF Memory, SameNet, SameRoom
<1>. HIDE DEF g
<1>7. y \in Work /\ y.m = g /\ SameRest(x, y) /\ y.found = x.found /\ y.ok = x.ok
  BY SMTT(60), <1>6 DEF Work, SameRest
<1>. HIDE DEF y
<1>8. Restores(x, n, s, y)
  BY <1>6, <1>7 DEF Restores, live, obj, off, tables, known, u, o, v
<1>. QED  BY <1>2, <1>5, <1>8 DEF u, o, known

LEMMA RestoreServed ==
  ASSUME NEW x \in Work, Served(x.m), NEW n \in Tids, NEW s \in Seat, NEW y,
         x.db.row[n].chair[s] # Null, Restores(x, n, s, y),
         Owner(x, x.db.row[n].chair[s]) \in Objs,
         x.m.online[x.db.row[n].chair[s]] = Null =>
           Owner(x, x.db.row[n].chair[s]) \notin x.m.live
  PROVE  Served(y.m) /\ SameNet(x.m, y.m) /\ LiveKept(x.m, y.m)
<1>. DEFINE u == x.db.row[n].chair[s]
            o == Owner(x, u)
            known == x.m.online[u] # Null
<1>1. /\ u \in Ids /\ x.m.online \in [Ids -> Objs \cup {Null}]
      /\ x.m.offline \in [Ids -> Objs \cup {Null}] /\ x.m.session \in [Conns -> Objs \cup {Null}]
      /\ x.m.live \subseteq Objs /\ x.m.obj \in [Objs -> Player]
  BY SMTT(60), WorkTyped DEF Row
<1>2. /\ SameNet(x.m, y.m) /\ u # Null /\ o \in Objs /\ (~known => o \notin x.m.live)
      /\ y.m.live = IF known THEN x.m.live ELSE x.m.live \cup {o}
      /\ y.m.obj = IF known THEN x.m.obj ELSE [x.m.obj EXCEPT ![o] = Absentee(x, u)]
      /\ y.m.offline = IF known THEN x.m.offline ELSE Insert(x.m.offline, u, o)
  BY DEF Restores
<1>. HIDE DEF u, o
<1>3. \A p \in Objs : p \in x.m.live => y.m.obj[p] = x.m.obj[p]  BY <1>1, <1>2
<1>4. LiveKept(x.m, y.m)  BY <1>1, <1>2, <1>3 DEF LiveKept
<1>5. \A p \in x.m.live : p \in y.m.live  BY SMTT(60), <1>2
<1>6. \A v \in Ids : y.m.online[v] # Null => Online(y.m, v, y.m.online[v])
  BY SMTT(60), <1>1, <1>2, <1>3, <1>5 DEF Served, Online, SameNet
<1>7. \A c \in Conns : y.m.session[c] # Null => Connected(y.m, c, y.m.session[c])
  <2>1. ASSUME NEW c \in Conns, x.m.session[c] # Null  PROVE x.m.session[c] \in x.m.live
    BY <2>1, WhoIsConnected
  <2>. QED  BY <1>1, <1>2, <1>3, <2>1 DEF Served, Connected, SameNet
<1>8. \A v \in Ids : y.m.offline[v] # Null => Offline(y.m, v, y.m.offline[v])
  <2>1. CASE known  BY <1>2, <2>1 DEF Served, Offline, SameNet
  <2>2. CASE ~known
    <3>1. \A v \in Ids : y.m.offline[v] = IF v = u /\ x.m.offline[u] = Null THEN o ELSE x.m.offline[v]
      <4>1. y.m.offline = Insert(x.m.offline, u, o)  BY <1>2, <2>2
      <4>2. \A v \in Ids : Insert(x.m.offline, u, o)[v] =
              IF v = u /\ x.m.offline[u] = Null THEN o ELSE x.m.offline[v]
        BY <1>1 DEF Insert
      <4>. QED  BY <4>1, <4>2
    <3>2. \A v \in Ids : x.m.offline[v] # Null => Offline(x.m, v, x.m.offline[v])  BY DEF Served
    <3>3. \A v \in Ids : x.m.offline[v] # o
      BY <1>2, <2>2, <3>2, NullIsNone DEF Offline
    <3>4. y.m.obj[o] = Absentee(x, u) /\ o \in y.m.live  BY <1>1, <1>2, <2>2
    <3>5. ASSUME NEW v \in Ids, y.m.offline[v] # Null  PROVE Offline(y.m, v, y.m.offline[v])
      <4>1. CASE v = u /\ x.m.offline[u] = Null
        <5>1. y.m.offline[v] = o /\ y.m.online[v] = Null  BY <1>2, <2>2, <3>1, <4>1 DEF SameNet
        <5>2. ~y.m.obj[o].online  BY <3>4 DEF Absentee
        <5>3. \A w \in Ids : y.m.offline[w] = o => w = v  BY <3>1, <3>3, <4>1
        <5>. QED  BY <1>2, <3>4, <4>1, <5>1, <5>2, <5>3 DEF Offline
      <4>2. CASE ~(v = u /\ x.m.offline[u] = Null)
        <5>1. y.m.offline[v] = x.m.offline[v] /\ Offline(x.m, v, x.m.offline[v])
          BY <3>1, <3>2, <3>5, <4>2
        <5>2. \A w \in Ids : y.m.offline[w] = x.m.offline[v] => w = v
          BY <3>1, <3>3, <5>1 DEF Offline
        <5>. QED  BY <1>1, <1>2, <1>3, <1>5, <5>1, <5>2 DEF Offline, SameNet
      <4>. QED  BY <4>1, <4>2
    <3>. QED  BY <3>5
  <2>. QED  BY <2>1, <2>2
<1>9. Served(y.m)  BY <1>2, <1>6, <1>7, <1>8 DEF Served, SameNet
<1>. QED  BY <1>2, <1>4, <1>9

-----------------------------------------------------------------------------
(***************************************************************************)
(* Loading a table: the chairs before k are as the row tells, and there    *)
(* are objects enough for the absent users of the others.                  *)
(***************************************************************************)
Filled(r, k, t) ==
  /\ t.size = RoomSize /\ t.playing = r.playing /\ t.amount = Taken(t)
  /\ \A s \in Seat : IF s < k
                     THEN /\ t.chair[s].uid = r.chair[s]
                          /\ t.chair[s].uid = Null <=> t.chair[s].obj = Null
                     ELSE t.chair[s] = FreeChair
  /\ \A s \in Seat : ~t.chair[s].ready

Needed(x, n, k) ==
  {u \in Users : x.m.online[u] = Null /\ \E s \in Seat : s >= k /\ x.db.row[n].chair[s] = u}

(* Whom the chairs before k have brought back: the player who is online,   *)
(* or one that is new, and nobody else is touched.                         *)
Brought(x, n, k, y) ==
  LET r == x.db.row[n] IN
  /\ \A p \in x.m.live : y.m.obj[p] = x.m.obj[p]
  /\ \A v \in Ids : y.m.offline[v] # x.m.offline[v] =>
       /\ v # Null /\ x.m.online[v] = Null /\ x.m.offline[v] = Null
       /\ \E s \in Seat : s < k /\ r.chair[s] = v
  /\ \A s \in Seat : LET v == r.chair[s]
                         c == y.m.table[n].chair[s] IN
       s < k /\ v # Null =>
         /\ c.offline /\ c.obj \in y.m.live
         /\ x.m.online[v] # Null => c.obj = x.m.online[v]
         /\ x.m.online[v] = Null /\ x.m.offline[v] = Null =>
              c.obj = y.m.offline[v] /\ y.m.obj[c.obj].table = Null
  /\ \A p \in y.m.live \ x.m.live : \E s \in Seat : LET v == r.chair[s] IN
       /\ s < k /\ v # Null /\ x.m.online[v] = Null /\ p = y.m.table[n].chair[s].obj
       /\ y.m.obj[p].table = Null /\ y.m.obj[p].uid = IF x.lost = "create" THEN Null ELSE v

LEMMA RestoredChair ==
  ASSUME NEW t \in Table, NEW k \in Seat, NEW u, NEW o
  PROVE  \A s \in Seat : Restored(t, k, u, o).chair[s] =
           IF s = k THEN RestoredAs(u, o) ELSE t.chair[s]
<1>. t.chair \in [Seat -> Chair]  BY TableTyped
<1>1. t = [size |-> t.size, playing |-> t.playing, amount |-> t.amount, chair |-> t.chair]
  BY Zenon DEF Table
<1>2. Restored(t, k, u, o).chair = [t.chair EXCEPT ![k] = RestoredAs(u, o)]
  BY SMTT(60), <1>1 DEF Restored
<1>. QED  BY <1>2

LEMMA BroughtOn ==
  ASSUME NEW x \in Work, NEW y \in Work, NEW n \in Tids, NEW k \in Seat, Brought(x, n, k, y),
         SameRest(x, y), y.m.online = x.m.online, x.m.live \subseteq y.m.live,
         RowWell(x.db.row[n]), x.db.row[n].chair[k] # Null,
         NEW z, Restores(y, n, k, z), Owner(y, x.db.row[n].chair[k]) \in Objs,
         IF x.m.online[x.db.row[n].chair[k]] = Null
         THEN Owner(y, x.db.row[n].chair[k]) \notin y.m.live
         ELSE x.m.online[x.db.row[n].chair[k]] \in y.m.live
  PROVE  Brought(x, n, k + 1, z)
<1>. DEFINE r == x.db.row[n]
            u == r.chair[k]
            o == Owner(y, u)
            t == y.m.table[n]
            w == z.m.table[n]
            known == x.m.online[u] # Null
<1>1. /\ r \in Row /\ u \in Ids /\ r.chair \in [Seat -> Ids] /\ t \in Table
      /\ y.m.table \in [Tids -> Table] /\ y.m.live \subseteq Objs
      /\ y.m.obj \in [Objs -> Player] /\ y.m.offline \in [Ids -> Objs \cup {Null}]
      /\ x.m.live \subseteq Objs
  BY WorkTyped DEF Row
<1>2. /\ y.db.row[n] = r /\ y.lost = x.lost  BY DEF SameRest
<1>3. \A s \in Seat : (s < k + 1 <=> s < k \/ s = k) /\ (s < k => s # k)  BY SeatsAre
<1>4. \A s \in Seat : s # k => r.chair[s] # u  BY Zenon DEF RowWell
<1>5. /\ w = Restored(t, k, u, o)
      /\ z.m.live = IF known THEN y.m.live ELSE y.m.live \cup {o}
      /\ z.m.obj = IF known THEN y.m.obj ELSE [y.m.obj EXCEPT ![o] = Absentee(y, u)]
      /\ z.m.offline = IF known THEN y.m.offline ELSE Insert(y.m.offline, u, o)
  <2>. DEFINE F == y.m.table
              G == z.m.table
  <2>1. y.db.row[n].chair[k] = u  BY <1>2
  <2>2. /\ G = [F EXCEPT ![n] = Restored(F[n], k, u, o)]
        /\ z.m.live = IF known THEN y.m.live ELSE y.m.live \cup {o}
        /\ z.m.obj = IF known THEN y.m.obj ELSE [y.m.obj EXCEPT ![o] = Absentee(y, u)]
        /\ z.m.offline = IF known THEN y.m.offline ELSE Insert(y.m.offline, u, o)
    <3>. HIDE DEF u, o
    <3>1. o = Owner(y, u)  BY Zenon DEF o, u
    <3>. QED  BY Zenon, <2>1, <3>1 DEF Restores
  <2>3. F \in [Tids -> Table]  BY <1>1
  <2>. HIDE DEF F, G, u, o, known
  <2>4. G[n] = Restored(F[n], k, u, o)  BY <2>2, <2>3
  <2>. QED  BY Zenon, <2>2, <2>4 DEF F, G
<1>. HIDE DEF o
<1>6. /\ o \in Objs /\ (known => o = x.m.online[u] /\ o \in y.m.live)
      /\ ~known => o \notin y.m.live
  <2>1. known => Owner(y, u) = x.m.online[u]  BY Zenon DEF Owner
  <2>. QED  BY Zenon, <2>1 DEF o
<1>7. \A s \in Seat : w.chair[s] = IF s = k THEN RestoredAs(u, o) ELSE t.chair[s]
  <2>. HIDE DEF t, u, w
  <2>. QED  BY <1>1, <1>5, RestoredChair
<1>8. /\ RestoredAs(u, o).obj = o /\ RestoredAs(u, o).offline  BY DEF RestoredAs
<1>9. /\ Absentee(y, u).table = Null
      /\ Absentee(y, u).uid = IF x.lost = "create" THEN Null ELSE u
  BY <1>2 DEF Absentee
<1>. HIDE DEF w, t
<1>. DEFINE new == Absentee(y, u)
<1>. HIDE DEF u, known, new
<1>10. /\ \A p \in y.m.live : z.m.obj[p] = y.m.obj[p] /\ p \in z.m.live
       /\ \A v \in Ids : v # u => z.m.offline[v] = y.m.offline[v]
       /\ ~known => /\ z.m.obj[o] = new /\ o \in z.m.live
                    /\ z.m.offline[u] = IF y.m.offline[u] = Null THEN o ELSE y.m.offline[u]
  <2>. DEFINE v == z.m.live
              h == z.m.obj
              j == z.m.offline
              live == y.m.live
              f == y.m.obj
              g == y.m.offline
  <2>1. /\ live \in SUBSET Objs /\ f \in [Objs -> Player] /\ g \in [Ids -> Objs \cup {Null}]
        /\ o \in Objs /\ u \in Ids /\ (~known => o \notin live)
        /\ v = IF known THEN live ELSE live \cup {o}
        /\ h = IF known THEN f ELSE [f EXCEPT ![o] = new]
        /\ j = IF known THEN g ELSE Insert(g, u, o)
    BY Zenon, <1>1, <1>5, <1>6 DEF new
  <2>. HIDE DEF v, h, j, live, f, g
  <2>2. /\ \A p \in live : h[p] = f[p] /\ p \in v
        /\ \A q \in Ids : q # u => j[q] = g[q]
        /\ ~known => h[o] = new /\ o \in v /\ j[u] = IF g[u] = Null THEN o ELSE g[u]
    <3>1. CASE known  BY Zenon, <2>1, <3>1
    <3>2. CASE ~known
      <4>1. v = live \cup {o} /\ h = [f EXCEPT ![o] = new] /\ j = Insert(g, u, o)
        BY Zenon, <2>1, <3>2
      <4>2. \A p \in live : p \in Objs /\ p # o /\ p \in v  BY Zenon, <2>1, <3>2, <4>1
      <4>3. h[o] = new /\ \A p \in live : h[p] = f[p]  BY Zenon, <2>1, <4>1, <4>2
      <4>4. o \in v  BY Zenon, <4>1
      <4>5. /\ j[u] = IF g[u] = Null THEN o ELSE g[u]
            /\ \A q \in Ids : q # u => j[q] = g[q]
        BY <2>1, <4>1 DEF Insert
      <4>. QED  BY Zenon, <4>2, <4>3, <4>4, <4>5
    <3>. QED  BY Zenon, <3>1, <3>2
  <2>. QED  BY Zenon, <2>2 DEF v, h, j, live, f, g
<1>. USE DEF u, known, new
<1>11. ~known => /\ z.m.obj[o] = Absentee(y, u) /\ o \in z.m.live
                 /\ z.m.offline[u] = IF y.m.offline[u] = Null THEN o ELSE y.m.offline[u]
  BY Zenon, <1>10
<1>12. \A v \in Ids : v # u => z.m.offline[v] = y.m.offline[v]  BY Zenon, <1>10
<1>. DEFINE B == Brought(x, n, k, y)
<1>13. /\ \A p \in x.m.live : y.m.obj[p] = x.m.obj[p]
       /\ \A v \in Ids : y.m.offline[v] # x.m.offline[v] =>
            /\ v # Null /\ x.m.online[v] = Null /\ x.m.offline[v] = Null
            /\ \E s \in Seat : s < k /\ r.chair[s] = v
       /\ \A s \in Seat : LET v == r.chair[s]
                              c == t.chair[s] IN
            s < k /\ v # Null =>
              /\ c.offline /\ c.obj \in y.m.live
              /\ x.m.online[v] # Null => c.obj = x.m.online[v]
              /\ x.m.online[v] = Null /\ x.m.offline[v] = Null =>
                   c.obj = y.m.offline[v] /\ y.m.obj[c.obj].table = Null
       /\ \A p \in y.m.live \ x.m.live : \E s \in Seat : LET v == r.chair[s] IN
            /\ s < k /\ v # Null /\ x.m.online[v] = Null /\ p = t.chair[s].obj
            /\ y.m.obj[p].table = Null /\ y.m.obj[p].uid = IF x.lost = "create" THEN Null ELSE v
  BY ZenonT(60) DEF Brought, t
<1>. HIDE DEF known, r
<1>14. \A p \in x.m.live : z.m.obj[p] = x.m.obj[p]  BY <1>10, <1>13
<1>15. y.m.offline[u] = x.m.offline[u]
  BY <1>1, <1>3, <1>4, <1>13 DEF u
<1>16. ASSUME NEW v \in Ids, z.m.offline[v] # x.m.offline[v]
       PROVE  /\ v # Null /\ x.m.online[v] = Null /\ x.m.offline[v] = Null
              /\ \E s \in Seat : s < k + 1 /\ r.chair[s] = v
  <2>1. CASE v = u
    <3>1. ~known
      <4>. SUFFICES ASSUME known PROVE FALSE  OBVIOUS
      <4>1. z.m.offline = y.m.offline  BY <1>5
      <4>. QED  BY <1>15, <1>16, <2>1, <4>1
    <3>2. y.m.offline[u] = Null  BY <1>11, <1>15, <1>16, <2>1, <3>1
    <3>3. k < k + 1 /\ r.chair[k] = u  BY <1>3 DEF u
    <3>4. u # Null  BY DEF u, r
    <3>. QED  BY <1>15, <2>1, <3>1, <3>2, <3>3, <3>4 DEF known
  <2>2. CASE v # u
    <3>1. y.m.offline[v] # x.m.offline[v]  BY <1>12, <1>16, <2>2
    <3>. QED  BY <1>3, <1>13, <3>1
  <2>. QED  BY <2>1, <2>2
<1>17. ASSUME NEW s \in Seat, s < k + 1, r.chair[s] # Null
       PROVE  LET v == r.chair[s]
                  c == w.chair[s] IN
              /\ c.offline /\ c.obj \in z.m.live
              /\ x.m.online[v] # Null => c.obj = x.m.online[v]
              /\ x.m.online[v] = Null /\ x.m.offline[v] = Null =>
                   c.obj = z.m.offline[v] /\ z.m.obj[c.obj].table = Null
  <2>1. CASE s = k
    <3>1. w.chair[s].offline /\ w.chair[s].obj = o /\ r.chair[s] = u  BY <1>7, <1>8, <2>1 DEF u
    <3>2. CASE known  BY <1>6, <1>10, <3>1, <3>2 DEF known
    <3>3. CASE ~known  BY <1>9, <1>11, <1>15, <3>1, <3>3 DEF known
    <3>. QED  BY <3>2, <3>3
  <2>2. CASE s # k
    <3>. DEFINE v == r.chair[s]
                c == t.chair[s]
    <3>1. w.chair[s] = c /\ s < k  BY <1>3, <1>7, <1>17, <2>2
    <3>2. v \in Ids /\ v # u  BY SMTT(60), <1>1, <1>4, <2>2 DEF r
    <3>3. /\ c.offline /\ c.obj \in y.m.live
          /\ x.m.online[v] # Null => c.obj = x.m.online[v]
          /\ x.m.online[v] = Null /\ x.m.offline[v] = Null =>
               c.obj = y.m.offline[v] /\ y.m.obj[c.obj].table = Null
      BY <1>13, <1>17, <3>1
    <3>4. z.m.offline[v] = y.m.offline[v]  BY <1>12, <3>2
    <3>5. c.obj \in z.m.live /\ z.m.obj[c.obj] = y.m.obj[c.obj]  BY <1>10, <3>3
    <3>. HIDE DEF v, c
    <3>6. /\ w.chair[s].offline /\ w.chair[s].obj \in z.m.live
          /\ x.m.online[v] # Null => w.chair[s].obj = x.m.online[v]
          /\ x.m.online[v] = Null /\ x.m.offline[v] = Null =>
               w.chair[s].obj = z.m.offline[v] /\ z.m.obj[w.chair[s].obj].table = Null
      BY Zenon, <3>1, <3>3, <3>4, <3>5
    <3>. QED  BY <3>6 DEF v
  <2>. QED  BY <2>1, <2>2
<1>18. ASSUME NEW p \in z.m.live \ x.m.live
       PROVE  \E s \in Seat : LET v == r.chair[s] IN
                /\ s < k + 1 /\ v # Null /\ x.m.online[v] = Null /\ p = w.chair[s].obj
                /\ z.m.obj[p].table = Null
                /\ z.m.obj[p].uid = IF x.lost = "create" THEN Null ELSE v
  <2>1. CASE p \in y.m.live
    <3>1. PICK s \in Seat :
            /\ s < k /\ r.chair[s] # Null /\ x.m.online[r.chair[s]] = Null /\ p = t.chair[s].obj
            /\ y.m.obj[p].table = Null
            /\ y.m.obj[p].uid = IF x.lost = "create" THEN Null ELSE r.chair[s]
      BY <1>13, <1>18, <2>1
    <3>2. s < k + 1 /\ s # k  BY <1>3, <3>1
    <3>3. w.chair[s] = t.chair[s] /\ z.m.obj[p] = y.m.obj[p]  BY <1>7, <1>10, <2>1, <3>2
    <3>. QED  BY <3>1, <3>2, <3>3
  <2>2. CASE p \notin y.m.live
    <3>1. ~known /\ p = o  BY <1>5, <1>18, <2>2
    <3>2. k < k + 1 /\ w.chair[k].obj = o /\ r.chair[k] = u /\ u # Null
      BY <1>3, <1>7, <1>8 DEF u, r
    <3>3. x.m.online[u] = Null  BY SMTT(60), <3>1 DEF known
    <3>. QED  BY <1>9, <1>11, <3>1, <3>2, <3>3
  <2>. QED  BY SMTT(60), <2>1, <2>2
<1>. QED  BY ZenonT(60), <1>14, <1>16, <1>17, <1>18 DEF Brought, w, r

LEMMA NoneBrought ==
  ASSUME NEW x, NEW y, NEW n, NEW k \in Seat, Brought(x, n, k, y), x.db.row[n].chair[k] = Null
  PROVE  Brought(x, n, k + 1, y)
<1>. DEFINE r == x.db.row[n]
<1>1. \A s \in Seat : s < k + 1 /\ r.chair[s] # Null => s < k  BY SeatsAre
<1>2. \A s \in Seat : s < k => s < k + 1  BY SeatsAre
<1>3. ASSUME NEW s \in Seat, s < k + 1, r.chair[s] # Null
      PROVE  LET v == r.chair[s]
                 c == y.m.table[n].chair[s] IN
             /\ c.offline /\ c.obj \in y.m.live
             /\ x.m.online[v] # Null => c.obj = x.m.online[v]
             /\ x.m.online[v] = Null /\ x.m.offline[v] = Null =>
                  c.obj = y.m.offline[v] /\ y.m.obj[c.obj].table = Null
  <2>1. s < k  BY SMTT(60), <1>1, <1>3
  <2>. QED  BY <1>3, <2>1 DEF Brought
<1>4. ASSUME NEW v \in Ids, y.m.offline[v] # x.m.offline[v]
      PROVE  /\ v # Null /\ x.m.online[v] = Null /\ x.m.offline[v] = Null
             /\ \E s \in Seat : s < k + 1 /\ r.chair[s] = v
  BY SMTT(60), <1>2, <1>4 DEF Brought
<1>5. ASSUME NEW p \in y.m.live \ x.m.live
      PROVE  \E s \in Seat : LET v == r.chair[s] IN
               /\ s < k + 1 /\ v # Null /\ x.m.online[v] = Null /\ p = y.m.table[n].chair[s].obj
               /\ y.m.obj[p].table = Null
               /\ y.m.obj[p].uid = IF x.lost = "create" THEN Null ELSE v
  <2>1. PICK s \in Seat : LET v == r.chair[s] IN
               /\ s < k /\ v # Null /\ x.m.online[v] = Null /\ p = y.m.table[n].chair[s].obj
               /\ y.m.obj[p].table = Null
               /\ y.m.obj[p].uid = IF x.lost = "create" THEN Null ELSE v
    BY DEF Brought
  <2>2. s < k + 1  BY SMTT(60), <1>2, <2>1
  <2>. QED  BY ZenonT(60), <2>1, <2>2
<1>6. \A p \in x.m.live : y.m.obj[p] = x.m.obj[p]  BY DEF Brought
<1>. QED  BY ZenonT(60), <1>3, <1>4, <1>5, <1>6 DEF Brought

Loading(x, n, k, y) ==
  /\ y \in Work /\ SameRest(x, y) /\ y.found = n
  /\ y.m.tables = x.m.tables \cup {n} /\ y.m.dismissed = x.m.dismissed
  /\ SameRoom(x.m, y.m) /\ SameNet(x.m, y.m) /\ LiveKept(x.m, y.m) /\ Served(y.m)
  /\ y.m.table = [x.m.table EXCEPT ![n] = y.m.table[n]]
  /\ Filled(x.db.row[n], k, y.m.table[n]) /\ Brought(x, n, k, y)
  /\ Cardinality(y.m.live) + Cardinality(Needed(x, n, k)) <= Cardinality(Objs)

LEMMA NeededFinite ==
  ASSUME NEW x, NEW n, NEW k
  PROVE  IsFiniteSet(Needed(x, n, k)) /\ Cardinality(Needed(x, n, k)) \in Nat
<1>1. Needed(x, n, k) \subseteq Users  BY DEF Needed
<1>. QED  BY <1>1, NamesAssumption, FS_Subset, FS_CardinalityType

LEMMA LiveFinite ==
  ASSUME NEW S \in SUBSET Objs
  PROVE  /\ IsFiniteSet(S) /\ Cardinality(S) \in Nat /\ Cardinality(Objs) \in Nat
         /\ Cardinality(S) <= Cardinality(Objs)
         /\ Cardinality(S) < Cardinality(Objs) => Objs \ S # {}
<1>1. IsFiniteSet(Objs) /\ Cardinality(Objs) \in Nat  BY NamesAssumption, FS_CardinalityType
<1>2. IsFiniteSet(S) /\ Cardinality(S) <= Cardinality(Objs)  BY <1>1, FS_Subset
<1>3. Cardinality(S) \in Nat  BY <1>2, FS_CardinalityType
<1>4. Objs \ S = {} => S = Objs  OBVIOUS
<1>. QED  BY <1>1, <1>2, <1>3, <1>4

LEMMA RestoredWell ==
  ASSUME NEW t \in Table, NEW r \in Row, NEW k \in Seat, Filled(r, k, t), NEW o \in Objs,
         r.chair[k] # Null
  PROVE  t.amount < 3 /\ Filled(r, k + 1, Restored(t, k, r.chair[k], o))
<1>. DEFINE u == r.chair[k]
            v == Restored(t, k, u, o)
<1>1. /\ t.chair \in [Seat -> Chair] /\ t.chair[k] = FreeChair /\ k \in Nat /\ Seat \subseteq Nat
      /\ t.size = RoomSize /\ t.playing = r.playing /\ t.amount = Taken(t)
  BY TableTyped, SeatsAre DEF Filled
<1>2. t.chair[k].uid = Null  BY <1>1 DEF FreeChair
<1>3. t.amount < 3  BY <1>1, <1>2, SeatsAre DEF Taken
<1>4. v = [t EXCEPT !.chair = [t.chair EXCEPT ![k] = RestoredAs(u, o)], !.amount = t.amount + 1]
  BY DEF Restored
<1>. HIDE DEF v
<1>5. /\ v.size = t.size /\ v.playing = t.playing /\ v.amount = t.amount + 1
      /\ v.chair = [t.chair EXCEPT ![k] = RestoredAs(u, o)]
  BY <1>4 DEF Table
<1>6. \A q \in Seat : v.chair[q] = IF q = k THEN RestoredAs(u, o) ELSE t.chair[q]
  BY <1>1, <1>5
<1>7. RestoredAs(u, o).uid = u /\ RestoredAs(u, o).obj = o /\ o # Null /\ ~RestoredAs(u, o).ready
  BY NullIsNone DEF RestoredAs
<1>8. v.amount = Taken(v)  BY <1>1, <1>2, <1>5, <1>6, <1>7, SeatsAre DEF Taken
<1>9. ASSUME NEW s \in Seat
      PROVE  IF s < k + 1
             THEN /\ v.chair[s].uid = r.chair[s]
                  /\ v.chair[s].uid = Null <=> v.chair[s].obj = Null
             ELSE v.chair[s] = FreeChair
  <2>1. CASE s = k  BY <1>1, <1>6, <1>7, <2>1
  <2>2. CASE s # k
    <3>1. s < k + 1 <=> s < k  BY <1>1, <2>2
    <3>2. v.chair[s] = t.chair[s]  BY <1>6, <2>2
    <3>3. IF s < k THEN /\ t.chair[s].uid = r.chair[s]
                        /\ t.chair[s].uid = Null <=> t.chair[s].obj = Null
                   ELSE t.chair[s] = FreeChair
      BY DEF Filled
    <3>. QED  BY <3>1, <3>2, <3>3
  <2>. QED  BY <2>1, <2>2
<1>10. \A s \in Seat : ~v.chair[s].ready  BY <1>6, <1>7 DEF Filled
<1>11. Filled(r, k + 1, v)  BY <1>1, <1>5, <1>8, <1>9, <1>10 DEF Filled
<1>. QED  BY <1>3, <1>11 DEF v

LEMMA LoadingOn ==
  ASSUME NEW x \in Work, NEW n \in Tids, RowWell(x.db.row[n]), NEW k \in Seat, NEW y,
         Loading(x, n, k, y)
  PROVE  Loading(x, n, k + 1, Restore(y, n, k))
<1>. DEFINE r == x.db.row[n]
            u == r.chair[k]
            t == y.m.table[n]
            z == Restore(y, n, k)
            A == Needed(x, n, k)
            B == Needed(x, n, k + 1)
<1>1. /\ y \in Work /\ SameRest(x, y) /\ y.found = n
      /\ y.m.tables = x.m.tables \cup {n} /\ y.m.dismissed = x.m.dismissed
      /\ SameRoom(x.m, y.m) /\ SameNet(x.m, y.m) /\ LiveKept(x.m, y.m) /\ Served(y.m)
      /\ y.m.table = [x.m.table EXCEPT ![n] = t] /\ Filled(r, k, t) /\ Brought(x, n, k, y)
      /\ Cardinality(y.m.live) + Cardinality(A) <= Cardinality(Objs)
  BY DEF Loading
<1>2. /\ y.db.row[n] = r /\ y.m.online = x.m.online /\ y.m.live \subseteq Objs /\ u \in Ids
      /\ x.m.table \in [Tids -> Table] /\ t \in Table /\ r \in Row
  BY <1>1, WorkTyped DEF SameRest, SameNet, Row
<1>3. /\ IsFiniteSet(A) /\ Cardinality(A) \in Nat /\ IsFiniteSet(B) /\ Cardinality(B) \in Nat
      /\ B \subseteq A
  <2>1. \A s \in Seat : s >= k + 1 => s >= k  BY SeatsAre
  <2>2. B \subseteq A  BY <2>1 DEF Needed
  <2>. QED  BY <2>2, NeededFinite
<1>4. /\ IsFiniteSet(y.m.live) /\ Cardinality(y.m.live) \in Nat /\ Cardinality(Objs) \in Nat
  BY <1>2, LiveFinite
<1>5. CASE u = Null
  <2>1. z = y  BY <1>2, <1>5 DEF Restore
  <2>2. Filled(r, k + 1, t)
    <3>1. \A s \in Seat : s < k + 1 => s < k \/ s = k  BY SeatsAre
    <3>2. \A s \in Seat : s < k => s < k + 1  BY SeatsAre
    <3>3. FreeChair.uid = Null /\ FreeChair.obj = Null /\ t.chair[k] = FreeChair
      BY <1>1, SeatsAre DEF FreeChair, Filled
    <3>. QED  BY <1>1, <1>5, <3>1, <3>2, <3>3 DEF Filled
  <2>3. Cardinality(y.m.live) + Cardinality(B) <= Cardinality(Objs)
    <3>1. Cardinality(B) <= Cardinality(A)  BY <1>3, FS_Subset
    <3>. QED  BY <1>1, <1>3, <1>4, <3>1
  <2>5. Brought(x, n, k + 1, y)  BY <1>1, <1>5, NoneBrought
  <2>. HIDE DEF r, t, z, u, A, B
  <2>4. Loading(x, n, k + 1, y)  BY <1>1, <2>2, <2>3, <2>5 DEF Loading, r, t, B
  <2>. QED  BY <2>1, <2>4 DEF z
<1>6. CASE u # Null
  <2>. DEFINE o == Owner(y, u)
              known == x.m.online[u] # Null
  <2>1. t.amount < 3
    <3>1. t.amount = Taken(t) /\ t.chair[k].uid = Null
      BY SMTT(60), <1>1, SeatsAre DEF Filled, FreeChair
    <3>. QED  BY <3>1, SeatsAre DEF Taken
  <2>2. ~known => u \in A /\ u \notin B
    <3>1. u \in Users  BY <1>2, <1>6 DEF Ids
    <3>2. k >= k  BY SeatsAre
    <3>3. \A s \in Seat : s >= k + 1 => s # k  BY SeatsAre
    <3>4. \A s \in Seat : s >= k + 1 => r.chair[s] # u  BY <1>6, <3>3 DEF RowWell
    <3>. QED  BY <3>1, <3>2, <3>4 DEF Needed
  <2>3. ~known => Objs \ y.m.live # {} /\ Cardinality(B) + 1 <= Cardinality(A)
    <3>. SUFFICES ASSUME ~known
                  PROVE  Objs \ y.m.live # {} /\ Cardinality(B) + 1 <= Cardinality(A)
      OBVIOUS
    <3>1. B \subseteq A \ {u} /\ u \in A  BY <1>3, <2>2
    <3>2. IsFiniteSet(A \ {u}) /\ Cardinality(A \ {u}) = Cardinality(A) - 1
      BY SMTT(60), <1>3, <3>1, FS_RemoveElement
    <3>3. Cardinality(B) <= Cardinality(A) - 1  BY <3>1, <3>2, FS_Subset
    <3>4. Cardinality(B) + 1 <= Cardinality(A)  BY <1>3, <3>3
    <3>5. Cardinality(y.m.live) < Cardinality(Objs)  BY <1>1, <1>3, <1>4, <3>4
    <3>. QED  BY <1>2, <3>4, <3>5, LiveFinite
  <2>4. Restores(y, n, k, z) /\ o \in Objs /\ (~known => o \notin y.m.live)
    BY ZenonT(60), <1>1, <1>2, <1>6, <2>1, <2>3, RestoreDoes
  <2>5. Served(z.m) /\ SameNet(y.m, z.m) /\ LiveKept(y.m, z.m)
    BY Zenon, <1>1, <1>2, <1>6, <2>4, RestoreServed
  <2>. HIDE DEF z, o
  <2>6. /\ z \in Work /\ SameRest(y, z) /\ z.found = y.found
        /\ SameRoom(y.m, z.m) /\ z.m.tables = y.m.tables /\ z.m.dismissed = y.m.dismissed
        /\ z.m.table = [y.m.table EXCEPT ![n] = Restored(t, k, u, o)]
        /\ z.m.live = IF known THEN y.m.live ELSE y.m.live \cup {o}
    BY <1>2, <2>4 DEF Restores, o
  <2>7. z.m.table[n] = Restored(t, k, u, o) /\ z.m.table = [x.m.table EXCEPT ![n] = z.m.table[n]]
    <3>. DEFINE v == Restored(t, k, u, o)
    <3>1. y.m.table = [x.m.table EXCEPT ![n] = t] /\ z.m.table = [y.m.table EXCEPT ![n] = v]
      BY <1>1, <2>6
    <3>. HIDE DEF v, t
    <3>2. z.m.table = [x.m.table EXCEPT ![n] = v]  BY <1>2, <3>1
    <3>3. z.m.table[n] = v  BY <1>2, <3>2
    <3>. QED  BY <3>2, <3>3 DEF v
  <2>8. Filled(r, k + 1, z.m.table[n])  BY <1>1, <1>2, <1>6, <2>4, <2>7, RestoredWell
  <2>9. Cardinality(z.m.live) + Cardinality(B) <= Cardinality(Objs)
    <3>1. CASE known
      <4>1. Cardinality(B) <= Cardinality(A)  BY <1>3, FS_Subset
      <4>2. z.m.live = y.m.live  BY <2>6, <3>1
      <4>. QED  BY <1>1, <1>3, <1>4, <4>1, <4>2
    <3>2. CASE ~known
      <4>1. z.m.live = y.m.live \cup {o} /\ o \notin y.m.live  BY <2>4, <2>6, <3>2
      <4>2. Cardinality(z.m.live) = Cardinality(y.m.live) + 1  BY Zenon, <1>4, <4>1, FS_AddElement
      <4>. QED  BY <1>1, <1>3, <1>4, <2>3, <3>2, <4>2
    <3>. QED  BY <3>1, <3>2
  <2>10. /\ SameRest(x, z) /\ SameRoom(x.m, z.m) /\ SameNet(x.m, z.m) /\ LiveKept(x.m, z.m)
    <3>1. SameRest(x, z)  BY <1>1, <2>6 DEF SameRest
    <3>2. SameRoom(x.m, z.m) /\ SameNet(x.m, z.m)  BY <1>1, <2>5, <2>6 DEF SameRoom, SameNet
    <3>3. LiveKept(x.m, z.m)  BY SMTT(60), <1>1, <2>5 DEF LiveKept
    <3>. QED  BY <3>1, <3>2, <3>3
  <2>12. Brought(x, n, k + 1, z)
    <3>1. x.m.live \subseteq y.m.live /\ y.m.online = x.m.online
      BY SMTT(60), <1>1 DEF LiveKept, SameNet
    <3>2. known => x.m.online[u] \in y.m.live
      BY <1>1, <1>2 DEF Served, Online
    <3>. HIDE DEF z
    <3>3. Owner(y, u) \in Objs /\ (x.m.online[u] = Null => Owner(y, u) \notin y.m.live)
      BY <2>4 DEF o
    <3>. HIDE DEF A, B, t
    <3>. QED  BY <1>1, <1>6, <2>4, <3>1, <3>2, <3>3, BroughtOn
  <2>. HIDE DEF r, t, u, A, B
  <2>11. Loading(x, n, k + 1, z)
    BY <1>1, <2>5, <2>6, <2>7, <2>8, <2>9, <2>10, <2>12 DEF Loading, r, B
  <2>. QED  BY <2>11 DEF z
<1>. QED  BY <1>5, <1>6

(* There are objects enough for everybody who is not online.               *)
Absentees(g) == {u \in Users : g.online[u] = Null}
Spare(g) == Cardinality(g.live) + Cardinality(Absentees(g)) <= Cardinality(Objs)

(* The table the room knows a user to be at is in memory; in a friends'    *)
(* room he has a chair at it.                                              *)
Placed(g) ==
  \A u \in Users : LET n == g.at[u] IN
    n # Null => /\ n \in g.tables
                /\ roomType = 1 => \E s \in Seat : g.table[n].chair[s].uid = u

LEMMA PlacedKept ==
  ASSUME NEW g, NEW h, Placed(g), h.at = g.at, g.tables \subseteq h.tables,
         \A n \in g.tables, s \in Seat :
           g.table[n].chair[s].uid # Null => h.table[n].chair[s].uid = g.table[n].chair[s].uid
  PROVE  Placed(h)
<1>1. \A u \in Users : u # Null  BY NullIsNone
<1>. QED  BY SMTT(60), <1>1 DEF Placed

LEMMA PlacedInTables ==
  ASSUME NEW x \in Work, NEW y \in Work, Placed(x.m), SameRoom(x.m, y.m), SameTables(x.m, y.m)
  PROVE  Placed(y.m)
  BY DEF Placed, SameRoom, SameTables

Opened(x, n) ==
  [x EXCEPT !.m.table[n] = FreshTable(RoomSize), !.m.tables = @ \cup {n}, !.found = n]

Starts(x, n, b, t, y) ==
  /\ t \in Table /\ t.size = RoomSize /\ t.playing = b /\ t.amount = 0
  /\ \A s \in Seat : t.chair[s] = FreeChair
  /\ y \in Work /\ SameRest(x, y) /\ y.found = n
  /\ y.m.tables = x.m.tables \cup {n} /\ y.m.dismissed = x.m.dismissed
  /\ SameRoom(x.m, y.m) /\ SameServer(x.m, y.m) /\ y.m.obj = x.m.obj
  /\ y.m.table = [x.m.table EXCEPT ![n] = t]
  /\ ~b => y = Opened(x, n)

LEMMA LoadStarts ==
  ASSUME NEW x \in Work, NEW n \in Tids, NEW b \in BOOLEAN
  PROVE  Starts(x, n, b, [FreshTable(RoomSize) EXCEPT !.playing = b],
                [Opened(x, n) EXCEPT !.m.table[n].playing = b])
<1>. DEFINE f == FreshTable(RoomSize)
            t == [f EXCEPT !.playing = b]
            h == [x.m EXCEPT !.table = [x.m.table EXCEPT ![n] = f], !.tables = x.m.tables \cup {n}]
            a == [x EXCEPT !.m = h, !.found = n]
            g == [a.m EXCEPT !.table = [a.m.table EXCEPT ![n].playing = b]]
            y == [a EXCEPT !.m = g]
<1>1. /\ x.m \in Memory /\ x.m.table \in [Tids -> Table] /\ x.m.tables \subseteq Tids
  BY WorkTyped
<1>2. /\ f \in Table /\ t \in Table /\ t.size = RoomSize /\ t.playing = b /\ t.amount = 0
      /\ (\A s \in Seat : t.chair[s] = FreeChair) /\ (~b => t = f)
  BY Zenon, RoomAssumption, FreshTyped DEF FreshTable, Table
<1>. HIDE DEF f
<1>3. [x.m.table EXCEPT ![n] = f] \in [Tids -> Table]  BY <1>1, <1>2
<1>4. /\ h \in Memory /\ h.table = [x.m.table EXCEPT ![n] = f] /\ h.tables = x.m.tables \cup {n}
      /\ h.dismissed = x.m.dismissed /\ SameRoom(x.m, h) /\ SameServer(x.m, h) /\ h.obj = x.m.obj
  BY Zenon, <1>1, <1>3 DEF Memory, SameRoom, SameServer
<1>. HIDE DEF h
<1>5. a \in Work /\ SameRest(x, a) /\ a.found = n /\ a.m = h  BY Zenon, <1>4 DEF Work, SameRest
<1>. HIDE DEF a
<1>6. [a.m.table EXCEPT ![n].playing = b] = [x.m.table EXCEPT ![n] = t]
  BY <1>1, <1>2, <1>4, <1>5
<1>. HIDE DEF t
<1>7. [x.m.table EXCEPT ![n] = t] \in [Tids -> Table]  BY <1>1, <1>2
<1>8. /\ g \in Memory /\ g.table = [x.m.table EXCEPT ![n] = t] /\ g.tables = x.m.tables \cup {n}
      /\ g.dismissed = x.m.dismissed /\ SameRoom(x.m, g) /\ SameServer(x.m, g) /\ g.obj = x.m.obj
      /\ (~b => g = h)
  <2>1. g = [h EXCEPT !.table = [x.m.table EXCEPT ![n] = t]]  BY <1>5, <1>6
  <2>2. ~b => [x.m.table EXCEPT ![n] = t] = h.table  BY <1>2, <1>4
  <2>. HIDE DEF g
  <2>3. /\ g \in Memory /\ g.table = [x.m.table EXCEPT ![n] = t] /\ g.tables = h.tables
        /\ g.dismissed = h.dismissed /\ SameRoom(h, g) /\ SameServer(h, g) /\ g.obj = h.obj
    BY Zenon, <1>4, <1>7, <2>1 DEF Memory, SameRoom, SameServer
  <2>4. ~b => g = h  BY <1>4, <2>1, <2>2 DEF Memory
  <2>. QED  BY <1>4, <2>3, <2>4 DEF SameRoom, SameServer
<1>. HIDE DEF g
<1>9. /\ y \in Work /\ y.m = g /\ SameRest(x, y) /\ y.found = n /\ (~b => y = a)
  BY <1>5, <1>8 DEF Work, SameRest
<1>. HIDE DEF y
<1>10. a = Opened(x, n)  BY Zenon DEF a, h, f, Opened
<1>11. y = [Opened(x, n) EXCEPT !.m.table[n].playing = b]
  <2>1. y = [a EXCEPT !.m.table[n].playing = b]  BY DEF y, g
  <2>. QED  BY <1>10, <2>1
<1>12. Starts(x, n, b, t, y)  BY <1>2, <1>8, <1>9, <1>10 DEF Starts
<1>. QED  BY <1>11, <1>12 DEF t, f

(* A table that is loaded is as its row tells, or new.                     *)
Loaded(x, n, y) ==
  /\ y \in Work /\ SameRest(x, y) /\ y.found = n
  /\ y.m.tables = x.m.tables \cup {n} /\ y.m.dismissed = x.m.dismissed
  /\ SameRoom(x.m, y.m) /\ SameNet(x.m, y.m) /\ LiveKept(x.m, y.m) /\ Served(y.m)
  /\ y.m.table = [x.m.table EXCEPT ![n] = y.m.table[n]]
  /\ Filled(x.db.row[n], 3, y.m.table[n]) /\ Brought(x, n, 3, y)

LEMMA LoadLoads ==
  ASSUME NEW x \in Work, Served(x.m), NEW n \in Tids, RowWell(x.db.row[n]), x.lost # "row",
         RowThere(x.db, n) => Spare(x.m)
  PROVE  Loaded(x, n, Load(x, n, RoomSize))
<1>. DEFINE r == x.db.row[n]
            a == Opened(x, n)
            b == IF RowThere(x.db, n) THEN r.playing ELSE FALSE
            t == [FreshTable(RoomSize) EXCEPT !.playing = b]
            z == [a EXCEPT !.m.table[n].playing = b]
            y1 == Restore(z, n, 0)
            y2 == Restore(y1, n, 1)
            y3 == Restore(y2, n, 2)
<1>1. r \in Row /\ r.playing \in BOOLEAN /\ b \in BOOLEAN /\ x.m.table \in [Tids -> Table]
      /\ x.m.live \subseteq Objs /\ x.m.obj \in [Objs -> Player]
  BY Zenon, WorkTyped DEF Row
<1>. HIDE DEF b
<1>0. Starts(x, n, b, t, z)  BY <1>1, LoadStarts
<1>. HIDE DEF t, z, a
<1>2. /\ t \in Table /\ t.size = RoomSize /\ t.playing = b /\ t.amount = 0
      /\ \A s \in Seat : t.chair[s] = FreeChair
      /\ z \in Work /\ SameRest(x, z) /\ z.found = n
      /\ z.m.tables = x.m.tables \cup {n} /\ z.m.dismissed = x.m.dismissed
      /\ SameRoom(x.m, z.m) /\ SameServer(x.m, z.m) /\ z.m.obj = x.m.obj
      /\ z.m.table = [x.m.table EXCEPT ![n] = t]
      /\ ~b => z = a
  BY <1>0 DEF Starts, a
<1>3. SameNet(x.m, z.m) /\ LiveKept(x.m, z.m) /\ Served(z.m)
  <2>1. SamePeople(x.m, z.m)  BY <1>2 DEF SamePeople
  <2>2. Served(z.m)  BY <1>2, <2>1, ServedKept
  <2>. QED  BY <1>1, <1>2, <2>2 DEF SameNet, SameServer, LiveKept
<1>4. z.m.table[n] = t /\ t.amount = Taken(t)  BY <1>1, <1>2, SeatsAre DEF Taken, FreeChair
<1>5. CASE ~RowThere(x.db, n)
  <2>1. ~b /\ ~r.playing /\ \A s \in Seat : r.chair[s] = Null
    BY <1>5 DEF b, RowThere, RowWell
  <2>2. Load(x, n, RoomSize) = z
    <3>1. Load(x, n, RoomSize) = a
      <4>1. Load(x, n, RoomSize) = Opened(x, n)  BY <1>5 DEF Load, Opened
      <4>. QED  BY <4>1 DEF a
    <3>. QED  BY <1>2, <2>1, <3>1
  <2>3. \A s \in Seat : s < 3  BY SeatsAre
  <2>. HIDE DEF r
  <2>4. Filled(r, 3, z.m.table[n])
    <3>1. FreeChair.uid = Null /\ FreeChair.obj = Null /\ ~FreeChair.ready  BY DEF FreeChair
    <3>2. \A s \in Seat : t.chair[s].uid = Null /\ t.chair[s].obj = Null /\ ~t.chair[s].ready
      BY <1>2, <3>1
    <3>3. b = FALSE /\ r.playing = FALSE  BY <1>1, <2>1
    <3>4. t.playing = r.playing  BY Zenon, <1>2, <3>3
    <3>5. Filled(r, 3, t)  BY SMTT(60), <1>2, <1>4, <2>1, <2>3, <3>2, <3>4 DEF Filled
    <3>. QED  BY <1>4, <3>5
  <2>6. Brought(x, n, 3, z)
    <3>. HIDE DEF r
    <3>. QED  BY ZenonT(60), <1>2, <2>1 DEF Brought, SameServer, r
  <2>5. Loaded(x, n, z)
    BY <1>2, <1>3, <1>4, <2>4, <2>6 DEF Loaded, r
  <2>. QED  BY <2>2, <2>5
<1>6. CASE RowThere(x.db, n)
  <2>1. b = r.playing /\ Spare(x.m)  BY <1>6 DEF b
  <2>2. Load(x, n, RoomSize) = y3
    <3>1. Load(x, n, RoomSize) =
            Restore(Restore(Restore([a EXCEPT !.m.table[n].playing = r.playing], n, 0), n, 1), n, 2)
      BY <1>6 DEF Load, a, Opened
    <3>2. [a EXCEPT !.m.table[n].playing = r.playing] = z  BY <2>1 DEF z
    <3>. HIDE DEF r
    <3>. QED  BY <3>1, <3>2
  <2>3. Loading(x, n, 0, z)
    <3>1. Filled(r, 0, t)
      <4>1. \A s \in Seat : ~(s < 0)  BY SeatsAre
      <4>2. \A s \in Seat : ~t.chair[s].ready  BY <1>2 DEF FreeChair
      <4>. HIDE DEF r
      <4>. QED  BY <1>2, <1>4, <2>1, <4>1, <4>2 DEF Filled
    <3>2. Cardinality(z.m.live) + Cardinality(Needed(x, n, 0)) <= Cardinality(Objs)
      <4>1. Needed(x, n, 0) \subseteq Absentees(x.m) /\ Absentees(x.m) \subseteq Users
        BY DEF Needed, Absentees
      <4>2. IsFiniteSet(Absentees(x.m))  BY <4>1, NamesAssumption, FS_Subset
      <4>3. Cardinality(Needed(x, n, 0)) <= Cardinality(Absentees(x.m))
        BY <4>1, <4>2, FS_Subset
      <4>4. /\ Cardinality(Absentees(x.m)) \in Nat /\ Cardinality(Needed(x, n, 0)) \in Nat
            /\ Cardinality(x.m.live) \in Nat /\ Cardinality(Objs) \in Nat
        BY <1>1, <4>2, FS_CardinalityType, NeededFinite, LiveFinite
      <4>5. z.m.live = x.m.live  BY SMTT(60), <1>2 DEF SameServer
      <4>. QED  BY <2>1, <4>3, <4>4, <4>5 DEF Spare
    <3>3. Brought(x, n, 0, z)
      <4>1. \A s \in Seat : ~(s < 0)  BY SeatsAre
      <4>. QED  BY ZenonT(60), <1>2, <4>1 DEF Brought, SameServer
    <3>. HIDE DEF r
    <3>. QED  BY <1>2, <1>3, <1>4, <3>1, <3>2, <3>3 DEF Loading, r
  <2>. HIDE DEF y1, y2, y3
  <2>4. Loading(x, n, 1, y1)
    <3>1. Loading(x, n, 0 + 1, Restore(z, n, 0))  BY <2>3, SeatsAre, LoadingOn
    <3>. QED  BY <3>1 DEF y1
  <2>5. Loading(x, n, 2, y2)
    <3>1. Loading(x, n, 1 + 1, Restore(y1, n, 1))  BY <2>4, SeatsAre, LoadingOn
    <3>. QED  BY <3>1 DEF y2
  <2>6. Loading(x, n, 3, y3)
    <3>1. Loading(x, n, 2 + 1, Restore(y2, n, 2))  BY <2>5, SeatsAre, LoadingOn
    <3>. QED  BY <3>1 DEF y3
  <2>. QED  BY <2>2, <2>6 DEF Loading, Loaded
<1>. QED  BY <1>5, <1>6

(* What a step that looks for a table promises.                            *)
Finds(e, x, y) ==
  /\ Grows(e, x, y) /\ (Placed(x.m) => Placed(y.m)) /\ SameRoom(x.m, y.m)
  /\ y.found = Null \/ y.found \in y.m.tables

LEMMA LoadFinds ==
  ASSUME NEW e, NEW x, Good(e, x), Served(x.m), NEW n \in Tids, n \notin x.m.tables,
         n \notin x.m.dismissed, roomType = 0 => n <= x.db.tid, x.lost # "row",
         RowThere(x.db, n) => Spare(x.m)
  PROVE  Finds(e, x, Load(x, n, RoomSize))
<1>. DEFINE y == Load(x, n, RoomSize)
            r == x.db.row[n]
            t == y.m.table[n]
<1>1. /\ x \in Work /\ r \in Row /\ RowWell(r) /\ x.db.row \in [Tids -> Row]
      /\ x.m.tables \subseteq Tids /\ x.m.table \in [Tids -> Table]
  BY WorkTyped DEF Good, Rooms, RowsWell
<1>2. Loaded(x, n, y)  BY <1>1, LoadLoads
<1>. HIDE DEF y
<1>3. y \in Work /\ t \in Table  BY <1>2, WorkTyped DEF Loaded
<1>4. /\ t.size = RoomSize /\ t.playing = r.playing /\ t.amount = Taken(t)
      /\ \A s \in Seat : /\ t.chair[s].uid = r.chair[s]
                         /\ t.chair[s].uid = Null <=> t.chair[s].obj = Null
  <2>1. \A s \in Seat : s < 3  BY SeatsAre
  <2>2. Filled(r, 3, t)  BY <1>2 DEF Loaded
  <2>. HIDE DEF r, t
  <2>. QED  BY <2>1, <2>2 DEF Filled
<1>. HIDE DEF r, t
<1>5. TableWell(t) /\ Mirrors(t, r)  BY <1>1, <1>4 DEF TableWell, RowWell, Mirrors
<1>6. /\ y.m.table = [x.m.table EXCEPT ![n] = t] /\ y.db = x.db /\ y.trail = x.trail
      /\ y.m.tables = x.m.tables \cup {n} /\ y.m.dismissed = x.m.dismissed
  BY <1>2 DEF Loaded, SameRest, t
<1>7. Good(e, y)
  <2>1. y.db.row = [x.db.row EXCEPT ![n] = r]  BY <1>1, <1>6 DEF r
  <2>. QED  BY <1>1, <1>3, <1>5, <1>6, <2>1, TableChanges DEF r
<1>8. Grows(e, x, y)  BY <1>2, <1>7 DEF Grows, Loaded, SameRest
<1>9. Placed(x.m) => Placed(y.m)
  <2>1. \A j \in x.m.tables : y.m.table[j] = x.m.table[j]  BY <1>1, <1>6
  <2>. QED  BY Zenon, <1>2, <1>6, <2>1, PlacedKept DEF Loaded, SameRoom
<1>10. Finds(e, x, y)  BY <1>2, <1>6, <1>8, <1>9 DEF Finds, Loaded
<1>. QED  BY <1>10 DEF y

LEMMA GoodGrows ==
  ASSUME NEW e, NEW x, NEW y, Good(e, y), Served(x.m), y.m = x.m, y.lost = x.lost
  PROVE  Grows(e, x, y)
  BY DEF Grows, SameNet, LiveKept

(* A table that is in memory, or none.                                     *)
LEMMA FoundFinds ==
  ASSUME NEW e, NEW x, Good(e, x), Served(x.m), NEW k \in x.m.tables \cup {Null}
  PROVE  Finds(e, x, [x EXCEPT !.found = k])
<1>. DEFINE y == [x EXCEPT !.found = k]
<1>1. x \in Work /\ k \in Tids \cup {Null}  BY WorkTyped DEF Good
<1>2. y \in Work /\ y.m = x.m /\ SameRest(x, y) /\ y.found = k  BY <1>1 DEF Work, SameRest
<1>. HIDE DEF y
<1>3. Good(e, y)  BY <1>2, NotesGood
<1>4. Grows(e, x, y)  BY <1>2, <1>3, GoodGrows DEF SameRest
<1>5. SameRoom(x.m, y.m) /\ (Placed(x.m) => Placed(y.m))  BY <1>2 DEF SameRoom, Placed
<1>6. Finds(e, x, y)  BY <1>2, <1>4, <1>5 DEF Finds
<1>. QED  BY <1>6 DEF y

LEMMA FindsFrom ==
  ASSUME NEW e, NEW x, NEW y, NEW z, y.m = x.m, y.lost = x.lost, Finds(e, y, z)
  PROVE  Finds(e, x, z)
  BY DEF Finds, Grows

(* The counter of the server's tables goes on: the next one is free.       *)
LEMMA CounterTaken ==
  ASSUME NEW e, NEW x, Good(e, x), Served(x.m), roomType = 0, x.lost # "row",
         NEW n, n = x.db.tid + 1, ~(n > MaxTid)
  PROVE  LET y == Put(x, [x.db EXCEPT !.tid = n]) IN
         /\ n \in Tids /\ Good(e, y) /\ Served(y.m) /\ y.m = x.m /\ y.lost = x.lost
         /\ y.db.row = x.db.row /\ y.db.rooms = x.db.rooms /\ y.db.zid = x.db.zid
         /\ n \notin y.m.tables /\ n \notin y.m.dismissed
         /\ ~RowThere(y.db, n) /\ n <= y.db.tid
<1>. DEFINE d == [x.db EXCEPT !.tid = n]
            y == Put(x, d)
<1>1. /\ x \in Work /\ Rooms(x.m, x.db) /\ RowsWell(x.db) /\ Keeps(e, x.db)
      /\ x.db \in Database /\ x.db.tid \in 0..MaxTid /\ MaxTid \in Nat /\ x.m.tables \subseteq Tids
  BY WorkTyped, NullIsNone DEF Good, Rooms
<1>2. n \in Tids /\ n \in 0..MaxTid  BY <1>1 DEF Tids
<1>3. /\ d \in Database /\ d.row = x.db.row /\ d.rooms = x.db.rooms /\ d.tid = n
      /\ d.zid = x.db.zid
  BY <1>1, <1>2 DEF Database
<1>. HIDE DEF d
<1>4. /\ y \in Work /\ y.m = x.m /\ y.db = d /\ y.trail = x.trail \cup {d} /\ y.lost = x.lost
  BY <1>1, <1>3, PutDoes
<1>. HIDE DEF y
<1>5. \A j \in Tids : j > n => j > x.db.tid  BY <1>1, <1>2 DEF Tids
<1>6. RowsWell(d) /\ Keeps(e, d)  BY <1>1, <1>3, <1>5 DEF RowsWell, Keeps
<1>7. Rooms(y.m, y.db)
  <2>1. \A j \in Tids : j <= x.db.tid => j <= n  BY <1>1, <1>2 DEF Tids
  <2>2. \A j \in y.m.tables : j <= y.db.tid  BY <1>1, <1>3, <1>4, <2>1 DEF Rooms
  <2>. QED  BY <1>1, <1>3, <1>4, <1>6, <2>2 DEF Rooms
<1>8. Good(e, y)  BY <1>4, <1>6, <1>7 DEF Good
<1>9. n \notin y.m.tables /\ n \notin y.m.dismissed
  <2>1. ~(n <= x.db.tid)  BY <1>1, <1>2
  <2>. QED  BY <1>1, <1>4, <2>1 DEF Rooms
<1>10. ~RowThere(y.db, n)
  <2>1. n > x.db.tid  BY <1>1, <1>2
  <2>2. y.db.row[n] = NoRow  BY <1>1, <1>2, <1>3, <1>4, <2>1 DEF RowsWell
  <2>3. ~NoRow.begun /\ \A s \in Seat : NoRow.chair[s] = Null  BY DEF NoRow
  <2>. QED  BY <2>2, <2>3 DEF RowThere
<1>11. n <= y.db.tid  BY <1>2, <1>3, <1>4 DEF Tids
<1>. QED  BY <1>2, <1>3, <1>4, <1>8, <1>9, <1>10, <1>11 DEF y, d

LEMMA NewTableFinds ==
  ASSUME NEW e, NEW x, Good(e, x), Served(x.m), roomType = 0, x.lost # "row"
  PROVE  Finds(e, x, NewTable(x, RoomSize))
<1>. DEFINE n == x.db.tid + 1
            y == Put(x, [x.db EXCEPT !.tid = n])
            z == Load(y, n, RoomSize)
<1>1. NewTable(x, RoomSize) = IF x.lost = "tid" \/ n > MaxTid THEN [x EXCEPT !.found = Null] ELSE z
  BY DEF NewTable
<1>2. CASE x.lost = "tid" \/ n > MaxTid
  BY <1>1, <1>2, FoundFinds
<1>3. CASE ~(x.lost = "tid" \/ n > MaxTid)
  <2>1. NewTable(x, RoomSize) = z  BY <1>1, <1>3
  <2>2. /\ n \in Tids /\ Good(e, y) /\ Served(y.m) /\ y.m = x.m /\ y.lost = x.lost
        /\ n \notin y.m.tables /\ n \notin y.m.dismissed
        /\ ~RowThere(y.db, n) /\ n <= y.db.tid
    BY <1>3, CounterTaken
  <2>. HIDE DEF n, y
  <2>3. Finds(e, y, z)  BY <2>2, LoadFinds
  <2>. HIDE DEF z
  <2>4. Finds(e, x, z)  BY <2>2, <2>3, FindsFrom
  <2>. QED  BY <2>1, <2>4
<1>. QED  BY <1>2, <1>3

LEMMA FindTableFinds ==
  ASSUME NEW e, NEW x, Good(e, x), Served(x.m), roomType \in {0, 1}, x.lost # "row",
         NEW u \in Ids, NEW n \in Tids \cup {Null}, NEW except,
         Spare(x.m) \/ (roomType = 0 /\ n = Null)
  PROVE  Finds(e, x, FindTable(x, u, n, except, RoomSize))
<1>1. /\ x \in Work /\ Rooms(x.m, x.db) /\ RowsWell(x.db) /\ x.m.tables \subseteq Tids
      /\ x.db.tid \in Nat
  BY WorkTyped DEF Good, Rooms
<1>2. ASSUME NEW k \in x.m.tables \cup {Null}  PROVE Finds(e, x, [x EXCEPT !.found = k])
  BY FoundFinds
<1>3. CASE roomType = 0
  <2>. DEFINE M == Matching(x, except, RoomSize)
  <2>1. FindTable(x, u, n, except, RoomSize) = FindServerTable(x, u, n, except, RoomSize)
    BY <1>3 DEF FindTable
  <2>2. CASE n = Null /\ M = {}
    <3>1. FindServerTable(x, u, n, except, RoomSize) = NewTable(x, RoomSize)
      BY <1>1, <2>2, NullIsNone DEF FindServerTable
    <3>. QED  BY <1>3, <2>1, <3>1, NewTableFinds
  <2>3. CASE n = Null /\ M # {}
    <3>1. FindServerTable(x, u, n, except, RoomSize) = [x EXCEPT !.found = Max(M)]
      BY <1>1, <2>3, NullIsNone DEF FindServerTable
    <3>2. M \subseteq x.m.tables  BY DEF Matching
    <3>3. M \in SUBSET (0..MaxTid) /\ MaxTid \in Nat  BY <1>1, <3>2, NullIsNone DEF Tids
    <3>. HIDE DEF M
    <3>4. Max(M) \in M  BY <2>3, <3>3, GreatestThere
    <3>. QED  BY <1>2, <2>1, <3>1, <3>2, <3>4
  <2>4. CASE n # Null /\ n \in x.m.tables
    <3>1. FindServerTable(x, u, n, except, RoomSize) = [x EXCEPT !.found = n]
      BY <2>4 DEF FindServerTable
    <3>. QED  BY <1>2, <2>1, <2>4, <3>1
  <2>5. CASE n # Null /\ n \notin x.m.tables /\ RowThere(x.db, n)
    <3>1. FindServerTable(x, u, n, except, RoomSize) = Load(x, n, RoomSize)
      BY <2>5 DEF FindServerTable
    <3>2. n \in Tids /\ n \in Nat  BY <2>5, NullIsNone
    <3>3. n <= x.db.tid
      <4>1. x.db.row[n] # NoRow  BY <2>5 DEF RowThere, NoRow
      <4>. QED  BY <1>1, <1>3, <3>2, <4>1 DEF RowsWell
    <3>4. n \notin x.m.dismissed  BY <1>1, <1>3 DEF Rooms
    <3>. QED  BY <1>3, <2>1, <2>5, <3>1, <3>2, <3>3, <3>4, LoadFinds
  <2>6. CASE n # Null /\ n \notin x.m.tables /\ ~RowThere(x.db, n)
    <3>. DEFINE y == SetLastRoom(x, u, Null)
    <3>1. FindServerTable(x, u, n, except, RoomSize) = [y EXCEPT !.found = Null]
      BY <2>6 DEF FindServerTable
    <3>2. Null \in Tids \cup {Null}  OBVIOUS
    <3>3. y.m = x.m /\ y.lost = x.lost  BY Zenon, <1>1, <3>2, SetLastRoomDoes
    <3>4. Good(e, y)  BY <3>2, SetLastRoomGood
    <3>. HIDE DEF y
    <3>5. Finds(e, y, [y EXCEPT !.found = Null])  BY <3>3, <3>4, FoundFinds
    <3>6. Finds(e, x, [y EXCEPT !.found = Null])  BY <3>3, <3>5, FindsFrom
    <3>. QED  BY <2>1, <3>1, <3>6
  <2>. QED  BY <2>2, <2>3, <2>4, <2>5, <2>6
<1>4. CASE roomType = 1
  <2>1. FindTable(x, u, n, except, RoomSize) = FindFriendsTable(x, n)
    BY <1>4 DEF FindTable
  <2>2. CASE n \in x.m.tables
    <3>1. FindFriendsTable(x, n) = [x EXCEPT !.found = n]  BY <2>2 DEF FindFriendsTable
    <3>. QED  BY <1>2, <2>1, <2>2, <3>1
  <2>3. CASE n \notin x.m.tables /\ n \in x.db.rooms /\ x.lost # "htid"
    <3>1. FindFriendsTable(x, n) = Load(x, n, RoomSize)  BY <2>3 DEF FindFriendsTable
    <3>2. n \in Tids /\ n \notin x.m.dismissed  BY <1>1, <2>3, WorkTyped DEF Rooms
    <3>3. Spare(x.m) /\ roomType # 0  BY <1>4
    <3>4. Finds(e, x, Load(x, n, RoomSize))  BY <2>3, <3>2, <3>3, LoadFinds
    <3>. QED  BY <2>1, <3>1, <3>4
  <2>4. CASE n \notin x.m.tables /\ ~(n \in x.db.rooms /\ x.lost # "htid")
    <3>1. FindFriendsTable(x, n) = [x EXCEPT !.found = Null]  BY <2>4 DEF FindFriendsTable
    <3>. QED  BY <1>2, <2>1, <3>1
  <2>. QED  BY <2>2, <2>3, <2>4
<1>. QED  BY <1>3, <1>4

-----------------------------------------------------------------------------
(* Entering the room.                                                      *)
LEMMA JoinPlaced ==
  ASSUME NEW e, NEW x, Good(e, x), NEW o \in Objs, Uid(x, o) # Null, NEW n \in x.m.tables,
         Placed(x.m)
  PROVE  Placed(Join(x, o, n).m)
<1>. DEFINE u == Uid(x, o)
            y == Sitdown(x, o, n)
            z == Entered(y, o, n, u)
            w == SetLastRoom(z, u, n)
            t == x.m.table[n]
<1>1. /\ x \in Work /\ n \in Tids /\ u \in Ids /\ u = x.m.obj[o].uid /\ u # Null
      /\ x.m.table \in [Tids -> Table] /\ t \in Table /\ x.m.tables \subseteq Tids /\ TableWell(t)
  BY WorkTyped, PlayerTyped DEF Good, Uid, Rooms
<1>2. InRoom(e, x, y)  BY SitdownInRoom
<1>3. Join(x, o, n) = IF y.ok THEN w ELSE y  BY Zenon DEF Join, Entered, u, y, z, w
<1>4. \/ y = [x EXCEPT !.ok = FALSE]
      \/ \E s \in Seat : /\ s < RoomSize /\ t.chair[s].uid = Null
                         /\ (\A q \in Seat : t.chair[q].uid # u)
                         /\ ~t.playing /\ Sits(x, o, n, s, y)
      \/ \E s \in Seat : /\ t.chair[s].uid = u /\ Returns(x, o, n, s, y)
  BY <1>1, SitdownDoes
<1>. HIDE DEF y, u
<1>5. CASE y = [x EXCEPT !.ok = FALSE]
  <2>1. y.m = x.m /\ y.ok = FALSE  BY <1>1, <1>5 DEF Work
  <2>2. Join(x, o, n) = y  BY <1>3, <2>1
  <2>. QED  BY <2>1, <2>2 DEF Placed
<1>6. ASSUME NEW s \in Seat, y \in Work, SameRoom(x.m, y.m), y.m.tables = x.m.tables,
             \A j \in Tids : j # n => y.m.table[j] = x.m.table[j],
             y.m.table[n].chair[s].uid = u, y.ok = TRUE,
             \A q \in Seat : t.chair[q].uid # Null => y.m.table[n].chair[q].uid = t.chair[q].uid
      PROVE  Placed(Join(x, o, n).m)
  <2>2. Placed(y.m)
    <3>1. \A j \in x.m.tables, q \in Seat :
            x.m.table[j].chair[q].uid # Null =>
              y.m.table[j].chair[q].uid = x.m.table[j].chair[q].uid
      BY <1>1, <1>6
    <3>. QED  BY Zenon, <1>6, <3>1, PlacedKept DEF SameRoom
  <2>3. Enters(y, o, n, u, z)  BY <1>1, <1>6, EnteredDoes
  <2>. HIDE DEF z
  <2>4. z \in Work /\ SameTables(y.m, z.m) /\ z.m.at = Insert(y.m.at, u, n)  BY <2>3 DEF Enters
  <2>5. \A k \in Ids : z.m.at[k] = IF k = u /\ y.m.at[u] = Null THEN n ELSE y.m.at[k]
    <3>1. y.m.at \in [Ids -> Tids \cup {Null}]  BY <1>6, WorkTyped
    <3>. QED  BY <1>1, <2>4, <3>1 DEF Insert
  <2>6. Placed(z.m)
    <3>. SUFFICES ASSUME NEW k \in Users, z.m.at[k] # Null
                  PROVE  /\ z.m.at[k] \in z.m.tables
                         /\ roomType = 1 => \E q \in Seat : z.m.table[z.m.at[k]].chair[q].uid = k
      BY DEF Placed
    <3>1. k \in Ids  BY NullIsNone
    <3>2. CASE k = u /\ y.m.at[u] = Null
      <4>1. z.m.at[k] = n /\ n \in z.m.tables /\ z.m.table[n].chair[s].uid = k
        BY <1>6, <2>4, <2>5, <3>1, <3>2 DEF SameTables
      <4>. QED  BY <4>1
    <3>3. CASE ~(k = u /\ y.m.at[u] = Null)
      <4>1. z.m.at[k] = y.m.at[k]  BY <2>5, <3>1, <3>3
      <4>. QED  BY <2>2, <2>4, <4>1 DEF Placed, SameTables
    <3>. QED  BY <3>2, <3>3
  <2>7. w.m = z.m
    <3>1. n \in Tids \cup {Null}  BY <1>1
    <3>. QED  BY ZenonT(60), <1>1, <2>4, <3>1, SetLastRoomDoes
  <2>. HIDE DEF w
  <2>8. Join(x, o, n) = w  BY <1>3, <1>6
  <2>. QED  BY <2>6, <2>7, <2>8 DEF Placed
<1>7. ASSUME NEW s \in Seat, s < RoomSize, t.chair[s].uid = Null, Sits(x, o, n, s, y)
      PROVE  Placed(Join(x, o, n).m)
  <2>. DEFINE v == SatOn(t, s, u, o)
  <2>1. \A q \in Seat : v.chair[q] = IF q = s THEN Newcomer(u, o) ELSE t.chair[q]
    BY <1>1, <1>7, SatOnWell
  <2>2. Newcomer(u, o).uid = u  BY DEF Newcomer
  <2>3. /\ y \in Work /\ SameRoom(x.m, y.m) /\ y.m.tables = x.m.tables /\ y.ok = TRUE
        /\ y.m.table = [x.m.table EXCEPT ![n] = v]
    BY <1>1, <1>7 DEF Sits
  <2>. HIDE DEF v, t
  <2>4. y.m.table[n] = v /\ \A j \in Tids : j # n => y.m.table[j] = x.m.table[j]
    BY <1>1, <2>3
  <2>5. \A q \in Seat : t.chair[q].uid # Null => v.chair[q].uid = t.chair[q].uid
    BY <1>7, <2>1
  <2>. QED  BY ZenonT(60), <1>6, <2>1, <2>2, <2>3, <2>4, <2>5
<1>8. ASSUME NEW s \in Seat, t.chair[s].uid = u, Returns(x, o, n, s, y)
      PROVE  Placed(Join(x, o, n).m)
  <2>. DEFINE v == CameBack(t, s, o)
  <2>1. t.chair[s].obj # Null
    <3>1. t.chair[s].uid = Null <=> t.chair[s].obj = Null  BY <1>1 DEF TableWell
    <3>. QED  BY <1>1, <1>8, <3>1
  <2>2. \A q \in Seat : v.chair[q].uid = t.chair[q].uid
    <3>1. Alike(t, CameBack(t, s, o))  BY Zenon, <1>1, <2>1, CameBackAlike
    <3>. HIDE DEF t
    <3>. QED  BY <3>1 DEF Alike
  <2>3. /\ y \in Work /\ SameRoom(x.m, y.m) /\ y.m.tables = x.m.tables /\ y.ok = TRUE
        /\ y.m.table = [x.m.table EXCEPT ![n] = v]
    BY <1>8 DEF Returns
  <2>. HIDE DEF v, t
  <2>4. y.m.table[n] = v /\ \A j \in Tids : j # n => y.m.table[j] = x.m.table[j]
    BY <1>1, <2>3
  <2>. QED  BY Zenon, <1>6, <1>8, <2>2, <2>3, <2>4
<1>. QED  BY <1>4, <1>5, <1>7, <1>8

Settles(e, x, y) == Grows(e, x, y) /\ Placed(y.m)

LEMMA JoinSettles ==
  ASSUME NEW e, NEW x, Good(e, x), Served(x.m), Placed(x.m), NEW o \in Objs, Uid(x, o) # Null,
         NEW n \in x.m.tables
  PROVE  Settles(e, x, Join(x, o, n))
<1>1. InRoom(e, x, Join(x, o, n))  BY JoinInRoom
<1>2. Grows(e, x, Join(x, o, n))  BY <1>1, InRoomGrows
<1>3. Placed(Join(x, o, n).m)  BY JoinPlaced
<1>. QED  BY <1>2, <1>3 DEF Settles

LEMMA EnterRoomSettles ==
  ASSUME NEW e, NEW x, Good(e, x), Served(x.m), Placed(x.m), roomType \in {0, 1},
         x.lost # "row", NEW o \in x.m.live, Uid(x, o) # Null, NEW n \in Tids \cup {Null},
         NEW except, NEW rich, Spare(x.m) \/ (roomType = 0 /\ n = Null)
  PROVE  Settles(e, x, EnterRoom(x, o, n, except, RoomSize, rich))
<1>. DEFINE u == Uid(x, o)
            f == ForgetInRoom(x, u)
            y == FindTable(f, u, n, except, RoomSize)
            z == Join(y, o, y.found)
            w == [y EXCEPT !.ok = FALSE]
<1>1. /\ x \in Work /\ o \in Objs /\ u \in Users /\ u \in Ids /\ x.m.at[u] \in Tids \cup {Null}
  BY WorkTyped, PlayerTyped DEF Good, Uid, Ids
<1>2. \/ x.m.at[u] # Null /\ EnterRoom(x, o, n, except, RoomSize, rich) = Join(x, o, x.m.at[u])
      \/ y.found # Null /\ EnterRoom(x, o, n, except, RoomSize, rich) = z
      \/ EnterRoom(x, o, n, except, RoomSize, rich) = w
  BY Zenon DEF EnterRoom, u, f, y, z, w
<1>. HIDE DEF u
<1>3. CASE x.m.at[u] # Null /\ EnterRoom(x, o, n, except, RoomSize, rich) = Join(x, o, x.m.at[u])
  <2>1. x.m.at[u] \in x.m.tables  BY <1>1, <1>3 DEF Placed
  <2>. QED  BY <1>1, <1>3, <2>1, JoinSettles
<1>4. InRoom(e, x, f)  BY <1>1, ForgetInRoomInRoom
<1>5. Forgets(x, u, f)  BY <1>1, ForgetInRoomDoes
<1>. HIDE DEF f
<1>6. Good(e, f) /\ Grows(e, x, f) /\ Served(f.m) /\ f.lost = x.lost /\ SameServer(x.m, f.m)
  <2>1. Grows(e, x, f)  BY <1>4, InRoomGrows
  <2>. QED  BY <1>4, <2>1 DEF InRoom, Grows
<1>7. Placed(f.m)
  BY <1>5, PlacedKept DEF Forgets, SameTables
<1>8. Spare(f.m) \/ (roomType = 0 /\ n = Null)
  BY <1>6 DEF Spare, Absentees, SameServer
<1>9. Finds(e, f, y)  BY <1>1, <1>6, <1>8, FindTableFinds
<1>. HIDE DEF y
<1>10. Grows(e, x, y) /\ Placed(y.m) /\ Good(e, y) /\ Served(y.m)
  <2>1. Grows(e, f, y) /\ Placed(y.m)  BY <1>7, <1>9 DEF Finds
  <2>2. Grows(e, x, y)  BY <1>6, <2>1, GrowsTransitive
  <2>. QED  BY <2>1, <2>2 DEF Grows
<1>11. Uid(y, o) = u  BY <1>10 DEF Grows, LiveKept, Uid, u
<1>12. CASE y.found # Null /\ EnterRoom(x, o, n, except, RoomSize, rich) = z
  <2>1. y.found \in y.m.tables  BY <1>9, <1>12 DEF Finds
  <2>2. Uid(y, o) # Null  BY <1>11 DEF u
  <2>3. Settles(e, y, z)  BY <1>1, <1>10, <2>1, <2>2, JoinSettles
  <2>4. Settles(e, x, z)  BY <1>10, <2>3, GrowsTransitive DEF Settles
  <2>. QED  BY <1>12, <2>4
<1>13. CASE EnterRoom(x, o, n, except, RoomSize, rich) = w
  <2>1. y \in Work  BY <1>10 DEF Good
  <2>2. w \in Work /\ w.m = y.m /\ SameRest(y, w)  BY Zenon, <2>1 DEF Work, SameRest
  <2>. HIDE DEF w
  <2>3. Good(e, w)  BY <1>10, <2>2, NotesGood
  <2>4. Grows(e, y, w)  BY <1>10, <2>2, <2>3, GoodGrows DEF SameRest
  <2>5. Grows(e, x, w) /\ Placed(w.m)  BY <1>10, <2>2, <2>4, GrowsTransitive DEF Placed
  <2>. QED  BY <1>13, <2>5 DEF Settles
<1>. QED  BY <1>2, <1>3, <1>12, <1>13

-----------------------------------------------------------------------------
(***************************************************************************)
(* A player who is online goes: he is deleted or kept as offline.          *)
(***************************************************************************)
Parting(x, o, y) ==
  LET u == x.m.obj[o].uid IN
  /\ y \in Work /\ y.lost = x.lost /\ y.m.session = x.m.session
  /\ y.m.online = [x.m.online EXCEPT ![u] = Null]
  /\ \A p \in Objs : p # o => /\ y.m.obj[p].uid = x.m.obj[p].uid
                              /\ y.m.obj[p].conn = x.m.obj[p].conn
                              /\ y.m.obj[p].online = x.m.obj[p].online
  /\ \/ y.m.live = x.m.live \ {o} /\ y.m.offline = [x.m.offline EXCEPT ![u] = Null]
     \/ /\ y.m.live = x.m.live /\ ~y.m.obj[o].online
        /\ y.m.offline = Insert(x.m.offline, u, o)

SameConns(g, h) == h.open = g.open /\ h.fresh = g.fresh /\ h.tick = g.tick
SameHall(x, y) ==
  SameRest(x, y) /\ SameConns(x.m, y.m) /\ SameRoom(x.m, y.m) /\ SameTables(x.m, y.m)

(* He is deleted.                                                          *)
Deletes(x, o, y) ==
  LET u == x.m.obj[o].uid IN
  /\ y.m.online = [x.m.online EXCEPT ![u] = Null]
  /\ y.m.offline = [x.m.offline EXCEPT ![u] = Null]
  /\ y.m.live = x.m.live \ {o} /\ y.m.obj = [x.m.obj EXCEPT ![o] = NoPlayer]

LEMMA UserLogoutDoes ==
  ASSUME NEW x \in Work, NEW o \in Objs, x.m.online[Uid(x, o)] # Null
  PROVE  /\ Parting(x, o, UserLogout(x, o)) /\ SameHall(x, UserLogout(x, o))
         /\ Deletes(x, o, UserLogout(x, o))
<1>. DEFINE u == x.m.obj[o].uid
            obj == [x.m.obj EXCEPT ![o].online = FALSE]
            off == [x.m.offline EXCEPT ![u] = Null]
            on == [x.m.online EXCEPT ![u] = Null]
            gone == [x.m.obj EXCEPT ![o] = NoPlayer]
            g1 == [x.m EXCEPT !.obj = obj, !.offline = off]
            y1 == [x EXCEPT !.m = g1]
            g2 == [g1 EXCEPT !.online = on]
            y2 == [y1 EXCEPT !.m = g2]
            g3 == [g2 EXCEPT !.live = x.m.live \ {o}, !.obj = gone]
            y3 == [y2 EXCEPT !.m = g3]
<1>1. /\ x.m \in Memory /\ x.m.obj \in [Objs -> Player] /\ u \in Ids /\ u = Uid(x, o)
      /\ x.m.online \in [Ids -> Objs \cup {Null}] /\ x.m.offline \in [Ids -> Objs \cup {Null}]
      /\ x.m.live \subseteq Objs
  BY WorkTyped, PlayerTyped DEF Uid
<1>2. /\ obj \in [Objs -> Player] /\ gone \in [Objs -> Player] /\ [obj EXCEPT ![o] = NoPlayer] = gone
      /\ off \in [Ids -> Objs \cup {Null}] /\ on \in [Ids -> Objs \cup {Null}]
  BY Zenon, <1>1, FreshTyped DEF Player
<1>3. UserLogout(x, o) = DeletePlayer([y1 EXCEPT !.m.online[u] = Null], o)
  <2>1. x.m.online[u] # Null  BY <1>1
  <2>2. y1 = [x EXCEPT !.m.obj[o].online = FALSE, !.m.offline[u] = Null]  BY Zenon
  <2>. HIDE DEF y1
  <2>. QED  BY <2>1, <2>2, Zenon DEF UserLogout, Uid, u
<1>. HIDE DEF obj, off, on, gone, u
<1>4. /\ y1 \in Work /\ y1.m = g1 /\ SameRest(x, y1) /\ g1.online = x.m.online
      /\ g1.obj = obj /\ g1.live = x.m.live
  <2>1. g1 \in Memory /\ g1.online = x.m.online /\ g1.obj = obj /\ g1.live = x.m.live
    BY Zenon, <1>1, <1>2 DEF Memory
  <2>. HIDE DEF g1
  <2>. QED  BY <2>1 DEF Work, SameRest
<1>5. [y1 EXCEPT !.m.online[u] = Null] = y2
  <2>1. [y1.m EXCEPT !.online = [y1.m.online EXCEPT ![u] = Null]] = g2
    <3>. HIDE DEF g1, y1
    <3>. QED  BY <1>4 DEF on
  <2>. HIDE DEF y1, g2
  <2>. QED  BY <2>1
<1>6. /\ y2 \in Work /\ y2.m = g2 /\ SameRest(x, y2) /\ g2.obj = obj /\ g2.live = x.m.live
      /\ g2 \in Memory
  <2>1. g1 \in Memory  BY Zenon, <1>4, WorkTyped
  <2>. HIDE DEF g1, y1
  <2>2. g2 \in Memory /\ g2.obj = obj /\ g2.live = x.m.live  BY <1>2, <1>4, <2>1 DEF Memory
  <2>. HIDE DEF g2
  <2>. QED  BY <1>4, <2>2 DEF Work, SameRest
<1>7. DeletePlayer(y2, o) = y3
  <2>. HIDE DEF g2, y2
  <2>. QED  BY ZenonT(60), <1>2, <1>6 DEF DeletePlayer
<1>8. /\ g3 \in Memory /\ g3.obj = gone /\ g3.live = x.m.live \ {o} /\ g3.online = on
      /\ g3.offline = off /\ g3.session = x.m.session /\ g3.open = x.m.open
      /\ g3.fresh = x.m.fresh /\ g3.tick = x.m.tick /\ SameRoom(x.m, g3) /\ SameTables(x.m, g3)
  BY Zenon, <1>1, <1>2 DEF Memory, SameRoom, SameTables
<1>9. y3 \in Work /\ y3.m = g3 /\ SameRest(x, y3)
  <2>. HIDE DEF y2, g3
  <2>. QED  BY <1>6, <1>8 DEF Work, SameRest
<1>. HIDE DEF g1, y1, g2, y2, g3, y3
<1>10. \A p \in Objs : p # o => gone[p] = x.m.obj[p]  BY <1>1 DEF gone
<1>11. Parting(x, o, y3) /\ SameHall(x, y3)
  BY <1>8, <1>9, <1>10 DEF Parting, SameHall, SameConns, SameRest, on, off, u
<1>12. Deletes(x, o, y3)  BY <1>8, <1>9 DEF Deletes, gone, on, off, u
<1>. QED  BY <1>3, <1>5, <1>7, <1>11, <1>12

(* He is kept as offline.                                                  *)
KeepsOffline(x, o, y) ==
  LET u == x.m.obj[o].uid IN
  /\ y.m.online = [x.m.online EXCEPT ![u] = Null]
  /\ y.m.offline = Insert(x.m.offline, u, o)
  /\ y.m.live = x.m.live /\ y.m.obj = [x.m.obj EXCEPT ![o].online = FALSE]

LEMMA UserOfflineDoes ==
  ASSUME NEW x \in Work, NEW o \in Objs
  PROVE  /\ Parting(x, o, UserOffline(x, o)) /\ SameHall(x, UserOffline(x, o))
         /\ KeepsOffline(x, o, UserOffline(x, o))
<1>. DEFINE u == x.m.obj[o].uid
            obj == [x.m.obj EXCEPT ![o].online = FALSE]
            off == Insert(x.m.offline, u, o)
            on == [x.m.online EXCEPT ![u] = Null]
            g == [x.m EXCEPT !.obj = obj, !.offline = off, !.online = on]
            y == [x EXCEPT !.m = g]
<1>1. /\ x.m \in Memory /\ x.m.obj \in [Objs -> Player] /\ u \in Ids
      /\ x.m.online \in [Ids -> Objs \cup {Null}] /\ x.m.offline \in [Ids -> Objs \cup {Null}]
  BY WorkTyped, PlayerTyped
<1>2. obj \in [Objs -> Player] /\ obj[o].online = FALSE /\ \A p \in Objs : p # o => obj[p] = x.m.obj[p]
  BY ZenonT(60), <1>1 DEF Player
<1>3. off \in [Ids -> Objs \cup {Null}] /\ on \in [Ids -> Objs \cup {Null}]
  BY <1>1 DEF Insert
<1>4. UserOffline(x, o) = y  BY Zenon DEF UserOffline, Uid
<1>. HIDE DEF obj, off, on, u
<1>5. /\ g \in Memory /\ g.obj = obj /\ g.live = x.m.live /\ g.online = on
      /\ g.offline = off /\ g.session = x.m.session /\ g.open = x.m.open
      /\ g.fresh = x.m.fresh /\ g.tick = x.m.tick /\ SameRoom(x.m, g) /\ SameTables(x.m, g)
  BY Zenon, <1>1, <1>2, <1>3 DEF Memory, SameRoom, SameTables
<1>. HIDE DEF g
<1>6. y \in Work /\ y.m = g /\ SameRest(x, y)  BY <1>5 DEF Work, SameRest
<1>. HIDE DEF y
<1>7. Parting(x, o, y) /\ SameHall(x, y)
  BY <1>2, <1>5, <1>6 DEF Parting, SameHall, SameConns, SameRest, on, off, u
<1>8. KeepsOffline(x, o, y)  BY <1>5, <1>6 DEF KeepsOffline, obj, on, off, u
<1>. QED  BY <1>4, <1>7, <1>8

(* The session of the connection ends with it.                             *)
LEMMA PartedServed ==
  ASSUME NEW x \in Work, Served(x.m), NEW c \in Conns, x.m.session[c] # Null, NEW y,
         Parting(x, x.m.session[c], y), NEW h, h.obj = y.m.obj, h.live = y.m.live,
         h.online = y.m.online, h.offline = y.m.offline,
         h.session = [y.m.session EXCEPT ![c] = Null],
         h.tick \subseteq h.open, h.fresh \subseteq h.open, x.m.open \ {c} \subseteq h.open
  PROVE  Served(h)
<1>. DEFINE o == x.m.session[c]
            u == x.m.obj[o].uid
<1>1. /\ o \in Objs /\ o \in x.m.live /\ u \in Ids /\ u # Null /\ x.m.online[u] = o
      /\ x.m.obj[o].conn = c
  BY WhoIsConnected DEF Uid
<1>2. /\ x.m.online \in [Ids -> Objs \cup {Null}] /\ x.m.offline \in [Ids -> Objs \cup {Null}]
      /\ x.m.session \in [Conns -> Objs \cup {Null}] /\ x.m.live \subseteq Objs
  BY WorkTyped
<1>3. Online(x.m, u, o)  BY SMTT(60), <1>1 DEF Served
<1>4. /\ h.online = [x.m.online EXCEPT ![u] = Null]
      /\ h.session = [x.m.session EXCEPT ![c] = Null]
      /\ \A p \in Objs : p # o => /\ h.obj[p].uid = x.m.obj[p].uid
                                  /\ h.obj[p].conn = x.m.obj[p].conn
                                  /\ h.obj[p].online = x.m.obj[p].online
      /\ \/ h.live = x.m.live \ {o} /\ h.offline = [x.m.offline EXCEPT ![u] = Null]
         \/ /\ h.live = x.m.live /\ ~h.obj[o].online
            /\ h.offline = Insert(x.m.offline, u, o)
  BY SMTT(60) DEF Parting
<1>5. x.m.offline[u] = Null  BY <1>1, NullIsNone DEF Served, Offline
<1>. HIDE DEF o, u
<1>6. \A p \in x.m.live : p # o => p \in h.live  BY <1>4
<1>7. ASSUME NEW v \in Ids, h.online[v] # Null  PROVE Online(h, v, h.online[v])
  <2>1. v # u /\ h.online[v] = x.m.online[v]  BY <1>1, <1>2, <1>4, <1>7
  <2>. DEFINE p == x.m.online[v]
  <2>2. Online(x.m, v, p)  BY <1>7, <2>1 DEF Served
  <2>3. p # o  BY <1>3, <2>1, <2>2 DEF Online
  <2>4. x.m.obj[p].conn # c  BY <2>2, <2>3 DEF Online, o
  <2>5. p \in Objs  BY <1>2, <2>2 DEF Online
  <2>. HIDE DEF p
  <2>6. h.session[x.m.obj[p].conn] = x.m.session[x.m.obj[p].conn]
    <3>1. x.m.obj[p].conn \in Conns
      BY <2>2, <2>5, WorkTyped, PlayerTyped DEF Online
    <3>. QED  BY <1>2, <1>4, <2>4, <3>1
  <2>7. Online(h, v, p)  BY <1>4, <1>6, <2>2, <2>3, <2>5, <2>6 DEF Online
  <2>. QED  BY <2>1, <2>7 DEF p
<1>8. ASSUME NEW k \in Conns, h.session[k] # Null  PROVE Connected(h, k, h.session[k])
  <2>. DEFINE p == x.m.session[k]
  <2>1. k # c /\ h.session[k] = p  BY SMTT(60), <1>2, <1>4, <1>8
  <2>2. /\ p \in Objs /\ x.m.obj[p].uid \in Ids /\ x.m.online[x.m.obj[p].uid] = p
        /\ x.m.obj[p].conn = k /\ k \in x.m.open
    BY <1>8, <2>1, WhoIsConnected DEF Uid
  <2>. HIDE DEF p
  <2>3. p # o  BY <1>1, <2>1, <2>2
  <2>4. x.m.obj[p].uid # u  BY <1>1, <2>2, <2>3
  <2>5. k \in h.open  BY <2>1, <2>2
  <2>6. Connected(h, k, p)  BY <1>1, <1>2, <1>4, <2>2, <2>3, <2>4, <2>5 DEF Connected
  <2>. QED  BY <2>1, <2>6
<1>9. ASSUME NEW v \in Ids, h.offline[v] # Null  PROVE Offline(h, v, h.offline[v])
  <2>1. \A w \in Ids : x.m.offline[w] # Null => Offline(x.m, w, x.m.offline[w])  BY DEF Served
  <2>2. \A w \in Ids : x.m.offline[w] # o
    BY <1>1, <1>3, <2>1, NullIsNone DEF Offline, Online
  <2>3. \A w \in Ids : w # u => h.offline[w] = x.m.offline[w]
    BY <1>1, <1>2, <1>4 DEF Insert
  <2>4. h.offline[u] = Null \/ (h.offline[u] = o /\ h.live = x.m.live /\ ~h.obj[o].online)
    BY <1>1, <1>2, <1>4, <1>5 DEF Insert
  <2>5. CASE v = u
    <3>1. h.offline[v] = o /\ o \in h.live /\ ~h.obj[o].online  BY <1>1, <1>9, <2>4, <2>5
    <3>2. h.online[u] = Null  BY <1>1, <1>2, <1>4
    <3>3. \A w \in Ids : h.offline[w] = o => w = u  BY <2>2, <2>3
    <3>. QED  BY <1>1, <2>5, <3>1, <3>2, <3>3 DEF Offline
  <2>6. CASE v # u
    <3>. DEFINE p == x.m.offline[v]
    <3>1. h.offline[v] = p /\ p # Null /\ Offline(x.m, v, p)  BY <1>9, <2>1, <2>3, <2>6
    <3>2. p # o /\ p \in Objs /\ p \in h.live
      BY <1>2, <1>6, <2>2, <3>1 DEF Offline
    <3>. HIDE DEF p
    <3>3. h.online[v] = Null  BY <1>1, <1>2, <1>4, <2>6, <3>1 DEF Offline
    <3>4. \A w \in Ids : h.offline[w] = p => w = v
      BY <1>1, <2>3, <2>4, <3>1, <3>2 DEF Offline
    <3>5. Offline(h, v, p)  BY <1>4, <3>1, <3>2, <3>3, <3>4 DEF Offline
    <3>. QED  BY <3>1, <3>5
  <2>. QED  BY <2>5, <2>6
<1>. QED  BY <1>7, <1>8, <1>9 DEF Served

LEMMA HallGood ==
  ASSUME NEW e, NEW x, Good(e, x), NEW y \in Work, SameHall(x, y)
  PROVE  Good(e, y) /\ (Placed(x.m) => Placed(y.m)) /\ y.lost = x.lost
<1>1. Good(e, y)  BY SameTablesAlike, ChairsKept DEF SameHall
<1>2. Placed(x.m) => Placed(y.m)  BY PlacedInTables DEF SameHall, Good
<1>. QED  BY <1>1, <1>2 DEF SameHall, SameRest

LEMMA AbsentPlaced ==
  ASSUME NEW x \in Work, NEW o \in Objs, NEW n \in Tids, Placed(x.m)
  PROVE  Placed(Absent(x, o, n).m)
<1>. DEFINE y == Absent(x, o, n)
            t == x.m.table[n]
            mine == ChairsOf(x, n, x.m.obj[o].uid)
            v == IF mine = {} THEN t ELSE GoneOff(t, Min(mine))
<1>1. GoesOff(x, o, n, y)  BY AbsentDoes
<1>. HIDE DEF y
<1>2. x.m.table \in [Tids -> Table] /\ x.m.tables \subseteq Tids  BY WorkTyped
<1>3. mine # {} => Min(mine) \in Seat  BY ChairsOfAre
<1>4. y.m.table = [x.m.table EXCEPT ![n] = v] /\ y.m.tables = x.m.tables /\ y.m.at = x.m.at
  BY <1>1, <1>2 DEF GoesOff
<1>. HIDE DEF mine
<1>5. \A s \in Seat : v.chair[s].uid = t.chair[s].uid
  <2>1. CASE mine = {}  BY <2>1
  <2>2. CASE mine # {}
    <3>1. Alike(t, GoneOff(t, Min(mine)))  BY Zenon, <1>2, <1>3, <2>2, GoneOffAlike
    <3>2. v = GoneOff(t, Min(mine))  BY <2>2
    <3>. HIDE DEF t, v
    <3>. QED  BY <3>1, <3>2 DEF Alike
  <2>. QED  BY <2>1, <2>2
<1>. HIDE DEF v
<1>6. \A j \in x.m.tables, s \in Seat :
        x.m.table[j].chair[s].uid # Null =>
          y.m.table[j].chair[s].uid = x.m.table[j].chair[s].uid
  BY <1>2, <1>4, <1>5
<1>7. x.m.tables \subseteq y.m.tables /\ y.m.at = x.m.at  BY <1>4
<1>. HIDE DEF t
<1>8. Placed(y.m)  BY <1>6, <1>7, PlacedKept
<1>. QED  BY <1>8 DEF y

LEMMA PartingAfter ==
  ASSUME NEW x \in Work, NEW o \in Objs, NEW y, NEW z, Parting(y, o, z), y.lost = x.lost,
         y.m.session = x.m.session, y.m.online = x.m.online, y.m.offline = x.m.offline,
         y.m.live = x.m.live, y.m.obj[o].uid = x.m.obj[o].uid,
         \A p \in Objs : p # o => /\ y.m.obj[p].uid = x.m.obj[p].uid
                                  /\ y.m.obj[p].conn = x.m.obj[p].conn
                                  /\ y.m.obj[p].online = x.m.obj[p].online
  PROVE  Parting(x, o, z)
<1>. DEFINE u == x.m.obj[o].uid
<1>1. /\ z \in Work /\ z.lost = x.lost /\ z.m.session = x.m.session
      /\ z.m.online = [x.m.online EXCEPT ![u] = Null]
  BY DEF Parting
<1>2. \A p \in Objs : p # o => /\ z.m.obj[p].uid = x.m.obj[p].uid
                               /\ z.m.obj[p].conn = x.m.obj[p].conn
                               /\ z.m.obj[p].online = x.m.obj[p].online
  BY DEF Parting
<1>3. \/ z.m.live = x.m.live \ {o} /\ z.m.offline = [x.m.offline EXCEPT ![u] = Null]
      \/ /\ z.m.live = x.m.live /\ ~z.m.obj[o].online
         /\ z.m.offline = Insert(x.m.offline, u, o)
  <2>1. \/ z.m.live = y.m.live \ {o} /\ z.m.offline = [y.m.offline EXCEPT ![u] = Null]
        \/ /\ z.m.live = y.m.live /\ ~z.m.obj[o].online
           /\ z.m.offline = Insert(y.m.offline, u, o)
    BY DEF Parting
  <2>. QED  BY <2>1
<1>. QED  BY <1>1, <1>2, <1>3 DEF Parting

(* OnDisconnect, and what msg_Logout does after the room.                  *)
LEMMA OnDisconnectDoes ==
  ASSUME NEW e, NEW x, Good(e, x), Placed(x.m), NEW o \in Objs, x.m.online[Uid(x, o)] # Null
  PROVE  LET y == OnDisconnect(x, o) IN
         Parting(x, o, y) /\ SameConns(x.m, y.m) /\ Good(e, y) /\ Placed(y.m)
<1>. DEFINE n == x.m.obj[o].table
            obj == [x.m.obj EXCEPT ![o].online = FALSE, ![o].conn = Null]
            g == [x.m EXCEPT !.obj = obj]
            y == [x EXCEPT !.m = g]
            a == Absent(y, o, n)
            z == OnDisconnect(x, o)
<1>1. /\ x \in Work /\ x.m \in Memory /\ x.m.obj \in [Objs -> Player] /\ n \in Tids \cup {Null}
  BY WorkTyped, PlayerTyped DEF Good
<1>2. /\ obj \in [Objs -> Player] /\ obj[o].uid = x.m.obj[o].uid
      /\ \A p \in Objs : p # o => obj[p] = x.m.obj[p]
  BY ZenonT(60), <1>1 DEF Player
<1>3. z = IF n = Null THEN UserLogout(y, o) ELSE UserOffline(a, o)
  <2>1. y = [x EXCEPT !.m.obj[o].online = FALSE, !.m.obj[o].conn = Null]  BY Zenon
  <2>2. OnDisconnect(x, o) =
          LET v == [x EXCEPT !.m.obj[o].online = FALSE, !.m.obj[o].conn = Null] IN
          IF n = Null THEN UserLogout(v, o) ELSE UserOffline(Absent(v, o, n), o)
    BY DEF OnDisconnect
  <2>. HIDE DEF y, n
  <2>. QED  BY <2>1, <2>2 DEF a
<1>. HIDE DEF n, obj
<1>4. /\ g \in Memory /\ g.obj = obj /\ SameServer(x.m, g) /\ SameRoom(x.m, g)
      /\ SameTables(x.m, g)
  BY Zenon, <1>1, <1>2 DEF Memory, SameServer, SameRoom, SameTables
<1>. HIDE DEF g
<1>5. y \in Work /\ y.m = g /\ SameRest(x, y)  BY <1>1, <1>4 DEF Work, SameRest
<1>. HIDE DEF y, z
<1>6. SameHall(x, y)  BY <1>4, <1>5 DEF SameHall, SameConns, SameServer
<1>7. Good(e, y) /\ Placed(y.m) /\ y.lost = x.lost  BY <1>5, <1>6, HallGood
<1>8. y.m.online[Uid(y, o)] # Null  BY <1>2, <1>4, <1>5 DEF SameServer, Uid
<1>9. ASSUME NEW b, b \in Work, Good(e, b), Placed(b.m), SameServer(x.m, b.m), b.lost = x.lost,
             b.m.obj = obj, NEW w, Parting(b, o, w), SameHall(b, w)
      PROVE  Parting(x, o, w) /\ SameConns(x.m, w.m) /\ Good(e, w) /\ Placed(w.m)
  <2>1. Good(e, w) /\ Placed(w.m)  BY <1>9, HallGood DEF Parting
  <2>2. SameConns(x.m, w.m)  BY <1>9 DEF SameHall, SameConns, SameServer
  <2>3. Parting(x, o, w)  BY <1>1, <1>2, <1>9, PartingAfter DEF SameServer
  <2>. QED  BY <2>1, <2>2, <2>3
<1>10. CASE n = Null
  <2>1. Parting(y, o, z) /\ SameHall(y, z)  BY <1>3, <1>5, <1>8, <1>10, UserLogoutDoes
  <2>2. SameServer(x.m, y.m) /\ y.m.obj = obj  BY <1>4, <1>5
  <2>3. Parting(x, o, z) /\ SameConns(x.m, z.m) /\ Good(e, z) /\ Placed(z.m)
    BY <1>5, <1>7, <1>9, <2>1, <2>2
  <2>. QED  BY <2>3 DEF z
<1>11. CASE n # Null
  <2>1. n \in Tids  BY <1>1, <1>11
  <2>2. InRoom(e, y, a)  BY <1>7, <2>1, AbsentInRoom
  <2>3. GoesOff(y, o, n, a)  BY <1>5, <2>1, AbsentDoes
  <2>4. Placed(a.m)  BY <1>5, <1>7, <2>1, AbsentPlaced
  <2>. HIDE DEF a
  <2>5. Good(e, a) /\ a \in Work /\ a.lost = x.lost  BY <1>7, <2>2 DEF InRoom, Good
  <2>6. SameServer(x.m, a.m) /\ a.m.obj = obj
    BY <1>4, <1>5, <2>3 DEF GoesOff, SameServer
  <2>7. Parting(a, o, z) /\ SameHall(a, z)  BY <1>3, <1>11, <2>5, UserOfflineDoes
  <2>8. Parting(x, o, z) /\ SameConns(x.m, z.m) /\ Good(e, z) /\ Placed(z.m)
    BY <1>9, <2>4, <2>5, <2>6, <2>7
  <2>. QED  BY <2>8 DEF z
<1>. QED  BY <1>10, <1>11

(* What every handler keeps, apart from what it does.                      *)
Well(e, x) == Good(e, x) /\ Served(x.m) /\ Placed(x.m)

(* Nobody logs in: connections lead to no other players than before, and   *)
(* nobody is online who was not.                                           *)
Narrows(g, h) ==
  /\ \A u \in Ids : h.online[u] # Null => h.online[u] = g.online[u]
  /\ \A c \in Conns : h.session[c] # Null => h.session[c] = g.session[c]

(* Nobody else does.                                                       *)
OnlyComes(g, h, u) ==
  /\ \A v \in Ids \ {u} : h.online[v] = g.online[v]
  /\ \A c \in Conns : h.session[c] # Null => h.session[c] \in {g.session[c], h.online[u]}

LEMMA NarrowsOn ==
  ASSUME NEW f, NEW g, NEW h, Narrows(f, g), Narrows(g, h)
  PROVE  Narrows(f, h)
  BY DEF Narrows

LEMMA SameNarrows ==
  ASSUME NEW g, NEW h, h.online = g.online, h.session = g.session
  PROVE  Narrows(g, h)
  BY DEF Narrows

LEMMA SessionEnds ==
  ASSUME NEW x \in Work, Served(x.m), NEW c \in Conns, x.m.session[c] # Null, NEW z,
         Parting(x, x.m.session[c], z), NEW e, Good(e, z), Placed(z.m),
         z.m.tick \subseteq z.m.open, z.m.fresh \subseteq z.m.open,
         x.m.open \ {c} \subseteq z.m.open
  PROVE  LET w == [z EXCEPT !.m.session[c] = Null] IN
         Well(e, w) /\ w.lost = x.lost /\ Narrows(x.m, w.m)
<1>. DEFINE session == [z.m.session EXCEPT ![c] = Null]
            h == [z.m EXCEPT !.session = session]
            w == [z EXCEPT !.m = h]
<1>1. /\ z \in Work /\ z.m \in Memory /\ z.lost = x.lost
      /\ z.m.session \in [Conns -> Objs \cup {Null}]
  BY WorkTyped DEF Good, Parting
<1>2. session \in [Conns -> Objs \cup {Null}]  BY <1>1
<1>3. w = [z EXCEPT !.m.session[c] = Null]  OBVIOUS
<1>. HIDE DEF session
<1>4. /\ h \in Memory /\ h.session = session /\ h.obj = z.m.obj /\ h.live = z.m.live
      /\ h.online = z.m.online /\ h.offline = z.m.offline
      /\ h.open = z.m.open /\ h.fresh = z.m.fresh /\ h.tick = z.m.tick
      /\ SameRoom(z.m, h) /\ SameTables(z.m, h)
  BY <1>1, <1>2 DEF Memory, SameRoom, SameTables
<1>. HIDE DEF h, w
<1>5. w \in Work /\ w.m = h /\ SameRest(z, w)
  <2>1. w = [z EXCEPT !.m = h]  BY DEF w
  <2>. QED  BY <1>1, <1>4, <2>1 DEF Work, SameRest
<1>6. Good(e, w)  BY <1>4, <1>5, SameTablesAlike, ChairsKept
<1>7. Placed(w.m)  BY <1>1, <1>4, <1>5, PlacedInTables
<1>8. Served(h)
  <2>1. h.session = [z.m.session EXCEPT ![c] = Null]  BY <1>4 DEF session
  <2>. QED  BY Zenon, <1>4, <2>1, PartedServed
<1>9. Well(e, w) /\ w.lost = x.lost  BY <1>1, <1>5, <1>6, <1>7, <1>8 DEF Well, SameRest
<1>10. Narrows(x.m, w.m)
  <2>. DEFINE u == x.m.obj[x.m.session[c]].uid
  <2>1. /\ w.m.online = [x.m.online EXCEPT ![u] = Null]
        /\ w.m.session = [x.m.session EXCEPT ![c] = Null]
    BY <1>4, <1>5 DEF Parting, session
  <2>2. x.m.online \in [Ids -> Objs \cup {Null}] /\ x.m.session \in [Conns -> Objs \cup {Null}]
    BY WorkTyped
  <2>. HIDE DEF u, w
  <2>. QED  BY SMTT(60), <2>1, <2>2 DEF Narrows
<1>. QED  BY SMTT(60), <1>3, <1>9, <1>10

LEMMA CloseWell ==
  ASSUME NEW e, NEW x, Well(e, x), NEW c \in Conns
  PROVE  Well(e, Close(x, c)) /\ Close(x, c).lost = x.lost /\ Narrows(x.m, Close(x, c).m)
<1>. DEFINE o == x.m.session[c]
            g == [x.m EXCEPT !.open = x.m.open \ {c}, !.fresh = x.m.fresh \ {c},
                             !.tick = x.m.tick \ {c}]
            y == [x EXCEPT !.m = g]
            z == OnDisconnect(y, o)
            w == [z EXCEPT !.m.session[c] = Null]
<1>1. /\ x \in Work /\ x.m \in Memory /\ o \in Objs \cup {Null} /\ Good(e, x) /\ Served(x.m)
      /\ Placed(x.m) /\ x.m.open \subseteq Conns /\ x.m.session \in [Conns -> Objs \cup {Null}]
  BY WorkTyped DEF Good, Well
<1>2. Close(x, c) = IF o = Null THEN y ELSE w
  <2>1. y = [x EXCEPT !.m.open = @ \ {c}, !.m.fresh = @ \ {c}, !.m.tick = @ \ {c}]  BY Zenon
  <2>2. Close(x, c) =
          LET v == [x EXCEPT !.m.open = @ \ {c}, !.m.fresh = @ \ {c}, !.m.tick = @ \ {c}] IN
          IF o = Null THEN v ELSE [OnDisconnect(v, o) EXCEPT !.m.session[c] = Null]
    BY DEF Close
  <2>. HIDE DEF y, o
  <2>. QED  BY <2>1, <2>2 DEF w, z
<1>3. /\ g \in Memory /\ g.open = x.m.open \ {c} /\ g.fresh = x.m.fresh \ {c}
      /\ g.tick = x.m.tick \ {c} /\ g.session = x.m.session /\ g.online = x.m.online
      /\ g.offline = x.m.offline /\ g.live = x.m.live /\ g.obj = x.m.obj
      /\ SameRoom(x.m, g) /\ SameTables(x.m, g)
  BY Zenon, <1>1 DEF Memory, SameRoom, SameTables
<1>. HIDE DEF g
<1>4. y \in Work /\ y.m = g /\ SameRest(x, y)  BY <1>1, <1>3 DEF Work, SameRest
<1>. HIDE DEF y
<1>5. Good(e, y)  BY <1>1, <1>3, <1>4, SameTablesAlike, ChairsKept
<1>6. Placed(y.m)  BY <1>1, <1>3, <1>4, PlacedInTables
<1>7. g.tick \subseteq g.open /\ g.fresh \subseteq g.open  BY <1>1, <1>3 DEF Served
<1>. HIDE DEF o
<1>8. CASE o = Null
  <2>1. \A v \in Ids : g.online[v] # Null => Online(g, v, g.online[v])
    BY <1>1, <1>3 DEF Served, Online
  <2>2. \A v \in Ids : g.offline[v] # Null => Offline(g, v, g.offline[v])
    BY <1>1, <1>3 DEF Served, Offline
  <2>3. \A k \in Conns : g.session[k] # Null => Connected(g, k, g.session[k])
    BY <1>1, <1>3, <1>8 DEF Served, Connected, o
  <2>4. Served(g)  BY <1>7, <2>1, <2>2, <2>3 DEF Served
  <2>5. Narrows(x.m, g)  BY <1>3, SameNarrows
  <2>. QED  BY <1>2, <1>4, <1>5, <1>6, <1>8, <2>4, <2>5 DEF Well, SameRest
<1>9. CASE o # Null
  <2>1. o \in Objs /\ x.m.online[Uid(x, o)] # Null
    BY <1>1, <1>9, WhoIsConnected, NullIsNone DEF o
  <2>2. y.m.online[Uid(y, o)] # Null  BY <1>3, <1>4, <2>1 DEF Uid
  <2>3. Parting(y, o, z) /\ SameConns(y.m, z.m) /\ Good(e, z) /\ Placed(z.m)
    BY <1>5, <1>6, <2>1, <2>2, OnDisconnectDoes
  <2>. HIDE DEF z
  <2>4. Parting(x, o, z)
    BY <1>1, <1>3, <1>4, <2>1, <2>3, PartingAfter DEF SameRest
  <2>5. z.m.open = x.m.open \ {c} /\ z.m.tick \subseteq z.m.open /\ z.m.fresh \subseteq z.m.open
    BY <1>3, <1>4, <1>7, <2>3 DEF SameConns
  <2>6. x.m.session[c] = o  BY DEF o
  <2>7. Well(e, w) /\ w.lost = x.lost /\ Narrows(x.m, w.m)
    BY <1>1, <1>9, <2>3, <2>4, <2>5, <2>6, SessionEnds DEF w
  <2>. QED  BY <1>2, <1>9, <2>7
<1>. QED  BY <1>8, <1>9

-----------------------------------------------------------------------------
(***************************************************************************)
(* A player comes: known to the server or new, on a connection without a   *)
(* player.                                                                 *)
(***************************************************************************)
Takes(x, c, u, o, y) ==
  /\ y \in Work /\ SameHall(x, y) /\ y.m.session = x.m.session
  /\ y.m.live = x.m.live \cup {o}
  /\ y.m.online = [x.m.online EXCEPT ![u] = o]
  /\ y.m.offline = [x.m.offline EXCEPT ![u] = Null]
  /\ y.m.obj[o].uid = u /\ y.m.obj[o].conn = c /\ y.m.obj[o].online
  /\ y.m.obj[o].table = IF o \in x.m.live THEN x.m.obj[o].table ELSE Null
  /\ \A p \in Objs : p # o => y.m.obj[p] = x.m.obj[p]

LEMMA KnownTakes ==
  ASSUME NEW x \in Work, NEW c \in Conns, NEW u \in Ids, NEW o \in Objs, o \in x.m.live
  PROVE  LET entry == [x EXCEPT !.m.obj[o].conn = c, !.m.obj[o].online = TRUE,
                                !.m.obj[o].uid = u] IN
         Takes(x, c, u, o, [entry EXCEPT !.m.offline[u] = Null, !.m.online[u] = o])
<1>. DEFINE obj == [x.m.obj EXCEPT ![o].conn = c, ![o].online = TRUE, ![o].uid = u]
            off == [x.m.offline EXCEPT ![u] = Null]
            on == [x.m.online EXCEPT ![u] = o]
            g1 == [x.m EXCEPT !.obj = obj]
            x1 == [x EXCEPT !.m = g1]
            g2 == [g1 EXCEPT !.offline = off, !.online = on]
            x2 == [x1 EXCEPT !.m = g2]
            entry == [x EXCEPT !.m.obj[o].conn = c, !.m.obj[o].online = TRUE,
                               !.m.obj[o].uid = u]
<1>1. /\ x.m \in Memory /\ x.m.obj \in [Objs -> Player] /\ x.m.obj[o] \in Player
      /\ x.m.online \in [Ids -> Objs \cup {Null}] /\ x.m.offline \in [Ids -> Objs \cup {Null}]
  BY WorkTyped
<1>2. /\ obj \in [Objs -> Player] /\ obj[o].uid = u /\ obj[o].conn = c /\ obj[o].online = TRUE
      /\ obj[o].table = x.m.obj[o].table
      /\ \A q \in Objs : q # o => obj[q] = x.m.obj[q]
  BY Zenon, <1>1 DEF Player
<1>3. entry = x1
  <2>. DEFINE two == [x.m.obj EXCEPT ![o].conn = c, ![o].online = TRUE]
              h == [x.m EXCEPT !.obj = two]
              a == [x EXCEPT !.m = h]
  <2>1. a = [x EXCEPT !.m.obj[o].conn = c, !.m.obj[o].online = TRUE]  BY Zenon
  <2>2. entry = [[x EXCEPT !.m.obj[o].conn = c, !.m.obj[o].online = TRUE]
                   EXCEPT !.m.obj[o].uid = u]
    OBVIOUS
  <2>3. a.m = h /\ h.obj = two
    <3>. HIDE DEF two
    <3>. QED  BY <1>1 DEF Work, Memory
  <2>4. [two EXCEPT ![o].uid = u] = obj  OBVIOUS
  <2>5. [h EXCEPT !.obj = obj] = g1
    <3>. HIDE DEF two, obj
    <3>. QED  BY Zenon, <1>1 DEF Memory
  <2>6. [a EXCEPT !.m = g1] = x1
    <3>. HIDE DEF h, g1
    <3>. QED  BY Zenon DEF Work
  <2>. HIDE DEF a, h, two, obj, g1, x1, entry
  <2>7. [a EXCEPT !.m.obj[o].uid = u] = [a EXCEPT !.m = g1]
    <3>1. [a EXCEPT !.m.obj[o].uid = u] = [a EXCEPT !.m = [a.m EXCEPT !.obj =
             [a.m.obj EXCEPT ![o].uid = u]]]
      OBVIOUS
    <3>. QED  BY <2>3, <2>4, <2>5, <3>1
  <2>. QED  BY Zenon, <2>1, <2>2, <2>6, <2>7
<1>. HIDE DEF entry
<1>4. on \in [Ids -> Objs \cup {Null}] /\ off \in [Ids -> Objs \cup {Null}]
  BY <1>1
<1>. HIDE DEF obj, on, off
<1>5. /\ g1 \in Memory /\ g1.offline = x.m.offline /\ g1.online = x.m.online /\ g1.obj = obj
  BY Zenon, <1>1, <1>2 DEF Memory
<1>6. /\ g2 \in Memory /\ g2.obj = obj /\ g2.online = on /\ g2.offline = off
      /\ g2.session = x.m.session /\ g2.live = x.m.live
      /\ SameConns(x.m, g2) /\ SameRoom(x.m, g2) /\ SameTables(x.m, g2)
  BY Zenon, <1>1, <1>2, <1>4 DEF Memory, SameConns, SameRoom, SameTables
<1>. HIDE DEF g1, g2
<1>7. x1 \in Work /\ x1.m = g1 /\ SameRest(x, x1)  BY <1>5 DEF Work, SameRest
<1>8. [x1 EXCEPT !.m.offline[u] = Null, !.m.online[u] = o] = x2
  <2>. HIDE DEF x1
  <2>1. [g1 EXCEPT !.offline[u] = Null, !.online[u] = o] = g2
    BY Zenon, <1>5 DEF on, off, g2, Memory
  <2>. QED  BY Zenon, <1>7, <2>1 DEF Work
<1>. HIDE DEF x1
<1>9. x2 \in Work /\ x2.m = g2 /\ SameRest(x, x2)  BY <1>6, <1>7 DEF Work, SameRest
<1>. HIDE DEF x2
<1>10. Takes(x, c, u, o, x2)
  BY <1>2, <1>4, <1>6, <1>9 DEF Takes, SameHall, on, off
<1>. QED  BY Zenon, <1>3, <1>8, <1>10 DEF entry

LEMMA NewcomerTakes ==
  ASSUME NEW x \in Work, NEW c \in Conns, NEW u \in Ids, NEW o \in Objs,
         o \notin x.m.live, x.m.offline[u] = Null, x.lost # "info"
  PROVE  Takes(x, c, u, o, [NewPlayer(x, o, u, c, "info") EXCEPT !.m.online[u] = o])
<1>. DEFINE p == [uid |-> u, conn |-> c, online |-> c # Null, table |-> Null]
            obj == [x.m.obj EXCEPT ![o] = p]
            on == [x.m.online EXCEPT ![u] = o]
            g1 == [x.m EXCEPT !.live = x.m.live \cup {o}, !.obj = obj]
            x1 == [x EXCEPT !.m = g1]
            g2 == [g1 EXCEPT !.online = on]
            x2 == [x1 EXCEPT !.m = g2]
<1>1. /\ x.m \in Memory /\ x.m.obj \in [Objs -> Player]
      /\ x.m.online \in [Ids -> Objs \cup {Null}] /\ x.m.offline \in [Ids -> Objs \cup {Null}]
  BY WorkTyped
<1>2. /\ p \in Player /\ p.uid = u /\ p.conn = c /\ p.online = TRUE /\ p.table = Null
  BY Zenon, NullIsNone DEF Player
<1>3. NewPlayer(x, o, u, c, "info") = x1  BY Zenon DEF NewPlayer
<1>. HIDE DEF p
<1>4. /\ obj \in [Objs -> Player] /\ obj[o] = p /\ (\A q \in Objs : q # o => obj[q] = x.m.obj[q])
      /\ on \in [Ids -> Objs \cup {Null}]
  BY <1>1, <1>2
<1>5. x.m.offline = [x.m.offline EXCEPT ![u] = Null]  BY <1>1
<1>. HIDE DEF obj, on
<1>6. g1 \in Memory /\ g1.online = x.m.online  BY Zenon, <1>1, <1>4 DEF Memory
<1>7. /\ g2 \in Memory /\ g2.obj = obj /\ g2.online = on /\ g2.offline = x.m.offline
      /\ g2.session = x.m.session /\ g2.live = x.m.live \cup {o}
      /\ SameConns(x.m, g2) /\ SameRoom(x.m, g2) /\ SameTables(x.m, g2)
  BY ZenonT(60), <1>1, <1>4 DEF Memory, SameConns, SameRoom, SameTables
<1>. HIDE DEF g1, g2
<1>8. x1 \in Work /\ x1.m = g1 /\ SameRest(x, x1)  BY <1>6 DEF Work, SameRest
<1>9. [x1 EXCEPT !.m.online[u] = o] = x2
  <2>. HIDE DEF x1
  <2>. QED  BY <1>6, <1>8 DEF on, g2
<1>. HIDE DEF x1
<1>10. x2 \in Work /\ x2.m = g2 /\ SameRest(x, x2)  BY <1>7, <1>8 DEF Work, SameRest
<1>. HIDE DEF x2
<1>11. Takes(x, c, u, o, x2)
  BY <1>2, <1>4, <1>5, <1>7, <1>10 DEF Takes, SameHall, on
<1>. QED  BY <1>3, <1>9, <1>11

(* No connection is left to the player who comes.                          *)
Kicked(x, o, y) ==
  /\ y \in Work /\ SameRest(x, y) /\ SameRoom(x.m, y.m) /\ SameTables(x.m, y.m)
  /\ y.m.open = x.m.open /\ y.m.fresh = x.m.fresh /\ y.m.tick \subseteq y.m.open
  /\ y.m.online = x.m.online /\ y.m.offline = x.m.offline
  /\ y.m.live = x.m.live /\ y.m.obj = x.m.obj
  /\ \A k \in Conns :
       y.m.session[k] = IF x.m.session[k] = o THEN Null ELSE x.m.session[k]

LEMMA KickOutDoes ==
  ASSUME NEW x \in Work, Served(x.m), NEW o \in Objs, x.m.online[Uid(x, o)] = o
  PROVE  Kicked(x, o, KickOut(x, o))
<1>. DEFINE k == x.m.obj[o].conn
            session == [x.m.session EXCEPT ![k] = Null]
            g == [x.m EXCEPT !.session = session, !.tick = x.m.tick \cup {k}]
            y == [x EXCEPT !.m = g]
<1>1. /\ x.m \in Memory /\ x.m.session \in [Conns -> Objs \cup {Null}] /\ x.m.obj[o] \in Player
      /\ x.m.tick \subseteq Conns
  BY WorkTyped
<1>2. Online(x.m, Uid(x, o), o)  BY <1>1, PlayerTyped, NullIsNone DEF Served, Uid
<1>3. k \in Conns /\ k # Null /\ x.m.session[k] = o
  BY <1>1, <1>2, PlayerTyped DEF Online
<1>4. k \in x.m.open /\ \A j \in Conns : x.m.session[j] = o => j = k
  BY <1>3, NullIsNone DEF Served, Connected
<1>5. KickOut(x, o) = y  BY Zenon, <1>3 DEF KickOut
<1>. HIDE DEF k
<1>6. session \in [Conns -> Objs \cup {Null}]  BY Zenon, <1>1
<1>7. \A j \in Conns : session[j] = IF x.m.session[j] = o THEN Null ELSE x.m.session[j]
  BY <1>1, <1>3, <1>4
<1>. HIDE DEF session
<1>8. /\ g \in Memory /\ g.session = session /\ g.tick = x.m.tick \cup {k}
      /\ g.open = x.m.open /\ g.fresh = x.m.fresh /\ g.online = x.m.online
      /\ g.offline = x.m.offline /\ g.live = x.m.live /\ g.obj = x.m.obj
      /\ SameRoom(x.m, g) /\ SameTables(x.m, g)
  BY Zenon, <1>1, <1>3, <1>6 DEF Memory, SameRoom, SameTables
<1>. HIDE DEF g
<1>9. y \in Work /\ y.m = g /\ SameRest(x, y)  BY <1>8 DEF Work, SameRest
<1>. HIDE DEF y
<1>10. x.m.tick \cup {k} \subseteq x.m.open  BY <1>4 DEF Served
<1>. QED  BY <1>5, <1>7, <1>8, <1>9, <1>10 DEF Kicked

LEMMA NobodyKicked ==
  ASSUME NEW x \in Work, Served(x.m), NEW o \in Objs, \A k \in Conns : x.m.session[k] # o
  PROVE  Kicked(x, o, x)
  BY DEF Kicked, SameRest, SameRoom, SameTables, Served

(* Who logs in: the player who is online, offline, or not there.           *)
WhoLogsIn(x, u, o) ==
  \/ x.m.online[u] = o
  \/ x.m.online[u] = Null /\ x.m.offline[u] = o
  \/ x.m.online[u] = Null /\ x.m.offline[u] = Null /\ o \notin x.m.live

LEMMA LoginTakes ==
  ASSUME NEW x \in Work, Served(x.m), NEW c \in Conns, NEW u \in Users,
         x.lost # "info", Objs \ x.m.live # {}
  PROVE  \E o \in Objs : \E k : /\ WhoLogsIn(x, u, o) /\ Kicked(x, o, k)
                                /\ Takes(k, c, u, o, Login(x, c, u))
<1>. DEFINE y == Login(x, c, u)
            on == x.m.online[u]
            off == x.m.offline[u]
            Entry(k, o) == [k EXCEPT !.m.obj[o].conn = c, !.m.obj[o].online = TRUE,
                                     !.m.obj[o].uid = u]
            Known(k, o) == [Entry(k, o) EXCEPT !.m.offline[u] = Null, !.m.online[u] = o]
<1>1. /\ u \in Ids /\ u # Null /\ on \in Objs \cup {Null} /\ off \in Objs \cup {Null}
      /\ x.m.obj \in [Objs -> Player] /\ x.m.live \subseteq Objs
      /\ x.m.session \in [Conns -> Objs \cup {Null}]
  BY WorkTyped, NullIsNone
<1>2. \A p \in Objs, k \in Conns : x.m.session[k] = p =>
        x.m.online[Uid(x, p)] = p /\ p \in x.m.live /\ x.m.obj[p].online
  <2>. SUFFICES ASSUME NEW k \in Conns, x.m.session[k] \in Objs
                PROVE  LET p == x.m.session[k] IN
                       x.m.online[Uid(x, p)] = p /\ p \in x.m.live /\ x.m.obj[p].online
    OBVIOUS
  <2>. DEFINE p == x.m.session[k]
  <2>1. p \in x.m.live /\ Uid(x, p) \in Ids /\ x.m.online[Uid(x, p)] = p /\ p # Null
    BY NullIsNone, WhoIsConnected
  <2>. HIDE DEF p
  <2>2. Online(x.m, Uid(x, p), p)  BY <2>1 DEF Served
  <2>. QED  BY <2>1, <2>2 DEF Online, p
<1>3. CASE on # Null
  <2>. DEFINE k == KickOut(x, on)
  <2>1. Online(x.m, u, on) /\ on \in Objs  BY <1>1, <1>3 DEF Served
  <2>2. Uid(x, on) = u /\ on \in x.m.live  BY <2>1 DEF Online, Uid
  <2>3. Kicked(x, on, k)  BY <2>1, <2>2, KickOutDoes
  <2>4. y = Known(k, on)
    <3>1. LoginObj(x, u) = on  BY <1>3 DEF LoginObj
    <3>. QED  BY Zenon, <1>3, <3>1 DEF Login
  <2>. HIDE DEF k
  <2>5. k \in Work /\ on \in k.m.live  BY <2>2, <2>3 DEF Kicked
  <2>6. Takes(k, c, u, on, Known(k, on))  BY Zenon, <1>1, <2>1, <2>5, KnownTakes
  <2>7. WhoLogsIn(x, u, on)  BY DEF WhoLogsIn
  <2>. HIDE DEF y, Known
  <2>8. Takes(k, c, u, on, y)  BY <2>4, <2>6
  <2>. QED  BY <2>1, <2>3, <2>7, <2>8 DEF y
<1>4. CASE on = Null /\ off # Null
  <2>1. Offline(x.m, u, off) /\ off \in Objs  BY <1>1, <1>4 DEF Served
  <2>2. off \in x.m.live /\ \A k \in Conns : x.m.session[k] # off
    BY <1>2, <2>1 DEF Offline
  <2>3. Kicked(x, off, x)  BY <2>1, <2>2, NobodyKicked
  <2>4. y = Known(x, off)
    <3>1. LoginObj(x, u) = off  BY <1>4 DEF LoginObj
    <3>. QED  BY Zenon, <1>4, <3>1 DEF Login
  <2>5. Takes(x, c, u, off, Known(x, off))  BY Zenon, <1>1, <2>1, <2>2, KnownTakes
  <2>6. WhoLogsIn(x, u, off)  BY <1>4 DEF WhoLogsIn
  <2>. HIDE DEF y, Known
  <2>7. Takes(x, c, u, off, y)  BY <2>4, <2>5
  <2>. QED  BY <2>1, <2>3, <2>6, <2>7 DEF y
<1>5. CASE on = Null /\ off = Null
  <2>. DEFINE o == FreeObj(x)
  <2>1. o \in Objs /\ o \notin x.m.live
    <3>1. Objs \ x.m.live \in SUBSET Nat  BY Zenon, NullIsNone
    <3>2. Min(Objs \ x.m.live) \in Objs \ x.m.live  BY <3>1, LeastThere
    <3>. QED  BY <3>2 DEF FreeObj
  <2>2. \A k \in Conns : x.m.session[k] # o  BY <1>2, <2>1
  <2>3. Kicked(x, o, x)  BY <2>1, <2>2, NobodyKicked
  <2>4. y = [NewPlayer(x, o, u, c, "info") EXCEPT !.m.online[u] = o]
    <3>1. LoginObj(x, u) = o  BY <1>5 DEF LoginObj
    <3>. QED  BY <1>5, <3>1 DEF Login
  <2>. HIDE DEF o
  <2>5. Takes(x, c, u, o, [NewPlayer(x, o, u, c, "info") EXCEPT !.m.online[u] = o])
    BY <1>1, <1>5, <2>1, NewcomerTakes
  <2>6. WhoLogsIn(x, u, o)  BY <1>5, <2>1 DEF WhoLogsIn
  <2>. HIDE DEF y
  <2>7. Takes(x, c, u, o, y)  BY <2>4, <2>5
  <2>. QED  BY <2>1, <2>3, <2>6, <2>7 DEF y
<1>. QED  BY <1>3, <1>4, <1>5

(* The connection is his, and the timer of a stranger ends.                *)
SessionOf(y, c, o) == [y EXCEPT !.m.fresh = @ \ {c}, !.m.session = Insert(@, c, o)]

LogsIn(x, c, u, o, z) ==
  /\ z \in Work /\ SameRest(x, z) /\ SameRoom(x.m, z.m) /\ SameTables(x.m, z.m)
  /\ z.m.open = x.m.open /\ z.m.fresh \subseteq x.m.fresh /\ z.m.tick \subseteq z.m.open
  /\ z.m.live = x.m.live \cup {o}
  /\ z.m.online = [x.m.online EXCEPT ![u] = o]
  /\ z.m.offline = [x.m.offline EXCEPT ![u] = Null]
  /\ z.m.obj[o].uid = u /\ z.m.obj[o].conn = c /\ z.m.obj[o].online
  /\ z.m.obj[o].table = IF o \in x.m.live THEN x.m.obj[o].table ELSE Null
  /\ \A p \in Objs : p # o => z.m.obj[p] = x.m.obj[p]
  /\ \A k \in Conns : z.m.session[k] =
       IF k = c THEN o ELSE IF x.m.session[k] = o THEN Null ELSE x.m.session[k]

LEMMA SessionOfLogsIn ==
  ASSUME NEW x \in Work, NEW c \in Conns, x.m.session[c] = Null, NEW u \in Users,
         NEW o \in Objs, NEW k, Kicked(x, o, k), NEW y, Takes(k, c, u, o, y)
  PROVE  LogsIn(x, c, u, o, SessionOf(y, c, o)) /\ y.m.online[u] = o
<1>. DEFINE session == Insert(y.m.session, c, o)
            g == [y.m EXCEPT !.fresh = y.m.fresh \ {c}, !.session = session]
            z == [y EXCEPT !.m = g]
<1>1. /\ y \in Work /\ SameHall(k, y) /\ y.m.session = k.m.session
      /\ y.m.live = x.m.live \cup {o}
      /\ y.m.online = [x.m.online EXCEPT ![u] = o]
      /\ y.m.offline = [x.m.offline EXCEPT ![u] = Null]
      /\ y.m.obj[o].uid = u /\ y.m.obj[o].conn = c /\ y.m.obj[o].online
      /\ y.m.obj[o].table = IF o \in x.m.live THEN x.m.obj[o].table ELSE Null
      /\ \A p \in Objs : p # o => y.m.obj[p] = x.m.obj[p]
      /\ SameRest(x, y) /\ SameRoom(x.m, y.m) /\ SameTables(x.m, y.m)
      /\ y.m.open = x.m.open /\ y.m.fresh = x.m.fresh /\ y.m.tick \subseteq y.m.open
  BY DEF Takes, Kicked, SameHall, SameRest, SameRoom, SameTables, SameConns
<1>2. /\ y.m \in Memory /\ y.m.session \in [Conns -> Objs \cup {Null}]
      /\ x.m.online \in [Ids -> Objs \cup {Null}] /\ u \in Ids /\ o # Null
      /\ y.m.fresh \subseteq Conns
  BY <1>1, WorkTyped, NullIsNone
<1>3. \A j \in Conns : y.m.session[j] = IF x.m.session[j] = o THEN Null ELSE x.m.session[j]
  BY <1>1 DEF Kicked
<1>4. session \in [Conns -> Objs \cup {Null}]
      /\ \A j \in Conns : session[j] =
           IF j = c THEN o ELSE IF x.m.session[j] = o THEN Null ELSE x.m.session[j]
  BY <1>2, <1>3 DEF Insert
<1>5. SessionOf(y, c, o) = z  BY Zenon DEF SessionOf
<1>. HIDE DEF session
<1>6. /\ g \in Memory /\ g.session = session /\ g.fresh = y.m.fresh \ {c}
      /\ g.open = y.m.open /\ g.tick = y.m.tick /\ g.live = y.m.live
      /\ g.online = y.m.online /\ g.offline = y.m.offline /\ g.obj = y.m.obj
      /\ SameRoom(y.m, g) /\ SameTables(y.m, g)
  BY Zenon, <1>2, <1>4 DEF Memory, SameRoom, SameTables
<1>. HIDE DEF g
<1>7. z \in Work /\ z.m = g /\ SameRest(y, z)  BY <1>1, <1>6 DEF Work, SameRest
<1>. HIDE DEF z
<1>8. SameRest(x, z) /\ SameRoom(x.m, z.m) /\ SameTables(x.m, z.m)
  BY <1>1, <1>6, <1>7 DEF SameRest, SameRoom, SameTables
<1>9. LogsIn(x, c, u, o, z)  BY <1>1, <1>4, <1>6, <1>7, <1>8 DEF LogsIn
<1>10. y.m.online[u] = o  BY <1>1, <1>2
<1>. QED  BY <1>5, <1>9, <1>10

LEMMA LogsInServed ==
  ASSUME NEW x \in Work, Served(x.m), NEW c \in Conns, c \in x.m.open, x.m.session[c] = Null,
         NEW u \in Users, NEW o \in Objs, WhoLogsIn(x, u, o), NEW z, LogsIn(x, c, u, o, z)
  PROVE  Served(z.m)
<1>1. /\ x.m.online \in [Ids -> Objs \cup {Null}] /\ x.m.offline \in [Ids -> Objs \cup {Null}]
      /\ x.m.session \in [Conns -> Objs \cup {Null}] /\ x.m.live \subseteq Objs
      /\ x.m.obj \in [Objs -> Player] /\ u \in Ids /\ u # Null /\ o # Null /\ c # Null
  BY WorkTyped, NullIsNone
<1>2. /\ z.m.open = x.m.open /\ z.m.fresh \subseteq x.m.fresh /\ z.m.tick \subseteq z.m.open
      /\ z.m.live = x.m.live \cup {o}
      /\ z.m.obj[o].uid = u /\ z.m.obj[o].conn = c /\ z.m.obj[o].online
      /\ \A p \in Objs : p # o => z.m.obj[p] = x.m.obj[p]
      /\ \A k \in Conns : z.m.session[k] =
           IF k = c THEN o ELSE IF x.m.session[k] = o THEN Null ELSE x.m.session[k]
  BY DEF LogsIn
<1>3. \A v \in Ids : /\ z.m.online[v] = IF v = u THEN o ELSE x.m.online[v]
                     /\ z.m.offline[v] = IF v = u THEN Null ELSE x.m.offline[v]
  BY <1>1 DEF LogsIn
<1>4. /\ \A v \in Ids : x.m.online[v] # Null => Online(x.m, v, x.m.online[v])
      /\ \A v \in Ids : x.m.offline[v] # Null => Offline(x.m, v, x.m.offline[v])
      /\ x.m.tick \subseteq x.m.open /\ x.m.fresh \subseteq x.m.open
  BY DEF Served
<1>5. \A v \in Ids : v # u => x.m.online[v] # o /\ x.m.offline[v] # o
  <2>. SUFFICES ASSUME NEW v \in Ids, v # u  PROVE x.m.online[v] # o /\ x.m.offline[v] # o
    OBVIOUS
  <2>1. x.m.online[v] = o => Online(x.m, v, o)  BY <1>1, <1>4
  <2>2. x.m.offline[v] = o => Offline(x.m, v, o)  BY <1>1, <1>4
  <2>3. CASE x.m.online[u] = o
    <3>1. Online(x.m, u, o)  BY <1>1, <1>4, <2>3
    <3>. QED  BY <2>1, <2>2, <3>1 DEF Online, Offline
  <2>4. CASE x.m.offline[u] = o
    <3>1. Offline(x.m, u, o)  BY <1>1, <1>4, <2>4
    <3>. QED  BY <2>1, <2>2, <3>1 DEF Online, Offline
  <2>5. CASE o \notin x.m.live  BY <2>1, <2>2, <2>5 DEF Online, Offline
  <2>. QED  BY <2>3, <2>4, <2>5 DEF WhoLogsIn
<1>6. ASSUME NEW v \in Ids, z.m.online[v] # Null  PROVE Online(z.m, v, z.m.online[v])
  <2>1. CASE v = u  BY <1>1, <1>2, <1>3, <2>1 DEF Online
  <2>2. CASE v # u
    <3>. DEFINE p == x.m.online[v]
                k == x.m.obj[p].conn
    <3>1. z.m.online[v] = p /\ p # o /\ Online(x.m, v, p) /\ p \in Objs
      BY <1>1, <1>3, <1>4, <1>5, <1>6, <2>2
    <3>. HIDE DEF p
    <3>2. k \in Conns /\ x.m.session[k] = p /\ k # c
      BY <1>1, <3>1, PlayerTyped, NullIsNone DEF Online
    <3>3. z.m.session[k] = p  BY <1>2, <3>1, <3>2
    <3>4. Online(z.m, v, p)  BY <1>2, <3>1, <3>3 DEF Online
    <3>. QED  BY <3>1, <3>4
  <2>. QED  BY <2>1, <2>2
<1>7. ASSUME NEW v \in Ids, z.m.offline[v] # Null  PROVE Offline(z.m, v, z.m.offline[v])
  <2>. DEFINE p == x.m.offline[v]
  <2>1. z.m.offline[v] = p /\ p # o /\ v # u /\ Offline(x.m, v, p) /\ p \in Objs /\ p # Null
    BY <1>1, <1>3, <1>4, <1>5, <1>7
  <2>. HIDE DEF p
  <2>2. z.m.online[v] = Null  BY <1>3, <2>1 DEF Offline
  <2>3. \A w \in Ids : z.m.offline[w] = p => w = v  BY <1>3, <2>1 DEF Offline
  <2>4. Offline(z.m, v, p)  BY <1>2, <2>1, <2>2, <2>3 DEF Offline
  <2>. QED  BY <2>1, <2>4
<1>8. ASSUME NEW k \in Conns, z.m.session[k] # Null  PROVE Connected(z.m, k, z.m.session[k])
  <2>1. CASE k = c  BY <1>1, <1>2, <1>3, <2>1 DEF Connected
  <2>2. CASE k # c
    <3>. DEFINE p == x.m.session[k]
                v == x.m.obj[p].uid
    <3>1. z.m.session[k] = p /\ p # o /\ p # Null  BY <1>2, <1>8, <2>2
    <3>2. /\ p \in Objs /\ v \in Ids /\ x.m.online[v] = p /\ x.m.obj[p].conn = k
          /\ k \in x.m.open
      BY <3>1, WhoIsConnected DEF Uid
    <3>. HIDE DEF p
    <3>3. v # u
      <4>. SUFFICES ASSUME v = u  PROVE FALSE  OBVIOUS
      <4>1. x.m.online[u] = p  BY <3>2
      <4>. QED  BY <3>1, <4>1 DEF WhoLogsIn
    <3>4. z.m.obj[p] = x.m.obj[p]  BY <1>2, <3>1, <3>2
    <3>5. Connected(z.m, k, p)  BY <1>2, <1>3, <3>2, <3>3, <3>4 DEF Connected
    <3>. QED  BY <3>1, <3>5
  <2>. QED  BY <2>1, <2>2
<1>. QED  BY <1>2, <1>4, <1>6, <1>7, <1>8 DEF Served

LEMMA LogsInSpare ==
  ASSUME NEW x \in Work, NEW c \in Conns, NEW u \in Users, NEW o \in Objs,
         NEW z, LogsIn(x, c, u, o, z),
         Cardinality(x.m.live) + Cardinality(Users) <= Cardinality(Objs)
  PROVE  Spare(z.m)
<1>. DEFINE A == Absentees(z.m)
            U == Users \ {u}
<1>1. /\ IsFiniteSet(Users) /\ IsFiniteSet(x.m.live) /\ IsFiniteSet(Objs) /\ u \in Ids /\ o # Null
      /\ x.m.online \in [Ids -> Objs \cup {Null}]
  <2>1. x.m.live \subseteq Objs /\ IsFiniteSet(Objs) /\ IsFiniteSet(Users)
    BY WorkTyped, NamesAssumption
  <2>. QED  BY <2>1, FS_Subset, WorkTyped, NullIsNone
<1>2. IsFiniteSet(U) /\ Cardinality(U) = Cardinality(Users) - 1  BY Zenon, <1>1, FS_RemoveElement
<1>3. A \subseteq U
  <2>1. z.m.online[u] = o  BY <1>1 DEF LogsIn
  <2>. QED  BY <1>1, <2>1 DEF Absentees
<1>4. IsFiniteSet(A) /\ Cardinality(A) <= Cardinality(U)  BY <1>2, <1>3, FS_Subset
<1>5. Cardinality(x.m.live \cup {o}) <= Cardinality(x.m.live) + 1
      /\ Cardinality(x.m.live \cup {o}) \in Nat
  <2>1. IsFiniteSet(x.m.live \cup {o})
        /\ Cardinality(x.m.live \cup {o}) =
             IF o \in x.m.live THEN Cardinality(x.m.live) ELSE Cardinality(x.m.live) + 1
    BY Zenon, <1>1, FS_AddElement
  <2>2. Cardinality(x.m.live) \in Nat /\ Cardinality(x.m.live \cup {o}) \in Nat
    BY <1>1, <2>1, FS_CardinalityType
  <2>. QED  BY <2>1, <2>2
<1>6. /\ Cardinality(A) \in Nat /\ Cardinality(U) \in Nat /\ Cardinality(Users) \in Nat
      /\ Cardinality(x.m.live) \in Nat /\ Cardinality(Objs) \in Nat
  BY <1>1, <1>2, <1>4, FS_CardinalityType
<1>. HIDE DEF A, U
<1>7. Cardinality(x.m.live \cup {o}) + Cardinality(A) <= Cardinality(Objs)
  BY <1>2, <1>4, <1>5, <1>6
<1>. QED  BY <1>7 DEF Spare, A, LogsIn
LEMMA LoggedInWell ==
  ASSUME NEW e, NEW x, Well(e, x), NEW c \in Conns, c \in x.m.open, x.m.session[c] = Null,
         NEW u \in Users, x.lost \notin {"info", "row"}, roomType \in {0, 1},
         Cardinality(x.m.live) + Cardinality(Users) <= Cardinality(Objs),
         NEW room \in Tids \cup {Null}, NEW rich
  PROVE  LET y == LoggedIn(x, c, u, room, RoomSize, rich) IN
         Well(e, y) /\ y.lost = x.lost /\ OnlyComes(x.m, y.m, u)
<1>. DEFINE y == Login(x, c, u)
            n == Wanted(x, u, room)
            w == LoggedIn(x, c, u, room, RoomSize, rich)
<1>1. x \in Work /\ Good(e, x) /\ Served(x.m) /\ Placed(x.m)  BY DEF Well, Good
<1>2. Objs \ x.m.live # {}
  <2>1. /\ IsFiniteSet(Users) /\ IsFiniteSet(Objs) /\ x.m.live \subseteq Objs
    BY <1>1, WorkTyped, NamesAssumption
  <2>2. Cardinality(Users) \in Nat /\ Cardinality(Users) # 0
    BY <2>1, FS_CardinalityType, FS_EmptySet
  <2>3. Cardinality(Objs) \in Nat  BY <2>1, FS_CardinalityType
  <2>4. x.m.live # Objs  BY <2>2, <2>3
  <2>. QED  BY Zenon, <2>1, <2>4
<1>3. PICK o \in Objs : \E k : WhoLogsIn(x, u, o) /\ Kicked(x, o, k) /\ Takes(k, c, u, o, y)
  BY <1>1, <1>2, LoginTakes
<1>4. PICK k : WhoLogsIn(x, u, o) /\ Kicked(x, o, k) /\ Takes(k, c, u, o, y)  BY <1>3
<1>. DEFINE z == SessionOf(y, c, o)
<1>5. w = EnterRoom(SessionOf(y, c, y.m.online[u]), y.m.online[u], n, Null, RoomSize, rich)
  BY Zenon DEF LoggedIn, SessionOf, w, y, n
<1>6. n \in Tids \cup {Null}
  BY <1>1, WorkTyped, NullIsNone DEF Wanted
<1>. HIDE DEF n, y, w
<1>7. /\ LogsIn(x, c, u, o, z) /\ y.m.online[u] = o
      /\ w = EnterRoom(z, o, n, Null, RoomSize, rich)
  BY <1>1, <1>4, <1>5, SessionOfLogsIn
<1>. HIDE DEF z
<1>8. z \in Work /\ SameRest(x, z) /\ SameRoom(x.m, z.m) /\ SameTables(x.m, z.m)
      /\ Uid(z, o) = u /\ o \in z.m.live
  BY <1>7 DEF LogsIn, Uid
<1>9. Good(e, z)  BY <1>1, <1>8, SameTablesAlike, ChairsKept
<1>10. Placed(z.m)  BY <1>1, <1>8, PlacedInTables
<1>11. Served(z.m)  BY <1>1, <1>4, <1>7, LogsInServed
<1>12. Spare(z.m)  BY <1>1, <1>7, LogsInSpare
<1>13. z.lost # "row" /\ z.lost = x.lost /\ u # Null  BY <1>8, NullIsNone DEF SameRest
<1>14. Settles(e, z, EnterRoom(z, o, n, Null, RoomSize, rich))
  BY <1>6, <1>8, <1>9, <1>10, <1>11, <1>12, <1>13, EnterRoomSettles
<1>15. Well(e, w) /\ w.lost = x.lost
  BY <1>7, <1>13, <1>14 DEF Settles, Grows, Well
<1>16. OnlyComes(x.m, w.m, u)
  <2>1. w.m.online = z.m.online /\ w.m.session = z.m.session
    BY <1>7, <1>14 DEF Settles, Grows, SameNet
  <2>2. /\ z.m.online = [x.m.online EXCEPT ![u] = o]
        /\ \A j \in Conns : z.m.session[j] =
             IF j = c THEN o ELSE IF x.m.session[j] = o THEN Null ELSE x.m.session[j]
    BY <1>7 DEF LogsIn
  <2>3. x.m.online \in [Ids -> Objs \cup {Null}] /\ u \in Ids  BY <1>1, WorkTyped, NullIsNone
  <2>. QED  BY <2>1, <2>2, <2>3 DEF OnlyComes
<1>. QED  BY <1>15, <1>16 DEF w

-----------------------------------------------------------------------------
(***************************************************************************)
(* Who gets up leaves the table he is known to be at.                      *)
(***************************************************************************)
LEMMA LeaveTablePlaced ==
  ASSUME NEW e, NEW x, Good(e, x), Placed(x.m), NEW o \in Objs, NEW n \in x.m.tables,
         NEW s \in Seat, x.m.table[n].chair[s].uid # Null, roomType \in {0, 1},
         roomType = 1 => x.m.table[n].chair[s].uid = Uid(x, o)
  PROVE  Placed(LeaveTable(x, o, n, s).m)
<1>. DEFINE y == LeaveTable(x, o, n, s)
            t == x.m.table[n]
            v == Emptied(t, s)
            u == x.m.obj[o].uid
            last == t.amount = 1
<1>1. /\ x \in Work /\ n \in Tids /\ t \in Table /\ TableWell(t) /\ Mirrors(t, x.db.row[n])
      /\ RowWell(x.db.row[n]) /\ x.m.table \in [Tids -> Table] /\ x.m.tables \subseteq Tids
      /\ x.m.at \in [Ids -> Tids \cup {Null}] /\ u \in Ids
  BY WorkTyped, PlayerTyped DEF Good, Rooms, RowsWell
<1>2. /\ v \in Table /\ TableWell(v) /\ t.amount # 0 /\ v.amount = t.amount - 1
      /\ \A q \in Seat : v.chair[q] = IF q = s THEN FreeChair ELSE t.chair[q]
  BY <1>1, EmptiedWell
<1>3. Leaves(x, o, n, s, y)  BY <1>1, <1>2, LeaveTableDoes
<1>. HIDE DEF y
<1>4. /\ y.m.table = [x.m.table EXCEPT ![n] = v] /\ y.m.at = [x.m.at EXCEPT ![u] = Null]
      /\ y.m.tables = IF last /\ roomType = 1 THEN x.m.tables \ {n} ELSE x.m.tables
  BY SMTT(60), <1>3 DEF Leaves
<1>. HIDE DEF v, t, u, last
<1>5. ASSUME NEW k \in Users, y.m.at[k] # Null
      PROVE  /\ y.m.at[k] \in y.m.tables
             /\ roomType = 1 => \E q \in Seat : y.m.table[y.m.at[k]].chair[q].uid = k
  <2>. DEFINE j == x.m.at[k]
  <2>1. k # u /\ y.m.at[k] = j /\ k # Null  BY <1>1, <1>4, <1>5, NullIsNone
  <2>2. /\ j \in x.m.tables
        /\ roomType = 1 => \E q \in Seat : x.m.table[j].chair[q].uid = k
    BY <1>5, <2>1 DEF Placed
  <2>. HIDE DEF j
  <2>3. CASE j # n
    BY <1>1, <1>4, <2>1, <2>2, <2>3
  <2>4. CASE j = n /\ roomType = 0
    BY <1>4, <2>1, <2>2, <2>4
  <2>5. CASE j = n /\ roomType = 1
    <3>1. PICK q \in Seat : t.chair[q].uid = k  BY <2>2, <2>5 DEF t
    <3>2. q # s  BY <2>1, <2>5, <3>1 DEF t, u, Uid
    <3>3. v.chair[q].uid = k  BY <1>2, <3>1, <3>2
    <3>4. v.amount # 0  BY <1>2, <2>1, <3>3, TakenAre
    <3>5. ~last  BY <1>2, <3>4 DEF last
    <3>6. y.m.table[n] = v  BY SMTT(60), <1>1, <1>4
    <3>. QED  BY <1>4, <2>1, <2>2, <2>5, <3>3, <3>5, <3>6
  <2>. QED  BY <2>3, <2>4, <2>5
<1>6. Placed(y.m)  BY <1>5 DEF Placed
<1>. QED  BY <1>6 DEF y

LEMMA StandupPlaced ==
  ASSUME NEW e, NEW x, Good(e, x), Placed(x.m), NEW o \in Objs, Uid(x, o) # Null,
         NEW n \in Tids, roomType \in {0, 1}
  PROVE  Placed(Standup(x, o, n).m)
<1>. DEFINE mine == ChairsOf(x, n, Uid(x, o))
            s == Min(mine)
            a == LeaveTable(x, o, n, s)
<1>1. x \in Work  BY DEF Good
<1>2. CASE mine = {} \/ x.m.table[n].playing
  <2>1. PICK b \in BOOLEAN : Standup(x, o, n) = [x EXCEPT !.ok = b]
    BY Zenon, <1>2 DEF Standup
  <2>2. [x EXCEPT !.ok = b].m = x.m  BY <1>1 DEF Work
  <2>. QED  BY <2>1, <2>2 DEF Placed
<1>3. CASE mine # {} /\ ~x.m.table[n].playing
  <2>1. Standup(x, o, n) = [a EXCEPT !.ok = TRUE]  BY <1>3 DEF Standup
  <2>2. /\ s \in Seat /\ x.m.table[n].chair[s].uid = Uid(x, o)
    BY <1>1, <1>3, ChairsOfAre
  <2>. HIDE DEF s
  <2>3. n \in x.m.tables  BY <2>2, SeatedInMemory
  <2>4. Placed(a.m)  BY <2>2, <2>3, LeaveTablePlaced
  <2>5. Good(e, a)  BY <1>3, <2>2, <2>3, LeaveTableGood
  <2>. HIDE DEF a
  <2>6. [a EXCEPT !.ok = TRUE].m = a.m  BY <2>5 DEF Good, Work
  <2>. QED  BY <2>1, <2>4, <2>6 DEF Placed
<1>. QED  BY <1>2, <1>3

LEMMA RoomLogoutPlaced ==
  ASSUME NEW e, NEW x, Good(e, x), Placed(x.m), NEW o \in Objs, Uid(x, o) # Null,
         roomType \in {0, 1}
  PROVE  Placed(RoomLogout(x, o).m)
<1>. DEFINE n == x.m.obj[o].table
            y == Standup(x, o, n)
            a == Absent(x, o, n)
<1>1. x \in Work /\ n \in Tids \cup {Null}  BY WorkTyped, PlayerTyped DEF Good
<1>2. \/ n = Null /\ RoomLogout(x, o) = [x EXCEPT !.ok = TRUE]
      \/ n # Null /\ RoomLogout(x, o) = y
      \/ n # Null /\ RoomLogout(x, o) = [a EXCEPT !.ok = FALSE]
  BY Zenon DEF RoomLogout, n, y, a
<1>. HIDE DEF n
<1>3. CASE n = Null /\ RoomLogout(x, o) = [x EXCEPT !.ok = TRUE]
  <2>1. [x EXCEPT !.ok = TRUE].m = x.m  BY <1>1 DEF Work
  <2>. QED  BY <1>3, <2>1 DEF Placed
<1>4. CASE n # Null /\ RoomLogout(x, o) = y
  BY <1>1, <1>4, StandupPlaced
<1>5. CASE n # Null /\ RoomLogout(x, o) = [a EXCEPT !.ok = FALSE]
  <2>1. Placed(a.m) /\ InRoom(e, x, a)  BY <1>1, <1>5, AbsentPlaced, AbsentInRoom
  <2>. HIDE DEF a
  <2>2. [a EXCEPT !.ok = FALSE].m = a.m  BY SMTT(60), <2>1 DEF InRoom, Good, Work
  <2>. QED  BY <1>5, <2>1, <2>2 DEF Placed
<1>. QED  BY <1>2, <1>3, <1>4, <1>5

LEMMA LogoutWell ==
  ASSUME NEW e, NEW x, Well(e, x), NEW c \in Conns, x.m.session[c] # Null, roomType \in {0, 1}
  PROVE  LET o == x.m.session[c]
             a == RoomLogout(x, o)
             b == IF a.ok THEN UserLogout(a, o) ELSE UserOffline(a, o)
             w == [b EXCEPT !.m.session[c] = Null] IN
         Well(e, w) /\ w.lost = x.lost /\ Narrows(x.m, w.m)
<1>. DEFINE o == x.m.session[c]
            a == RoomLogout(x, o)
            b == IF a.ok THEN UserLogout(a, o) ELSE UserOffline(a, o)
<1>1. x \in Work /\ Good(e, x) /\ Served(x.m) /\ Placed(x.m)  BY DEF Well, Good
<1>2. o \in Objs /\ Uid(x, o) # Null /\ x.m.online[Uid(x, o)] # Null
  BY <1>1, WhoIsConnected, NullIsNone
<1>. HIDE DEF o
<1>3. InRoom(e, x, a) /\ Placed(a.m)  BY <1>1, <1>2, RoomLogoutInRoom, RoomLogoutPlaced
<1>. HIDE DEF a
<1>4. /\ Good(e, a) /\ a \in Work /\ SameServer(x.m, a.m) /\ SamePeople(x.m, a.m)
      /\ a.lost = x.lost
  BY <1>3 DEF InRoom, Good
<1>5. a.m.online[Uid(a, o)] # Null  BY <1>2, <1>4 DEF SameServer, SamePeople, Uid
<1>6. Parting(a, o, b) /\ SameHall(a, b)
  <2>1. CASE a.ok
    <3>1. b = UserLogout(a, o)  BY <2>1
    <3>. HIDE DEF b
    <3>. QED  BY <1>2, <1>4, <1>5, <3>1, UserLogoutDoes
  <2>2. CASE ~a.ok
    <3>1. b = UserOffline(a, o)  BY <2>2
    <3>. HIDE DEF b
    <3>. QED  BY <1>2, <1>4, <3>1, UserOfflineDoes
  <2>. QED  BY <2>1, <2>2
<1>. HIDE DEF b
<1>7. b \in Work  BY <1>6 DEF Parting
<1>8. Good(e, b) /\ Placed(b.m)  BY <1>3, <1>4, <1>6, <1>7, HallGood
<1>9. Parting(x, o, b)
  BY <1>1, <1>2, <1>4, <1>6, PartingAfter DEF SameServer, SamePeople
<1>10. /\ b.m.open = x.m.open /\ b.m.tick \subseteq b.m.open /\ b.m.fresh \subseteq b.m.open
  BY <1>1, <1>4, <1>6 DEF SameHall, SameConns, SameServer, Served
<1>11. x.m.session[c] = o  BY DEF o
<1>12. LET w == [b EXCEPT !.m.session[c] = Null] IN
       Well(e, w) /\ w.lost = x.lost /\ Narrows(x.m, w.m)
  BY <1>1, <1>8, <1>9, <1>10, <1>11, SessionEnds
<1>. QED  BY ZenonT(60), <1>12 DEF b, a, o

-----------------------------------------------------------------------------
(* From one table to another.                                              *)
LEMMA ChangeToWell ==
  ASSUME NEW e, NEW x, Well(e, x), NEW o \in x.m.live, Uid(x, o) # Null, x.lost # "row",
         roomType \in {0, 1}, NEW rich
  PROVE  LET w == ChangeTo(x, o, rich) IN
         Well(e, w) /\ w.lost = x.lost /\ Narrows(x.m, w.m) /\ w.m.online = x.m.online
<1>. DEFINE n == x.m.at[Uid(x, o)]
            y == Standup(x, o, n)
            w == ChangeTo(x, o, rich)
<1>1. /\ x \in Work /\ Good(e, x) /\ Served(x.m) /\ Placed(x.m) /\ o \in Objs
      /\ n \in Tids \cup {Null}
  BY WorkTyped, PlayerTyped DEF Well, Good, Uid
<1>2. CASE w = x
  <2>1. Narrows(x.m, w.m)  BY <1>2, SameNarrows
  <2>. QED  BY <1>2, <2>1
<1>3. CASE w # x
  <2>1. /\ roomType = 0 /\ n # Null
        /\ w = EnterRoom(y, o, Null, n, x.m.table[n].size, rich)
    <3>1. w = IF roomType = 1 \/ n = Null \/ ~rich THEN x
              ELSE IF ~y.ok THEN x ELSE EnterRoom(y, o, Null, n, x.m.table[n].size, rich)
      BY Zenon DEF ChangeTo, w, n, y
    <3>. HIDE DEF w, n, y
    <3>. QED  BY <1>3, <3>1
  <2>. HIDE DEF w
  <2>2. n \in Tids  BY <1>1, <2>1
  <2>3. x.m.table[n].size = RoomSize  BY <1>1, <2>2 DEF Good, Rooms, TableWell
  <2>4. InRoom(e, x, y) /\ Placed(y.m)  BY <1>1, <2>2, StandupInRoom, StandupPlaced
  <2>. HIDE DEF y, n
  <2>5. Grows(e, x, y)  BY <1>1, <2>4, InRoomGrows
  <2>6. Good(e, y) /\ Served(y.m) /\ o \in y.m.live /\ Uid(y, o) # Null /\ y.lost = x.lost
    BY <2>5 DEF Grows, LiveKept, Uid
  <2>7. Settles(e, y, EnterRoom(y, o, Null, n, RoomSize, rich))
    <3>1. Null \in Tids \cup {Null}  OBVIOUS
    <3>. QED  BY <2>1, <2>4, <2>6, <3>1, EnterRoomSettles
  <2>8. Well(e, w) /\ w.lost = x.lost  BY <2>1, <2>3, <2>6, <2>7 DEF Settles, Grows, Well
  <2>9. Narrows(x.m, w.m) /\ w.m.online = x.m.online
    <3>1. SameNet(x.m, y.m)  BY <2>5 DEF Grows
    <3>2. SameNet(y.m, w.m)  BY <2>1, <2>3, <2>7 DEF Settles, Grows
    <3>. QED  BY <3>1, <3>2, SameNarrows DEF SameNet
  <2>. QED  BY <2>8, <2>9 DEF w
<1>. QED  BY <1>2, <1>3 DEF w

-----------------------------------------------------------------------------
(* Players who are late are thrown out of a table of the server.           *)
LEMMA ThrowOutOneWell ==
  ASSUME NEW e, NEW x, Well(e, x), roomType = 0, NEW n \in x.m.tables, ~x.m.table[n].playing,
         NEW late, NEW s \in Seat, s \in late => x.m.table[n].chair[s].uid # Null
  PROVE  LET y == ThrowOutOne(x, n, s, late) IN
         /\ Well(e, y) /\ y.lost = x.lost /\ n \in y.m.tables /\ ~y.m.table[n].playing
         /\ \A q \in Seat : q # s => y.m.table[n].chair[q].uid = x.m.table[n].chair[q].uid
         /\ Narrows(x.m, y.m)
<1>. DEFINE t == x.m.table[n]
            o == t.chair[s].obj
            y == LeaveTable(x, o, n, s)
            v == Emptied(t, s)
<1>1. /\ x \in Work /\ Good(e, x) /\ Served(x.m) /\ Placed(x.m) /\ n \in Tids /\ t \in Table
      /\ TableWell(t) /\ x.m.table \in [Tids -> Table]
  BY WorkTyped DEF Well, Good, Rooms
<1>2. ThrowOutOne(x, n, s, late) = x \/ (s \in late /\ ThrowOutOne(x, n, s, late) = y)
  BY Zenon DEF ThrowOutOne, t, o, y
<1>3. CASE ThrowOutOne(x, n, s, late) = x
  <2>1. Narrows(x.m, x.m)  BY SameNarrows
  <2>. QED  BY <1>3, <2>1
<1>4. CASE s \in late /\ ThrowOutOne(x, n, s, late) = y
  <2>1. t.chair[s].uid # Null  BY <1>4
  <2>2. o \in Objs
    <3>1. t.chair[s].uid = Null <=> t.chair[s].obj = Null  BY <1>1 DEF TableWell
    <3>2. o \in Objs \cup {Null}  BY <1>1, TableTyped
    <3>. QED  BY <2>1, <3>1, <3>2
  <2>. HIDE DEF o
  <2>3. Good(e, y) /\ SameServer(x.m, y.m) /\ SamePeople(x.m, y.m)
    BY <1>1, <2>1, <2>2, LeaveTableGood
  <2>4. Placed(y.m)
    BY <1>1, <2>1, <2>2, LeaveTablePlaced
  <2>5. /\ v.playing = t.playing /\ t.amount # 0
        /\ \A q \in Seat : v.chair[q] = IF q = s THEN FreeChair ELSE t.chair[q]
    BY <1>1, <2>1, EmptiedWell
  <2>6. Leaves(x, o, n, s, y)  BY <1>1, <2>2, <2>5, LeaveTableDoes
  <2>. HIDE DEF y, v
  <2>7. /\ y \in Work /\ y.lost = x.lost /\ y.m.tables = x.m.tables
        /\ y.m.table = [x.m.table EXCEPT ![n] = v]
    BY <2>6 DEF Leaves, v, t
  <2>8. Served(y.m)  BY <1>1, <2>3, <2>7, ServedKept
  <2>9. y.m.table[n] = v  BY <1>1, <2>7
  <2>10. Well(e, y)  BY <2>3, <2>4, <2>8 DEF Well
  <2>11. Narrows(x.m, y.m)  BY <2>3, SameNarrows DEF SameServer
  <2>. QED  BY <1>4, <2>5, <2>7, <2>9, <2>10, <2>11
<1>. QED  BY <1>2, <1>3, <1>4

LEMMA ThrowOutWell ==
  ASSUME NEW e, NEW x, Well(e, x), roomType = 0, NEW n \in x.m.tables, ~x.m.table[n].playing,
         NEW late, \A s \in Seat : s \in late => x.m.table[n].chair[s].uid # Null
  PROVE  LET y == ThrowOutOne(ThrowOutOne(ThrowOutOne(x, n, 0, late), n, 1, late), n, 2, late) IN
         Well(e, y) /\ y.lost = x.lost /\ Narrows(x.m, y.m)
<1>. DEFINE a == ThrowOutOne(x, n, 0, late)
            b == ThrowOutOne(a, n, 1, late)
            y == ThrowOutOne(b, n, 2, late)
<1>1. 0 \in Seat /\ 1 \in Seat /\ 2 \in Seat /\ 0 # 1 /\ 0 # 2 /\ 1 # 2  BY SeatsAre
<1>2. /\ Well(e, a) /\ a.lost = x.lost /\ n \in a.m.tables /\ ~a.m.table[n].playing
      /\ \A q \in Seat : q # 0 => a.m.table[n].chair[q].uid = x.m.table[n].chair[q].uid
      /\ Narrows(x.m, a.m)
  BY <1>1, ThrowOutOneWell
<1>. HIDE DEF a
<1>3. 1 \in late => a.m.table[n].chair[1].uid # Null  BY Zenon, <1>1, <1>2
<1>4. /\ Well(e, b) /\ b.lost = a.lost /\ n \in b.m.tables /\ ~b.m.table[n].playing
      /\ \A q \in Seat : q # 1 => b.m.table[n].chair[q].uid = a.m.table[n].chair[q].uid
      /\ Narrows(a.m, b.m)
  BY <1>1, <1>2, <1>3, ThrowOutOneWell
<1>. HIDE DEF b
<1>5. 2 \in late => b.m.table[n].chair[2].uid # Null  BY Zenon, <1>1, <1>2, <1>4
<1>6. Well(e, y) /\ y.lost = b.lost /\ Narrows(b.m, y.m)  BY <1>1, <1>4, <1>5, ThrowOutOneWell
<1>7. Narrows(x.m, y.m)
  <2>1. Narrows(x.m, b.m)  BY <1>2, <1>4, NarrowsOn
  <2>. HIDE DEF y
  <2>. QED  BY <1>6, <2>1, NarrowsOn
<1>. QED  BY <1>2, <1>4, <1>6, <1>7 DEF b, a

-----------------------------------------------------------------------------
(***************************************************************************)
(* Games.                                                                  *)
(***************************************************************************)
AtTable(x, n, t, y) ==
  /\ y \in Work /\ SameRest(x, y) /\ SameServer(x.m, y.m) /\ SameRoom(x.m, y.m)
  /\ y.m.obj = x.m.obj /\ y.m.tables = x.m.tables /\ y.m.dismissed = x.m.dismissed
  /\ y.m.table = [x.m.table EXCEPT ![n] = t]

LEMMA TableSet ==
  ASSUME NEW x \in Work, NEW n \in Tids, NEW t \in Table
  PROVE  AtTable(x, n, t, [x EXCEPT !.m.table[n] = t])
<1>. DEFINE tables == [x.m.table EXCEPT ![n] = t]
            g == [x.m EXCEPT !.table = tables]
            y == [x EXCEPT !.m = g]
<1>1. x.m \in Memory /\ tables \in [Tids -> Table]  BY WorkTyped
<1>2. [x EXCEPT !.m.table[n] = t] = y  OBVIOUS
<1>. HIDE DEF tables
<1>3. /\ g \in Memory /\ SameServer(x.m, g) /\ SameRoom(x.m, g) /\ g.obj = x.m.obj
      /\ g.tables = x.m.tables /\ g.dismissed = x.m.dismissed /\ g.table = tables
  BY <1>1 DEF Memory, SameServer, SameRoom
<1>. HIDE DEF g
<1>4. y \in Work /\ y.m = g /\ SameRest(x, y)  BY <1>3 DEF Work, SameRest
<1>. HIDE DEF y
<1>5. AtTable(x, n, t, y)  BY <1>3, <1>4 DEF AtTable, tables
<1>. QED  BY <1>2, <1>5

Saved(x, n, r, y) ==
  /\ y \in Work /\ y.m = x.m /\ y.lost = x.lost
  /\ y.db.row = [x.db.row EXCEPT ![n] = r] /\ y.db.tid = x.db.tid /\ y.db.rooms = x.db.rooms
  /\ y.db.zid = x.db.zid
  /\ y.trail = x.trail \cup {y.db}

LEMMA RowSet ==
  ASSUME NEW x \in Work, NEW n \in Tids, NEW r \in Row
  PROVE  Saved(x, n, r, Put(x, [x.db EXCEPT !.row[n] = r]))
<1>. DEFINE rows == [x.db.row EXCEPT ![n] = r]
            d == [x.db EXCEPT !.row = rows]
            y == Put(x, d)
<1>1. x.db \in Database /\ rows \in [Tids -> Row]  BY WorkTyped
<1>2. [x.db EXCEPT !.row[n] = r] = d  OBVIOUS
<1>. HIDE DEF rows
<1>3. /\ d \in Database /\ d.row = rows /\ d.tid = x.db.tid /\ d.rooms = x.db.rooms
      /\ d.zid = x.db.zid
  BY <1>1 DEF Database
<1>. HIDE DEF d
<1>4. y \in Work /\ y.m = x.m /\ y.db = d /\ y.trail = x.trail \cup {d} /\ y.lost = x.lost
  BY <1>3, PutDoes
<1>. HIDE DEF y
<1>5. Saved(x, n, r, y)  BY <1>3, <1>4 DEF Saved, rows
<1>. QED  BY <1>2, <1>5 DEF y

Status(r, b) == [r EXCEPT !.begun = TRUE, !.playing = b]

LEMMA SaveStatusDoes ==
  ASSUME NEW x \in Work, NEW n \in Tids, NEW b \in BOOLEAN
  PROVE  /\ Saved(x, n, Status(x.db.row[n], b), SaveStatus(x, n, b))
         /\ Status(x.db.row[n], b) \in Row /\ Status(x.db.row[n], b).playing = b
         /\ Status(x.db.row[n], b).begun
         /\ Status(x.db.row[n], b).chair = x.db.row[n].chair
<1>. DEFINE r == x.db.row[n]
            q == Status(r, b)
<1>1. r \in Row /\ x.db.row \in [Tids -> Row] /\ x.db \in Database  BY WorkTyped
<1>2. q \in Row /\ q.playing = b /\ q.begun /\ q.chair = r.chair  BY Zenon, <1>1 DEF Status, Row
<1>3. [x.db EXCEPT !.row[n].begun = TRUE, !.row[n].playing = b] = [x.db EXCEPT !.row[n] = q]
  <2>. DEFINE rows == [x.db.row EXCEPT ![n].begun = TRUE, ![n].playing = b]
  <2>1. rows = [x.db.row EXCEPT ![n] = q]  BY Zenon, <1>1 DEF Status
  <2>2. [x.db EXCEPT !.row[n].begun = TRUE, !.row[n].playing = b] = [x.db EXCEPT !.row = rows]
    BY Zenon
  <2>. HIDE DEF rows, q
  <2>. QED  BY <2>1, <2>2
<1>. HIDE DEF q, r
<1>4. SaveStatus(x, n, b) = Put(x, [x.db EXCEPT !.row[n] = q])  BY <1>3 DEF SaveStatus
<1>5. Saved(x, n, q, SaveStatus(x, n, b))  BY <1>2, <1>4, RowSet
<1>. QED  BY <1>2, <1>5 DEF q, r

(* The row has the chairs of the table already: SaveChairs changes nothing. *)
LEMMA SaveChairsDoes ==
  ASSUME NEW x \in Work, NEW n \in Tids,
         \A s \in Seat : x.m.table[n].chair[s].uid = x.db.row[n].chair[s]
  PROVE  Saved(x, n, x.db.row[n], SaveChairs(x, n))
<1>. DEFINE t == x.m.table[n]
            r == x.db.row[n]
            chair == [s \in Seat |-> IF s < t.size THEN t.chair[s].uid ELSE r.chair[s]]
<1>1. r \in Row /\ x.db.row \in [Tids -> Row] /\ x.db \in Database  BY WorkTyped
<1>2. chair = r.chair
  <2>1. r.chair \in [Seat -> Ids]  BY <1>1 DEF Row
  <2>2. \A s \in Seat : chair[s] = r.chair[s]  OBVIOUS
  <2>. HIDE DEF r, t
  <2>. QED  BY <2>1, <2>2
<1>3. [r EXCEPT !.chair = chair] = r
  <2>. HIDE DEF chair, r
  <2>. QED  BY <1>1, <1>2 DEF Row
<1>4. SaveChairs(x, n) = Put(x, [x.db EXCEPT !.row[n] = [r EXCEPT !.chair = chair]])
  BY DEF SaveChairs
<1>. HIDE DEF chair, r
<1>5. Saved(x, n, r, SaveChairs(x, n))  BY <1>1, <1>3, <1>4, RowSet
<1>. QED  BY <1>5 DEF r

Calm(t) == [t EXCEPT !.chair = [s \in Seat |-> [t.chair[s] EXCEPT !.ready = FALSE]]]

LEMMA UnreadyDoes ==
  ASSUME NEW x \in Work, NEW n \in Tids
  PROVE  /\ AtTable(x, n, Calm(x.m.table[n]), Unready(x, n))
         /\ Calm(x.m.table[n]) \in Table /\ Alike(x.m.table[n], Calm(x.m.table[n]))
<1>. DEFINE t == x.m.table[n]
            chair == [s \in Seat |-> [t.chair[s] EXCEPT !.ready = FALSE]]
            v == Calm(t)
<1>1. t \in Table /\ t.chair \in [Seat -> Chair]  BY WorkTyped, TableTyped
<1>. HIDE DEF t
<1>2. /\ chair \in [Seat -> Chair]
      /\ \A s \in Seat : chair[s].uid = t.chair[s].uid /\ chair[s].obj = t.chair[s].obj
  BY Zenon, <1>1 DEF Chair
<1>3. v = [t EXCEPT !.chair = chair]  BY DEF Calm
<1>. HIDE DEF chair, v
<1>4. /\ v \in Table /\ v.size = t.size /\ v.playing = t.playing /\ v.amount = t.amount
      /\ v.chair = chair
  BY <1>1, <1>2, <1>3 DEF Table
<1>5. Alike(t, v)  BY <1>2, <1>4 DEF Alike
<1>6. Unready(x, n) = [x EXCEPT !.m.table[n] = v]
  <2>1. Unready(x, n) = [x EXCEPT !.m.table[n] = [t EXCEPT !.chair = chair]]
    BY DEF Unready, t, chair
  <2>. QED  BY <1>3, <2>1
<1>7. AtTable(x, n, v, Unready(x, n))  BY <1>4, <1>6, TableSet
<1>. QED  BY <1>4, <1>5, <1>7 DEF v, t

LEMMA PlayingSet ==
  ASSUME NEW x \in Work, NEW n \in Tids, NEW b \in BOOLEAN
  PROVE  LET t == x.m.table[n]
             v == [t EXCEPT !.playing = b] IN
         /\ AtTable(x, n, v, [x EXCEPT !.m.table[n].playing = b])
         /\ v \in Table /\ v.size = t.size /\ v.amount = t.amount /\ v.chair = t.chair
         /\ v.playing = b
<1>. DEFINE t == x.m.table[n]
            v == [t EXCEPT !.playing = b]
<1>1. t \in Table  BY WorkTyped
<1>2. /\ v \in Table /\ v.size = t.size /\ v.amount = t.amount /\ v.chair = t.chair
      /\ v.playing = b
  BY <1>1 DEF Table
<1>3. [x EXCEPT !.m.table[n].playing = b] = [x EXCEPT !.m.table[n] = v]  OBVIOUS
<1>4. AtTable(x, n, v, [x EXCEPT !.m.table[n].playing = b])
  <2>. HIDE DEF v
  <2>. QED  BY <1>2, <1>3, TableSet
<1>. QED  BY <1>2, <1>4

(* A game starts or ends at a table: its chairs stay, and no row but its   *)
(* own changes.                                                            *)
LEMMA GameWell ==
  ASSUME NEW e, NEW x, Well(e, x), NEW n \in x.m.tables, ~e.row[n].playing,
         NEW y \in Work, SameServer(x.m, y.m), SameRoom(x.m, y.m), y.m.obj = x.m.obj,
         y.m.tables = x.m.tables, y.m.dismissed = x.m.dismissed,
         NEW t \in Table, y.m.table = [x.m.table EXCEPT ![n] = t],
         t.size = x.m.table[n].size, t.amount = x.m.table[n].amount,
         \A s \in Seat : /\ t.chair[s].uid = x.m.table[n].chair[s].uid
                         /\ t.chair[s].obj = x.m.table[n].chair[s].obj,
         t.playing => t.amount = t.size,
         y.db.row = [x.db.row EXCEPT ![n] = Status(x.db.row[n], t.playing)],
         y.db.tid = x.db.tid, y.db.rooms = x.db.rooms,
         \A d \in y.trail :
           \/ d \in x.trail
           \/ /\ d.tid = x.db.tid
              /\ d.row \in {x.db.row, [x.db.row EXCEPT ![n] = Status(x.db.row[n], FALSE)],
                            y.db.row}
  PROVE  Well(e, y)
<1>. DEFINE o == x.m.table[n]
            p == x.db.row[n]
            r == Status(p, t.playing)
            q == Status(p, FALSE)
<1>1. /\ x \in Work /\ Good(e, x) /\ Served(x.m) /\ Placed(x.m) /\ n \in Tids /\ o \in Table
      /\ TableWell(o) /\ Mirrors(o, p) /\ RowWell(p) /\ (roomType = 0 => n <= x.db.tid)
      /\ x.m.tables \subseteq Tids /\ x.m.table \in [Tids -> Table]
  BY WorkTyped DEF Well, Good, Rooms, RowsWell
<1>2. t.playing \in BOOLEAN  BY TableTyped
<1>3. /\ r \in Row /\ r.playing = t.playing /\ r.begun /\ r.chair = p.chair
      /\ q \in Row /\ q.playing = FALSE /\ q.begun /\ q.chair = p.chair
  <2>1. r \in Row /\ r.playing = t.playing /\ r.begun /\ r.chair = p.chair
    BY <1>1, <1>2, SaveStatusDoes
  <2>2. q \in Row /\ q.playing = FALSE /\ q.begun /\ q.chair = p.chair
    BY Zenon, <1>1, SaveStatusDoes
  <2>. HIDE DEF r, q, p
  <2>. QED  BY <2>1, <2>2
<1>. HIDE DEF o, p, r, q
<1>4. TableWell(t)
  BY ZenonT(60), <1>1, SeatsAre DEF TableWell, Taken, o
<1>5. t.playing => \A s \in 0..(RoomSize - 1) : p.chair[s] # Null
  <2>. SUFFICES ASSUME t.playing  PROVE \A s \in 0..(RoomSize - 1) : p.chair[s] # Null
    OBVIOUS
  <2>1. \A s \in 0..(RoomSize - 1) : t.chair[s].uid # Null  BY <1>4, TakenAre
  <2>2. 0..(RoomSize - 1) \subseteq Seat  BY RoomAssumption, SeatsAre
  <2>. QED  BY <1>1, <2>1, <2>2 DEF Mirrors, o
<1>6. RowWell(r)
  <2>1. r.playing => t.playing  BY <1>3
  <2>. QED  BY <1>1, <1>3, <1>5, <2>1 DEF RowWell
<1>7. RowWell(q)  BY <1>1, <1>3 DEF RowWell
<1>8. Mirrors(t, r)  BY <1>1, <1>3 DEF Mirrors, o
<1>9. Good(e, y)
  <2>1. y.db.row = [x.db.row EXCEPT ![n] = r]  BY DEF r, p
  <2>2. \A d \in y.trail :
          \/ d \in x.trail
          \/ d.tid = x.db.tid /\ d.row \in {x.db.row, [x.db.row EXCEPT ![n] = q], y.db.row}
    BY Zenon DEF q, p
  <2>3. x.m.tables \cup {n} = x.m.tables  OBVIOUS
  <2>. QED  BY SMTT(60), <1>1, <1>3, <1>4, <1>6, <1>7, <1>8, <2>1, <2>2, <2>3, RowChanges
<1>10. Served(y.m)
  <2>1. SamePeople(x.m, y.m)  BY DEF SamePeople
  <2>. QED  BY <1>1, <2>1, ServedKept
<1>11. Placed(y.m)
  <2>1. \A j \in x.m.tables, s \in Seat :
          x.m.table[j].chair[s].uid # Null =>
            y.m.table[j].chair[s].uid = x.m.table[j].chair[s].uid
    BY <1>1
  <2>2. y.m.at = x.m.at /\ x.m.tables \subseteq y.m.tables  BY DEF SameRoom
  <2>. QED  BY <1>1, <2>1, <2>2, PlacedKept
<1>. QED  BY <1>9, <1>10, <1>11 DEF Well

LEMMA GameStartWell ==
  ASSUME NEW e, NEW x, Well(e, x), NEW n \in x.m.tables, ~x.m.table[n].playing,
         x.m.table[n].amount = x.m.table[n].size
  PROVE  Well(e, GameStart(x, n)) /\ GameStart(x, n).lost = x.lost
<1>. DEFINE t == x.m.table[n]
            p == x.db.row[n]
            q == Status(p, FALSE)
            r == Status(p, TRUE)
            a == Unready(x, n)
            b == SaveStatus(a, n, FALSE)
            c == SaveChairs(b, n)
            d == SaveStatus(c, n, TRUE)
            f == SaveChairs(d, n)
            y == [f EXCEPT !.m.table[n].playing = TRUE]
            v == [Calm(t) EXCEPT !.playing = TRUE]
<1>1. /\ x \in Work /\ Good(e, x) /\ n \in Tids /\ t \in Table /\ Mirrors(t, p) /\ p \in Row
      /\ x.m.table \in [Tids -> Table] /\ x.db.row \in [Tids -> Row]
      /\ ~e.row[n].playing
  BY WorkTyped DEF Well, Good, Rooms, Keeps, Mirrors
<1>2. GameStart(x, n) = y  BY DEF GameStart
<1>3. AtTable(x, n, Calm(t), a) /\ Calm(t) \in Table /\ Alike(t, Calm(t))
  BY <1>1, UnreadyDoes
<1>. HIDE DEF a
<1>4. /\ a \in Work /\ a.m.table[n] = Calm(t) /\ a.db = x.db /\ a.trail = x.trail
      /\ a.lost = x.lost
  BY <1>1, <1>3 DEF AtTable, SameRest
<1>5. /\ Saved(a, n, Status(a.db.row[n], FALSE), b) /\ Status(a.db.row[n], FALSE) = q
      /\ q \in Row /\ q.chair = p.chair
  <2>1. a.db.row[n] = p  BY <1>4
  <2>2. /\ Saved(a, n, Status(a.db.row[n], FALSE), b)
        /\ Status(a.db.row[n], FALSE) \in Row
        /\ Status(a.db.row[n], FALSE).chair = a.db.row[n].chair
    BY Zenon, <1>1, <1>4, SaveStatusDoes
  <2>. HIDE DEF b, p
  <2>. QED  BY Zenon, <2>1, <2>2
<1>. HIDE DEF b
<1>6. /\ b \in Work /\ b.m = a.m /\ b.lost = x.lost /\ b.db.row = [x.db.row EXCEPT ![n] = q]
      /\ b.db.tid = x.db.tid /\ b.db.rooms = x.db.rooms /\ b.trail = x.trail \cup {b.db}
  BY <1>4, <1>5 DEF Saved
<1>7. b.db.row[n] = q  BY Zenon, <1>1, <1>6
<1>8. \A s \in Seat : b.m.table[n].chair[s].uid = q.chair[s]
  <2>. HIDE DEF t, p, q
  <2>. QED  BY <1>1, <1>3, <1>4, <1>5, <1>6 DEF Alike, Mirrors
<1>. HIDE DEF q
<1>9. Saved(b, n, q, c)  BY Zenon, <1>1, <1>6, <1>7, <1>8, SaveChairsDoes
<1>. HIDE DEF c
<1>10. /\ c \in Work /\ c.m = a.m /\ c.lost = x.lost /\ c.db.row = [x.db.row EXCEPT ![n] = q]
       /\ c.db.tid = x.db.tid /\ c.db.rooms = x.db.rooms
       /\ c.trail = x.trail \cup {b.db, c.db}
  <2>1. c.db.row = [b.db.row EXCEPT ![n] = q]  BY <1>9 DEF Saved
  <2>2. c.db.row = [x.db.row EXCEPT ![n] = q]  BY <1>1, <1>6, <2>1
  <2>. QED  BY <1>6, <1>9, <2>2 DEF Saved
<1>11. c.db.row[n] = q /\ Status(q, TRUE) = r
  <2>1. c.db.row[n] = q  BY <1>1, <1>10
  <2>2. Status(q, TRUE) = r  BY Zenon, <1>1 DEF q, Status, Row
  <2>. QED  BY Zenon, <2>1, <2>2
<1>12. Saved(c, n, r, d) /\ r.chair = q.chair
  <2>1. /\ Saved(c, n, Status(c.db.row[n], TRUE), d)
        /\ Status(c.db.row[n], TRUE).chair = c.db.row[n].chair
    BY Zenon, <1>1, <1>10, SaveStatusDoes
  <2>. HIDE DEF d, r
  <2>. QED  BY Zenon, <1>11, <2>1
<1>. HIDE DEF d, r
<1>13. /\ d \in Work /\ d.m = a.m /\ d.lost = x.lost /\ d.db.row = [x.db.row EXCEPT ![n] = r]
       /\ d.db.tid = x.db.tid /\ d.db.rooms = x.db.rooms
       /\ d.trail = x.trail \cup {b.db, c.db, d.db}
  <2>1. d.db.row = [c.db.row EXCEPT ![n] = r]  BY <1>12 DEF Saved
  <2>2. d.db.row = [x.db.row EXCEPT ![n] = r]  BY <1>1, <1>10, <2>1
  <2>. QED  BY <1>10, <1>12, <2>2 DEF Saved
<1>14. d.db.row[n] = r /\ \A s \in Seat : d.m.table[n].chair[s].uid = d.db.row[n].chair[s]
  <2>1. d.db.row[n] = r  BY <1>1, <1>13
  <2>. QED  BY <1>6, <1>8, <1>12, <1>13, <2>1
<1>15. Saved(d, n, r, f)  BY Zenon, <1>1, <1>13, <1>14, SaveChairsDoes
<1>. HIDE DEF f
<1>16. /\ f \in Work /\ f.m = a.m /\ f.lost = x.lost /\ f.db.row = [x.db.row EXCEPT ![n] = r]
       /\ f.db.tid = x.db.tid /\ f.db.rooms = x.db.rooms
       /\ f.trail = x.trail \cup {b.db, c.db, d.db, f.db}
  <2>1. f.db.row = [d.db.row EXCEPT ![n] = r]  BY <1>15 DEF Saved
  <2>2. f.db.row = [x.db.row EXCEPT ![n] = r]  BY <1>1, <1>13, <2>1
  <2>. QED  BY <1>13, <1>15, <2>2 DEF Saved
<1>17. /\ AtTable(f, n, v, y) /\ v \in Table /\ v.size = Calm(t).size
       /\ v.amount = Calm(t).amount /\ v.chair = Calm(t).chair /\ v.playing = TRUE
  <2>1. f.m.table[n] = Calm(t)  BY <1>4, <1>16
  <2>2. LET k == [f.m.table[n] EXCEPT !.playing = TRUE] IN
        /\ AtTable(f, n, k, y) /\ k \in Table /\ k.size = f.m.table[n].size
        /\ k.amount = f.m.table[n].amount /\ k.chair = f.m.table[n].chair /\ k.playing = TRUE
    BY ZenonT(60), <1>1, <1>16, PlayingSet
  <2>. HIDE DEF y, t
  <2>. QED  BY <2>1, <2>2
<1>. HIDE DEF y, v
<1>18. /\ y \in Work /\ y.lost = x.lost /\ SameServer(x.m, y.m) /\ SameRoom(x.m, y.m)
       /\ y.m.obj = x.m.obj /\ y.m.tables = x.m.tables /\ y.m.dismissed = x.m.dismissed
       /\ y.db.row = [x.db.row EXCEPT ![n] = r] /\ y.db.tid = x.db.tid
       /\ y.db.rooms = x.db.rooms /\ y.db = f.db /\ y.trail = f.trail
  BY <1>3, <1>16, <1>17 DEF AtTable, SameRest, SameServer, SameRoom
<1>19. y.m.table = [x.m.table EXCEPT ![n] = v]
  <2>1. y.m.table = [a.m.table EXCEPT ![n] = v]  BY <1>16, <1>17 DEF AtTable
  <2>2. a.m.table = [x.m.table EXCEPT ![n] = Calm(t)]  BY <1>3 DEF AtTable
  <2>. QED  BY <1>1, <2>1, <2>2
<1>20. /\ v.size = t.size /\ v.amount = t.amount
       /\ \A s \in Seat : v.chair[s].uid = t.chair[s].uid /\ v.chair[s].obj = t.chair[s].obj
  <2>. HIDE DEF t
  <2>. QED  BY <1>3, <1>17 DEF Alike
<1>21. r = Status(p, v.playing) /\ q = Status(p, FALSE)  BY Zenon, <1>17 DEF r, q
<1>22. \A k \in y.trail :
         \/ k \in x.trail
         \/ /\ k.tid = x.db.tid
            /\ k.row \in {x.db.row, [x.db.row EXCEPT ![n] = Status(p, FALSE)], y.db.row}
  BY Zenon, <1>6, <1>10, <1>13, <1>16, <1>18, <1>21
<1>23. /\ v.playing => v.amount = v.size
       /\ y.db.row = [x.db.row EXCEPT ![n] = Status(x.db.row[n], v.playing)]
  BY <1>18, <1>20, <1>21
<1>24. Well(e, y)
  BY ZenonT(60), <1>1, <1>17, <1>18, <1>19, <1>20, <1>22, <1>23, GameWell
<1>. QED  BY <1>2, <1>18, <1>24

Ended(x, n) == [SaveStatus(Unready(x, n), n, FALSE) EXCEPT !.m.table[n].playing = FALSE]

LEMMA GameEndWell ==
  ASSUME NEW e, NEW x, Well(e, x), NEW n \in x.m.tables, ~e.row[n].playing, x.trail = {}
  PROVE  LET y == Ended(x, n) IN
         /\ Well(e, y) /\ y.lost = x.lost
         /\ \A d \in y.trail \cup {y.db} :
              \A k \in Tids : d.row[k].chair = x.db.row[k].chair
<1>. DEFINE t == x.m.table[n]
            p == x.db.row[n]
            q == Status(p, FALSE)
            a == Unready(x, n)
            b == SaveStatus(a, n, FALSE)
            y == [b EXCEPT !.m.table[n].playing = FALSE]
            v == [Calm(t) EXCEPT !.playing = FALSE]
<1>1. /\ x \in Work /\ n \in Tids /\ t \in Table /\ p \in Row
      /\ x.m.table \in [Tids -> Table] /\ x.db.row \in [Tids -> Row]
  BY WorkTyped DEF Well, Good
<1>2. AtTable(x, n, Calm(t), a) /\ Calm(t) \in Table /\ Alike(t, Calm(t))
  BY <1>1, UnreadyDoes
<1>. HIDE DEF a
<1>3. /\ a \in Work /\ a.m.table[n] = Calm(t) /\ a.db = x.db /\ a.trail = x.trail
      /\ a.lost = x.lost
  BY <1>1, <1>2 DEF AtTable, SameRest
<1>4. Saved(a, n, q, b) /\ q.chair = p.chair
  <2>1. a.db.row[n] = p  BY <1>3
  <2>2. /\ Saved(a, n, Status(a.db.row[n], FALSE), b)
        /\ Status(a.db.row[n], FALSE).chair = a.db.row[n].chair
    BY Zenon, <1>1, <1>3, SaveStatusDoes
  <2>. HIDE DEF b, p
  <2>. QED  BY Zenon, <2>1, <2>2
<1>. HIDE DEF b
<1>5. /\ b \in Work /\ b.m = a.m /\ b.lost = x.lost /\ b.db.row = [x.db.row EXCEPT ![n] = q]
      /\ b.db.tid = x.db.tid /\ b.db.rooms = x.db.rooms /\ b.trail = x.trail \cup {b.db}
  BY <1>3, <1>4 DEF Saved
<1>6. /\ AtTable(b, n, v, y) /\ v \in Table /\ v.size = Calm(t).size
      /\ v.amount = Calm(t).amount /\ v.chair = Calm(t).chair /\ v.playing = FALSE
  <2>1. b.m.table[n] = Calm(t)  BY <1>3, <1>5
  <2>2. LET k == [b.m.table[n] EXCEPT !.playing = FALSE] IN
        /\ AtTable(b, n, k, y) /\ k \in Table /\ k.size = b.m.table[n].size
        /\ k.amount = b.m.table[n].amount /\ k.chair = b.m.table[n].chair /\ k.playing = FALSE
    BY ZenonT(60), <1>1, <1>5, PlayingSet
  <2>. HIDE DEF y, t
  <2>. QED  BY <2>1, <2>2
<1>. HIDE DEF y, v
<1>7. /\ y \in Work /\ y.lost = x.lost /\ SameServer(x.m, y.m) /\ SameRoom(x.m, y.m)
      /\ y.m.obj = x.m.obj /\ y.m.tables = x.m.tables /\ y.m.dismissed = x.m.dismissed
      /\ y.db.row = [x.db.row EXCEPT ![n] = q] /\ y.db.tid = x.db.tid
      /\ y.db.rooms = x.db.rooms /\ y.db = b.db /\ y.trail = b.trail
  BY <1>2, <1>5, <1>6 DEF AtTable, SameRest, SameServer, SameRoom
<1>8. y.m.table = [x.m.table EXCEPT ![n] = v]
  <2>1. y.m.table = [a.m.table EXCEPT ![n] = v]  BY <1>5, <1>6 DEF AtTable
  <2>2. a.m.table = [x.m.table EXCEPT ![n] = Calm(t)]  BY <1>2 DEF AtTable
  <2>. QED  BY <1>1, <2>1, <2>2
<1>9. /\ v.size = t.size /\ v.amount = t.amount
      /\ \A s \in Seat : v.chair[s].uid = t.chair[s].uid /\ v.chair[s].obj = t.chair[s].obj
  <2>. HIDE DEF t
  <2>. QED  BY <1>2, <1>6 DEF Alike
<1>10. q = Status(p, v.playing)  BY Zenon, <1>6
<1>11. \A k \in y.trail :
         \/ k \in x.trail
         \/ /\ k.tid = x.db.tid
            /\ k.row \in {x.db.row, [x.db.row EXCEPT ![n] = Status(p, FALSE)], y.db.row}
  BY Zenon, <1>5, <1>7
<1>12. Well(e, y)
  <2>. HIDE DEF q
  <2>. QED  BY ZenonT(60), <1>1, <1>6, <1>7, <1>8, <1>9, <1>10, <1>11, GameWell
<1>13. \A d \in y.trail \cup {y.db} : d = y.db  BY <1>5, <1>7
<1>14. \A k \in Tids : y.db.row[k].chair = x.db.row[k].chair
  <2>. HIDE DEF q
  <2>. QED  BY <1>1, <1>4, <1>7
<1>15. \A d \in y.trail \cup {y.db}, k \in Tids : d.row[k].chair = x.db.row[k].chair
  BY <1>13, <1>14
<1>16. Ended(x, n) = y  BY Zenon DEF Ended, y, b, a
<1>. QED  BY <1>7, <1>12, <1>15, <1>16

(* A player at a table gets ready.                                         *)
LEMMA ReadyWell ==
  ASSUME NEW e, NEW x, Well(e, x), NEW n \in Tids, NEW s \in Seat
  PROVE  LET y == [x EXCEPT !.m.table[n].chair[s].ready = TRUE] IN
         /\ Well(e, y) /\ SameRest(x, y) /\ y.m.tables = x.m.tables
         /\ Alike(x.m.table[n], y.m.table[n])
<1>. DEFINE t == x.m.table[n]
            c == [t.chair[s] EXCEPT !.ready = TRUE]
            chair == [t.chair EXCEPT ![s] = c]
            v == [t EXCEPT !.chair = chair]
            y == [x EXCEPT !.m.table[n] = v]
<1>1. /\ x \in Work /\ Good(e, x) /\ Served(x.m) /\ Placed(x.m) /\ t \in Table
      /\ t.chair \in [Seat -> Chair] /\ x.m.table \in [Tids -> Table]
  BY WorkTyped, TableTyped DEF Well, Good
<1>2. [x EXCEPT !.m.table[n].chair[s].ready = TRUE] = y
  OBVIOUS
<1>. HIDE DEF t
<1>3. c \in Chair /\ c.uid = t.chair[s].uid /\ c.obj = t.chair[s].obj  BY Zenon, <1>1 DEF Chair
<1>. HIDE DEF c
<1>4. /\ chair \in [Seat -> Chair]
      /\ \A q \in Seat : chair[q].uid = t.chair[q].uid /\ chair[q].obj = t.chair[q].obj
  BY <1>1, <1>3
<1>. HIDE DEF chair
<1>5. /\ v \in Table /\ v.size = t.size /\ v.playing = t.playing /\ v.amount = t.amount
      /\ v.chair = chair
  BY <1>1, <1>4 DEF Table
<1>6. Alike(t, v)  BY <1>4, <1>5 DEF Alike
<1>. HIDE DEF v
<1>7. AtTable(x, n, v, y)  BY <1>1, <1>5, TableSet
<1>. HIDE DEF y
<1>8. /\ y \in Work /\ SameRest(x, y) /\ SameServer(x.m, y.m) /\ SameRoom(x.m, y.m)
      /\ y.m.obj = x.m.obj /\ y.m.tables = x.m.tables /\ y.m.dismissed = x.m.dismissed
      /\ y.m.table[n] = v /\ \A j \in Tids : j # n => y.m.table[j] = x.m.table[j]
  BY <1>1, <1>7 DEF AtTable
<1>9. \A j \in Tids : Alike(x.m.table[j], y.m.table[j])
  <2>1. \A k : Alike(k, k)  BY DEF Alike
  <2>. QED  BY <1>6, <1>8, <2>1 DEF t
<1>10. Good(e, y)  BY <1>1, <1>8, <1>9, ChairsKept DEF SameChairs
<1>11. Served(y.m)
  <2>1. SamePeople(x.m, y.m)  BY <1>8 DEF SamePeople
  <2>. QED  BY <1>1, <1>8, <2>1, ServedKept
<1>12. Placed(y.m)
  <2>1. \A j \in x.m.tables, q \in Seat :
          x.m.table[j].chair[q].uid # Null =>
            y.m.table[j].chair[q].uid = x.m.table[j].chair[q].uid
    BY <1>1, <1>9, WorkTyped DEF Alike
  <2>2. y.m.at = x.m.at /\ x.m.tables \subseteq y.m.tables  BY <1>8 DEF SameRoom
  <2>. QED  BY Zenon, <1>1, <2>1, <2>2, PlacedKept
<1>. QED  BY Zenon, <1>2, <1>6, <1>8, <1>10, <1>11, <1>12 DEF Well, t

-----------------------------------------------------------------------------
(* Steps of the connections alone.                                         *)
LEMMA NetWell ==
  ASSUME NEW e, NEW x, Well(e, x), NEW open \in SUBSET Conns, NEW fresh \in SUBSET open,
         NEW tick \in SUBSET open, x.m.open \subseteq open
  PROVE  LET y == [x EXCEPT !.m.open = open, !.m.fresh = fresh, !.m.tick = tick] IN
         Well(e, y) /\ SameRest(x, y)
<1>. DEFINE g == [x.m EXCEPT !.open = open, !.fresh = fresh, !.tick = tick]
            y == [x EXCEPT !.m = g]
<1>1. x \in Work /\ x.m \in Memory /\ Good(e, x) /\ Served(x.m) /\ Placed(x.m)
  BY WorkTyped DEF Well, Good
<1>2. [x EXCEPT !.m.open = open, !.m.fresh = fresh, !.m.tick = tick] = y  BY Zenon
<1>3. /\ g \in Memory /\ g.open = open /\ g.fresh = fresh /\ g.tick = tick
      /\ g.session = x.m.session /\ g.online = x.m.online /\ g.offline = x.m.offline
      /\ g.live = x.m.live /\ g.obj = x.m.obj /\ SameRoom(x.m, g) /\ SameTables(x.m, g)
  BY Zenon, <1>1 DEF Memory, SameRoom, SameTables
<1>. HIDE DEF g
<1>4. y \in Work /\ y.m = g /\ SameRest(x, y)  BY <1>1, <1>3 DEF Work, SameRest
<1>. HIDE DEF y
<1>5. Good(e, y) /\ Placed(y.m)
  BY <1>1, <1>3, <1>4, SameTablesAlike, ChairsKept, PlacedInTables
<1>6. Served(g)
  <2>1. \A v \in Ids : g.online[v] # Null => Online(g, v, g.online[v])
    BY <1>1, <1>3 DEF Served, Online
  <2>2. \A v \in Ids : g.offline[v] # Null => Offline(g, v, g.offline[v])
    BY <1>1, <1>3 DEF Served, Offline
  <2>3. \A k \in Conns : g.session[k] # Null => Connected(g, k, g.session[k])
    BY <1>1, <1>3 DEF Served, Connected
  <2>. QED  BY <1>3, <2>1, <2>2, <2>3 DEF Served
<1>. QED  BY Zenon, <1>2, <1>4, <1>5, <1>6 DEF Well

LEMMA DismissWell ==
  ASSUME NEW e, NEW x, Well(e, x)
  PROVE  LET y == [x EXCEPT !.m.dismissed = {}] IN Well(e, y) /\ SameRest(x, y)
<1>. DEFINE g == [x.m EXCEPT !.dismissed = {}]
            y == [x EXCEPT !.m = g]
<1>1. x \in Work /\ x.m \in Memory /\ Good(e, x) /\ Served(x.m) /\ Placed(x.m)
  BY WorkTyped DEF Well, Good
<1>2. [x EXCEPT !.m.dismissed = {}] = y  OBVIOUS
<1>3. /\ g \in Memory /\ SameServer(x.m, g) /\ g.obj = x.m.obj /\ SameRoom(x.m, g)
      /\ g.tables = x.m.tables /\ g.table = x.m.table /\ g.dismissed = {}
  BY Zenon, <1>1 DEF Memory, SameServer, SameRoom
<1>. HIDE DEF g
<1>4. y \in Work /\ y.m = g /\ SameRest(x, y)  BY <1>1, <1>3 DEF Work, SameRest
<1>. HIDE DEF y
<1>5. Good(e, y)
  <2>1. Rooms(y.m, y.db)  BY <1>1, <1>3, <1>4 DEF Good, Rooms, SameRest
  <2>. QED  BY <1>1, <1>4, <2>1 DEF Good, SameRest
<1>6. Served(y.m)
  <2>1. SamePeople(x.m, y.m)  BY <1>3, <1>4 DEF SamePeople
  <2>. QED  BY <1>1, <1>3, <1>4, <2>1, ServedKept
<1>7. Placed(y.m)  BY <1>1, <1>3, <1>4 DEF Placed, SameRoom
<1>. QED  BY Zenon, <1>2, <1>4, <1>5, <1>6, <1>7 DEF Well

-----------------------------------------------------------------------------
(***************************************************************************)
(* The invariant.  The account of a player and the row of a table can be   *)
(* read, a connection has one player for good, and all tables have the     *)
(* same number of places: each of the four is needed, as the README says.  *)
(***************************************************************************)
Steady ==
  /\ ~SwitchUser /\ (\A k \in Sizes : k = RoomSize)
  /\ "info" \notin Failing /\ "row" \notin Failing

SessionInv == TypeOK /\ Rooms(m, db) /\ Served(m) /\ Placed(m)

ChairsKeptIn(d) == \A n \in Tids : db.row[n].playing => d.row[n].chair = db.row[n].chair

LEMMA BootedWell ==
  ASSUME NEW d, RowsWell(d)
  PROVE  Rooms(Booted, d) /\ Served(Booted) /\ Placed(Booted)
<1>. DEFINE t == FreshTable(RoomSize)
<1>1. /\ Booted.open = {} /\ Booted.fresh = {} /\ Booted.tick = {} /\ Booted.tables = {}
      /\ Booted.dismissed = {} /\ (\A c \in Conns : Booted.session[c] = Null)
      /\ \A u \in Ids : /\ Booted.online[u] = Null /\ Booted.offline[u] = Null
                        /\ Booted.at[u] = Null
  BY DEF Booted
<1>2. \A n \in Tids : Booted.table[n] = t  BY DEF Booted
<1>3. /\ t.size = RoomSize /\ t.amount = 0 /\ ~t.playing
      /\ \A s \in Seat : t.chair[s].uid = Null /\ t.chair[s].obj = Null
  BY DEF FreshTable, FreeChair
<1>. HIDE DEF t
<1>4. Taken(t) = 0  BY <1>3, SeatsAre DEF Taken
<1>5. TableWell(t)  BY <1>3, <1>4 DEF TableWell
<1>6. Rooms(Booted, d)  BY <1>1, <1>2, <1>3, <1>5 DEF Rooms
<1>7. Served(Booted)  BY <1>1 DEF Served
<1>8. Placed(Booted)  BY <1>1, NullIsNone DEF Placed
<1>. QED  BY <1>6, <1>7, <1>8

LEMMA DoingWell ==
  ASSUME SessionInv, NEW fate \in Fates
  PROVE  /\ Well(db, Doing(fate)) /\ Doing(fate).m = m /\ Doing(fate).db = db
         /\ Doing(fate).trail = {} /\ Doing(fate).lost = fate /\ roomType \in {0, 1}
<1>. DEFINE x == Doing(fate)
<1>1. fate \in Failing \cup {"none"}  BY DEF Fates
<1>2. /\ x.m = m /\ x.db = db /\ x.trail = {} /\ x.lost = fate /\ x \in Work
  BY <1>1 DEF Doing, Work, SessionInv, TypeOK
<1>3. roomType \in {0, 1}  BY RoomAssumption DEF SessionInv, TypeOK
<1>. HIDE DEF x
<1>4. Good(db, x)  BY <1>2 DEF Good, SessionInv, Keeps
<1>. QED  BY <1>2, <1>3, <1>4 DEF Well, SessionInv, x

LEMMA StepDone ==
  ASSUME SessionInv, NEW e, NEW x, Well(e, x), x.lost \in Fates, Step(x),
         \A d \in x.trail \cup {x.db} : ChairsKeptIn(d)
  PROVE  SessionInv' /\ ChairsKeptIn(db')
<1>1. /\ x \in Work /\ x.m \in Memory /\ x.db \in Database /\ x.trail \subseteq Database
      /\ Rooms(x.m, x.db) /\ Served(x.m) /\ Placed(x.m)
      /\ \A d \in x.trail : RowsWell(d)
  BY WorkTyped DEF Well, Good
<1>2. /\ roomType \in RoomTypes /\ failures \in 0..MaxFailures /\ crashes \in 0..MaxCrashes
      /\ MaxFailures \in Nat /\ MaxCrashes \in Nat
  BY FaultsAssumption DEF SessionInv, TypeOK
<1>3. ASSUME roomType' = roomType, m' \in Memory, db' \in Database,
             failures' \in 0..MaxFailures, crashes' \in 0..MaxCrashes,
             Rooms(m', db'), Served(m'), Placed(m')
      PROVE  SessionInv'
  <2>1. TypeOK'  BY <1>2, <1>3 DEF TypeOK
  <2>2. Rooms(m, db)'  BY <1>3 DEF Rooms, RowsWell
  <2>3. Served(m)' /\ Placed(m)'  BY <1>3 DEF Served, Placed
  <2>. QED  BY <2>1, <2>2, <2>3 DEF SessionInv
<1>4. CASE Completes(x)
  <2>1. m' = x.m /\ db' = x.db /\ roomType' = roomType /\ crashes' = crashes
        /\ failures' = failures + (IF x.lost = "none" THEN 0 ELSE 1)
    BY <1>4 DEF Completes, Counted
  <2>2. x.lost # "none" => failures < MaxFailures  BY DEF Fates
  <2>3. failures' \in 0..MaxFailures  BY <1>2, <2>1, <2>2
  <2>4. SessionInv'  BY <1>1, <1>2, <1>3, <2>1, <2>3
  <2>. QED  BY <2>1, <2>4
<1>5. CASE CutShort(x)
  <2>1. /\ m' = Booted /\ db' \in x.trail /\ roomType' = roomType
        /\ failures' = failures + 1 /\ crashes' = crashes + 1
        /\ failures < MaxFailures /\ crashes < MaxCrashes
    BY <1>5 DEF CutShort
  <2>2. Rooms(Booted, db') /\ Served(Booted) /\ Placed(Booted)  BY <1>1, <2>1, BootedWell
  <2>3. failures' \in 0..MaxFailures /\ crashes' \in 0..MaxCrashes  BY <1>2, <2>1
  <2>4. db' \in Database /\ m' \in Memory  BY <1>1, <2>1, FreshTyped
  <2>5. SessionInv'  BY <1>3, <2>1, <2>2, <2>3, <2>4
  <2>. QED  BY <2>1, <2>5
<1>. QED  BY <1>4, <1>5 DEF Step

(* The usual case: nothing happens to the rows of the games.               *)
LEMMA StepWell ==
  ASSUME SessionInv, NEW x, Well(db, x), x.lost \in Fates, Step(x)
  PROVE  SessionInv' /\ ChairsKeptIn(db')
<1>1. \A d \in x.trail \cup {x.db} : ChairsKeptIn(d)
  BY DEF Well, Good, Keeps, ChairsKeptIn
<1>. QED  BY <1>1, StepDone

-----------------------------------------------------------------------------
(* Every handler keeps the invariant, and every game its players.          *)
LEMMA NowWell ==
  ASSUME SessionInv
  PROVE  /\ Well(db, Now) /\ Now.m = m /\ Now.db = db /\ Now.trail = {} /\ Now.lost = "none"
         /\ "none" \in Fates /\ Now \in Work /\ Good(db, Now) /\ Served(m) /\ roomType \in {0, 1}
<1>1. "none" \in Fates  BY DEF Fates
<1>2. Well(db, Now) /\ Now.m = m /\ Now.db = db /\ Now.trail = {} /\ Now.lost = "none"
      /\ roomType \in {0, 1}
  BY <1>1, DoingWell DEF Now
<1>. QED  BY <1>1, <1>2 DEF Well, Good

LEMMA StepOf ==
  ASSUME SessionInv, NEW x, Well(db, x), x.lost = "none", Step(x)
  PROVE  SessionInv' /\ ChairsKeptIn(db')
<1>1. x.lost \in Fates  BY NowWell
<1>. QED  BY <1>1, StepWell

LEMMA NetsAre ==
  ASSUME SessionInv
  PROVE  m.open \in SUBSET Conns /\ m.fresh \subseteq m.open /\ m.tick \subseteq m.open
  BY NowWell DEF SessionInv, TypeOK, Memory, Served

LEMMA ConnectKeeps ==
  ASSUME SessionInv, NEW c \in Conns, Connect(c)
  PROVE  SessionInv' /\ ChairsKeptIn(db')
<1>. DEFINE open == m.open \cup {c}
            fresh == m.fresh \cup {c}
            y == [Now EXCEPT !.m.open = open, !.m.fresh = fresh, !.m.tick = m.tick]
            x == [Now EXCEPT !.m.open = @ \cup {c}, !.m.fresh = @ \cup {c}]
<1>1. /\ open \in SUBSET Conns /\ fresh \in SUBSET open /\ m.tick \in SUBSET open
      /\ m.open \subseteq open
  BY NetsAre
<1>2. x = y
  <2>1. Now.m = m /\ m \in Memory  BY NowWell DEF SessionInv, TypeOK
  <2>2. [m EXCEPT !.tick = m.tick] = m  BY <2>1 DEF Memory
  <2>3. [m EXCEPT !.open = open, !.fresh = fresh, !.tick = m.tick] =
          [m EXCEPT !.open = open, !.fresh = fresh]
    BY Zenon, <2>1 DEF Memory
  <2>4. x = [Now EXCEPT !.m = [m EXCEPT !.open = open, !.fresh = fresh]]  BY Zenon, <2>1
  <2>5. y = [Now EXCEPT !.m = [m EXCEPT !.open = open, !.fresh = fresh, !.tick = m.tick]]
    BY Zenon, <2>1
  <2>. QED  BY <2>3, <2>4, <2>5
<1>. HIDE DEF open, fresh
<1>3. Well(db, y) /\ SameRest(Now, y)
  <2>1. Well(db, Now) /\ Now.m.open \subseteq open  BY <1>1, NowWell
  <2>. QED  BY Zenon, <1>1, <2>1, NetWell
<1>4. y.lost = "none"  BY <1>3, NowWell DEF SameRest
<1>5. Step(x)  BY DEF Connect, open, fresh
<1>. HIDE DEF x, y
<1>. QED  BY <1>2, <1>3, <1>4, <1>5, StepOf

LEMMA OnTimeOutKeeps ==
  ASSUME SessionInv, NEW c \in Conns, OnTimeOut(c)
  PROVE  SessionInv' /\ ChairsKeptIn(db')
<1>. DEFINE fresh == m.fresh \ {c}
            tick == m.tick \cup {c}
            y == [Now EXCEPT !.m.open = m.open, !.m.fresh = fresh, !.m.tick = tick]
            x == [Now EXCEPT !.m.fresh = @ \ {c}, !.m.tick = @ \cup {c}]
<1>1. m.open \in SUBSET Conns /\ fresh \in SUBSET m.open /\ tick \in SUBSET m.open
  BY NetsAre DEF OnTimeOut
<1>2. x = y
  <2>1. Now.m = m /\ m \in Memory  BY NowWell DEF SessionInv, TypeOK
  <2>2. [m EXCEPT !.open = m.open, !.fresh = fresh, !.tick = tick] =
          [m EXCEPT !.fresh = fresh, !.tick = tick]
    BY Zenon, <2>1 DEF Memory
  <2>3. x = [Now EXCEPT !.m = [m EXCEPT !.fresh = fresh, !.tick = tick]]  BY Zenon, <2>1
  <2>4. y = [Now EXCEPT !.m = [m EXCEPT !.open = m.open, !.fresh = fresh, !.tick = tick]]
    BY Zenon, <2>1
  <2>. QED  BY <2>2, <2>3, <2>4
<1>. HIDE DEF fresh, tick
<1>3. Well(db, y) /\ SameRest(Now, y)
  <2>1. Well(db, Now) /\ Now.m.open \subseteq m.open  BY NowWell
  <2>. QED  BY Zenon, <1>1, <2>1, NetWell
<1>4. y.lost = "none"  BY <1>3, NowWell DEF SameRest
<1>5. Step(x)  BY DEF OnTimeOut, fresh, tick
<1>. HIDE DEF x, y
<1>. QED  BY <1>2, <1>3, <1>4, <1>5, StepOf

LEMMA msg_LoginKeeps ==
  ASSUME SessionInv, Steady, NEW c \in Conns, NEW u \in Users, msg_Login(c, u)
  PROVE  SessionInv' /\ ChairsKeptIn(db')
<1>1. /\ c \in m.open /\ m.session[c] = Null
      /\ Cardinality(m.live) + Cardinality(Users) <= Cardinality(Objs)
  BY DEF msg_Login, Steady
<1>2. PICK fate \in Fates, room \in Tids \cup {Null}, size \in Sizes, rich \in BOOLEAN :
        Step(LoggedIn(Doing(fate), c, u, room, size, rich))
  BY DEF msg_Login
<1>3. size = RoomSize  BY DEF Steady
<1>4. fate \notin {"info", "row"}  BY DEF Fates, Steady
<1>. DEFINE x == Doing(fate)
            y == LoggedIn(x, c, u, room, RoomSize, rich)
<1>5. Well(db, x) /\ x.m = m /\ x.lost = fate /\ roomType \in {0, 1}  BY DoingWell
<1>6. Step(y)  BY <1>2, <1>3
<1>. HIDE DEF x
<1>7. Well(db, y) /\ y.lost = x.lost  BY <1>1, <1>4, <1>5, LoggedInWell
<1>. HIDE DEF y
<1>. QED  BY <1>5, <1>6, <1>7, StepWell

LEMMA msg_LogoutKeeps ==
  ASSUME SessionInv, NEW c \in Conns, msg_Logout(c)
  PROVE  SessionInv' /\ ChairsKeptIn(db')
<1>. DEFINE o == Now.m.session[c]
            a == RoomLogout(Now, o)
            b == IF a.ok THEN UserLogout(a, o) ELSE UserOffline(a, o)
            w == [b EXCEPT !.m.session[c] = Null]
<1>1. Now.m = m  BY NowWell
<1>2. Now.m.session[c] # Null /\ Step(w)  BY <1>1, Zenon DEF msg_Logout, w, b, a, o
<1>3. Well(db, w) /\ w.lost = Now.lost  BY Zenon, <1>2, NowWell, LogoutWell
<1>. HIDE DEF w
<1>. QED  BY <1>2, <1>3, NowWell, StepOf

LEMMA ChangeTableKeeps ==
  ASSUME SessionInv, Steady, NEW c \in Conns, ChangeTable(c)
  PROVE  SessionInv' /\ ChairsKeptIn(db')
<1>. DEFINE o == m.session[c]
<1>1. o # Null  BY DEF ChangeTable
<1>2. PICK fate \in Fates, rich \in BOOLEAN : Step(ChangeTo(Doing(fate), o, rich))
  BY DEF ChangeTable
<1>. DEFINE x == Doing(fate)
            y == ChangeTo(x, o, rich)
<1>3. Well(db, x) /\ x.m = m /\ x.lost = fate /\ roomType \in {0, 1}  BY DoingWell
<1>4. Step(y)  BY <1>2
<1>5. fate # "row"  BY DEF Fates, Steady
<1>. HIDE DEF x
<1>6. x \in Work /\ Served(x.m) /\ x.m.session[c] = o  BY <1>3 DEF Well, Good
<1>7. o \in x.m.live /\ Uid(x, o) # Null  BY <1>1, <1>6, WhoIsConnected
<1>. HIDE DEF o
<1>8. Well(db, y) /\ y.lost = x.lost  BY <1>3, <1>5, <1>7, ChangeToWell
<1>. HIDE DEF y
<1>. QED  BY <1>3, <1>4, <1>8, StepWell

LEMMA handle_readyKeeps ==
  ASSUME SessionInv, NEW c \in Conns, handle_ready(c)
  PROVE  SessionInv' /\ ChairsKeptIn(db')
<1>. DEFINE o == m.session[c]
            n == m.obj[o].table
            mine == ChairsOf(Now, n, Uid(Now, o))
            s == Min(mine)
            x == [Now EXCEPT !.m.table[n].chair[s].ready = TRUE]
            y == GameStart(x, n)
<1>1. /\ o # Null /\ n # Null /\ ~m.table[n].playing /\ mine # {}
      /\ \/ x.m.table[n].amount = x.m.table[n].size /\ Step(y)
         \/ Step(x)
  BY Zenon DEF handle_ready, o, n, mine, s, x, y
<1>2. Now \in Work /\ Well(db, Now) /\ Good(db, Now) /\ Served(Now.m) /\ Now.m = m  BY NowWell
<1>3. o \in Objs /\ Uid(Now, o) # Null  BY Zenon, <1>1, <1>2, WhoIsConnected
<1>4. n \in Tids
  <2>1. m.obj[o] \in Player  BY <1>2, <1>3, WorkTyped
  <2>. QED  BY Zenon, <1>1, <2>1, PlayerTyped
<1>. HIDE DEF o, n
<1>5. s \in Seat /\ Now.m.table[n].chair[s].uid = Uid(Now, o)
  BY <1>1, <1>2, <1>4, ChairsOfAre
<1>. HIDE DEF mine, s
<1>6. n \in Now.m.tables  BY <1>2, <1>3, <1>4, <1>5, SeatedInMemory
<1>7. /\ Well(db, x) /\ SameRest(Now, x) /\ x.m.tables = Now.m.tables
      /\ Alike(Now.m.table[n], x.m.table[n])
  BY Zenon, <1>2, <1>4, <1>5, ReadyWell
<1>. HIDE DEF x
<1>8. /\ n \in x.m.tables /\ ~x.m.table[n].playing /\ x.lost = "none"
  BY <1>1, <1>2, <1>6, <1>7, NowWell DEF Alike, SameRest
<1>9. CASE x.m.table[n].amount = x.m.table[n].size /\ Step(y)
  <2>1. Well(db, y) /\ y.lost = x.lost  BY <1>7, <1>8, <1>9, GameStartWell
  <2>. HIDE DEF y
  <2>. QED  BY <1>8, <1>9, <2>1, StepOf
<1>10. CASE Step(x)  BY <1>7, <1>8, <1>10, StepOf
<1>. QED  BY <1>1, <1>9, <1>10

LEMMA GameEndKeeps ==
  ASSUME SessionInv, NEW n \in Tids, GameEnd(n)
  PROVE  SessionInv' /\ ChairsKeptIn(db')
<1>. DEFINE e == [db EXCEPT !.row[n].playing = FALSE]
            y == [SaveStatus(Unready(Now, n), n, FALSE) EXCEPT !.m.table[n].playing = FALSE]
<1>1. n \in m.tables /\ Step(y)  BY DEF GameEnd
<1>2. db \in Database /\ db.row \in [Tids -> Row]  BY DEF SessionInv, TypeOK, Database
<1>3. /\ ~e.row[n].playing
      /\ \A k \in Tids : (e.row[k].playing => db.row[k].playing)
                         /\ e.row[k].chair = db.row[k].chair
  BY <1>2 DEF Database, Row
<1>. HIDE DEF e
<1>4. Well(e, Now)
  <2>1. Keeps(e, Now.db)  BY <1>3, NowWell DEF Keeps
  <2>. QED  BY <2>1, NowWell DEF Well, Good
<1>5. /\ Well(e, y) /\ y.lost = Now.lost
      /\ \A d \in y.trail \cup {y.db} : \A k \in Tids : d.row[k].chair = Now.db.row[k].chair
  <2>1. n \in Now.m.tables /\ ~e.row[n].playing /\ Now.trail = {}  BY <1>1, <1>3, NowWell
  <2>2. y = Ended(Now, n)  BY Zenon DEF Ended
  <2>. HIDE DEF y
  <2>. QED  BY <1>4, <2>1, <2>2, GameEndWell
<1>. HIDE DEF y
<1>6. \A d \in y.trail \cup {y.db} : ChairsKeptIn(d)
  BY <1>5, NowWell DEF ChairsKeptIn
<1>7. y.lost \in Fates  BY <1>5, NowWell
<1>. QED  BY <1>1, <1>5, <1>6, <1>7, StepDone

LEMMA ThrowOutKeeps ==
  ASSUME SessionInv, NEW n \in Tids, NEW late \in SUBSET Seat, ThrowOut(n, late)
  PROVE  SessionInv' /\ ChairsKeptIn(db')
<1>. DEFINE y == ThrowOutOne(ThrowOutOne(ThrowOutOne(Now, n, 0, late), n, 1, late), n, 2, late)
<1>1. /\ roomType = 0 /\ n \in Now.m.tables /\ ~Now.m.table[n].playing
      /\ \A s \in Seat : s \in late => Now.m.table[n].chair[s].uid # Null
      /\ Step(y)
  BY NowWell DEF ThrowOut, Occupied
<1>2. Well(db, y) /\ y.lost = Now.lost  BY <1>1, NowWell, ThrowOutWell
<1>. HIDE DEF y
<1>. QED  BY <1>1, <1>2, NowWell, StepOf

LEMMA onCloseKeeps ==
  ASSUME SessionInv, NEW c \in Conns, onClose(c)
  PROVE  SessionInv' /\ ChairsKeptIn(db')
<1>1. Step(Close(Now, c))  BY DEF onClose
<1>2. Well(db, Close(Now, c)) /\ Close(Now, c).lost = "none"  BY NowWell, CloseWell
<1>. QED  BY <1>1, <1>2, StepOf

LEMMA OnTimer_tickKeeps ==
  ASSUME SessionInv, OnTimer_tick
  PROVE  SessionInv' /\ ChairsKeptIn(db')
<1>. DEFINE G == {x \in Work : Well(db, x) /\ x.lost = "none"}
            y == FoldSet(LAMBDA c, x : Close(x, c), Now, m.tick)
<1>1. m.tick \in SUBSET Conns /\ IsFiniteSet(m.tick)
  BY NetsAre, NamesAssumption, FS_Subset
<1>2. Now \in G  BY NowWell
<1>3. ASSUME NEW x \in G, NEW c \in m.tick  PROVE Close(x, c) \in G
  <2>1. Well(db, Close(x, c)) /\ Close(x, c).lost = "none"  BY <1>1, CloseWell
  <2>. QED  BY <2>1 DEF Well, Good
<1>4. y \in G
  <2>. HIDE DEF G
  <2>. QED  BY Zenon, <1>1, <1>2, <1>3, ClosingAll
<1>5. Step(y)  BY Zenon DEF OnTimer_tick
<1>. HIDE DEF y
<1>. QED  BY <1>4, <1>5, StepOf

LEMMA OnTimer_dismissKeeps ==
  ASSUME SessionInv, OnTimer_dismiss
  PROVE  SessionInv' /\ ChairsKeptIn(db')
<1>. DEFINE y == [Now EXCEPT !.m.dismissed = {}]
<1>1. Step(y)  BY DEF OnTimer_dismiss
<1>2. Well(db, y) /\ SameRest(Now, y)  BY NowWell, DismissWell
<1>. HIDE DEF y
<1>3. y.lost = "none"  BY <1>2, NowWell DEF SameRest
<1>. QED  BY <1>1, <1>2, <1>3, StepOf

LEMMA CrashKeeps ==
  ASSUME SessionInv, Crash
  PROVE  SessionInv' /\ ChairsKeptIn(db')
<1>1. /\ m' = Booted /\ db' = db /\ roomType' = roomType /\ failures' = failures
      /\ crashes' = crashes + 1 /\ crashes < MaxCrashes
  BY DEF Crash
<1>2. RowsWell(db)  BY DEF SessionInv, Rooms
<1>3. Rooms(Booted, db) /\ Served(Booted) /\ Placed(Booted)  BY <1>2, BootedWell
<1>4. crashes' \in 0..MaxCrashes  BY <1>1, FaultsAssumption DEF SessionInv, TypeOK
<1>5. TypeOK'  BY <1>1, <1>4, FreshTyped DEF SessionInv, TypeOK
<1>6. Rooms(m, db)'  BY <1>1, <1>3 DEF Rooms, RowsWell
<1>7. Served(m)' /\ Placed(m)'  BY <1>1, <1>3 DEF Served, Placed
<1>8. ChairsKeptIn(db')  BY <1>1 DEF ChairsKeptIn
<1>. QED  BY <1>5, <1>6, <1>7, <1>8 DEF SessionInv

LEMMA InitHolds ==
  ASSUME Init
  PROVE  SessionInv
<1>1. m = Booted /\ roomType \in RoomTypes /\ failures = 0 /\ crashes = 0  BY DEF Init
<1>2. /\ db.zid = [u \in Ids |-> Null] /\ db.row = [n \in Tids |-> NoRow] /\ db.tid = 0
      /\ db.rooms = IF roomType = 1 THEN Tids ELSE {}
  BY DEF Init
<1>3. db \in Database
  <2>1. /\ [u \in Ids |-> Null] \in [Ids -> Tids \cup {Null}]
        /\ [n \in Tids |-> NoRow] \in [Tids -> Row] /\ 0 \in 0..MaxTid
    BY FreshTyped, NamesAssumption
  <2>. QED  BY <2>1 DEF Init, Database
<1>4. TypeOK  BY <1>1, <1>3, FreshTyped, FaultsAssumption DEF TypeOK
<1>5. RowsWell(db)  BY <1>2, NoRowWell DEF RowsWell
<1>6. Rooms(m, db) /\ Served(m) /\ Placed(m)  BY <1>1, <1>5, BootedWell
<1>. QED  BY <1>4, <1>6 DEF SessionInv

LEMMA NextKeeps ==
  ASSUME SessionInv, Steady, [Next]_vars
  PROVE  SessionInv' /\ ChairsKeptIn(db')
<1>1. ASSUME NEW c \in Conns, Connect(c)  PROVE SessionInv' /\ ChairsKeptIn(db')
  BY <1>1, ConnectKeeps
<1>2. ASSUME NEW c \in Conns, NEW u \in Users, msg_Login(c, u)
      PROVE  SessionInv' /\ ChairsKeptIn(db')
  BY <1>2, msg_LoginKeeps
<1>3. ASSUME NEW c \in Conns, msg_Logout(c)  PROVE SessionInv' /\ ChairsKeptIn(db')
  BY <1>3, msg_LogoutKeeps
<1>4. ASSUME NEW c \in Conns, ChangeTable(c)  PROVE SessionInv' /\ ChairsKeptIn(db')
  BY <1>4, ChangeTableKeeps
<1>5. ASSUME NEW c \in Conns, handle_ready(c)  PROVE SessionInv' /\ ChairsKeptIn(db')
  BY <1>5, handle_readyKeeps
<1>6. ASSUME NEW c \in Conns, onClose(c)  PROVE SessionInv' /\ ChairsKeptIn(db')
  BY <1>6, onCloseKeeps
<1>7. ASSUME NEW c \in Conns, OnTimeOut(c)  PROVE SessionInv' /\ ChairsKeptIn(db')
  BY <1>7, OnTimeOutKeeps
<1>8. ASSUME NEW n \in Tids, GameEnd(n)  PROVE SessionInv' /\ ChairsKeptIn(db')
  BY <1>8, GameEndKeeps
<1>9. ASSUME NEW n \in Tids, NEW late \in SUBSET Seat, ThrowOut(n, late)
      PROVE  SessionInv' /\ ChairsKeptIn(db')
  BY <1>9, ThrowOutKeeps
<1>10. CASE OnTimer_tick  BY <1>10, OnTimer_tickKeeps
<1>11. CASE OnTimer_dismiss  BY <1>11, OnTimer_dismissKeeps
<1>12. CASE Crash  BY <1>12, CrashKeeps
<1>13. CASE UNCHANGED vars
  <2>1. m' = m /\ db' = db /\ roomType' = roomType /\ failures' = failures /\ crashes' = crashes
    BY <1>13 DEF vars
  <2>2. SessionInv'
    BY <2>1 DEF SessionInv, TypeOK, Rooms, RowsWell, Served, Placed
  <2>3. ChairsKeptIn(db')  BY <2>1 DEF ChairsKeptIn
  <2>. QED  BY <2>2, <2>3
<1>. QED  BY <1>1, <1>2, <1>3, <1>4, <1>5, <1>6, <1>7, <1>8, <1>9, <1>10, <1>11, <1>12, <1>13
          DEF Next

-----------------------------------------------------------------------------
(***************************************************************************)
(* What is proved of every behaviour.                                      *)
(***************************************************************************)

(* The invariant: the memory is within its types, the tables and their     *)
(* rows agree, the players of the server are online or offline as they     *)
(* are connected, and a user's table is one in memory, after every         *)
(* handler, failure and restart (gameServer.cpp, gameRoom.cpp).            *)
THEOREM InvariantHolds == ASSUME Steady PROVE Spec => []SessionInv
<1>1. Init => SessionInv  BY InitHolds
<1>2. SessionInv /\ [Next]_vars => SessionInv'  BY NextKeeps
<1>. QED  BY <1>1, <1>2, PTL DEF Spec

(* Type correctness: a table never counts more players than it has chairs, *)
(* and no map leads to what is not a player or a table (Sitdown, LoadInfo, *)
(* Standup).                                                               *)
THEOREM TypesHold == ASSUME Steady PROVE Spec => []TypeOK
<1>1. SessionInv => TypeOK  BY DEF SessionInv
<1>. QED  BY <1>1, InvariantHolds, PTL

(* A connection leads to a player exactly when this player is online on    *)
(* it, and only connections that are open are left, whoever logs in, is    *)
(* kicked or closes (msg_Login, KickOut, msg_Logout, onClose).             *)
THEOREM ConnectionsAgreeHolds == ASSUME Steady PROVE Spec => []ConnectionsAgree
<1>1. ASSUME SessionInv  PROVE ConnectionsAgree
  <2>1. Users \subseteq Ids  BY NullIsNone
  <2>. QED  BY <1>1, <2>1 DEF SessionInv, Served, Online, Connected, ConnectionsAgree
<1>. QED  BY <1>1, InvariantHolds, PTL

(* A game that is played keeps its players, whoever comes, goes or loses   *)
(* the connection, whatever fails but a read of an account or of a row,    *)
(* and through any number of restarts (Standup, OnDisconnect, LoadInfo,    *)
(* SaveGameInfo).                                                          *)
THEOREM GameKeepsPlayersHolds == ASSUME Steady PROVE Spec => GameKeepsPlayers
<1>1. ASSUME SessionInv, [Next]_vars
      PROVE  [\A n \in Tids : db.row[n].playing => db'.row[n].chair = db.row[n].chair]_vars
  BY <1>1, NextKeeps DEF ChairsKeptIn
<1>. QED  BY <1>1, InvariantHolds, PTL DEF Spec, GameKeepsPlayers
=============================================================================
