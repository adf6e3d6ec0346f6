--------------------------- MODULE SessionPlaces ---------------------------
(***************************************************************************)
(* Who sits where: for every number of users, connections and tables, the  *)
(* players, the room, the chairs, the rows and the last rooms of the       *)
(* accounts stay together, whoever comes, goes or is thrown out, through   *)
(* any number of restarts.                                                 *)
(***************************************************************************)
EXTENDS SessionProofs

(* The player of a user whom the server knows, online or offline.          *)
Who(g, u) == IF g.online[u] # Null THEN g.online[u] ELSE g.offline[u]

SeatIn(d, n, u) == \E s \in Seat : d.row[n].chair[s] = u

(* No table in memory has a chair of the user.                             *)
Seatless(g, d, u) == \A n \in g.tables : ~SeatIn(d, n, u)

Nowhere(g, u) == g.at[u] = Null /\ g.here[u] = Null /\ g.away[u] = Null

(* The player of a chair is there, or absent, or was put back by LoadInfo  *)
(* and has not come so far.                                                *)
Placing(g, n, u, c) ==
  \/ /\ ~c.offline /\ g.obj[c.obj].table = n /\ g.obj[c.obj].uid = u
     /\ g.at[u] = n /\ g.here[u] = c.obj /\ g.away[u] = Null
  \/ /\ c.offline /\ g.obj[c.obj].table = n /\ g.obj[c.obj].uid = u
     /\ g.at[u] = n /\ g.here[u] = Null /\ g.away[u] = c.obj
  \/ c.offline /\ g.obj[c.obj].table = Null /\ Nowhere(g, u)

(* The last room of an account leads to the chair of its user; if nothing  *)
(* has failed (b), there is one whenever there is a last room.             *)
Booked(b, d, u) ==
  /\ \A n \in Tids : SeatIn(d, n, u) => d.zid[u] = n /\ (roomType = 1 => n \in d.rooms)
  /\ b /\ d.zid[u] # Null => SeatIn(d, d.zid[u], u)

Chaired(g, u, o) ==
  \A n \in g.tables, s \in Seat : LET c == g.table[n].chair[s] IN
    c.uid = u => c.obj = o /\ o # Null /\ Placing(g, n, u, c)

Lodged(b, g, d, u, o) ==
  /\ Booked(b, d, u) /\ Chaired(g, u, o)
  /\ Seatless(g, d, u) => Nowhere(g, u) /\ (o # Null => g.obj[o].table = Null)

(* Of a user whom the server knows, the table is in memory, and his chair  *)
(* tells whether he is online.                                             *)
Home(b, g, d, u) ==
  /\ Lodged(b, g, d, u, Who(g, u))
  /\ Who(g, u) # Null => \A n \in Tids : SeatIn(d, n, u) => n \in g.tables
  /\ \A n \in g.tables, s \in Seat : LET c == g.table[n].chair[s] IN
       c.uid = u => (c.offline <=> g.online[u] = Null)

(* Every player is known by his id; one without an id comes of an account  *)
(* that could not be read, and is at no table.                             *)
Known(b, g, d) ==
  /\ \A p \in g.live : LET u == g.obj[p].uid IN
       IF u = Null THEN ~b /\ g.obj[p].table = Null ELSE p = Who(g, u)
  /\ Nowhere(g, Null)
  /\ roomType = 1 => g.tables \subseteq d.rooms

Homes(b, g, d) == (\A u \in Users : Home(b, g, d, u)) /\ Known(b, g, d)

-----------------------------------------------------------------------------
(* Users have different players.                                           *)
LEMMA WhoApart ==
  ASSUME NEW g, Served(g), NEW u \in Ids, NEW v \in Ids, Who(g, u) = Who(g, v), Who(g, u) # Null
  PROVE  u = v
  BY DEF Served, Online, Offline, Who

LEMMA WhoLives ==
  ASSUME NEW g, Served(g), NEW u \in Ids, Who(g, u) # Null
  PROVE  Who(g, u) \in g.live
  BY DEF Served, Online, Offline, Who

(* A step that concerns other users.                                       *)
Untouched(x, y, v) ==
  /\ y.m.online[v] = x.m.online[v] /\ y.m.offline[v] = x.m.offline[v]
  /\ y.m.at[v] = x.m.at[v] /\ y.m.here[v] = x.m.here[v] /\ y.m.away[v] = x.m.away[v]
  /\ y.db.zid[v] = x.db.zid[v]
  /\ LET o == Who(x.m, v) IN
       o # Null => y.m.obj[o].table = x.m.obj[o].table /\ y.m.obj[o].uid = x.m.obj[o].uid
  /\ \A n \in Tids, s \in Seat : y.db.row[n].chair[s] = v <=> x.db.row[n].chair[s] = v
  /\ \A n \in Tids, s \in Seat : x.db.row[n].chair[s] = v =>
       (n \in x.m.tables => n \in y.m.tables) /\ (n \in x.db.rooms => n \in y.db.rooms)
  /\ \A n \in y.m.tables, s \in Seat : y.m.table[n].chair[s].uid = v =>
       /\ n \in x.m.tables /\ x.m.table[n].chair[s].uid = v
       /\ y.m.table[n].chair[s].obj = x.m.table[n].chair[s].obj
       /\ y.m.table[n].chair[s].offline = x.m.table[n].chair[s].offline

LEMMA UntouchedHome ==
  ASSUME NEW x \in Work, NEW y \in Work, Served(x.m), NEW v \in Users, NEW b,
         Home(b, x.m, x.db, v), Untouched(x, y, v)
  PROVE  Home(b, y.m, y.db, v)
<1>. DEFINE o == Who(x.m, v)
<1>1. Who(y.m, v) = o  BY DEF Untouched, Who
<1>2. \A n \in Tids : SeatIn(y.db, n, v) <=> SeatIn(x.db, n, v)
  BY DEF Untouched, SeatIn
<1>3. /\ x.m.tables \subseteq Tids /\ y.m.tables \subseteq Tids
      /\ x.db.zid \in [Ids -> Tids \cup {Null}] /\ v \in Ids
  BY WorkTyped, NullIsNone
<1>4. \A n \in Tids : SeatIn(x.db, n, v) =>
        (n \in x.m.tables => n \in y.m.tables) /\ (n \in x.db.rooms => n \in y.db.rooms)
  BY DEF Untouched, SeatIn
<1>5. Booked(b, y.db, v)
  <2>1. y.db.zid[v] = x.db.zid[v]  BY DEF Untouched
  <2>2. Booked(b, x.db, v)  BY DEF Home, Lodged
  <2>3. x.db.zid[v] \in Tids \cup {Null}  BY SMTT(60), <1>3
  <2>. QED  BY <1>2, <1>4, <2>1, <2>2, <2>3 DEF Booked
<1>6. ASSUME NEW n \in y.m.tables, NEW s \in Seat, y.m.table[n].chair[s].uid = v
      PROVE  LET c == y.m.table[n].chair[s] IN
             /\ c.obj = o /\ o # Null /\ Placing(y.m, n, v, c) /\ (c.offline <=> y.m.online[v] = Null)
  <2>. DEFINE c == y.m.table[n].chair[s]
              a == x.m.table[n].chair[s]
  <2>1. n \in x.m.tables /\ a.uid = v /\ c.obj = a.obj /\ c.offline = a.offline
    BY <1>6 DEF Untouched
  <2>2. a.obj = o /\ o # Null /\ Placing(x.m, n, v, a) /\ (a.offline <=> x.m.online[v] = Null)
    BY <2>1 DEF Home, Lodged, Chaired
  <2>. HIDE DEF a, c
  <2>3. y.m.obj[o].table = x.m.obj[o].table /\ y.m.obj[o].uid = x.m.obj[o].uid
    BY <2>2 DEF Untouched
  <2>4. y.m.at[v] = x.m.at[v] /\ y.m.here[v] = x.m.here[v] /\ y.m.away[v] = x.m.away[v]
    BY DEF Untouched
  <2>5. Placing(y.m, n, v, c)  BY <2>1, <2>2, <2>3, <2>4 DEF Placing, Nowhere
  <2>. QED  BY <2>1, <2>2, <2>5 DEF c, Untouched
<1>7. Seatless(y.m, y.db, v) => Seatless(x.m, x.db, v)
  BY <1>2, <1>3, <1>4 DEF Seatless
<1>8. ASSUME Seatless(y.m, y.db, v)
      PROVE  Nowhere(y.m, v) /\ (o # Null => y.m.obj[o].table = Null)
  <2>1. Nowhere(x.m, v) /\ (o # Null => x.m.obj[o].table = Null)
    BY <1>7, <1>8 DEF Home, Lodged
  <2>. QED  BY <2>1 DEF Untouched, Nowhere
<1>9. Lodged(b, y.m, y.db, v, o)  BY <1>5, <1>6, <1>8 DEF Lodged, Chaired
<1>10. o # Null => \A n \in Tids : SeatIn(y.db, n, v) => n \in y.m.tables
  <2>1. o # Null => \A n \in Tids : SeatIn(x.db, n, v) => n \in x.m.tables  BY DEF Home
  <2>. QED  BY <1>2, <1>4, <2>1
<1>. HIDE DEF o
<1>. QED  BY <1>1, <1>6, <1>9, <1>10 DEF Home

(* The chairs of a table in memory are those of its row.                   *)
LEMMA ChairsOfRow ==
  ASSUME NEW e, NEW x, Good(e, x), NEW n \in x.m.tables
  PROVE  /\ n \in Tids /\ n # Null
         /\ \A s \in Seat : x.m.table[n].chair[s].uid = x.db.row[n].chair[s]
         /\ \A u \in Ids : SeatIn(x.db, n, u) <=> \E s \in Seat : x.m.table[n].chair[s].uid = u
         /\ \A s, q \in Seat : LET t == x.m.table[n] IN
              t.chair[s].uid # Null /\ t.chair[s].uid = t.chair[q].uid => s = q
<1>1. x \in Work /\ n \in Tids /\ n # Null  BY WorkTyped, NullIsNone DEF Good
<1>2. \A s \in Seat : x.m.table[n].chair[s].uid = x.db.row[n].chair[s]
  BY DEF Good, Rooms, Mirrors
<1>3. RowWell(x.db.row[n])  BY <1>1 DEF Good, Rooms, RowsWell
<1>4. \A s, q \in Seat : LET t == x.m.table[n] IN
        t.chair[s].uid # Null /\ t.chair[s].uid = t.chair[q].uid => s = q
  <2>. DEFINE t == x.m.table[n]
              r == x.db.row[n]
  <2>1. \A s \in Seat : t.chair[s].uid = r.chair[s]  BY <1>2
  <2>2. RowWell(r)  BY <1>3
  <2>. HIDE DEF t, r
  <2>3. \A s, q \in Seat : t.chair[s].uid # Null /\ t.chair[s].uid = t.chair[q].uid => s = q
    BY <2>1, <2>2 DEF RowWell
  <2>. QED  BY <2>3 DEF t
<1>5. \A u \in Ids : SeatIn(x.db, n, u) <=> \E s \in Seat : x.m.table[n].chair[s].uid = u
  BY Zenon, <1>2 DEF SeatIn
<1>. QED  BY <1>1, <1>2, <1>4, <1>5

(* Where a player's table is, is his chair.                                *)
IsHis(x, u, o, n, s) ==
  LET c == x.m.table[n].chair[s] IN
  /\ n \in x.m.tables /\ x.m.at[u] = n /\ x.m.obj[o].uid = u
  /\ c.uid = u /\ c.obj = o /\ Placing(x.m, n, u, c)
  /\ \A q \in Seat : x.m.table[n].chair[q].uid = u => q = s

LEMMA TableIsHis ==
  ASSUME NEW e, NEW x, Good(e, x), NEW b, NEW u \in Users, NEW o,
         Lodged(b, x.m, x.db, u, o), o # Null, NEW n \in Tids, x.m.obj[o].table = n
  PROVE  \E s \in Seat : IsHis(x, u, o, n, s)
<1>1. ~Seatless(x.m, x.db, u)  BY NullIsNone DEF Lodged
<1>2. PICK k \in x.m.tables : SeatIn(x.db, k, u)  BY <1>1 DEF Seatless
<1>3. u # Null /\ u \in Ids  BY NullIsNone
<1>4. PICK s \in Seat : x.m.table[k].chair[s].uid = u  BY <1>2, <1>3, ChairsOfRow
<1>5. \A q \in Seat : x.m.table[k].chair[q].uid = u => q = s  BY <1>3, <1>4, ChairsOfRow
<1>. DEFINE c == x.m.table[k].chair[s]
<1>6. c.obj = o /\ Placing(x.m, k, u, c)  BY <1>4 DEF Lodged, Chaired
<1>. HIDE DEF c
<1>7. k = n /\ x.m.at[u] = n /\ x.m.obj[o].uid = u  BY <1>6, NullIsNone DEF Placing
<1>. QED  BY <1>4, <1>5, <1>6, <1>7 DEF c, IsHis

(* Who is online and at no table has no chair anywhere.                    *)
LEMMA NoTableNoChair ==
  ASSUME NEW e, NEW x, Good(e, x), NEW b, NEW u \in Users, Home(b, x.m, x.db, u),
         x.m.online[u] # Null, x.m.obj[x.m.online[u]].table = Null
  PROVE  Nowhere(x.m, u) /\ \A n \in Tids : ~SeatIn(x.db, n, u)
<1>. DEFINE o == x.m.online[u]
<1>1. Who(x.m, u) = o /\ o # Null  BY DEF Who
<1>2. Seatless(x.m, x.db, u)
  <2>. SUFFICES ASSUME NEW n \in x.m.tables, SeatIn(x.db, n, u) PROVE FALSE  BY DEF Seatless
  <2>1. PICK s \in Seat : x.m.table[n].chair[s].uid = u  BY NullIsNone, ChairsOfRow
  <2>. DEFINE c == x.m.table[n].chair[s]
  <2>2. c.obj = o /\ Placing(x.m, n, u, c) /\ ~c.offline
    BY <1>1, <2>1 DEF Home, Lodged, Chaired
  <2>. HIDE DEF c
  <2>3. n # Null  BY ChairsOfRow
  <2>. QED  BY <2>2, <2>3 DEF Placing
<1>3. Nowhere(x.m, u)  BY <1>2 DEF Home, Lodged
<1>4. \A n \in Tids : SeatIn(x.db, n, u) => n \in x.m.tables  BY <1>1 DEF Home
<1>. QED  BY <1>2, <1>3, <1>4 DEF Seatless

-----------------------------------------------------------------------------
(***************************************************************************)
(* Leaving a table.                                                        *)
(***************************************************************************)
LEMMA LeavesChair ==
  ASSUME NEW e, NEW x, Good(e, x), NEW o \in Objs, NEW n \in x.m.tables, NEW s \in Seat,
         x.m.table[n].chair[s].uid # Null, NEW y, Leaves(x, o, n, s, y)
  PROVE  /\ \A k \in Tids, q \in Seat : y.db.row[k].chair[q] =
              IF k = n /\ q = s THEN Null ELSE x.db.row[k].chair[q]
         /\ \A k \in Tids, q \in Seat : y.m.table[k].chair[q] =
              IF k = n /\ q = s THEN FreeChair ELSE x.m.table[k].chair[q]
         /\ y.m.tables \subseteq x.m.tables /\ y.db.rooms \subseteq x.db.rooms
         /\ \A k \in Tids, q \in Seat : y.db.row[k].chair[q] # Null =>
              /\ k \in x.m.tables => k \in y.m.tables
              /\ k \in x.db.rooms => k \in y.db.rooms
         /\ y.m.tables \subseteq x.db.rooms => y.m.tables \subseteq y.db.rooms
<1>. DEFINE t == x.m.table[n]
            r == x.db.row[n]
            last == t.amount = 1
<1>1. /\ x \in Work /\ n \in Tids /\ t \in Table /\ TableWell(t)
      /\ x.m.table \in [Tids -> Table] /\ x.db.row \in [Tids -> Row] /\ r \in Row
  BY WorkTyped DEF Good, Rooms
<1>2. \A q \in Seat : t.chair[q].uid = r.chair[q]  BY ChairsOfRow
<1>3. /\ \A q \in Seat : Emptied(t, s).chair[q] = IF q = s THEN FreeChair ELSE t.chair[q]
      /\ Emptied(t, s) \in Table /\ TableWell(Emptied(t, s))
      /\ Emptied(t, s).amount = t.amount - 1
  BY <1>1, EmptiedWell
<1>4. \A q \in Seat : Without(r, s).chair[q] = IF q = s THEN Null ELSE r.chair[q]
  <2>1. r.chair \in [Seat -> Ids]  BY <1>1 DEF Row
  <2>. HIDE DEF r
  <2>. QED  BY <1>1, <2>1 DEF Without, Row
<1>5. last => \A q \in Seat : q # s => r.chair[q] = Null
  <2>1. last => Emptied(t, s).amount = 0  BY <1>3
  <2>2. last => \A q \in Seat : Emptied(t, s).chair[q].uid = Null  BY <1>3, <2>1, TakenAre
  <2>. QED  BY Zenon, <1>2, <1>3, <2>2
<1>. HIDE DEF t, r
<1>6. /\ y.m.table = [x.m.table EXCEPT ![n] = Emptied(t, s)]
      /\ y.m.tables = IF last /\ roomType = 1 THEN x.m.tables \ {n} ELSE x.m.tables
      /\ y.db.row = IF last THEN [x.db.row EXCEPT ![n] = NoRow]
                    ELSE [x.db.row EXCEPT ![n] = Without(r, s)]
      /\ y.db.rooms = IF last /\ roomType = 1 THEN x.db.rooms \ {n} ELSE x.db.rooms
  BY DEF Leaves, t, r
<1>7. \A k \in Tids, q \in Seat : y.m.table[k].chair[q] =
              IF k = n /\ q = s THEN FreeChair ELSE x.m.table[k].chair[q]
  BY <1>1, <1>3, <1>6 DEF t
<1>8. \A q \in Seat : NoRow.chair[q] = Null  BY DEF NoRow
<1>9. \A k \in Tids, q \in Seat : y.db.row[k].chair[q] =
              IF k = n /\ q = s THEN Null ELSE x.db.row[k].chair[q]
  <2>1. CASE last
    <3>1. \A k \in Tids : y.db.row[k] = IF k = n THEN NoRow ELSE x.db.row[k]  BY <1>1, <1>6, <2>1
    <3>. QED  BY <1>5, <1>8, <2>1, <3>1 DEF r
  <2>2. CASE ~last
    <3>1. \A k \in Tids : y.db.row[k] = IF k = n THEN Without(r, s) ELSE x.db.row[k]
      BY <1>1, <1>6, <2>2
    <3>. QED  BY <1>4, <3>1 DEF r
  <2>. QED  BY <2>1, <2>2
<1>10. last => \A q \in Seat : y.db.row[n].chair[q] = Null  BY <1>1, <1>5, <1>9 DEF r
<1>. QED  BY <1>6, <1>7, <1>9, <1>10

-----------------------------------------------------------------------------
(***************************************************************************)
(* What a handler does to the seats, as the players of a table see them.   *)
(***************************************************************************)

(* No game begins or ends, and nobody becomes ready.                       *)
Quiet(x, y) ==
  /\ \A n \in Tids : y.db.row[n].playing = x.db.row[n].playing
  /\ \A n \in y.m.tables, s \in Seat : LET c == y.m.table[n].chair[s] IN
       c.ready /\ c.uid # Null =>
         n \in x.m.tables /\ x.m.table[n].chair[s].ready /\ x.m.table[n].chair[s].uid = c.uid

SameSeats(x, y, v) ==
  \A n \in Tids, s \in Seat : y.db.row[n].chair[s] = v <=> x.db.row[n].chair[s] = v

(* A user is as he was; he had been at his table and left it.              *)
Still(x, y, v) ==
  y.m.online[v] = x.m.online[v] /\ y.m.at[v] = x.m.at[v] /\ SameSeats(x, y, v)
Stood(x, y, v) == x.m.at[v] # Null /\ \A n \in Tids : ~SeatIn(y.db, n, v)

(* Some may go offline; one leaves; some leave; one may come, though not   *)
(* to table k.                                                             *)
Goes(x, y) ==
  /\ Quiet(x, y) /\ y.m.at = x.m.at
  /\ \A v \in Users : y.m.online[v] \in {x.m.online[v], Null} /\ SameSeats(x, y, v)
Parts(x, y, u) ==
  Quiet(x, y) /\ (\A v \in Users \ {u} : Still(x, y, v)) /\ Stood(x, y, u)
Vacates(x, y) ==
  Quiet(x, y) /\ \A v \in Users : Still(x, y, v) \/ Stood(x, y, v)
Arrives(x, y, u, k) ==
  /\ Quiet(x, y) /\ \A v \in Users \ {u} : Still(x, y, v)
  /\ \A n \in Tids, s \in Seat :
       /\ x.db.row[n].chair[s] = u => y.db.row[n].chair[s] = u
       /\ n = k /\ y.db.row[n].chair[s] = u => x.db.row[n].chair[s] = u

(* One who is online leaves his table, and may come to another one.        *)
Changes(x, y, u) ==
  /\ Quiet(x, y) /\ \A v \in Users \ {u} : Still(x, y, v)
  /\ y.m.online[u] = x.m.online[u] /\ x.m.online[u] # Null
  /\ x.m.at[u] # Null /\ ~SeatIn(y.db, x.m.at[u], u)

LEMMA QuietOn ==
  ASSUME NEW x, NEW y, NEW z, Quiet(x, y), Quiet(y, z)
  PROVE  Quiet(x, z)
<1>1. \A n \in Tids : z.db.row[n].playing = x.db.row[n].playing  BY DEF Quiet
<1>2. \A n \in z.m.tables, s \in Seat : LET c == z.m.table[n].chair[s] IN
        c.ready /\ c.uid # Null =>
          n \in x.m.tables /\ x.m.table[n].chair[s].ready /\ x.m.table[n].chair[s].uid = c.uid
  BY DEF Quiet
<1>. QED  BY <1>1, <1>2 DEF Quiet

LEMMA GoesOn ==
  ASSUME NEW x, NEW y, NEW z, Goes(x, y), Goes(y, z)
  PROVE  Goes(x, z)
<1>1. Quiet(x, z)  BY QuietOn DEF Goes
<1>2. z.m.at = x.m.at  BY DEF Goes
<1>3. \A v \in Users : z.m.online[v] \in {x.m.online[v], Null} /\ SameSeats(x, z, v)
  BY DEF Goes, SameSeats
<1>. QED  BY <1>1, <1>2, <1>3 DEF Goes

LEMMA StillOn ==
  ASSUME NEW x, NEW y, NEW z, NEW v, Still(x, y, v), Still(y, z, v)
  PROVE  Still(x, z, v)
BY DEF Still, SameSeats

LEMMA VacatesOn ==
  ASSUME NEW x, NEW y, NEW z, Vacates(x, y), Vacates(y, z)
  PROVE  Vacates(x, z)
<1>1. Quiet(x, z)  BY QuietOn DEF Vacates
<1>2. ASSUME NEW v \in Users  PROVE Still(x, z, v) \/ Stood(x, z, v)
  <2>1. Still(x, y, v) \/ Stood(x, y, v)  BY DEF Vacates
  <2>2. Still(y, z, v) \/ Stood(y, z, v)  BY DEF Vacates
  <2>3. CASE Still(x, y, v) /\ Still(y, z, v)  BY <2>3, StillOn
  <2>4. CASE Still(x, y, v) /\ Stood(y, z, v)  BY <2>4 DEF Still, Stood
  <2>5. CASE Stood(x, y, v)
    <3>1. \A n \in Tids : ~SeatIn(z.db, n, v)
      BY <2>2, <2>5 DEF Stood, Still, SameSeats, SeatIn
    <3>. QED  BY <2>5, <3>1 DEF Stood
  <2>. QED  BY <2>1, <2>2, <2>3, <2>4, <2>5
<1>. QED  BY <1>1, <1>2 DEF Vacates

LEMMA ArrivesOn ==
  ASSUME NEW x, NEW y, NEW z, NEW u, NEW k, Arrives(x, y, u, k), Arrives(y, z, u, k)
  PROVE  Arrives(x, z, u, k)
<1>1. Quiet(x, z)  BY QuietOn DEF Arrives
<1>2. \A v \in Users \ {u} : Still(x, z, v)  BY StillOn DEF Arrives
<1>3. \A n \in Tids, s \in Seat :
        /\ x.db.row[n].chair[s] = u => z.db.row[n].chair[s] = u
        /\ n = k /\ z.db.row[n].chair[s] = u => x.db.row[n].chair[s] = u
  BY DEF Arrives
<1>. QED  BY <1>1, <1>2, <1>3 DEF Arrives

(* What touches no table and no row touches no seat.                       *)
LEMMA SeatsApart ==
  ASSUME NEW x, NEW y, y.db.row = x.db.row, y.m.tables = x.m.tables, y.m.table = x.m.table
  PROVE  Quiet(x, y) /\ \A v : SameSeats(x, y, v)
BY DEF Quiet, SameSeats

LEMMA KnownKept ==
  ASSUME NEW b, NEW x \in Work, NEW y \in Work, Known(b, x.m, x.db),
         SameServer(x.m, y.m), SamePeople(x.m, y.m),
         \A p \in x.m.live : x.m.obj[p].uid = Null => y.m.obj[p].table = x.m.obj[p].table,
         Nowhere(y.m, Null), roomType = 1 => y.m.tables \subseteq y.db.rooms
  PROVE  Known(b, y.m, y.db)
<1>1. x.m.live \subseteq Objs /\ y.m.live = x.m.live  BY WorkTyped DEF SameServer
<1>2. \A u : Who(y.m, u) = Who(x.m, u)  BY DEF Who, SameServer
<1>3. \A p \in x.m.live : y.m.obj[p].uid = x.m.obj[p].uid  BY <1>1 DEF SamePeople
<1>. QED  BY <1>1, <1>2, <1>3 DEF Known

(* The player of a user leaves the chair of this user.                     *)
LEMMA LeaveTableHomes ==
  ASSUME NEW e, NEW x, Good(e, x), Served(x.m), NEW b, Homes(b, x.m, x.db), b => x.lost = "none",
         NEW o \in Objs, NEW n \in x.m.tables, NEW s \in Seat, ~x.m.table[n].playing,
         LET u == x.m.obj[o].uid IN
         u \in Users /\ Who(x.m, u) = o /\ x.m.table[n].chair[s].uid = u
  PROVE  LET y == LeaveTable(x, o, n, s)
             u == x.m.obj[o].uid IN
         /\ Homes(b, y.m, y.db) /\ y.m.obj[o].table = Null
         /\ x.m.at[u] # Null => Parts(x, y, u)
         /\ roomType = 0 => y.m.tables = x.m.tables
<1>. DEFINE y == LeaveTable(x, o, n, s)
            u == x.m.obj[o].uid
<1>1. /\ x \in Work /\ n \in Tids /\ u \in Users /\ u \in Ids /\ u # Null
      /\ x.m.table[n].chair[s].uid = u /\ Who(x.m, u) = o
  BY WorkTyped, NullIsNone DEF Good
<1>2. x.m.table[n].amount # 0  BY <1>1, WorkTyped, EmptiedWell DEF Good, Rooms
<1>3. Leaves(x, o, n, s, y)  BY <1>1, <1>2, LeaveTableDoes
<1>4. Good(e, y) /\ SameServer(x.m, y.m) /\ SamePeople(x.m, y.m)  BY SMTT(60), <1>1, LeaveTableGood
<1>. HIDE DEF y
<1>5. /\ \A k \in Tids, q \in Seat : y.db.row[k].chair[q] =
              IF k = n /\ q = s THEN Null ELSE x.db.row[k].chair[q]
      /\ \A k \in Tids, q \in Seat : y.m.table[k].chair[q] =
              IF k = n /\ q = s THEN FreeChair ELSE x.m.table[k].chair[q]
      /\ y.m.tables \subseteq x.m.tables /\ y.db.rooms \subseteq x.db.rooms
      /\ \A k \in Tids, q \in Seat : y.db.row[k].chair[q] # Null =>
           /\ k \in x.m.tables => k \in y.m.tables
           /\ k \in x.db.rooms => k \in y.db.rooms
      /\ y.m.tables \subseteq x.db.rooms => y.m.tables \subseteq y.db.rooms
  BY <1>1, <1>3, LeavesChair
<1>6. /\ y \in Work /\ x.m.tables \subseteq Tids
      /\ x.m.here \in [Ids -> Objs \cup {Null}] /\ x.m.away \in [Ids -> Objs \cup {Null}]
      /\ x.m.at \in [Ids -> Tids \cup {Null}] /\ x.db.zid \in [Ids -> Tids \cup {Null}]
      /\ x.m.obj \in [Objs -> Player]
  BY <1>1, <1>4, WorkTyped DEF Good
<1>7. /\ \A v \in Ids : y.m.here[v] = IF v = u THEN Null ELSE x.m.here[v]
      /\ \A v \in Ids : y.m.away[v] = IF v = u THEN Null ELSE x.m.away[v]
      /\ \A v \in Ids : y.m.at[v] = IF v = u THEN Null ELSE x.m.at[v]
      /\ \A v \in Ids : v # u => y.db.zid[v] = x.db.zid[v]
      /\ b => y.db.zid[u] = Null
      /\ \A p \in Objs : p # o => y.m.obj[p] = x.m.obj[p]
      /\ y.m.obj[o].table = Null
  <2>1. /\ y.m.obj = [x.m.obj EXCEPT ![o].table = Null]
        /\ y.m.here = [x.m.here EXCEPT ![u] = Null]
        /\ y.m.away = [x.m.away EXCEPT ![u] = Null]
        /\ y.m.at = [x.m.at EXCEPT ![u] = Null]
        /\ y.db.zid = IF x.lost = "leave" THEN x.db.zid ELSE [x.db.zid EXCEPT ![u] = Null]
    BY <1>3 DEF Leaves
  <2>2. x.m.obj[o] \in Player  BY <1>6
  <2>. HIDE DEF u
  <2>3. y.m.obj[o].table = Null  BY <1>6, <2>1, <2>2 DEF Player
  <2>4. \A p \in Objs : p # o => y.m.obj[p] = x.m.obj[p]  BY SMTT(60), <1>6, <2>1
  <2>. QED  BY <1>1, <1>6, <2>1, <2>3, <2>4
<1>8. \A k \in Tids : ~SeatIn(y.db, k, u)
  <2>. SUFFICES ASSUME NEW k \in Tids, NEW q \in Seat, y.db.row[k].chair[q] = u  PROVE FALSE
    BY DEF SeatIn
  <2>1. x.db.row[k].chair[q] = u /\ ~(k = n /\ q = s)  BY SMTT(60), <1>1, <1>5
  <2>2. x.db.row[n].chair[s] = u  BY SMTT(60), <1>1, ChairsOfRow
  <2>3. k = x.db.zid[u] /\ n = x.db.zid[u]
    <3>1. Booked(b, x.db, u)  BY <1>1 DEF Homes, Home, Lodged
    <3>2. SeatIn(x.db, k, u) /\ SeatIn(x.db, n, u)  BY SMTT(60), <2>1, <2>2 DEF SeatIn
    <3>. QED  BY <1>1, <3>1, <3>2 DEF Booked
  <2>4. x.m.table[n].chair[q].uid = u  BY ZenonT(60), <2>1, <2>3, ChairsOfRow
  <2>5. q = s  BY <1>1, <2>4, ChairsOfRow
  <2>. QED  BY ZenonT(60), <2>1, <2>3, <2>5
<1>9. ASSUME NEW v \in Users, v # u  PROVE Home(b, y.m, y.db, v) /\ Still(x, y, v)
  <2>1. v \in Ids /\ v # Null  BY NullIsNone
  <2>2. Home(b, x.m, x.db, v)  BY DEF Homes
  <2>. DEFINE w == Who(x.m, v)
  <2>3. w # o
    <3>. SUFFICES ASSUME w = o  PROVE FALSE  OBVIOUS
    <3>1. o # Null  BY NullIsNone
    <3>. QED  BY <1>1, <1>9, <2>1, <3>1, WhoApart
  <2>4. w # Null => w \in Objs  BY <1>1, <2>1, WhoLives, WorkTyped
  <2>5. w # Null => y.m.obj[w] = x.m.obj[w]  BY <1>7, <2>3, <2>4
  <2>. HIDE DEF u
  <2>6. \A k \in Tids, q \in Seat : y.db.row[k].chair[q] = v <=> x.db.row[k].chair[q] = v
    <3>1. x.db.row[n].chair[s] = u  BY <1>1, ChairsOfRow
    <3>. QED  BY <1>5, <1>9, <2>1, <3>1
  <2>7. \A k \in y.m.tables, q \in Seat : y.m.table[k].chair[q].uid = v =>
          k \in x.m.tables /\ y.m.table[k].chair[q] = x.m.table[k].chair[q]
    <3>1. FreeChair.uid = Null  BY DEF FreeChair
    <3>. QED  BY <1>5, <1>6, <2>1, <3>1
  <2>8. \A k \in Tids, q \in Seat : x.db.row[k].chair[q] = v =>
          (k \in x.m.tables => k \in y.m.tables) /\ (k \in x.db.rooms => k \in y.db.rooms)
    BY SMTT(60), <1>5, <2>1, <2>6
  <2>9. Untouched(x, y, v)
    BY SMTT(60), <1>4, <1>7, <1>9, <2>1, <2>5, <2>6, <2>7, <2>8 DEF Untouched, SameServer
  <2>10. Still(x, y, v)  BY <1>4, <1>7, <1>9, <2>1, <2>6 DEF Still, SameSeats, SameServer
  <2>. QED  BY <1>1, <1>6, <2>2, <2>9, <2>10, UntouchedHome
<1>10. Home(b, y.m, y.db, u)
  <2>1. Who(y.m, u) = o  BY <1>1, <1>4 DEF Who, SameServer
  <2>2. Booked(b, y.db, u)  BY <1>7, <1>8 DEF Booked
  <2>3. \A k \in y.m.tables, q \in Seat : y.m.table[k].chair[q].uid # u
    <3>. SUFFICES ASSUME NEW k \in y.m.tables, NEW q \in Seat, y.m.table[k].chair[q].uid = u
                  PROVE  FALSE
      BY SMTT(60)
    <3>1. k \in Tids /\ SeatIn(y.db, k, u)  BY <1>1, <1>4, ChairsOfRow
    <3>. QED  BY <1>8, <3>1
  <2>4. Nowhere(y.m, u)  BY <1>1, <1>7 DEF Nowhere
  <2>. QED  BY <1>7, <1>8, <2>1, <2>2, <2>3, <2>4 DEF Home, Lodged, Chaired
<1>11. Known(b, y.m, y.db)
  <2>1. Known(b, x.m, x.db)  BY DEF Homes
  <2>2. Nowhere(y.m, Null)
    <3>1. Nowhere(x.m, Null) /\ Null \in Ids  BY <2>1, NullIsNone DEF Known
    <3>. QED  BY <1>1, <1>7, <3>1 DEF Nowhere
  <2>3. \A p \in x.m.live : x.m.obj[p].uid = Null => y.m.obj[p].table = x.m.obj[p].table
    BY <1>1, <1>7, WorkTyped
  <2>4. roomType = 1 => y.m.tables \subseteq y.db.rooms
    <3>1. roomType = 1 => x.m.tables \subseteq x.db.rooms  BY <2>1 DEF Known
    <3>. QED  BY <1>5, <3>1
  <2>. QED  BY <1>1, <1>4, <1>6, <2>1, <2>2, <2>3, <2>4, KnownKept
<1>12. Quiet(x, y)
  <2>1. ~x.db.row[n].playing /\ x.db.row \in [Tids -> Row]  BY <1>1, WorkTyped DEF Good, Rooms, Mirrors
  <2>2. \A k \in Tids : y.db.row[k].playing = x.db.row[k].playing
    <3>1. x.db.row[n] \in Row  BY <1>1, <2>1
    <3>2. Without(x.db.row[n], s).playing = x.db.row[n].playing  BY <3>1 DEF Without, Row
    <3>3. NoRow.playing = FALSE /\ x.db.row[n].playing = FALSE
      BY <2>1, <3>1 DEF NoRow, Row
    <3>4. \/ y.db.row = [x.db.row EXCEPT ![n] = NoRow]
          \/ y.db.row = [x.db.row EXCEPT ![n] = Without(x.db.row[n], s)]
      BY <1>3 DEF Leaves
    <3>. QED  BY <1>1, <2>1, <3>2, <3>3, <3>4
  <2>3. FreeChair.uid = Null  BY DEF FreeChair
  <2>. QED  BY <1>5, <1>6, <2>2, <2>3 DEF Quiet
<1>13. x.m.at[u] # Null => Parts(x, y, u)  BY <1>8, <1>9, <1>12 DEF Parts, Stood
<1>14. roomType = 0 => y.m.tables = x.m.tables  BY <1>3 DEF Leaves
<1>. QED  BY <1>7, <1>9, <1>10, <1>11, <1>13, <1>14 DEF Homes, y

-----------------------------------------------------------------------------
(***************************************************************************)
(* Steps that move nobody.                                                 *)
(***************************************************************************)
SamePlaces(x, y) ==
  /\ y.m.session = x.m.session
  /\ y.m.online = x.m.online /\ y.m.offline = x.m.offline /\ y.m.live = x.m.live
  /\ SameRoom(x.m, y.m) /\ y.m.tables = x.m.tables
  /\ \A p \in Objs : y.m.obj[p].uid = x.m.obj[p].uid /\ y.m.obj[p].table = x.m.obj[p].table
  /\ \A n \in Tids, s \in Seat :
       /\ y.m.table[n].chair[s].uid = x.m.table[n].chair[s].uid
       /\ y.m.table[n].chair[s].obj = x.m.table[n].chair[s].obj
       /\ y.m.table[n].chair[s].offline = x.m.table[n].chair[s].offline
       /\ y.db.row[n].chair[s] = x.db.row[n].chair[s]
  /\ y.db.zid = x.db.zid /\ y.db.rooms = x.db.rooms

LEMMA SamePlacesHomes ==
  ASSUME NEW x \in Work, NEW y \in Work, Served(x.m), NEW b, Homes(b, x.m, x.db),
         SamePlaces(x, y)
  PROVE  Homes(b, y.m, y.db)
<1>. /\ x.m.tables \subseteq Tids /\ y.m.tables = x.m.tables /\ x.m.live \subseteq Objs
     /\ y.m.live = x.m.live
  BY WorkTyped DEF SamePlaces
<1>1. ASSUME NEW v \in Users  PROVE Home(b, y.m, y.db, v)
  <2>1. v \in Ids /\ Home(b, x.m, x.db, v)  BY NullIsNone DEF Homes
  <2>. DEFINE o == Who(x.m, v)
  <2>2. o # Null => o \in Objs  BY <2>1, WhoLives
  <2>. HIDE DEF o
  <2>3. Untouched(x, y, v)  BY SMTT(60), <2>2 DEF Untouched, SamePlaces, SameRoom, o
  <2>. QED  BY <2>1, <2>3, UntouchedHome
<1>2. Known(b, y.m, y.db)
  <2>1. Known(b, x.m, x.db)  BY DEF Homes
  <2>2. \A u : Who(y.m, u) = Who(x.m, u)  BY DEF Who, SamePlaces
  <2>. QED  BY <2>1, <2>2 DEF Known, SamePlaces, SameRoom, Nowhere
<1>. QED  BY <1>1, <1>2 DEF Homes

-----------------------------------------------------------------------------
(***************************************************************************)
(* A player goes: he is deleted if he has no table, else he is absent.     *)
(***************************************************************************)
SamePlayers(x, y) ==
  \A p \in y.m.live : y.m.obj[p].uid = x.m.obj[p].uid /\ y.m.obj[p].table = x.m.obj[p].table

IsDeleted(x, o, y) ==
  LET u == x.m.obj[o].uid IN
  /\ y \in Work /\ y.db = x.db /\ SameRoom(x.m, y.m) /\ SameTables(x.m, y.m)
  /\ y.m.online = [x.m.online EXCEPT ![u] = Null]
  /\ y.m.offline = [x.m.offline EXCEPT ![u] = Null]
  /\ y.m.live = x.m.live \ {o} /\ SamePlayers(x, y)

IsAbsent(x, o, n, y) ==
  LET u == x.m.obj[o].uid
      mine == ChairsOf(x, n, u) IN
  /\ y \in Work /\ y.db = x.db /\ y.m.at = x.m.at /\ y.m.tables = x.m.tables
  /\ y.m.here = [x.m.here EXCEPT ![u] = Null] /\ y.m.away = Insert(x.m.away, u, o)
  /\ y.m.table = IF mine = {} THEN x.m.table
                 ELSE [x.m.table EXCEPT ![n] = GoneOff(x.m.table[n], Min(mine))]
  /\ y.m.online = [x.m.online EXCEPT ![u] = Null]
  /\ y.m.offline = Insert(x.m.offline, u, o)
  /\ y.m.live = x.m.live /\ SamePlayers(x, y)

(* Of the others, their players stay, and their places.                    *)
LEMMA OthersStay ==
  ASSUME NEW x \in Work, NEW y \in Work, Served(x.m), NEW b, NEW o \in Objs,
         NEW u \in Users, Who(x.m, u) = o, NEW v \in Users, v # u, Home(b, x.m, x.db, v),
         y.m.online[v] = x.m.online[v], y.m.offline[v] = x.m.offline[v],
         y.m.at[v] = x.m.at[v], y.m.here[v] = x.m.here[v], y.m.away[v] = x.m.away[v],
         y.db.zid[v] = x.db.zid[v],
         \A p \in x.m.live \ {o} :
           y.m.obj[p].table = x.m.obj[p].table /\ y.m.obj[p].uid = x.m.obj[p].uid,
         \A n \in Tids, s \in Seat : y.db.row[n].chair[s] = v <=> x.db.row[n].chair[s] = v,
         \A n \in Tids, s \in Seat : x.db.row[n].chair[s] = v =>
           (n \in x.m.tables => n \in y.m.tables) /\ (n \in x.db.rooms => n \in y.db.rooms),
         \A n \in y.m.tables, s \in Seat : y.m.table[n].chair[s].uid = v =>
           /\ n \in x.m.tables /\ x.m.table[n].chair[s].uid = v
           /\ y.m.table[n].chair[s].obj = x.m.table[n].chair[s].obj
           /\ y.m.table[n].chair[s].offline = x.m.table[n].chair[s].offline
  PROVE  Home(b, y.m, y.db, v)
<1>1. u \in Ids /\ v \in Ids /\ o # Null  BY NullIsNone
<1>. DEFINE w == Who(x.m, v)
<1>2. w # Null => w \in x.m.live \ {o}  BY <1>1, WhoLives, WhoApart
<1>. HIDE DEF w
<1>3. Untouched(x, y, v)  BY <1>2 DEF Untouched, w
<1>. QED  BY <1>3, UntouchedHome

LEMMA DeletedHomes ==
  ASSUME NEW e, NEW x, Good(e, x), Served(x.m), NEW b, Homes(b, x.m, x.db), NEW o \in Objs,
         x.m.obj[o].uid \in Users, x.m.online[x.m.obj[o].uid] = o, x.m.obj[o].table = Null,
         NEW y, IsDeleted(x, o, y)
  PROVE  Homes(b, y.m, y.db)
<1>. DEFINE u == x.m.obj[o].uid
<1>1. /\ x \in Work /\ y \in Work /\ u \in Users /\ u \in Ids /\ u # Null /\ o # Null
      /\ x.m.online \in [Ids -> Objs \cup {Null}] /\ x.m.offline \in [Ids -> Objs \cup {Null}]
      /\ x.m.tables \subseteq Tids /\ x.m.online[u] = o /\ Who(x.m, u) = o
  BY WorkTyped, NullIsNone DEF Good, IsDeleted, Who
<1>2. /\ \A v \in Ids : y.m.online[v] = IF v = u THEN Null ELSE x.m.online[v]
      /\ \A v \in Ids : y.m.offline[v] = IF v = u THEN Null ELSE x.m.offline[v]
      /\ y.m.live = x.m.live \ {o} /\ y.db = x.db
      /\ y.m.at = x.m.at /\ y.m.here = x.m.here /\ y.m.away = x.m.away
      /\ y.m.tables = x.m.tables /\ y.m.table = x.m.table
      /\ \A p \in x.m.live \ {o} :
           y.m.obj[p].uid = x.m.obj[p].uid /\ y.m.obj[p].table = x.m.obj[p].table
  BY <1>1 DEF IsDeleted, SameRoom, SameTables, SamePlayers
<1>3. Home(b, x.m, x.db, u) /\ Known(b, x.m, x.db)  BY <1>1 DEF Homes
<1>4. Nowhere(x.m, u) /\ \A n \in Tids : ~SeatIn(x.db, n, u)
  BY SMTT(60), <1>1, <1>3, NoTableNoChair
<1>. HIDE DEF u
<1>5. ASSUME NEW v \in Users, v # u  PROVE Home(b, y.m, y.db, v)
  <2>1. v \in Ids /\ Home(b, x.m, x.db, v)  BY NullIsNone DEF Homes
  <2>2. /\ y.m.online[v] = x.m.online[v] /\ y.m.offline[v] = x.m.offline[v]
        /\ y.m.at[v] = x.m.at[v] /\ y.m.here[v] = x.m.here[v] /\ y.m.away[v] = x.m.away[v]
        /\ y.db.zid[v] = x.db.zid[v]
    BY <1>2, <1>5, <2>1
  <2>3. \A p \in x.m.live \ {o} :
          y.m.obj[p].table = x.m.obj[p].table /\ y.m.obj[p].uid = x.m.obj[p].uid
    BY <1>2
  <2>4. /\ \A n \in Tids, s \in Seat : y.db.row[n].chair[s] = v <=> x.db.row[n].chair[s] = v
        /\ \A n \in Tids, s \in Seat : x.db.row[n].chair[s] = v =>
             (n \in x.m.tables => n \in y.m.tables) /\ (n \in x.db.rooms => n \in y.db.rooms)
        /\ \A n \in y.m.tables, s \in Seat : y.m.table[n].chair[s].uid = v =>
             /\ n \in x.m.tables /\ x.m.table[n].chair[s].uid = v
             /\ y.m.table[n].chair[s].obj = x.m.table[n].chair[s].obj
             /\ y.m.table[n].chair[s].offline = x.m.table[n].chair[s].offline
    BY <1>2
  <2>. QED  BY ZenonT(60), <1>1, <1>5, <2>1, <2>2, <2>3, <2>4, OthersStay
<1>6. Home(b, y.m, y.db, u)
  <2>1. Who(y.m, u) = Null  BY <1>1, <1>2 DEF Who
  <2>2. Booked(b, y.db, u)  BY <1>2, <1>3 DEF Home, Lodged
  <2>3. \A n \in y.m.tables, s \in Seat : y.m.table[n].chair[s].uid # u
    <3>1. \A n \in x.m.tables, s \in Seat : x.m.table[n].chair[s].uid # u
      BY <1>1, <1>4, ChairsOfRow
    <3>. QED  BY <1>2, <3>1
  <2>4. Nowhere(y.m, u)  BY <1>2, <1>4 DEF Nowhere
  <2>. QED  BY <2>1, <2>2, <2>3, <2>4 DEF Home, Lodged, Chaired
<1>7. Known(b, y.m, y.db)
  <2>1. ASSUME NEW p \in y.m.live
        PROVE  LET v == y.m.obj[p].uid IN
               IF v = Null THEN ~b /\ y.m.obj[p].table = Null ELSE p = Who(y.m, v)
    <3>. DEFINE v == y.m.obj[p].uid
    <3>1. p \in x.m.live /\ p # o /\ v = x.m.obj[p].uid /\ y.m.obj[p].table = x.m.obj[p].table
      BY <1>2
    <3>2. v \in Ids  BY <1>1, <3>1, WorkTyped, PlayerTyped
    <3>3. IF v = Null THEN ~b /\ x.m.obj[p].table = Null ELSE p = Who(x.m, v)
      BY <1>3, <3>1 DEF Known
    <3>. HIDE DEF v
    <3>4. v # Null => v # u  BY <1>1, <3>1, <3>3
    <3>5. v # Null => Who(y.m, v) = Who(x.m, v)  BY <1>2, <3>2, <3>4 DEF Who
    <3>6. IF v = Null THEN ~b /\ y.m.obj[p].table = Null ELSE p = Who(y.m, v)
      BY <3>1, <3>3, <3>5
    <3>. QED  BY <3>6 DEF v
  <2>. QED  BY <1>2, <1>3, <2>1 DEF Known, Nowhere
<1>. QED  BY <1>5, <1>6, <1>7 DEF Homes

LEMMA MineIs ==
  ASSUME NEW e, NEW x, Good(e, x), NEW n \in x.m.tables, NEW s \in Seat, NEW u \in Users,
         x.m.table[n].chair[s].uid = u
  PROVE  ChairsOf(x, n, u) # {} /\ Min(ChairsOf(x, n, u)) = s
<1>1. x \in Work /\ n \in Tids /\ u # Null  BY WorkTyped, NullIsNone DEF Good
<1>. DEFINE t == x.m.table[n]
<1>2. TableWell(t)  BY <1>1 DEF Good, Rooms
<1>3. s \in 0..(t.size - 1)
  <2>. HIDE DEF t
  <2>1. t.chair[s].uid # Null  BY <1>1 DEF t
  <2>2. s < RoomSize /\ t.size = RoomSize /\ RoomSize \in 2..3
    BY <1>2, <2>1, SeatsAre, RoomAssumption DEF TableWell
  <2>3. s \in Nat  BY SeatsAre
  <2>. QED  BY <2>2, <2>3
<1>4. s \in ChairsOf(x, n, u)  BY <1>3 DEF ChairsOf
<1>5. /\ Min(ChairsOf(x, n, u)) \in Seat
      /\ x.m.table[n].chair[Min(ChairsOf(x, n, u))].uid = u
  <2>. DEFINE mine == ChairsOf(x, n, u)
  <2>1. mine # {}  BY <1>4
  <2>2. /\ mine \subseteq Seat /\ Min(mine) \in mine
        /\ \A q \in mine : x.m.table[n].chair[q].uid = u
    BY <1>1, <2>1, ChairsOfAre
  <2>. HIDE DEF mine
  <2>3. Min(mine) \in Seat /\ x.m.table[n].chair[Min(mine)].uid = u  BY <2>2
  <2>. QED  BY <2>3 DEF mine
<1>6. Min(ChairsOf(x, n, u)) = s  BY <1>1, <1>5, ChairsOfRow
<1>. QED  BY <1>4, <1>6

LEMMA AbsentHomes ==
  ASSUME NEW e, NEW x, Good(e, x), Served(x.m), NEW b, Homes(b, x.m, x.db), NEW o \in Objs,
         NEW u \in Users, x.m.obj[o].uid = u, x.m.online[u] = o,
         NEW n \in Tids, x.m.obj[o].table = n, NEW y, IsAbsent(x, o, n, y)
  PROVE  Homes(b, y.m, y.db)
<1>1. /\ x \in Work /\ y \in Work /\ u \in Ids /\ u # Null /\ o # Null /\ n # Null
      /\ x.m.online \in [Ids -> Objs \cup {Null}] /\ x.m.offline \in [Ids -> Objs \cup {Null}]
      /\ x.m.here \in [Ids -> Objs \cup {Null}] /\ x.m.away \in [Ids -> Objs \cup {Null}]
      /\ x.m.tables \subseteq Tids /\ x.m.online[u] = o /\ Who(x.m, u) = o
      /\ x.m.table \in [Tids -> Table]
  BY WorkTyped, NullIsNone DEF Good, IsAbsent, Who
<1>2. Home(b, x.m, x.db, u) /\ Known(b, x.m, x.db)  BY <1>1 DEF Homes
<1>3. o \in x.m.live /\ x.m.offline[u] = Null  BY <1>1 DEF Served, Online, Offline
<1>4. Lodged(b, x.m, x.db, u, o)  BY <1>1, <1>2 DEF Home
<1>4a. PICK s \in Seat : IsHis(x, u, o, n, s)  BY <1>1, <1>4, TableIsHis
<1>5. LET c == x.m.table[n].chair[s] IN
      /\ n \in x.m.tables /\ x.m.at[u] = n
      /\ c.uid = u /\ c.obj = o /\ Placing(x.m, n, u, c)
      /\ \A q \in Seat : x.m.table[n].chair[q].uid = u => q = s
  BY <1>4a DEF IsHis
<1>6. ChairsOf(x, n, u) # {} /\ Min(ChairsOf(x, n, u)) = s  BY <1>1, <1>5, MineIs
<1>. DEFINE t == x.m.table[n]
<1>7. /\ y.m.table = [x.m.table EXCEPT ![n] = GoneOff(t, s)] /\ y.db = x.db
      /\ n \in x.m.tables /\ y.m.at = x.m.at /\ y.m.tables = x.m.tables /\ y.m.live = x.m.live
      /\ y.m.here = [x.m.here EXCEPT ![u] = Null] /\ y.m.away = Insert(x.m.away, u, o)
      /\ y.m.online = [x.m.online EXCEPT ![u] = Null] /\ y.m.offline = Insert(x.m.offline, u, o)
      /\ \A p \in x.m.live :
           y.m.obj[p].uid = x.m.obj[p].uid /\ y.m.obj[p].table = x.m.obj[p].table
  BY <1>5, <1>6 DEF IsAbsent, SamePlayers
<1>8. t \in Table  BY <1>1
<1>9. \A q \in Seat : GoneOff(t, s).chair[q] =
        IF q = s THEN [t.chair[s] EXCEPT !.offline = TRUE] ELSE t.chair[q]
  <2>. HIDE DEF t
  <2>. QED  BY <1>8, GoneOffAlike
<1>10. t.chair[s] \in Chair  BY <1>8, TableTyped
<1>11. ~t.chair[s].offline  BY <1>1, <1>2, <1>5, TableTyped, <1>8 DEF Home
<1>12. \A k \in Tids, q \in Seat :
         /\ y.m.table[k].chair[q].uid = x.m.table[k].chair[q].uid
         /\ y.m.table[k].chair[q].obj = x.m.table[k].chair[q].obj
         /\ y.m.table[k].chair[q].offline =
              IF k = n /\ q = s THEN TRUE ELSE x.m.table[k].chair[q].offline
  <2>1. \A k \in Tids : y.m.table[k] = IF k = n THEN GoneOff(t, s) ELSE x.m.table[k]
    BY <1>1, <1>7, <1>8
  <2>. DEFINE c == t.chair[s]
  <2>2. /\ [c EXCEPT !.offline = TRUE].uid = c.uid /\ [c EXCEPT !.offline = TRUE].obj = c.obj
        /\ [c EXCEPT !.offline = TRUE].offline = TRUE
    <3>. HIDE DEF t
    <3>. QED  BY <1>10 DEF Chair
  <2>3. \A q \in Seat : /\ GoneOff(t, s).chair[q].uid = t.chair[q].uid
                        /\ GoneOff(t, s).chair[q].obj = t.chair[q].obj
                        /\ GoneOff(t, s).chair[q].offline =
                             IF q = s THEN TRUE ELSE t.chair[q].offline
    BY <1>9, <2>2
  <2>. QED  BY ZenonT(60), <2>1, <2>3
<1>13. Placing(x.m, n, u, t.chair[s])  BY <1>5
<1>14. /\ \A v \in Ids : y.m.online[v] = IF v = u THEN Null ELSE x.m.online[v]
       /\ \A v \in Ids : y.m.offline[v] = IF v = u THEN o ELSE x.m.offline[v]
       /\ \A v \in Ids : y.m.here[v] = IF v = u THEN Null ELSE x.m.here[v]
       /\ \A v \in Ids : y.m.away[v] = IF v = u THEN o ELSE x.m.away[v]
  <2>1. x.m.away[u] = Null  BY <1>5, <1>11, <1>13 DEF Placing
  <2>2. \A v \in Ids : y.m.away[v] = IF v = u THEN o ELSE x.m.away[v]
    <3>1. y.m.away = [x.m.away EXCEPT ![u] = o]  BY <1>7, <2>1 DEF Insert
    <3>. QED  BY <1>1, <3>1
  <2>3. \A v \in Ids : y.m.offline[v] = IF v = u THEN o ELSE x.m.offline[v]
    <3>1. y.m.offline = [x.m.offline EXCEPT ![u] = o]  BY <1>3, <1>7 DEF Insert
    <3>. QED  BY <1>1, <3>1
  <2>. QED  BY SMTT(60), <1>1, <1>7, <2>2, <2>3
<1>. HIDE DEF t
<1>14b. y.m.tables = x.m.tables /\ y.m.tables \subseteq Tids  BY SMTT(60), <1>1, <1>7
<1>15. ASSUME NEW v \in Users, v # u  PROVE Home(b, y.m, y.db, v)
  <2>1. v \in Ids /\ v # Null /\ Home(b, x.m, x.db, v)  BY NullIsNone DEF Homes
  <2>2. /\ y.m.online[v] = x.m.online[v] /\ y.m.offline[v] = x.m.offline[v]
        /\ y.m.at[v] = x.m.at[v] /\ y.m.here[v] = x.m.here[v] /\ y.m.away[v] = x.m.away[v]
        /\ y.db.zid[v] = x.db.zid[v]
    BY <1>7, <1>14, <1>15, <2>1
  <2>3. \A p \in x.m.live \ {o} :
          y.m.obj[p].table = x.m.obj[p].table /\ y.m.obj[p].uid = x.m.obj[p].uid
    BY <1>7
  <2>4. /\ \A k \in Tids, q \in Seat : y.db.row[k].chair[q] = v <=> x.db.row[k].chair[q] = v
        /\ \A k \in Tids, q \in Seat : x.db.row[k].chair[q] = v =>
             (k \in x.m.tables => k \in y.m.tables) /\ (k \in x.db.rooms => k \in y.db.rooms)
    BY <1>7
  <2>5. ASSUME NEW k \in y.m.tables, NEW q \in Seat, y.m.table[k].chair[q].uid = v
        PROVE  /\ k \in x.m.tables /\ x.m.table[k].chair[q].uid = v
               /\ y.m.table[k].chair[q].obj = x.m.table[k].chair[q].obj
               /\ y.m.table[k].chair[q].offline = x.m.table[k].chair[q].offline
    <3>1. k \in Tids /\ k \in x.m.tables  BY <1>14b
    <3>2. x.m.table[k].chair[q].uid = v  BY <1>12, <2>5, <3>1
    <3>3. x.m.table[n].chair[s].uid = u  BY <1>5
    <3>4. ~(k = n /\ q = s)  BY <1>15, <3>2, <3>3
    <3>. QED  BY <1>12, <3>1, <3>2, <3>4
  <2>6. x \in Work /\ y \in Work /\ Served(x.m) /\ Who(x.m, u) = o  BY <1>1
  <2>7. Home(b, x.m, x.db, v) /\ v # u  BY <1>15, <2>1
  <2>. QED  BY ZenonT(60), <2>2, <2>3, <2>4, <2>5, <2>6, <2>7, OthersStay
<1>16. Home(b, y.m, y.db, u)
  <2>1. Who(y.m, u) = o  BY <1>1, <1>14 DEF Who
  <2>2. Booked(b, y.db, u)  BY <1>4, <1>7 DEF Lodged
  <2>3. ASSUME NEW k \in y.m.tables, NEW q \in Seat, y.m.table[k].chair[q].uid = u
        PROVE  LET c == y.m.table[k].chair[q] IN
               c.obj = o /\ Placing(y.m, k, u, c) /\ c.offline
    <3>1. k \in Tids /\ k \in x.m.tables /\ x.m.table[k].chair[q].uid = u
      BY <1>12, <1>14b, <2>3
    <3>2. k = n
      <4>1. Placing(x.m, k, u, x.m.table[k].chair[q]) /\ x.m.table[k].chair[q].obj = o
        BY <1>4, <3>1 DEF Lodged, Chaired
      <4>2. ~x.m.table[k].chair[q].offline  BY <1>1, <1>2, <3>1, TableTyped DEF Home
      <4>. QED  BY <4>1, <4>2 DEF Placing
    <3>3. q = s  BY <1>5, <3>1, <3>2
    <3>4. y.m.table[n].chair[s].obj = o /\ y.m.table[n].chair[s].offline
      BY <1>5, <1>8, <1>12
    <3>5. y.m.obj[o].table = n /\ y.m.obj[o].uid = u  BY <1>3, <1>7
    <3>6. Placing(y.m, n, u, y.m.table[n].chair[s])
      BY ZenonT(60), <1>1, <1>5, <1>7, <1>14, <3>4, <3>5 DEF Placing
    <3>. QED  BY <3>2, <3>3, <3>4, <3>6
  <2>4. Seatless(y.m, y.db, u) => Seatless(x.m, x.db, u)  BY <1>7 DEF Seatless
  <2>5. ~Seatless(x.m, x.db, u)
    <3>1. SeatIn(x.db, n, u)  BY <1>1, <1>5, ChairsOfRow
    <3>. QED  BY <1>5, <3>1 DEF Seatless
  <2>6. \A k \in Tids : SeatIn(y.db, k, u) => k \in y.m.tables  BY <1>1, <1>2, <1>7 DEF Home
  <2>. QED  BY <1>1, <1>14, <2>1, <2>2, <2>3, <2>4, <2>5, <2>6 DEF Home, Lodged, Chaired
<1>17. Known(b, y.m, y.db)
  <2>1. \A v \in Ids : Who(y.m, v) = Who(x.m, v)  BY <1>1, <1>14 DEF Who
  <2>2. \A p \in x.m.live : x.m.obj[p].uid \in Ids  BY <1>1, WorkTyped, PlayerTyped
  <2>3. Nowhere(y.m, Null)  BY <1>1, <1>2, <1>7, <1>14, NullIsNone DEF Known, Nowhere
  <2>. QED  BY <1>2, <1>7, <2>1, <2>2, <2>3 DEF Known
<1>. QED  BY <1>15, <1>16, <1>17 DEF Homes

LEMMA SessionOffDoes ==
  ASSUME NEW z \in Work, NEW c \in Conns
  PROVE  LET w == [z EXCEPT !.m.session[c] = Null] IN
         /\ w \in Work /\ w.db = z.db /\ w.lost = z.lost
         /\ SameRoom(z.m, w.m) /\ SameTables(z.m, w.m)
         /\ w.m.online = z.m.online /\ w.m.offline = z.m.offline /\ w.m.live = z.m.live
         /\ w.m.obj = z.m.obj
<1>. DEFINE session == [z.m.session EXCEPT ![c] = Null]
            g == [z.m EXCEPT !.session = session]
            w == [z EXCEPT !.m = g]
<1>1. w = [z EXCEPT !.m.session[c] = Null]  BY Zenon
<1>2. z.m \in Memory /\ session \in [Conns -> Objs \cup {Null}]  BY WorkTyped
<1>. HIDE DEF session
<1>3. /\ g \in Memory /\ SameRoom(z.m, g) /\ SameTables(z.m, g)
      /\ g.online = z.m.online /\ g.offline = z.m.offline /\ g.live = z.m.live
      /\ g.obj = z.m.obj
  BY Zenon, <1>2 DEF Memory, SameRoom, SameTables
<1>. HIDE DEF g
<1>4. w \in Work /\ w.m = g /\ w.db = z.db /\ w.lost = z.lost  BY <1>3 DEF Work
<1>. HIDE DEF w
<1>. QED  BY <1>1, <1>3, <1>4

(* OnDisconnect deletes the player or makes him absent.                    *)
LEMMA OnDisconnectIs ==
  ASSUME NEW x \in Work, NEW o \in Objs, x.m.online[Uid(x, o)] # Null
  PROVE  LET y == OnDisconnect(x, o)
             n == x.m.obj[o].table IN
         IF n = Null THEN IsDeleted(x, o, y) ELSE IsAbsent(x, o, n, y)
<1>. DEFINE n == x.m.obj[o].table
            u == x.m.obj[o].uid
            obj == [x.m.obj EXCEPT ![o].online = FALSE, ![o].conn = Null]
            g == [x.m EXCEPT !.obj = obj]
            y == [x EXCEPT !.m = g]
            a == Absent(y, o, n)
            z == OnDisconnect(x, o)
<1>1. /\ x.m \in Memory /\ x.m.obj \in [Objs -> Player] /\ n \in Tids \cup {Null}
      /\ x.m.live \subseteq Objs
  BY WorkTyped, PlayerTyped
<1>2. /\ obj \in [Objs -> Player] /\ obj[o].uid = u /\ obj[o].table = n
      /\ \A p \in Objs : p # o => obj[p] = x.m.obj[p]
  BY Zenon, <1>1 DEF Player
<1>3. z = IF n = Null THEN UserLogout(y, o) ELSE UserOffline(a, o)
  <2>1. y = [x EXCEPT !.m.obj[o].online = FALSE, !.m.obj[o].conn = Null]  BY Zenon
  <2>2. OnDisconnect(x, o) =
          LET v == [x EXCEPT !.m.obj[o].online = FALSE, !.m.obj[o].conn = Null] IN
          IF n = Null THEN UserLogout(v, o) ELSE UserOffline(Absent(v, o, n), o)
    BY DEF OnDisconnect
  <2>. HIDE DEF y, n
  <2>. QED  BY <2>1, <2>2 DEF a
<1>. HIDE DEF n, u, obj
<1>4. /\ g \in Memory /\ g.obj = obj /\ SameServer(x.m, g) /\ SameRoom(x.m, g)
      /\ SameTables(x.m, g)
  BY Zenon, <1>1, <1>2 DEF Memory, SameServer, SameRoom, SameTables
<1>. HIDE DEF g
<1>5. y \in Work /\ y.m = g /\ SameRest(x, y)  BY <1>1, <1>4 DEF Work, SameRest
<1>. HIDE DEF y, z
<1>6. y.m.online[Uid(y, o)] # Null  BY <1>2, <1>4, <1>5 DEF SameServer, Uid, u
<1>7. /\ y.m.obj = obj /\ y.m.obj[o].uid = u /\ y.db = x.db
      /\ y.m.online = x.m.online /\ y.m.offline = x.m.offline /\ y.m.live = x.m.live
      /\ SameRoom(x.m, y.m) /\ SameTables(x.m, y.m)
  BY <1>2, <1>4, <1>5 DEF SameServer, SameRest
<1>8. \A p \in Objs : obj[p].uid = x.m.obj[p].uid /\ obj[p].table = x.m.obj[p].table
  BY <1>2 DEF u, n
<1>9. CASE n = Null
  <2>1. Parting(y, o, z) /\ SameHall(y, z) /\ Deletes(y, o, z)
    BY <1>3, <1>5, <1>6, <1>9, UserLogoutDoes
  <2>2. /\ z \in Work /\ z.db = x.db /\ SameRoom(x.m, z.m) /\ SameTables(x.m, z.m)
        /\ z.m.online = [x.m.online EXCEPT ![u] = Null]
        /\ z.m.offline = [x.m.offline EXCEPT ![u] = Null]
        /\ z.m.live = x.m.live \ {o} /\ z.m.obj = [obj EXCEPT ![o] = NoPlayer]
    BY <1>7, <2>1 DEF Parting, SameHall, SameRest, SameRoom, SameTables, Deletes
  <2>3. SamePlayers(x, z)  BY <1>1, <1>2, <1>8, <2>2 DEF SamePlayers
  <2>4. IsDeleted(x, o, z)  BY <2>2, <2>3 DEF IsDeleted, u
  <2>. QED  BY <1>9, <2>4 DEF z, n
<1>10. CASE n # Null
  <2>1. n \in Tids  BY <1>1, <1>10
  <2>2. GoesOff(y, o, n, a)  BY <1>5, <2>1, AbsentDoes
  <2>. HIDE DEF a
  <2>3. Parting(a, o, z) /\ SameHall(a, z) /\ KeepsOffline(a, o, z)
    <3>1. a \in Work  BY <2>2 DEF GoesOff
    <3>. QED  BY <1>3, <1>10, <3>1, UserOfflineDoes
  <2>4. ChairsOf(y, n, u) = ChairsOf(x, n, u)  BY <1>7 DEF ChairsOf, SameTables
  <2>5. /\ a.m.obj = obj /\ a.db = x.db /\ a.m.online = x.m.online /\ a.m.offline = x.m.offline
        /\ a.m.live = x.m.live /\ a.m.at = x.m.at /\ a.m.tables = x.m.tables
        /\ a.m.here = [x.m.here EXCEPT ![u] = Null] /\ a.m.away = Insert(x.m.away, u, o)
        /\ a.m.table = IF ChairsOf(x, n, u) = {} THEN x.m.table
                       ELSE [x.m.table EXCEPT ![n] = GoneOff(x.m.table[n], Min(ChairsOf(x, n, u)))]
    BY <1>7, <2>2, <2>4 DEF GoesOff, SameRest, SameServer, SameRoom, SameTables
  <2>6. /\ z \in Work /\ z.db = x.db /\ z.m.at = x.m.at /\ z.m.tables = x.m.tables
        /\ z.m.here = a.m.here /\ z.m.away = a.m.away /\ z.m.table = a.m.table
        /\ z.m.online = [x.m.online EXCEPT ![u] = Null] /\ z.m.offline = Insert(x.m.offline, u, o)
        /\ z.m.live = x.m.live /\ z.m.obj = [obj EXCEPT ![o].online = FALSE]
    BY <1>2, <2>3, <2>5
       DEF Parting, SameHall, SameRest, SameRoom, SameTables, KeepsOffline
  <2>7. SamePlayers(x, z)
    <3>1. obj[o] \in Player  BY <1>2
    <3>2. z.m.obj[o].uid = obj[o].uid /\ z.m.obj[o].table = obj[o].table
      BY <1>2, <2>6, <3>1 DEF Player
    <3>3. \A p \in Objs : p # o => z.m.obj[p] = obj[p]  BY <1>2, <2>6
    <3>. QED  BY <1>1, <1>8, <2>6, <3>2, <3>3 DEF SamePlayers
  <2>8. IsAbsent(x, o, n, z)  BY <2>5, <2>6, <2>7 DEF IsAbsent, u
  <2>. QED  BY <1>10, <2>8 DEF z, n
<1>. QED  BY <1>9, <1>10 DEF n

(* Either way, only the one who goes is seen to be away.                   *)
LEMMA DeletedGoes ==
  ASSUME NEW x \in Work, NEW o \in Objs, NEW y, IsDeleted(x, o, y)
  PROVE  Goes(x, y)
<1>1. /\ y.db = x.db /\ y.m.tables = x.m.tables /\ y.m.table = x.m.table /\ y.m.at = x.m.at
      /\ y.m.online = [x.m.online EXCEPT ![x.m.obj[o].uid] = Null]
  BY DEF IsDeleted, SameRoom, SameTables
<1>2. x.m.online \in [Ids -> Objs \cup {Null}]  BY WorkTyped
<1>3. \A v \in Users : y.m.online[v] \in {x.m.online[v], Null}  BY <1>1, <1>2, NullIsNone
<1>. QED  BY <1>1, <1>3, SeatsApart DEF Goes

LEMMA AbsentGoes ==
  ASSUME NEW x \in Work, NEW o \in Objs, NEW n \in Tids, x.m.obj[o].uid \in Users, NEW y,
         IsAbsent(x, o, n, y)
  PROVE  Goes(x, y)
<1>. DEFINE mine == ChairsOf(x, n, x.m.obj[o].uid)
<1>1. /\ y.db = x.db /\ y.m.tables = x.m.tables /\ y.m.at = x.m.at
      /\ y.m.online = [x.m.online EXCEPT ![x.m.obj[o].uid] = Null]
      /\ y.m.table = IF mine = {} THEN x.m.table
                     ELSE [x.m.table EXCEPT ![n] = GoneOff(x.m.table[n], Min(mine))]
  BY DEF IsAbsent
<1>2. /\ x.m.online \in [Ids -> Objs \cup {Null}] /\ x.m.table \in [Tids -> Table]
      /\ x.m.table[n] \in Table /\ x.m.tables \subseteq Tids
  BY WorkTyped
<1>3. \A v \in Users : y.m.online[v] \in {x.m.online[v], Null}  BY <1>1, <1>2, NullIsNone
<1>4. mine # {} => Min(mine) \in Seat  BY ChairsOfAre
<1>. HIDE DEF mine
<1>5. \A k \in Tids, s \in Seat : LET c == x.m.table[k].chair[s]
                                      d == y.m.table[k].chair[s] IN
        d.uid = c.uid /\ d.ready = c.ready
  <2>1. CASE mine = {}  BY <1>1, <2>1
  <2>2. CASE mine # {}
    <3>. DEFINE p == Min(mine)
                t == x.m.table[n]
                v == GoneOff(t, p)
    <3>1. p \in Seat  BY <1>4, <2>2
    <3>. HIDE DEF p
    <3>2. \A q \in Seat : v.chair[q] = IF q = p THEN [t.chair[p] EXCEPT !.offline = TRUE]
                                       ELSE t.chair[q]
      BY <1>2, <3>1, GoneOffAlike
    <3>3. t.chair[p] \in Chair  BY <1>2, <3>1, TableTyped
    <3>4. \A q \in Seat : v.chair[q].uid = t.chair[q].uid /\ v.chair[q].ready = t.chair[q].ready
      BY <3>2, <3>3 DEF Chair
    <3>5. y.m.table = [x.m.table EXCEPT ![n] = v]  BY <1>1, <2>2 DEF p
    <3>. HIDE DEF v
    <3>. QED  BY <1>2, <3>4, <3>5
  <2>. QED  BY <2>1, <2>2
<1>6. Quiet(x, y)  BY <1>1, <1>2, <1>5 DEF Quiet
<1>. QED  BY <1>1, <1>3, <1>6 DEF Goes, SameSeats

LEMMA GoneAfter ==
  ASSUME NEW x \in Work, NEW o \in Objs, NEW y \in Work, NEW u \in Users, y.m.obj[o].uid = u,
         Parts(x, y, u), NEW w, IsDeleted(y, o, w)
  PROVE  Parts(x, w, u)
<1>1. /\ w.db = y.db /\ w.m.tables = y.m.tables /\ w.m.table = y.m.table /\ w.m.at = y.m.at
      /\ w.m.online = [y.m.online EXCEPT ![u] = Null]
  BY DEF IsDeleted, SameRoom, SameTables
<1>2. y.m.online \in [Ids -> Objs \cup {Null}]  BY WorkTyped
<1>3. \A v \in Users \ {u} : w.m.online[v] = y.m.online[v]  BY <1>1, <1>2, NullIsNone
<1>4. Quiet(x, w)  BY <1>1, SeatsApart, QuietOn DEF Parts
<1>5. \A v \in Users \ {u} : Still(x, w, v)  BY <1>1, <1>3 DEF Parts, Still, SameSeats
<1>. QED  BY <1>1, <1>4, <1>5 DEF Parts, Stood, SeatIn

(* What every handler keeps.                                               *)
Settled(e, b, x) == Well(e, x) /\ Homes(b, x.m, x.db)

LEMMA WhoIsOn ==
  ASSUME NEW x \in Work, Served(x.m), NEW c \in Conns, x.m.session[c] # Null
  PROVE  LET o == x.m.session[c] IN
         /\ o \in Objs /\ Uid(x, o) \in Users /\ x.m.obj[o].uid = Uid(x, o)
         /\ x.m.online[Uid(x, o)] = o /\ Who(x.m, Uid(x, o)) = o
         /\ x.m.obj[o].table \in Tids \cup {Null}
<1>1. LET o == x.m.session[c] IN
      /\ o \in Objs /\ Uid(x, o) \in Ids /\ Uid(x, o) # Null /\ x.m.online[Uid(x, o)] = o
  BY WhoIsConnected
<1>2. LET o == x.m.session[c] IN x.m.obj[o].table \in Tids \cup {Null}
  BY <1>1, WorkTyped, PlayerTyped
<1>. QED  BY <1>1, <1>2, NullIsNone DEF Uid, Ids, Who

LEMMA CloseHomes ==
  ASSUME NEW e, NEW b, NEW x, Settled(e, b, x), NEW c \in Conns
  PROVE  /\ Settled(e, b, Close(x, c)) /\ Narrows(x.m, Close(x, c).m)
         /\ Goes(x, Close(x, c))
<1>. DEFINE o == x.m.session[c]
            g == [x.m EXCEPT !.open = x.m.open \ {c}, !.fresh = x.m.fresh \ {c},
                             !.tick = x.m.tick \ {c}]
            y == [x EXCEPT !.m = g]
            z == OnDisconnect(y, o)
            w == [z EXCEPT !.m.session[c] = Null]
            k == Close(x, c)
<1>1. /\ x \in Work /\ x.m \in Memory /\ o \in Objs \cup {Null} /\ Good(e, x) /\ Served(x.m)
      /\ Well(e, x) /\ Homes(b, x.m, x.db) /\ x.m.session \in [Conns -> Objs \cup {Null}]
      /\ x.m.open \subseteq Conns
  BY WorkTyped DEF Good, Well, Settled
<1>2. k = IF o = Null THEN y ELSE w
  <2>1. y = [x EXCEPT !.m.open = @ \ {c}, !.m.fresh = @ \ {c}, !.m.tick = @ \ {c}]  BY Zenon
  <2>2. Close(x, c) =
          LET v == [x EXCEPT !.m.open = @ \ {c}, !.m.fresh = @ \ {c}, !.m.tick = @ \ {c}] IN
          IF o = Null THEN v ELSE [OnDisconnect(v, o) EXCEPT !.m.session[c] = Null]
    BY DEF Close
  <2>. HIDE DEF y, o
  <2>. QED  BY <2>1, <2>2 DEF w, z, k
<1>3. /\ g \in Memory /\ g.online = x.m.online /\ g.session = x.m.session
      /\ g.offline = x.m.offline /\ g.live = x.m.live /\ g.obj = x.m.obj
      /\ SameRoom(x.m, g) /\ SameTables(x.m, g)
  BY Zenon, <1>1 DEF Memory, SameRoom, SameTables
<1>. HIDE DEF g
<1>4. y \in Work /\ y.m = g /\ y.db = x.db  BY <1>1, <1>3 DEF Work
<1>5. Well(e, k) /\ Narrows(x.m, k.m)  BY <1>1, CloseWell
<1>. HIDE DEF y
<1>6. SamePlaces(x, y)
  BY <1>3, <1>4 DEF SamePlaces, SameRoom, SameTables
<1>7. CASE o = Null
  <2>1. Homes(b, y.m, y.db)  BY <1>1, <1>4, <1>6, SamePlacesHomes
  <2>2. Goes(x, y)
    <3>1. y.db = x.db /\ y.m.tables = x.m.tables /\ y.m.table = x.m.table
      BY <1>3, <1>4 DEF SameTables
    <3>2. y.m.online = x.m.online /\ y.m.at = x.m.at  BY <1>3, <1>4 DEF SameRoom
    <3>. QED  BY <3>1, <3>2, SeatsApart DEF Goes
  <2>. QED  BY <1>2, <1>5, <1>7, <2>1, <2>2 DEF Settled, k
<1>8. CASE o # Null
  <2>. DEFINE u == Uid(x, o)
              n == x.m.obj[o].table
  <2>1. /\ o \in Objs /\ u \in Users /\ x.m.obj[o].uid = u /\ x.m.online[u] = o /\ o # Null
        /\ n \in Tids \cup {Null}
    <3>1. x.m.session[c] # Null  BY <1>8
    <3>. QED  BY <1>1, <1>8, <3>1, WhoIsOn
  <2>. HIDE DEF o, w, k, u, n
  <2>2. y.m.online[Uid(y, o)] # Null  BY <1>3, <1>4, <2>1 DEF Uid
  <2>3. y.m.obj[o].table = n  BY <1>3, <1>4 DEF n
  <2>4. IF n = Null THEN IsDeleted(y, o, z) ELSE IsAbsent(y, o, n, z)
    BY Zenon, <1>4, <2>1, <2>2, <2>3, OnDisconnectIs
  <2>. HIDE DEF z
  <2>5. z \in Work  BY <2>4 DEF IsDeleted, IsAbsent
  <2>6. /\ w \in Work /\ w.db = z.db /\ SameRoom(z.m, w.m) /\ SameTables(z.m, w.m)
        /\ w.m.online = z.m.online /\ w.m.offline = z.m.offline /\ w.m.live = z.m.live
        /\ w.m.obj = z.m.obj
    BY Zenon, <2>5, SessionOffDoes DEF w
  <2>7. Homes(b, w.m, w.db) /\ Goes(x, w)
    <3>1. CASE n = Null
      <4>1. IsDeleted(y, o, z)  BY <2>4, <3>1
      <4>2. IsDeleted(x, o, w)
        BY <1>3, <1>4, <2>6, <4>1 DEF IsDeleted, SameRoom, SameTables, SamePlayers
      <4>3. Homes(b, w.m, w.db)  BY <1>1, <2>1, <3>1, <4>2, DeletedHomes DEF n
      <4>. QED  BY <1>1, <2>1, <4>2, <4>3, DeletedGoes
    <3>2. CASE n # Null
      <4>1. IsAbsent(y, o, n, z)  BY <2>4, <3>2
      <4>2. ChairsOf(y, n, u) = ChairsOf(x, n, u)  BY <1>3, <1>4 DEF ChairsOf, SameTables
      <4>3. IsAbsent(x, o, n, w)
        BY <1>3, <1>4, <2>1, <2>6, <4>1, <4>2 DEF IsAbsent, SameRoom, SameTables, SamePlayers
      <4>4. n \in Tids /\ x.m.obj[o].table = n  BY <2>1, <3>2 DEF n
      <4>5. Homes(b, w.m, w.db)  BY <1>1, <2>1, <4>3, <4>4, AbsentHomes
      <4>. QED  BY <1>1, <2>1, <4>3, <4>4, <4>5, AbsentGoes
    <3>. QED  BY <3>1, <3>2
  <2>. QED  BY <1>2, <1>5, <1>8, <2>7 DEF Settled, k
<1>. QED  BY <1>7, <1>8

LEMMA StandupHomes ==
  ASSUME NEW e, NEW x, Good(e, x), Served(x.m), NEW b, Homes(b, x.m, x.db), b => x.lost = "none",
         NEW o \in Objs, NEW u \in Users, Uid(x, o) = u, Who(x.m, u) = o, NEW n \in Tids
  PROVE  LET y == Standup(x, o, n) IN
         /\ Homes(b, y.m, y.db) /\ Good(e, y) /\ Served(y.m)
         /\ y.m.online = x.m.online /\ y.m.obj[o].uid = u
         /\ ~y.ok => y.m = x.m /\ y.db = x.db
         /\ y.ok /\ (\E s \in Seat : x.m.table[n].chair[s].uid = u) =>
              y.m.obj[o].table = Null /\ (x.m.at[u] # Null => Parts(x, y, u))
         /\ roomType = 0 => y.m.tables = x.m.tables
<1>. DEFINE mine == ChairsOf(x, n, Uid(x, o))
            s == Min(mine)
            a == LeaveTable(x, o, n, s)
            y == Standup(x, o, n)
<1>1. x \in Work /\ u # Null /\ u \in Ids /\ x.m.obj[o].uid = u  BY NullIsNone DEF Good, Uid
<1>2. InRoom(e, x, y)  BY <1>1, StandupInRoom
<1>3. /\ Good(e, y) /\ y \in Work /\ SameServer(x.m, y.m) /\ SamePeople(x.m, y.m)
  BY <1>2 DEF InRoom, Good
<1>. HIDE DEF y
<1>4. Served(y.m) /\ y.m.online = x.m.online /\ y.m.obj[o].uid = u
  BY <1>1, <1>3, ServedKept DEF SameServer, SamePeople
<1>5. CASE mine = {} \/ x.m.table[n].playing
  <2>1. PICK k \in BOOLEAN : y = [x EXCEPT !.ok = k] /\ k = (mine = {})
    BY Zenon, <1>5 DEF Standup, y
  <2>2. y.m = x.m /\ y.db = x.db /\ y.ok = (mine = {})
    <3>. HIDE DEF mine
    <3>. DEFINE v == [x EXCEPT !.ok = k]
    <3>1. v.m = x.m /\ SameRest(x, v) /\ v.ok = k  BY ZenonT(60), <1>1, NotesDo, NullIsNone
    <3>. HIDE DEF v
    <3>2. y = v  BY <2>1 DEF v
    <3>. QED  BY <2>1, <3>1, <3>2 DEF SameRest
  <2>3. mine = {} => \A q \in Seat : x.m.table[n].chair[q].uid # u
    <3>. SUFFICES ASSUME mine = {}, NEW q \in Seat, x.m.table[n].chair[q].uid = u
                  PROVE  FALSE
      OBVIOUS
    <3>1. n \in x.m.tables  BY <1>1, SeatedInMemory
    <3>. QED  BY <3>1, MineIs
  <2>. QED  BY <1>3, <1>4, <2>2, <2>3 DEF y
<1>6. CASE mine # {} /\ ~x.m.table[n].playing
  <2>1. y = [a EXCEPT !.ok = TRUE]  BY <1>6 DEF Standup, y
  <2>2. s \in Seat /\ x.m.table[n].chair[s].uid = u  BY <1>1, <1>6, ChairsOfAre
  <2>. HIDE DEF s, mine
  <2>3. n \in x.m.tables  BY <1>1, <2>2, SeatedInMemory
  <2>4. /\ Homes(b, a.m, a.db) /\ a.m.obj[o].table = Null
        /\ x.m.at[u] # Null => Parts(x, a, u)
        /\ roomType = 0 => a.m.tables = x.m.tables
    BY <1>1, <1>6, <2>2, <2>3, LeaveTableHomes
  <2>5. a \in Work  BY <1>1, <1>6, <2>2, <2>3, LeaveTableGood DEF Good
  <2>. HIDE DEF a
  <2>6. y.m = a.m /\ y.db = a.db /\ y.ok
    BY ZenonT(60), <2>1, <2>5, NotesDo, NullIsNone DEF SameRest
  <2>7. Parts(x, a, u) => Parts(x, y, u)
    BY <2>6 DEF Parts, Quiet, Still, SameSeats, Stood, SeatIn
  <2>. QED  BY <1>3, <1>4, <2>4, <2>6, <2>7 DEF y
<1>. QED  BY <1>5, <1>6

LEMMA LogoutHomes ==
  ASSUME NEW e, NEW b, NEW x, Settled(e, b, x), b => x.lost = "none", NEW c \in Conns,
         x.m.session[c] # Null, x.m.obj[x.m.session[c]].table # Null, roomType \in {0, 1}
  PROVE  LET o == x.m.session[c]
             a == RoomLogout(x, o)
             k == IF a.ok THEN UserLogout(a, o) ELSE UserOffline(a, o)
             w == [k EXCEPT !.m.session[c] = Null] IN
         /\ Settled(e, b, w) /\ Narrows(x.m, w.m)
         /\ Goes(x, w) \/ \E u \in Users : Parts(x, w, u)
<1>. DEFINE o == x.m.session[c]
            n == x.m.obj[o].table
            u == Uid(x, o)
            a == RoomLogout(x, o)
            k == IF a.ok THEN UserLogout(a, o) ELSE UserOffline(a, o)
            w == [k EXCEPT !.m.session[c] = Null]
            y == Standup(x, o, n)
            z == Absent(x, o, n)
<1>1. /\ x \in Work /\ Good(e, x) /\ Served(x.m) /\ Well(e, x) /\ Homes(b, x.m, x.db)
  BY DEF Settled, Well, Good
<1>2. /\ o \in Objs /\ u \in Users /\ x.m.obj[o].uid = u /\ x.m.online[u] = o /\ Who(x.m, u) = o
      /\ n \in Tids
  BY SMTT(60), <1>1, WhoIsOn
<1>3. Well(e, w) /\ Narrows(x.m, w.m)  BY ZenonT(60), <1>1, LogoutWell
<1>4. a = IF y.ok THEN y ELSE [z EXCEPT !.ok = FALSE]
  <2>1. n # Null  OBVIOUS
  <2>. QED  BY Zenon, <2>1 DEF RoomLogout
<1>. HIDE DEF o, n, u
<1>5. /\ Homes(b, y.m, y.db) /\ Good(e, y) /\ Served(y.m)
      /\ y.m.online = x.m.online /\ y.m.obj[o].uid = u
      /\ y.ok /\ (\E s \in Seat : x.m.table[n].chair[s].uid = u) =>
           y.m.obj[o].table = Null /\ (x.m.at[u] # Null => Parts(x, y, u))
  BY <1>1, <1>2, StandupHomes DEF u
<1>6. GoesOff(x, o, n, z)  BY <1>1, <1>2, AbsentDoes
<1>7. (\E s \in Seat : x.m.table[n].chair[s].uid = u) /\ x.m.at[u] # Null
  <2>1. Lodged(b, x.m, x.db, u, o) /\ o # Null  BY <1>1, <1>2, NullIsNone DEF Homes, Home
  <2>2. x.m.obj[o].table = n  BY DEF n
  <2>3. PICK s \in Seat : IsHis(x, u, o, n, s)  BY ZenonT(60), <1>1, <1>2, <2>1, <2>2, TableIsHis
  <2>. QED  BY <1>2, <2>3, NullIsNone DEF IsHis
<1>. HIDE DEF y, z, w
<1>8. CASE y.ok
  <2>1. k = UserLogout(y, o)  BY <1>4, <1>8
  <2>. HIDE DEF k, a
  <2>2. y \in Work /\ y.m.online[Uid(y, o)] # Null /\ Uid(y, o) = u /\ y.m.online[u] = o
    BY <1>2, <1>5, NullIsNone DEF Good, Uid
  <2>3. Parting(y, o, k) /\ SameHall(y, k) /\ Deletes(y, o, k)
    BY <1>2, <2>1, <2>2, UserLogoutDoes
  <2>4. k \in Work  BY <2>3 DEF Parting
  <2>5. /\ w \in Work /\ w.db = k.db /\ SameRoom(k.m, w.m) /\ SameTables(k.m, w.m)
        /\ w.m.online = k.m.online /\ w.m.offline = k.m.offline /\ w.m.live = k.m.live
        /\ w.m.obj = k.m.obj
    BY Zenon, <2>4, SessionOffDoes DEF w
  <2>6. SamePlayers(y, w)
    <3>1. y.m.live \subseteq Objs /\ y.m.obj \in [Objs -> Player]  BY <2>2, WorkTyped
    <3>2. w.m.live = y.m.live \ {o} /\ w.m.obj = [y.m.obj EXCEPT ![o] = NoPlayer]
      BY <2>3, <2>5 DEF Deletes
    <3>. QED  BY <3>1, <3>2 DEF SamePlayers
  <2>7. IsDeleted(y, o, w)
    BY <1>2, <1>5, <2>3, <2>5, <2>6
       DEF IsDeleted, Deletes, SameHall, SameRest, SameRoom, SameTables
  <2>8. Homes(b, w.m, w.db)
    BY <1>2, <1>5, <1>7, <1>8, <2>2, <2>7, DeletedHomes
  <2>9. Parts(x, w, u)
    <3>1. Parts(x, y, u)  BY <1>5, <1>7, <1>8
    <3>. QED  BY <1>1, <1>2, <1>5, <2>2, <2>7, <3>1, GoneAfter
  <2>10. \E v \in Users : Parts(x, w, v)  BY <1>2, <2>9
  <2>. QED  BY ZenonT(60), <1>3, <2>8, <2>10 DEF Settled, w, k, a, o
<1>9. CASE ~y.ok
  <2>1. a = [z EXCEPT !.ok = FALSE]  BY <1>4, <1>9
  <2>2. z \in Work  BY <1>6 DEF GoesOff
  <2>3. a \in Work /\ a.m = z.m /\ SameRest(z, a) /\ a.ok = FALSE
    <3>. HIDE DEF a
    <3>. DEFINE v == [z EXCEPT !.ok = FALSE]
    <3>1. v \in Work /\ v.m = z.m /\ SameRest(z, v) /\ v.ok = FALSE
      BY Zenon, <2>2, NotesDo, NullIsNone
    <3>. HIDE DEF v
    <3>2. a = v  BY <2>1 DEF v
    <3>. QED  BY <3>1, <3>2
  <2>. HIDE DEF a
  <2>4. k = UserOffline(a, o)  BY <2>3
  <2>. HIDE DEF k
  <2>5. Parting(a, o, k) /\ SameHall(a, k) /\ KeepsOffline(a, o, k)
    BY <1>2, <2>3, <2>4, UserOfflineDoes
  <2>6. k \in Work  BY <2>5 DEF Parting
  <2>7. /\ w \in Work /\ w.db = k.db /\ SameRoom(k.m, w.m) /\ SameTables(k.m, w.m)
        /\ w.m.online = k.m.online /\ w.m.offline = k.m.offline /\ w.m.live = k.m.live
        /\ w.m.obj = k.m.obj
    BY Zenon, <2>6, SessionOffDoes DEF w
  <2>8. /\ a.m.obj = x.m.obj /\ a.db = x.db /\ a.m.online = x.m.online
        /\ a.m.offline = x.m.offline
        /\ a.m.live = x.m.live /\ a.m.at = x.m.at /\ a.m.tables = x.m.tables
        /\ a.m.here = [x.m.here EXCEPT ![u] = Null] /\ a.m.away = Insert(x.m.away, u, o)
        /\ a.m.table = IF ChairsOf(x, n, u) = {} THEN x.m.table
                       ELSE [x.m.table EXCEPT ![n] = GoneOff(x.m.table[n], Min(ChairsOf(x, n, u)))]
    BY <1>2, <1>6, <2>3 DEF GoesOff, SameRest, SameServer
  <2>9. SamePlayers(x, w)
    <3>1. x.m.live \subseteq Objs /\ x.m.obj \in [Objs -> Player]  BY <1>1, WorkTyped
    <3>2. w.m.live = x.m.live /\ w.m.obj = [x.m.obj EXCEPT ![o].online = FALSE]
      BY <2>5, <2>7, <2>8 DEF KeepsOffline
    <3>3. w.m.obj[o].uid = x.m.obj[o].uid /\ w.m.obj[o].table = x.m.obj[o].table
      BY <1>2, <3>1, <3>2 DEF Player
    <3>4. \A p \in Objs : p # o => w.m.obj[p] = x.m.obj[p]  BY <3>1, <3>2
    <3>. QED  BY <3>1, <3>2, <3>3, <3>4 DEF SamePlayers
  <2>10. IsAbsent(x, o, n, w)
    BY <1>2, <2>5, <2>7, <2>8, <2>9
       DEF IsAbsent, KeepsOffline, SameHall, SameRest, SameRoom, SameTables
  <2>11. x.m.obj[o].table = n  BY DEF n
  <2>12. Homes(b, w.m, w.db)  BY SMTT(60), <1>1, <1>2, <2>10, <2>11, AbsentHomes
  <2>13. Goes(x, w)  BY <1>1, <1>2, <2>10, AbsentGoes
  <2>. QED  BY Zenon, <1>3, <2>12, <2>13 DEF Settled, w, k, a, o
<1>. QED  BY ZenonT(60), <1>8, <1>9

-----------------------------------------------------------------------------
(***************************************************************************)
(* A player sits down at a table, on his chair or on a free one.           *)
(***************************************************************************)
Joined(x, u, o, n, s, y) ==
  /\ y \in Work /\ y.m.online = x.m.online /\ y.m.offline = x.m.offline
  /\ y.m.live = x.m.live /\ y.m.tables = x.m.tables /\ y.db.rooms = x.db.rooms
  /\ \A v \in Ids : /\ y.m.at[v] = IF v = u THEN n ELSE x.m.at[v]
                    /\ y.m.here[v] = IF v = u THEN o ELSE x.m.here[v]
                    /\ y.m.away[v] = IF v = u THEN Null ELSE x.m.away[v]
                    /\ y.db.zid[v] = IF v = u THEN n ELSE x.db.zid[v]
  /\ \A p \in Objs : /\ y.m.obj[p].uid = x.m.obj[p].uid
                     /\ y.m.obj[p].table = IF p = o THEN n ELSE x.m.obj[p].table
  /\ \A k \in Tids, q \in Seat : LET c == x.m.table[k].chair[q]
                                     d == y.m.table[k].chair[q] IN
       IF k = n /\ q = s
       THEN y.db.row[k].chair[q] = u /\ d.uid = u /\ d.obj = o /\ ~d.offline
       ELSE /\ y.db.row[k].chair[q] = x.db.row[k].chair[q]
            /\ d.uid = c.uid /\ d.obj = c.obj /\ d.offline = c.offline
  /\ \A q \in Seat : q # s => x.m.table[n].chair[q].uid # u
  /\ x.m.table[n].chair[s].uid \in {Null, u}
  /\ x.m.table[n].chair[s].uid = u => y.db.row = x.db.row
  /\ Quiet(x, y)

(* The chair after Sitdown.                                                *)
SatDown(x, u, o, n, s, y) ==
  /\ y \in Work /\ y.lost = x.lost /\ y.ok
  /\ SameServer(x.m, y.m) /\ SameRoom(x.m, y.m) /\ y.m.obj = x.m.obj
  /\ y.m.tables = x.m.tables /\ y.db.rooms = x.db.rooms /\ y.db.zid = x.db.zid
  /\ \A k \in Tids, q \in Seat : LET c == x.m.table[k].chair[q]
                                     d == y.m.table[k].chair[q] IN
       IF k = n /\ q = s
       THEN y.db.row[k].chair[q] = u /\ d.uid = u /\ d.obj = o /\ ~d.offline
       ELSE /\ y.db.row[k].chair[q] = x.db.row[k].chair[q]
            /\ d.uid = c.uid /\ d.obj = c.obj /\ d.offline = c.offline
  /\ \A q \in Seat : q # s => x.m.table[n].chair[q].uid # u
  /\ x.m.table[n].chair[s].uid \in {Null, u}
  /\ x.m.table[n].chair[s].uid = u => y.db.row = x.db.row
  /\ Quiet(x, y)

NotSatDown(x, u, n, y) ==
  /\ ~y.ok /\ y.m = x.m /\ y.db = x.db /\ y \in Work
  /\ \A q \in Seat : x.m.table[n].chair[q].uid # u

LEMMA SitdownIs ==
  ASSUME NEW e, NEW x, Good(e, x), NEW o \in Objs, NEW u \in Users, Uid(x, o) = u,
         NEW n \in x.m.tables,
         \A q \in Seat : x.m.table[n].chair[q].uid = u => x.m.table[n].chair[q].obj = o
  PROVE  LET y == Sitdown(x, o, n) IN
         NotSatDown(x, u, n, y) \/ \E s \in Seat : SatDown(x, u, o, n, s, y)
<1>. DEFINE y == Sitdown(x, o, n)
            t == x.m.table[n]
            r == x.db.row[n]
<1>1. /\ x \in Work /\ n \in Tids /\ t \in Table /\ TableWell(t) /\ u \in Ids /\ u # Null
      /\ x.m.table \in [Tids -> Table] /\ x.db.row \in [Tids -> Row] /\ r \in Row /\ RowWell(r)
      /\ x.m.obj[o].uid = u
  BY ZenonT(60), WorkTyped, NullIsNone DEF Good, Rooms, RowsWell, Uid
<1>2. /\ \A q \in Seat : t.chair[q].uid = r.chair[q]
      /\ \A s, q \in Seat : t.chair[s].uid = u /\ t.chair[q].uid = u => s = q
  BY <1>1, ChairsOfRow
<1>3. \/ y = [x EXCEPT !.ok = FALSE]
      \/ \E s \in Seat : /\ s < RoomSize /\ t.chair[s].uid = Null
                         /\ (\A q \in Seat : t.chair[q].uid # x.m.obj[o].uid)
                         /\ ~t.playing /\ Sits(x, o, n, s, y)
      \/ \E s \in Seat : /\ t.chair[s].uid = x.m.obj[o].uid /\ Returns(x, o, n, s, y)
  BY <1>1, SitdownDoes
<1>4. ASSUME NEW q \in Seat, t.chair[q].uid = u  PROVE y.ok
  <2>1. ChairsOf(x, n, u) # {} /\ Min(ChairsOf(x, n, u)) = q  BY <1>4, MineIs
  <2>2. t.chair[q].obj = o  BY <1>4
  <2>3. y = Return(x, o, n, q)
    BY Zenon, <2>1, <2>2 DEF Sitdown
  <2>4. Return(x, o, n, q).ok = TRUE  BY <1>1 DEF Return, Work
  <2>. QED  BY <2>3, <2>4
<1>. HIDE DEF y
<1>5. CASE y = [x EXCEPT !.ok = FALSE]
  <2>1. y \in Work /\ y.m = x.m /\ SameRest(x, y) /\ ~y.ok
    BY Zenon, <1>1, <1>5, NotesDo, NullIsNone
  <2>2. \A q \in Seat : t.chair[q].uid # u  BY SMTT(60), <1>4, <2>1
  <2>. QED  BY <2>1, <2>2 DEF NotSatDown, SameRest, y
<1>6. ASSUME NEW s \in Seat, s < RoomSize, t.chair[s].uid = Null,
             \A q \in Seat : t.chair[q].uid # u, Sits(x, o, n, s, y)
      PROVE  SatDown(x, u, o, n, s, y)
  <2>. DEFINE v == SatOn(t, s, u, o)
              w == With(r, s, u)
  <2>1. \A q \in Seat : v.chair[q] = IF q = s THEN Newcomer(u, o) ELSE t.chair[q]
    BY <1>1, <1>6, SatOnWell
  <2>2. \A q \in Seat : r.chair[q] # u  BY <1>2, <1>6
  <2>3. \A q \in Seat : w.chair[q] = IF q = s THEN u ELSE r.chair[q]
    BY <1>1, <1>6, <2>2, WithWell
  <2>4. /\ y \in Work /\ SameServer(x.m, y.m) /\ y.m.obj = x.m.obj /\ y.lost = x.lost
        /\ y.ok /\ SameRoom(x.m, y.m)
        /\ y.m.tables = x.m.tables
        /\ y.m.table = [x.m.table EXCEPT ![n] = v]
        /\ y.db.rooms = x.db.rooms /\ y.db.zid = x.db.zid
        /\ y.db.row = [x.db.row EXCEPT ![n] = w]
    BY <1>1, <1>6 DEF Sits
  <2>. HIDE DEF v, w, t, r
  <2>5. /\ \A k \in Tids : y.m.table[k] = IF k = n THEN v ELSE x.m.table[k]
        /\ \A k \in Tids : y.db.row[k] = IF k = n THEN w ELSE x.db.row[k]
    BY <1>1, <2>4
  <2>6. Newcomer(u, o).uid = u /\ Newcomer(u, o).obj = o /\ ~Newcomer(u, o).offline
    BY DEF Newcomer
  <2>7. \A k \in Tids, q \in Seat :
          LET c == x.m.table[k].chair[q]
              d == y.m.table[k].chair[q] IN
          IF k = n /\ q = s
          THEN y.db.row[k].chair[q] = u /\ d.uid = u /\ d.obj = o /\ ~d.offline
          ELSE /\ y.db.row[k].chair[q] = x.db.row[k].chair[q]
               /\ d.uid = c.uid /\ d.obj = c.obj /\ d.offline = c.offline
    BY SMTT(60), <2>1, <2>3, <2>5, <2>6 DEF t, r
  <2>8. \A q \in Seat : x.m.table[n].chair[q].uid # u  BY <1>6 DEF t
  <2>9. x.m.table[n].chair[s].uid = Null  BY <1>6 DEF t
  <2>10. Quiet(x, y)
    <3>1. ~Newcomer(u, o).ready  BY DEF Newcomer
    <3>2. w.playing = r.playing  BY <1>1 DEF w, With, Row
    <3>3. \A k \in Tids : y.db.row[k].playing = x.db.row[k].playing  BY <2>5, <3>2 DEF r
    <3>4. x.m.tables \subseteq Tids  BY <1>1, WorkTyped
    <3>5. \A k \in Tids, q \in Seat : y.m.table[k].chair[q] =
            IF k = n /\ q = s THEN Newcomer(u, o) ELSE x.m.table[k].chair[q]
      BY <2>1, <2>5 DEF t
    <3>. QED  BY <2>4, <3>1, <3>3, <3>4, <3>5 DEF Quiet
  <2>. QED  BY SMTT(60), <1>6, <2>4, <2>7, <2>8, <2>9, <2>10 DEF SatDown
<1>7. ASSUME NEW s \in Seat, t.chair[s].uid = u, Returns(x, o, n, s, y)
      PROVE  SatDown(x, u, o, n, s, y)
  <2>. DEFINE v == CameBack(t, s, o)
              c0 == [t.chair[s] EXCEPT !.offline = FALSE]
  <2>1. t.chair[s].obj = o /\ o # Null  BY <1>7, NullIsNone
  <2>2. \A q \in Seat : v.chair[q] = IF q = s THEN c0 ELSE t.chair[q]
    BY ZenonT(60), <1>1, <2>1, CameBackAlike
  <2>3. /\ y \in Work /\ SameServer(x.m, y.m) /\ y.m.obj = x.m.obj /\ y.lost = x.lost
        /\ y.ok /\ SameRoom(x.m, y.m)
        /\ y.m.tables = x.m.tables
        /\ y.m.table = [x.m.table EXCEPT ![n] = v] /\ y.db = x.db
    BY <1>7 DEF Returns, SameRest
  <2>4. t.chair[s] \in Chair  BY <1>1, TableTyped
  <2>. HIDE DEF v, t
  <2>5. \A k \in Tids : y.m.table[k] = IF k = n THEN v ELSE x.m.table[k]
    BY <1>1, <2>3
  <2>6. x.db.row[n].chair[s] = u  BY <1>2, <1>7 DEF r
  <2>7. c0.uid = u /\ c0.obj = o /\ ~c0.offline /\ c0.ready = t.chair[s].ready
    BY <1>7, <2>1, <2>4 DEF Chair
  <2>. HIDE DEF c0
  <2>8. \A k \in Tids, q \in Seat :
          LET c == x.m.table[k].chair[q]
              d == y.m.table[k].chair[q] IN
          IF k = n /\ q = s
          THEN y.db.row[k].chair[q] = u /\ d.uid = u /\ d.obj = o /\ ~d.offline
          ELSE /\ y.db.row[k].chair[q] = x.db.row[k].chair[q]
               /\ d.uid = c.uid /\ d.obj = c.obj /\ d.offline = c.offline
    BY <2>2, <2>3, <2>5, <2>6, <2>7 DEF t
  <2>9. Quiet(x, y)
    <3>1. x.m.tables \subseteq Tids  BY <1>1, WorkTyped
    <3>2. \A k \in Tids, q \in Seat : y.m.table[k].chair[q] =
            IF k = n /\ q = s THEN c0 ELSE x.m.table[k].chair[q]
      BY <2>2, <2>5 DEF t
    <3>3. t.chair[s] = x.m.table[n].chair[s]  BY DEF t
    <3>. QED  BY <1>7, <2>3, <2>7, <3>1, <3>2, <3>3 DEF Quiet
  <2>. QED  BY <1>2, <1>7, <2>3, <2>8, <2>9 DEF SatDown, t
<1>. QED  BY <1>1, <1>3, <1>5, <1>6, <1>7 DEF y

LEMMA JoinIs ==
  ASSUME NEW e, NEW x, Good(e, x), NEW o \in Objs, NEW u \in Users, Uid(x, o) = u,
         NEW n \in x.m.tables, x.lost # "enter", x.m.here[u] = Null, x.m.at[u] \in {Null, n},
         \A q \in Seat : x.m.table[n].chair[q].uid = u => x.m.table[n].chair[q].obj = o
  PROVE  LET y == Join(x, o, n) IN
         NotSatDown(x, u, n, y) \/ (y.ok /\ \E s \in Seat : Joined(x, u, o, n, s, y))
<1>. DEFINE y == Sitdown(x, o, n)
            z == Entered(y, o, n, u)
            w == SetLastRoom(z, u, n)
<1>1. x \in Work /\ n \in Tids /\ u \in Ids /\ u # Null  BY WorkTyped, NullIsNone DEF Good
<1>2. NotSatDown(x, u, n, y) \/ \E s \in Seat : SatDown(x, u, o, n, s, y)
  BY SitdownIs
<1>3. Join(x, o, n) = IF y.ok THEN w ELSE y
  <2>. DEFINE J(v) == IF y.ok THEN SetLastRoom(Entered(y, o, n, v), v, n) ELSE y
  <2>1. Join(x, o, n) = J(Uid(x, o))  BY Zenon DEF Join, Entered
  <2>2. J(u) = IF y.ok THEN w ELSE y  OBVIOUS
  <2>. HIDE DEF J
  <2>. QED  BY <2>1, <2>2
<1>. HIDE DEF y
<1>4. CASE NotSatDown(x, u, n, y)  BY <1>3, <1>4 DEF NotSatDown
<1>5. ASSUME NEW s \in Seat, SatDown(x, u, o, n, s, y)
      PROVE  w.ok /\ Joined(x, u, o, n, s, w) /\ y.ok
  <2>1. /\ y \in Work /\ y.lost = x.lost /\ y.ok
        /\ SameServer(x.m, y.m) /\ SameRoom(x.m, y.m) /\ y.m.obj = x.m.obj
        /\ y.m.tables = x.m.tables /\ y.db.rooms = x.db.rooms /\ y.db.zid = x.db.zid
    BY <1>5 DEF SatDown
  <2>2. Enters(y, o, n, u, z)  BY <1>1, <2>1, EnteredDoes
  <2>. HIDE DEF z
  <2>3. /\ z \in Work /\ z.lost = x.lost /\ z.ok = y.ok /\ z.db = y.db
        /\ SameServer(y.m, z.m) /\ SameTables(y.m, z.m)
        /\ z.m.obj = [x.m.obj EXCEPT ![o].table = n]
        /\ z.m.at = Insert(x.m.at, u, n) /\ z.m.here = Insert(x.m.here, u, o)
        /\ z.m.away = [x.m.away EXCEPT ![u] = Null]
    BY <2>1, <2>2 DEF Enters, SameRest, SameRoom
  <2>4. n \in Tids \cup {Null} /\ n # Null  BY <1>1, NullIsNone
  <2>5. /\ w \in Work /\ w.m = z.m /\ w.ok = z.ok
        /\ w.db.row = z.db.row /\ w.db.rooms = z.db.rooms
        /\ w.db.zid = [z.db.zid EXCEPT ![u] = n]
    <3>1. z.lost # "enter"  BY <2>3
    <3>. HIDE DEF w
    <3>. DEFINE v == SetLastRoom(z, u, n)
    <3>2. LET failed == z.lost = (IF n = Null THEN "leave" ELSE "enter") IN
          /\ v \in Work /\ v.m = z.m /\ v.lost = z.lost /\ v.found = z.found /\ v.ok = z.ok
          /\ v.db.row = z.db.row /\ v.db.rooms = z.db.rooms /\ v.db.tid = z.db.tid
          /\ v.db.zid = IF failed THEN z.db.zid ELSE [z.db.zid EXCEPT ![u] = n]
          /\ v.trail = IF failed THEN z.trail ELSE z.trail \cup {v.db}
      <4>1. z \in Work /\ u \in Ids /\ n \in Tids \cup {Null}  BY <1>1, <2>3, <2>4
      <4>. HIDE DEF z
      <4>. QED  BY SMTT(60), <4>1, SetLastRoomDoes
    <3>. HIDE DEF v
    <3>4. w = v  BY DEF w, v
    <3>. QED  BY <2>4, <3>1, <3>2, <3>4
  <2>. HIDE DEF w
  <2>6. /\ x.m.at \in [Ids -> Tids \cup {Null}] /\ x.db.zid \in [Ids -> Tids \cup {Null}]
        /\ x.m.here \in [Ids -> Objs \cup {Null}] /\ x.m.away \in [Ids -> Objs \cup {Null}]
        /\ x.m.obj \in [Objs -> Player]
    BY <1>1, WorkTyped
  <2>7. \A v \in Ids : /\ w.m.at[v] = IF v = u THEN n ELSE x.m.at[v]
                       /\ w.m.here[v] = IF v = u THEN o ELSE x.m.here[v]
                       /\ w.m.away[v] = IF v = u THEN Null ELSE x.m.away[v]
                       /\ w.db.zid[v] = IF v = u THEN n ELSE x.db.zid[v]
    <3>1. w.m.at = IF x.m.at[u] = Null THEN [x.m.at EXCEPT ![u] = n] ELSE x.m.at
      BY <2>3, <2>5 DEF Insert
    <3>2. w.m.here = [x.m.here EXCEPT ![u] = o]  BY <2>3, <2>5 DEF Insert
    <3>3. w.m.away = [x.m.away EXCEPT ![u] = Null] /\ w.db.zid = [x.db.zid EXCEPT ![u] = n]
      BY <2>1, <2>3, <2>5
    <3>. QED  BY <1>1, <2>4, <2>6, <3>1, <3>2, <3>3
  <2>8. \A p \in Objs : /\ w.m.obj[p].uid = x.m.obj[p].uid
                        /\ w.m.obj[p].table = IF p = o THEN n ELSE x.m.obj[p].table
    <3>. DEFINE f == x.m.obj
                h == [f EXCEPT ![o].table = n]
    <3>1. w.m.obj = h  BY <2>3, <2>5
    <3>2. f \in [Objs -> Player]  BY <2>6
    <3>. HIDE DEF f
    <3>3. \A p \in Objs : h[p].uid = f[p].uid /\ h[p].table = IF p = o THEN n ELSE f[p].table
      BY <2>4, <3>2, TableOfOne
    <3>. HIDE DEF h
    <3>4. \A p \in Objs : /\ w.m.obj[p].uid = f[p].uid
                          /\ w.m.obj[p].table = IF p = o THEN n ELSE f[p].table
      BY <3>1, <3>3
    <3>. QED  BY <3>4 DEF f
  <2>9. /\ w.m.online = x.m.online /\ w.m.offline = x.m.offline
        /\ w.m.live = x.m.live /\ w.m.tables = x.m.tables /\ w.db.rooms = x.db.rooms
        /\ w.m.table = y.m.table /\ w.db.row = y.db.row /\ w.ok
    BY <2>1, <2>3, <2>5 DEF SameServer, SameTables
  <2>10. \A k \in Tids, q \in Seat : LET c == x.m.table[k].chair[q]
                                         d == w.m.table[k].chair[q] IN
           IF k = n /\ q = s
           THEN w.db.row[k].chair[q] = u /\ d.uid = u /\ d.obj = o /\ ~d.offline
           ELSE /\ w.db.row[k].chair[q] = x.db.row[k].chair[q]
                /\ d.uid = c.uid /\ d.obj = c.obj /\ d.offline = c.offline
    BY <1>5, <2>9 DEF SatDown
  <2>11. /\ \A q \in Seat : q # s => x.m.table[n].chair[q].uid # u
         /\ x.m.table[n].chair[s].uid \in {Null, u}
         /\ x.m.table[n].chair[s].uid = u => w.db.row = x.db.row
    BY <1>5, <2>9 DEF SatDown
  <2>12. Quiet(x, w)
    <3>1. Quiet(x, y)  BY <1>5 DEF SatDown
    <3>2. Quiet(y, w)  BY <2>1, <2>9, SeatsApart
    <3>. QED  BY <3>1, <3>2, QuietOn
  <2>. QED  BY <2>1, <2>5, <2>7, <2>8, <2>9, <2>10, <2>11, <2>12 DEF Joined
<1>6. CASE \E s \in Seat : SatDown(x, u, o, n, s, y)
  <2>1. PICK s \in Seat : SatDown(x, u, o, n, s, y)  BY <1>6
  <2>2. w.ok /\ Joined(x, u, o, n, s, w) /\ y.ok  BY <1>5, <2>1
  <2>. QED  BY <1>3, <2>2
<1>. QED  BY <1>2, <1>4, <1>6

(* A player who is online and enters: the others have their places, and he *)
(* is the one whom his chairs know.                                        *)
Entering(b, x, u, o) ==
  /\ \A v \in Users \ {u} : Home(b, x.m, x.db, v)
  /\ Known(b, x.m, x.db) /\ Booked(b, x.db, u)
  /\ o \in Objs /\ x.m.online[u] = o
  /\ \A n \in x.m.tables, s \in Seat :
       x.m.table[n].chair[s].uid = u => x.m.table[n].chair[s].obj = o

(* He has a chair at this table, or none.                                  *)
Heads(x, u, n) == \A k \in Tids : SeatIn(x.db, k, u) => k = n

LEMMA JoinedHomes ==
  ASSUME NEW e, NEW x, Good(e, x), Served(x.m), NEW b, NEW u \in Users, NEW o,
         Entering(b, x, u, o), NEW n \in x.m.tables, Heads(x, u, n),
         NEW s \in Seat, NEW y, Joined(x, u, o, n, s, y), Good(e, y)
  PROVE  Homes(b, y.m, y.db)
<1>1. /\ x \in Work /\ y \in Work /\ n \in Tids /\ n # Null /\ u \in Ids /\ u # Null
      /\ o \in Objs /\ o # Null /\ x.m.tables \subseteq Tids /\ x.m.live \subseteq Objs
      /\ x.m.online[u] = o /\ Who(x.m, u) = o
  BY WorkTyped, NullIsNone DEF Good, Entering, Who
<1>2. /\ y.m.online = x.m.online /\ y.m.offline = x.m.offline
      /\ y.m.live = x.m.live /\ y.m.tables = x.m.tables /\ y.db.rooms = x.db.rooms
      /\ \A v \in Ids : /\ y.m.at[v] = IF v = u THEN n ELSE x.m.at[v]
                        /\ y.m.here[v] = IF v = u THEN o ELSE x.m.here[v]
                        /\ y.m.away[v] = IF v = u THEN Null ELSE x.m.away[v]
                        /\ y.db.zid[v] = IF v = u THEN n ELSE x.db.zid[v]
      /\ \A p \in Objs : /\ y.m.obj[p].uid = x.m.obj[p].uid
                         /\ y.m.obj[p].table = IF p = o THEN n ELSE x.m.obj[p].table
  BY DEF Joined
<1>3. /\ \A k \in Tids, q \in Seat : LET c == x.m.table[k].chair[q]
                                         d == y.m.table[k].chair[q] IN
           IF k = n /\ q = s
           THEN y.db.row[k].chair[q] = u /\ d.uid = u /\ d.obj = o /\ ~d.offline
           ELSE /\ y.db.row[k].chair[q] = x.db.row[k].chair[q]
                /\ d.uid = c.uid /\ d.obj = c.obj /\ d.offline = c.offline
      /\ \A q \in Seat : q # s => x.m.table[n].chair[q].uid # u
      /\ x.m.table[n].chair[s].uid \in {Null, u}
  BY DEF Joined
<1>4. x.m.table[n].chair[s].uid = x.db.row[n].chair[s]  BY SMTT(60), ChairsOfRow
<1>5. ASSUME NEW v \in Users, v # u  PROVE Home(b, y.m, y.db, v)
  <2>1. v \in Ids /\ v # Null /\ Home(b, x.m, x.db, v)  BY <1>5, NullIsNone DEF Entering
  <2>2. /\ y.m.online[v] = x.m.online[v] /\ y.m.offline[v] = x.m.offline[v]
        /\ y.m.at[v] = x.m.at[v] /\ y.m.here[v] = x.m.here[v] /\ y.m.away[v] = x.m.away[v]
        /\ y.db.zid[v] = x.db.zid[v]
    BY <1>2, <1>5, <2>1
  <2>3. \A p \in x.m.live \ {o} :
          y.m.obj[p].table = x.m.obj[p].table /\ y.m.obj[p].uid = x.m.obj[p].uid
    BY <1>1, <1>2
  <2>4. \A k \in Tids, q \in Seat : y.db.row[k].chair[q] = v <=> x.db.row[k].chair[q] = v
    BY <1>3, <1>4, <1>5, <2>1
  <2>5. \A k \in Tids, q \in Seat : x.db.row[k].chair[q] = v =>
             (k \in x.m.tables => k \in y.m.tables) /\ (k \in x.db.rooms => k \in y.db.rooms)
    BY <1>2
  <2>6. ASSUME NEW k \in y.m.tables, NEW q \in Seat, y.m.table[k].chair[q].uid = v
        PROVE  /\ k \in x.m.tables /\ x.m.table[k].chair[q].uid = v
               /\ y.m.table[k].chair[q].obj = x.m.table[k].chair[q].obj
               /\ y.m.table[k].chair[q].offline = x.m.table[k].chair[q].offline
    <3>1. k \in Tids /\ k \in x.m.tables  BY <1>1, <1>2
    <3>2. ~(k = n /\ q = s)  BY <1>3, <1>5, <2>6, <3>1
    <3>. QED  BY <1>3, <2>6, <3>1, <3>2
  <2>. QED  BY ZenonT(60), <1>1, <1>5, <2>1, <2>2, <2>3, <2>4, <2>5, <2>6, OthersStay
<1>6. \A k \in Tids : SeatIn(y.db, k, u) <=> k = n
  <2>1. \A k \in Tids : SeatIn(y.db, k, u) => k = n
    <3>. SUFFICES ASSUME NEW k \in Tids, NEW q \in Seat, y.db.row[k].chair[q] = u, k # n
                  PROVE  FALSE
      BY DEF SeatIn
    <3>1. x.db.row[k].chair[q] = u  BY <1>3
    <3>2. SeatIn(x.db, k, u)  BY <3>1 DEF SeatIn
    <3>. QED  BY <3>2 DEF Heads
  <2>2. SeatIn(y.db, n, u)  BY <1>1, <1>3 DEF SeatIn
  <2>. QED  BY <2>1, <2>2
<1>7. Home(b, y.m, y.db, u)
  <2>1. Who(y.m, u) = o  BY <1>1, <1>2 DEF Who
  <2>2. Booked(b, y.db, u)
    <3>1. y.db.zid[u] = n  BY <1>1, <1>2
    <3>2. roomType = 1 => n \in y.db.rooms  BY <1>2 DEF Entering, Known
    <3>. QED  BY <1>1, <1>6, <3>1, <3>2 DEF Booked
  <2>3. ASSUME NEW k \in y.m.tables, NEW q \in Seat, y.m.table[k].chair[q].uid = u
        PROVE  LET c == y.m.table[k].chair[q] IN
               c.obj = o /\ Placing(y.m, k, u, c) /\ ~c.offline
    <3>1. k \in Tids /\ SeatIn(y.db, k, u)
      <4>1. k \in Tids  BY <1>1, <1>2
      <4>2. y.m.table[k].chair[q].uid = y.db.row[k].chair[q]  BY ChairsOfRow
      <4>. QED  BY <2>3, <4>1, <4>2 DEF SeatIn
    <3>2. k = n  BY <1>6, <3>1
    <3>3. q = s  BY <1>1, <1>3, <2>3, <3>2
    <3>4. y.m.table[n].chair[s].obj = o /\ ~y.m.table[n].chair[s].offline  BY <1>1, <1>3
    <3>5. x.m.obj[o].uid = u  BY <1>1 DEF Served, Online
    <3>6. Placing(y.m, n, u, y.m.table[n].chair[s])
      BY <1>1, <1>2, <3>4, <3>5 DEF Placing
    <3>. QED  BY <3>2, <3>3, <3>4, <3>6
  <2>4. ~Seatless(y.m, y.db, u)  BY <1>1, <1>2, <1>6 DEF Seatless
  <2>5. \A k \in Tids : SeatIn(y.db, k, u) => k \in y.m.tables  BY <1>2, <1>6
  <2>6. y.m.online[u] # Null  BY <1>1, <1>2
  <2>. QED  BY <1>1, <2>1, <2>2, <2>3, <2>4, <2>5, <2>6 DEF Home, Lodged, Chaired
<1>8. Known(b, y.m, y.db)
  <2>1. Known(b, x.m, x.db)  BY DEF Entering
  <2>2. \A v \in Ids : Who(y.m, v) = Who(x.m, v)  BY <1>2 DEF Who
  <2>3. \A p \in x.m.live : x.m.obj[p].uid \in Ids  BY <1>1, WorkTyped, PlayerTyped
  <2>4. x.m.obj[o].uid = u  BY <1>1 DEF Served, Online
  <2>5. Nowhere(y.m, Null)  BY <1>1, <1>2, <2>1, NullIsNone DEF Known, Nowhere
  <2>6. ASSUME NEW p \in y.m.live
        PROVE  LET v == y.m.obj[p].uid IN
               IF v = Null THEN ~b /\ y.m.obj[p].table = Null ELSE p = Who(y.m, v)
    <3>1. p \in x.m.live /\ p \in Objs /\ y.m.obj[p].uid = x.m.obj[p].uid  BY <1>1, <1>2
    <3>2. x.m.obj[p].uid = Null => p # o /\ ~b /\ x.m.obj[p].table = Null
      BY <1>1, <2>1, <2>4, <3>1 DEF Known
    <3>3. x.m.obj[p].uid # Null => p = Who(x.m, x.m.obj[p].uid)  BY <2>1, <3>1 DEF Known
    <3>. QED  BY <1>2, <2>2, <2>3, <3>1, <3>2, <3>3
  <2>. QED  BY <1>2, <2>1, <2>5, <2>6 DEF Known
<1>. QED  BY <1>5, <1>7, <1>8 DEF Homes

-----------------------------------------------------------------------------
(***************************************************************************)
(* A player comes, known to the server or new.                             *)
(***************************************************************************)
LEMMA LogsInHomes ==
  ASSUME NEW e, NEW x, Good(e, x), Served(x.m), NEW b, Homes(b, x.m, x.db),
         NEW c \in Conns, NEW u \in Users, NEW o \in Objs, WhoLogsIn(x, u, o),
         NEW z, LogsIn(x, c, u, o, z)
  PROVE  Entering(b, z, u, o) /\ Lodged(b, z.m, z.db, u, o) /\ Who(z.m, u) = o
<1>1. /\ x \in Work /\ z \in Work /\ u \in Ids /\ u # Null /\ o # Null
      /\ x.m.live \subseteq Objs /\ x.m.tables \subseteq Tids
      /\ x.m.online \in [Ids -> Objs \cup {Null}] /\ x.m.offline \in [Ids -> Objs \cup {Null}]
  BY WorkTyped, NullIsNone DEF Good, LogsIn
<1>2. /\ z.db = x.db /\ z.m.at = x.m.at /\ z.m.here = x.m.here /\ z.m.away = x.m.away
      /\ z.m.tables = x.m.tables /\ z.m.table = x.m.table
      /\ z.m.live = x.m.live \cup {o}
      /\ \A v \in Ids : z.m.online[v] = IF v = u THEN o ELSE x.m.online[v]
      /\ \A v \in Ids : z.m.offline[v] = IF v = u THEN Null ELSE x.m.offline[v]
      /\ z.m.obj[o].uid = u
      /\ z.m.obj[o].table = IF o \in x.m.live THEN x.m.obj[o].table ELSE Null
      /\ \A p \in Objs : p # o => z.m.obj[p] = x.m.obj[p]
  BY <1>1 DEF LogsIn, SameRest, SameRoom, SameTables
<1>3. Home(b, x.m, x.db, u) /\ Known(b, x.m, x.db)  BY DEF Homes
<1>4. o \in x.m.live <=> Who(x.m, u) = o  BY <1>1, WhoLives DEF WhoLogsIn, Who
<1>5. Who(x.m, u) \in {Null, o}  BY <1>1 DEF WhoLogsIn, Who
<1>6. Who(z.m, u) = o  BY <1>1, <1>2 DEF Who
<1>7. ASSUME NEW v \in Users \ {u}  PROVE Home(b, z.m, z.db, v)
  <2>1. v \in Ids /\ v # u /\ v \in Users /\ Home(b, x.m, x.db, v)  BY NullIsNone DEF Homes
  <2>. DEFINE w == Who(x.m, v)
  <2>2. w # Null => w \in x.m.live  BY <2>1, WhoLives
  <2>3. w # Null => w # o
    <3>. SUFFICES ASSUME w = o  PROVE FALSE  OBVIOUS
    <3>1. o \in x.m.live  BY <1>1, <2>2
    <3>2. Who(x.m, u) = Who(x.m, v)  BY <1>4, <3>1
    <3>. QED  BY <1>1, <2>1, <3>2, WhoApart
  <2>4. w # Null => z.m.obj[w] = x.m.obj[w]  BY <1>1, <1>2, <2>2, <2>3
  <2>. HIDE DEF w
  <2>5. Untouched(x, z, v)  BY <1>2, <2>1, <2>4 DEF Untouched, w
  <2>. QED  BY <1>1, <2>1, <2>5, UntouchedHome
<1>8. Known(b, z.m, z.db)
  <2>1. ASSUME NEW p \in z.m.live
        PROVE  LET v == z.m.obj[p].uid IN
               IF v = Null THEN ~b /\ z.m.obj[p].table = Null ELSE p = Who(z.m, v)
    <3>1. CASE p = o  BY <1>1, <1>2, <1>6, <3>1
    <3>2. CASE p # o
      <4>. DEFINE v == x.m.obj[p].uid
      <4>1. p \in x.m.live /\ p \in Objs /\ z.m.obj[p] = x.m.obj[p] /\ p # Null
        BY <1>1, <1>2, <3>2, NullIsNone
      <4>2. IF v = Null THEN ~b /\ x.m.obj[p].table = Null ELSE p = Who(x.m, v)
        BY <1>3, <4>1 DEF Known
      <4>3. v \in Ids  BY <1>1, <4>1, WorkTyped, PlayerTyped
      <4>. HIDE DEF v
      <4>4. v # Null => v # u  BY <1>5, <3>2, <4>1, <4>2
      <4>5. v # Null => Who(z.m, v) = Who(x.m, v)  BY <1>2, <4>3, <4>4 DEF Who
      <4>6. IF v = Null THEN ~b /\ z.m.obj[p].table = Null ELSE p = Who(z.m, v)
        BY <4>1, <4>2, <4>5
      <4>. QED  BY <4>1, <4>6 DEF v
    <3>. QED  BY <3>1, <3>2
  <2>. QED  BY <1>2, <1>3, <2>1 DEF Known, Nowhere
<1>9. Booked(b, z.db, u)  BY <1>2, <1>3 DEF Home, Lodged
<1>10. ASSUME NEW n \in x.m.tables, NEW s \in Seat, x.m.table[n].chair[s].uid = u
       PROVE  LET a == x.m.table[n].chair[s] IN
              a.obj = o /\ Placing(z.m, n, u, a) /\ Who(x.m, u) = o
  <2>. DEFINE a == x.m.table[n].chair[s]
  <2>1. a.obj = Who(x.m, u) /\ Who(x.m, u) # Null /\ Placing(x.m, n, u, a)
    BY <1>3, <1>10 DEF Home, Lodged, Chaired
  <2>2. a.obj = o /\ o \in x.m.live  BY <1>4, <1>5, <2>1
  <2>. HIDE DEF a
  <2>3. z.m.obj[o].table = x.m.obj[o].table /\ z.m.obj[o].uid = u  BY <1>2, <2>2
  <2>4. Placing(z.m, n, u, a)  BY <1>2, <2>1, <2>2, <2>3 DEF Placing, Nowhere
  <2>. QED  BY <1>4, <2>2, <2>4 DEF a
<1>11. Entering(b, z, u, o)
  <2>1. z.m.online[u] = o  BY <1>1, <1>2
  <2>2. \A n \in z.m.tables, s \in Seat :
          z.m.table[n].chair[s].uid = u => z.m.table[n].chair[s].obj = o
    BY <1>2, <1>10
  <2>. QED  BY <1>7, <1>8, <1>9, <2>1, <2>2 DEF Entering
<1>12. Chaired(z.m, u, o)  BY <1>1, <1>2, <1>10 DEF Chaired
<1>13. Seatless(z.m, z.db, u) => Nowhere(z.m, u) /\ z.m.obj[o].table = Null
  <2>1. Seatless(z.m, z.db, u) => Seatless(x.m, x.db, u)  BY <1>2 DEF Seatless
  <2>2. Seatless(x.m, x.db, u) =>
          Nowhere(x.m, u) /\ (o \in x.m.live => x.m.obj[o].table = Null)
    BY <1>1, <1>3, <1>4 DEF Home, Lodged
  <2>. QED  BY <1>2, <2>1, <2>2 DEF Nowhere
<1>. QED  BY <1>6, <1>9, <1>11, <1>12, <1>13 DEF Lodged

(* A player who is not at a table, and whom the room knows at none or at   *)
(* the one that has his chair.                                             *)
Coming(b, x, u, o) ==
  /\ Entering(b, x, u, o) /\ x.m.here[u] = Null /\ x.m.away[u] = Null
  /\ x.m.obj[o].table = Null
  /\ x.m.at[u] # Null => x.m.at[u] \in x.m.tables /\ SeatIn(x.db, x.m.at[u], u)

LEMMA ForgottenComes ==
  ASSUME NEW e, NEW x, Good(e, x), Served(x.m), NEW b, NEW u \in Users, NEW o \in Objs,
         Entering(b, x, u, o), Lodged(b, x.m, x.db, u, o),
         ~(x.m.away[u] # Null /\ x.m.at[u] # Null),
         NEW y, Forgets(x, u, y)
  PROVE  Coming(b, y, u, o)
<1>1. /\ x \in Work /\ y \in Work /\ u \in Ids /\ u # Null /\ o # Null
      /\ x.m.live \subseteq Objs /\ x.m.tables \subseteq Tids /\ Who(x.m, u) = o
      /\ x.m.here \in [Ids -> Objs \cup {Null}] /\ x.m.away \in [Ids -> Objs \cup {Null}]
      /\ x.m.obj \in [Objs -> Player] /\ x.m.online[u] = o
  BY WorkTyped, NullIsNone DEF Good, Forgets, Entering, Who
<1>2. /\ x.m.here[u] \in {Null, o} /\ (x.m.here[u] = Null => x.m.obj[o].table = Null)
      /\ x.m.at[u] # Null => x.m.at[u] \in x.m.tables /\ SeatIn(x.db, x.m.at[u], u)
  <2>1. CASE Seatless(x.m, x.db, u)  BY <1>1, <2>1 DEF Lodged, Nowhere
  <2>2. CASE ~Seatless(x.m, x.db, u)
    <3>1. PICK n \in x.m.tables : SeatIn(x.db, n, u)  BY <2>2 DEF Seatless
    <3>2. PICK s \in Seat : x.m.table[n].chair[s].uid = u  BY <1>1, <3>1, ChairsOfRow
    <3>. DEFINE c == x.m.table[n].chair[s]
    <3>3. c.obj = o /\ Placing(x.m, n, u, c)  BY <3>2 DEF Lodged, Chaired
    <3>. HIDE DEF c
    <3>. QED  BY <1>1, <3>1, <3>3 DEF Placing, Nowhere
  <2>. QED  BY <2>1, <2>2
<1>3. /\ y.db = x.db /\ y.m.online = x.m.online /\ y.m.offline = x.m.offline
      /\ y.m.live = x.m.live /\ y.m.tables = x.m.tables /\ y.m.table = x.m.table
      /\ y.m.at = x.m.at
      /\ \A v \in Ids : y.m.here[v] = IF v = u THEN Null ELSE x.m.here[v]
      /\ \A v \in Ids : y.m.away[v] = IF v = u THEN Null ELSE x.m.away[v]
      /\ y.m.obj = IF x.m.here[u] = Null THEN x.m.obj ELSE [x.m.obj EXCEPT ![o].table = Null]
  BY <1>1, <1>2 DEF Forgets, SameRest, SameServer, SameTables
<1>4. /\ \A p \in Objs : y.m.obj[p].uid = x.m.obj[p].uid
      /\ \A p \in Objs : p # o => y.m.obj[p] = x.m.obj[p]
      /\ y.m.obj[o].table = Null
  <2>1. CASE x.m.here[u] = Null  BY <1>2, <1>3, <2>1
  <2>2. CASE x.m.here[u] # Null
    <3>1. y.m.obj = [x.m.obj EXCEPT ![o].table = Null]  BY SMTT(60), <1>3, <2>2
    <3>. QED  BY <1>1, <3>1 DEF Player
  <2>. QED  BY <2>1, <2>2
<1>5. ASSUME NEW v \in Users \ {u}  PROVE Home(b, y.m, y.db, v)
  <2>1. v \in Ids /\ v \in Users /\ v # u /\ Home(b, x.m, x.db, v)
    BY NullIsNone DEF Entering
  <2>2. /\ y.m.online[v] = x.m.online[v] /\ y.m.offline[v] = x.m.offline[v]
        /\ y.m.at[v] = x.m.at[v] /\ y.m.here[v] = x.m.here[v] /\ y.m.away[v] = x.m.away[v]
        /\ y.db.zid[v] = x.db.zid[v]
    BY <1>3, <2>1
  <2>3. \A p \in x.m.live \ {o} :
          y.m.obj[p].table = x.m.obj[p].table /\ y.m.obj[p].uid = x.m.obj[p].uid
    BY <1>1, <1>4
  <2>4. /\ \A n \in Tids, s \in Seat : y.db.row[n].chair[s] = v <=> x.db.row[n].chair[s] = v
        /\ \A n \in Tids, s \in Seat : x.db.row[n].chair[s] = v =>
             (n \in x.m.tables => n \in y.m.tables) /\ (n \in x.db.rooms => n \in y.db.rooms)
        /\ \A n \in y.m.tables, s \in Seat : y.m.table[n].chair[s].uid = v =>
             /\ n \in x.m.tables /\ x.m.table[n].chair[s].uid = v
             /\ y.m.table[n].chair[s].obj = x.m.table[n].chair[s].obj
             /\ y.m.table[n].chair[s].offline = x.m.table[n].chair[s].offline
    BY <1>3
  <2>. QED  BY ZenonT(60), <1>1, <2>1, <2>2, <2>3, <2>4, OthersStay
<1>6. Known(b, y.m, y.db)
  <2>1. Known(b, x.m, x.db)  BY DEF Entering
  <2>2. SameServer(x.m, y.m)  BY DEF Forgets
  <2>3. \A p \in x.m.live : x.m.obj[p].uid = Null => y.m.obj[p].table = x.m.obj[p].table
    <3>1. x.m.obj[o].uid = u  BY <1>1 DEF Served, Online
    <3>. QED  BY <1>1, <1>4, <3>1
  <2>4. Nowhere(y.m, Null)  BY <1>1, <1>3, <2>1, NullIsNone DEF Known, Nowhere
  <2>5. \A p \in x.m.live : y.m.obj[p].uid = x.m.obj[p].uid  BY <1>1, <1>4
  <2>6. \A v : Who(y.m, v) = Who(x.m, v)  BY <1>3 DEF Who
  <2>. QED  BY <1>3, <2>1, <2>3, <2>4, <2>5, <2>6 DEF Known
<1>7. Entering(b, y, u, o)
  BY <1>1, <1>3, <1>5, <1>6 DEF Entering
<1>. QED  BY <1>1, <1>2, <1>3, <1>4, <1>7 DEF Coming

(***************************************************************************)
(* A table is loaded: the users of its chairs who are not online are back. *)
(***************************************************************************)
LEMMA HadNoPlayer ==
  ASSUME NEW e, NEW x, Good(e, x), NEW b, NEW v \in Users, Home(b, x.m, x.db, v),
         NEW n \in Tids, n \notin x.m.tables, SeatIn(x.db, n, v)
  PROVE  /\ x.m.online[v] = Null /\ x.m.offline[v] = Null /\ Nowhere(x.m, v)
         /\ \A k \in Tids : SeatIn(x.db, k, v) => k = n
<1>1. Who(x.m, v) = Null  BY DEF Home
<1>2. \A k \in Tids : SeatIn(x.db, k, v) => k = n  BY DEF Home, Lodged, Booked
<1>3. x.m.tables \subseteq Tids  BY WorkTyped DEF Good
<1>4. Seatless(x.m, x.db, v)  BY <1>2, <1>3 DEF Seatless
<1>5. Nowhere(x.m, v)  BY <1>4 DEF Home, Lodged
<1>. QED  BY <1>1, <1>2, <1>5 DEF Who

(* Whom LoadInfo has brought back.                                         *)
IsBack(x, n, p, s, y) ==
  LET v == x.db.row[n].chair[s] IN
  /\ v # Null /\ x.m.online[v] = Null /\ p = y.m.table[n].chair[s].obj
  /\ y.m.obj[p].table = Null /\ y.m.obj[p].uid = IF x.lost = "create" THEN Null ELSE v

LEMMA BroughtAre ==
  ASSUME NEW x, NEW y, NEW n, Brought(x, n, 3, y)
  PROVE  /\ \A p \in x.m.live : y.m.obj[p] = x.m.obj[p]
         /\ \A v \in Ids : y.m.offline[v] # x.m.offline[v] =>
              x.m.online[v] = Null /\ x.m.offline[v] = Null /\ SeatIn(x.db, n, v)
         /\ \A p \in y.m.live : p \notin x.m.live => \E s \in Seat : IsBack(x, n, p, s, y)
<1>1. \A p \in x.m.live : y.m.obj[p] = x.m.obj[p]  BY SMTT(60) DEF Brought
<1>2. \A v \in Ids : y.m.offline[v] # x.m.offline[v] =>
        x.m.online[v] = Null /\ x.m.offline[v] = Null /\ SeatIn(x.db, n, v)
  BY DEF Brought, SeatIn
<1>3. ASSUME NEW p \in y.m.live, p \notin x.m.live
      PROVE  \E s \in Seat : IsBack(x, n, p, s, y)
  <2>1. p \in y.m.live \ x.m.live  BY SMTT(60), <1>3
  <2>2. \E s \in Seat : s < 3 /\ IsBack(x, n, p, s, y)
    BY <2>1 DEF Brought, IsBack
  <2>. QED  BY <2>2
<1>. QED  BY SMTT(60), <1>1, <1>2, <1>3

LEMMA LoadedHome ==
  ASSUME NEW e, NEW x, Good(e, x), Served(x.m), NEW b, NEW v \in Users,
         Home(b, x.m, x.db, v), NEW n \in Tids, n \notin x.m.tables,
         NEW y, Loaded(x, n, y), Good(e, y)
  PROVE  Home(b, y.m, y.db, v)
<1>1. /\ x \in Work /\ y \in Work /\ v \in Ids /\ v # Null
      /\ x.m.tables \subseteq Tids /\ y.db = x.db /\ y.m.tables = x.m.tables \cup {n}
      /\ y.m.at = x.m.at /\ y.m.here = x.m.here /\ y.m.away = x.m.away
      /\ y.m.online = x.m.online /\ x.m.table \in [Tids -> Table]
      /\ y.m.table = [x.m.table EXCEPT ![n] = y.m.table[n]] /\ n # Null
      /\ Brought(x, n, 3, y)
  BY WorkTyped, NullIsNone DEF Good, Loaded, SameRest, SameRoom, SameNet
<1>2. \A k \in Tids : k # n => y.m.table[k] = x.m.table[k]  BY <1>1
<1>3. CASE ~SeatIn(x.db, n, v)
  <2>1. y.m.offline[v] = x.m.offline[v]  BY <1>1, <1>3, BroughtAre
  <2>. DEFINE w == Who(x.m, v)
  <2>2. w # Null => w \in x.m.live  BY SMTT(60), <1>1, WhoLives
  <2>3. w # Null => y.m.obj[w] = x.m.obj[w]  BY ZenonT(60), <1>1, <2>2 DEF Brought
  <2>. HIDE DEF w
  <2>4. ASSUME NEW k \in y.m.tables, NEW q \in Seat, y.m.table[k].chair[q].uid = v
        PROVE  k \in x.m.tables /\ x.m.table[k] = y.m.table[k]
    <3>1. k \in Tids  BY <1>1
    <3>2. k # n
      <4>1. y.m.table[k].chair[q].uid = y.db.row[k].chair[q]  BY ChairsOfRow
      <4>. QED  BY <1>1, <1>3, <2>4, <4>1 DEF SeatIn
    <3>. QED  BY <1>1, <1>2, <3>1, <3>2
  <2>5. \A k \in y.m.tables, q \in Seat : y.m.table[k].chair[q].uid = v =>
          /\ k \in x.m.tables /\ x.m.table[k].chair[q].uid = v
          /\ y.m.table[k].chair[q].obj = x.m.table[k].chair[q].obj
          /\ y.m.table[k].chair[q].offline = x.m.table[k].chair[q].offline
    BY <2>4
  <2>6. Untouched(x, y, v)  BY <1>1, <2>1, <2>3, <2>5 DEF Untouched, w
  <2>. QED  BY <1>1, <2>6, UntouchedHome
<1>4. CASE SeatIn(x.db, n, v)
  <2>1. /\ x.m.online[v] = Null /\ x.m.offline[v] = Null /\ Nowhere(x.m, v)
        /\ \A k \in Tids : SeatIn(x.db, k, v) => k = n
    BY ZenonT(60), <1>4, HadNoPlayer
  <2>. DEFINE w == y.m.offline[v]
  <2>2. Who(y.m, v) = w  BY <1>1, <2>1 DEF Who
  <2>3. Nowhere(y.m, v)  BY <1>1, <2>1 DEF Nowhere
  <2>4. Booked(b, y.db, v)  BY <1>1 DEF Home, Lodged
  <2>5. ASSUME NEW q \in Seat, x.db.row[n].chair[q] = v
        PROVE  LET c == y.m.table[n].chair[q] IN
               c.offline /\ c.obj = w /\ w # Null /\ y.m.obj[w].table = Null
    <3>. DEFINE c == y.m.table[n].chair[q]
    <3>1. q < 3  BY SMTT(60), SeatsAre
    <3>2. c.offline /\ c.obj \in y.m.live /\ c.obj = w /\ y.m.obj[c.obj].table = Null
      BY ZenonT(60), <1>1, <2>1, <2>5, <3>1 DEF Brought
    <3>3. y.m.live \subseteq Objs  BY <1>1, WorkTyped
    <3>. HIDE DEF c, w
    <3>4. c.offline /\ c.obj = w /\ w # Null /\ y.m.obj[w].table = Null
      BY <3>2, <3>3, NullIsNone
    <3>. QED  BY <3>4 DEF c
  <2>. HIDE DEF w
  <2>6. ASSUME NEW k \in y.m.tables, NEW q \in Seat, y.m.table[k].chair[q].uid = v
        PROVE  LET c == y.m.table[k].chair[q] IN
               c.obj = w /\ w # Null /\ Placing(y.m, k, v, c) /\ c.offline
    <3>1. x.db.row[k].chair[q] = v /\ k \in Tids  BY SMTT(60), <1>1, <2>6, ChairsOfRow
    <3>2. SeatIn(x.db, k, v)  BY <3>1 DEF SeatIn
    <3>3. k = n  BY <2>1, <3>1, <3>2
    <3>4. LET c == y.m.table[k].chair[q] IN
          c.offline /\ c.obj = w /\ w # Null /\ y.m.obj[w].table = Null
      BY <2>5, <3>1, <3>3
    <3>. QED  BY <2>3, <3>4 DEF Placing
  <2>7. ~Seatless(y.m, y.db, v)  BY <1>1, <1>4 DEF Seatless
  <2>8. \A k \in Tids : SeatIn(y.db, k, v) => k \in y.m.tables  BY <1>1, <2>1
  <2>. QED  BY <1>1, <2>1, <2>2, <2>4, <2>6, <2>7, <2>8 DEF Home, Lodged, Chaired
<1>. QED  BY <1>3, <1>4

LEMMA LoadedComes ==
  ASSUME NEW e, NEW x, Good(e, x), Served(x.m), NEW b, b => x.lost = "none",
         NEW u \in Users, NEW o, Coming(b, x, u, o), NEW n \in Tids, n \notin x.m.tables,
         roomType = 1 => n \in x.db.rooms, NEW y, Loaded(x, n, y), Good(e, y)
  PROVE  Coming(b, y, u, o)
<1>1. /\ x \in Work /\ y \in Work /\ u \in Ids /\ u # Null /\ o # Null /\ o \in Objs
      /\ x.m.tables \subseteq Tids /\ y.db = x.db /\ y.m.tables = x.m.tables \cup {n}
      /\ y.m.at = x.m.at /\ y.m.here = x.m.here /\ y.m.away = x.m.away
      /\ y.m.online = x.m.online /\ x.m.table \in [Tids -> Table]
      /\ y.m.table = [x.m.table EXCEPT ![n] = y.m.table[n]]
      /\ x.m.online[u] = o /\ x.m.live \subseteq Objs
      /\ Brought(x, n, 3, y)
  BY WorkTyped, NullIsNone
     DEF Good, Loaded, SameRest, SameRoom, SameNet, Coming, Entering
<1>2. o \in x.m.live  BY <1>1 DEF Served, Online
<1>3. \A v \in Users \ {u} : Home(b, y.m, y.db, v)
  <2>. SUFFICES ASSUME NEW v \in Users \ {u}  PROVE Home(b, y.m, y.db, v)  OBVIOUS
  <2>1. v \in Users /\ Home(b, x.m, x.db, v)  BY DEF Coming, Entering
  <2>. QED  BY <2>1, LoadedHome
<1>4. Known(b, y.m, y.db)
  <2>1. Known(b, x.m, x.db)  BY DEF Coming, Entering
  <2>2. ASSUME NEW p \in y.m.live
        PROVE  LET v == y.m.obj[p].uid IN
               IF v = Null THEN ~b /\ y.m.obj[p].table = Null ELSE p = Who(y.m, v)
    <3>1. CASE p \in x.m.live
      <4>. DEFINE v == x.m.obj[p].uid
      <4>1. y.m.obj[p] = x.m.obj[p]  BY <1>1, <3>1 DEF Brought
      <4>2. IF v = Null THEN ~b /\ x.m.obj[p].table = Null ELSE p = Who(x.m, v)
        BY <2>1, <3>1 DEF Known
      <4>3. v \in Ids /\ p # Null
        <5>1. p \in Objs /\ x.m.obj[p] \in Player  BY <1>1, <3>1, WorkTyped
        <5>. QED  BY <5>1, PlayerTyped, NullIsNone
      <4>. HIDE DEF v
      <4>4. ASSUME v # Null  PROVE Who(y.m, v) = Who(x.m, v)
        <5>1. x.m.online[v] # Null \/ x.m.offline[v] # Null  BY SMTT(60), <4>2, <4>3, <4>4 DEF Who
        <5>2. y.m.offline[v] = x.m.offline[v] \/ x.m.online[v] # Null
          BY <1>1, <4>3, <5>1 DEF Brought
        <5>. QED  BY <1>1, <5>2 DEF Who
      <4>5. IF v = Null THEN ~b /\ y.m.obj[p].table = Null ELSE p = Who(y.m, v)
        BY <4>1, <4>2, <4>4
      <4>. QED  BY SMTT(60), <4>1, <4>5 DEF v
    <3>2. CASE p \notin x.m.live
      <4>1. PICK s \in Seat : IsBack(x, n, p, s, y)  BY SMTT(60), <1>1, <3>2, BroughtAre
      <4>. DEFINE v == x.db.row[n].chair[s]
      <4>2. v \in Ids /\ v # Null /\ v # u
        <5>1. x.db.row[n] \in Row  BY <1>1, WorkTyped
        <5>2. v \in Ids  BY <5>1 DEF Row
        <5>. QED  BY <1>1, <4>1, <5>2 DEF IsBack
      <4>3. v \in Users  BY <4>2 DEF Ids
      <4>4. SeatIn(x.db, n, v)  BY <4>1 DEF SeatIn
      <4>5. Home(b, x.m, x.db, v)  BY <4>2, <4>3 DEF Coming, Entering
      <4>6. p = y.m.table[n].chair[s].obj /\ y.m.obj[p].table = Null
            /\ y.m.obj[p].uid = IF x.lost = "create" THEN Null ELSE v
        BY <4>1 DEF IsBack
      <4>7. s < 3 /\ x.db.row[n].chair[s] = v  BY SeatsAre
      <4>. HIDE DEF v
      <4>8. x.m.online[v] = Null /\ x.m.offline[v] = Null
        BY ZenonT(60), <4>3, <4>4, <4>5, HadNoPlayer
      <4>9. p = y.m.offline[v]  BY ZenonT(60), <1>1, <4>2, <4>6, <4>7, <4>8 DEF Brought
      <4>10. p = Who(y.m, v)  BY <1>1, <4>8, <4>9 DEF Who
      <4>. QED  BY <4>2, <4>6, <4>10
    <3>. QED  BY <3>1, <3>2
  <2>. QED  BY <1>1, <2>1, <2>2 DEF Known, Nowhere
<1>5. ASSUME NEW k \in y.m.tables, NEW s \in Seat, y.m.table[k].chair[s].uid = u
      PROVE  y.m.table[k].chair[s].obj = o
  <2>1. CASE k \in x.m.tables
    <3>1. y.m.table[k] = x.m.table[k]  BY SMTT(60), <1>1, <2>1
    <3>. QED  BY <1>5, <2>1, <3>1 DEF Coming, Entering
  <2>2. CASE k \notin x.m.tables
    <3>1. k = n  BY <1>1, <2>2
    <3>2. x.db.row[n].chair[s] = u  BY SMTT(60), <1>1, <1>5, <3>1, ChairsOfRow
    <3>3. s < 3  BY SeatsAre
    <3>. QED  BY <1>1, <3>1, <3>2, <3>3 DEF Brought
  <2>. QED  BY <2>1, <2>2
<1>6. y.m.obj[o] = x.m.obj[o]  BY <1>1, <1>2 DEF Brought
<1>7. Entering(b, y, u, o)  BY <1>1, <1>3, <1>4, <1>5 DEF Entering, Coming
<1>. QED  BY <1>1, <1>6, <1>7 DEF Coming

-----------------------------------------------------------------------------
(***************************************************************************)
(* Entering the room, at the table of one's chair if there is one.         *)
(***************************************************************************)
LEMMA NoSeatHomes ==
  ASSUME NEW e, NEW x, Good(e, x), NEW b, NEW u \in Users, NEW o, Coming(b, x, u, o),
         \A k \in Tids : ~SeatIn(x.db, k, u)
  PROVE  Homes(b, x.m, x.db)
<1>1. /\ x \in Work /\ o # Null /\ u \in Ids /\ x.m.tables \subseteq Tids
      /\ x.m.online[u] = o /\ Who(x.m, u) = o
  BY WorkTyped, NullIsNone DEF Good, Coming, Entering, Who
<1>2. \A n \in x.m.tables, s \in Seat : x.m.table[n].chair[s].uid # u
  <2>. SUFFICES ASSUME NEW n \in x.m.tables, NEW s \in Seat, x.m.table[n].chair[s].uid = u
                PROVE  FALSE
    OBVIOUS
  <2>1. SeatIn(x.db, n, u)  BY <1>1, ChairsOfRow
  <2>. QED  BY <1>1, <2>1
<1>3. Nowhere(x.m, u) /\ x.m.obj[o].table = Null  BY <1>1 DEF Coming, Nowhere
<1>4. Booked(b, x.db, u)  BY DEF Coming, Entering
<1>5. Home(b, x.m, x.db, u)  BY <1>1, <1>2, <1>3, <1>4 DEF Home, Lodged, Chaired
<1>. QED  BY <1>5 DEF Homes, Coming, Entering

LEMMA ComingKept ==
  ASSUME NEW b, NEW x, NEW u, NEW o, Coming(b, x, u, o), NEW y, y.m = x.m,
         y.db.row = x.db.row, y.db.rooms = x.db.rooms, y.db.zid = x.db.zid
  PROVE  Coming(b, y, u, o)
<1>1. \A n, v : SeatIn(y.db, n, v) <=> SeatIn(x.db, n, v)  BY DEF SeatIn
<1>2. \A v : Booked(b, x.db, v) => Booked(b, y.db, v)  BY <1>1 DEF Booked
<1>3. \A v : Seatless(y.m, y.db, v) <=> Seatless(x.m, x.db, v)  BY <1>1 DEF Seatless
<1>4. \A v : Home(b, x.m, x.db, v) => Home(b, y.m, y.db, v)
  BY <1>1, <1>2, <1>3 DEF Home, Lodged
<1>5. Known(b, x.m, x.db) => Known(b, y.m, y.db)  BY DEF Known
<1>6. Entering(b, y, u, o)  BY <1>2, <1>4, <1>5 DEF Entering, Coming
<1>7. SeatIn(y.db, x.m.at[u], u) <=> SeatIn(x.db, x.m.at[u], u)  BY <1>1
<1>. QED  BY <1>6, <1>7 DEF Coming

(* The table that FindTable gives him is the one of his chair.             *)
ComesTo(b, u, o, y) == Coming(b, y, u, o) /\ Heads(y, u, y.found)

LEMMA NoneComesTo ==
  ASSUME NEW b, NEW x \in Work, NEW u, NEW o, Coming(b, x, u, o), NEW k \in x.m.tables \cup {Null},
         Heads(x, u, k) \/ \A n \in Tids : ~SeatIn(x.db, n, u)
  PROVE  ComesTo(b, u, o, [x EXCEPT !.found = k])
<1>. DEFINE y == [x EXCEPT !.found = k]
<1>1. k \in Tids \cup {Null}  BY WorkTyped
<1>2. y.m = x.m /\ y.db = x.db /\ y.found = k  BY <1>1 DEF Work
<1>. HIDE DEF y
<1>3. Coming(b, y, u, o)  BY <1>2, ComingKept
<1>4. Heads(y, u, y.found)  BY <1>2 DEF Heads
<1>5. ComesTo(b, u, o, y)  BY <1>3, <1>4 DEF ComesTo
<1>. QED  BY <1>5 DEF y

LEMMA LoadComesTo ==
  ASSUME NEW e, NEW x, Good(e, x), Served(x.m), NEW b, b => x.lost = "none",
         NEW u \in Users, NEW o, Coming(b, x, u, o), NEW n \in Tids, n \notin x.m.tables,
         n \notin x.m.dismissed, roomType = 0 => n <= x.db.tid, x.lost # "row",
         RowThere(x.db, n) => Spare(x.m), roomType = 1 => n \in x.db.rooms,
         Heads(x, u, n) \/ \A k \in Tids : ~SeatIn(x.db, k, u)
  PROVE  ComesTo(b, u, o, Load(x, n, RoomSize))
<1>. DEFINE y == Load(x, n, RoomSize)
<1>1. x \in Work /\ RowWell(x.db.row[n])  BY DEF Good, Rooms, RowsWell
<1>2. Loaded(x, n, y)  BY <1>1, LoadLoads
<1>3. Good(e, y)  BY LoadFinds DEF Finds, Grows
<1>. HIDE DEF y
<1>4. Coming(b, y, u, o)  BY <1>2, <1>3, LoadedComes
<1>5. y.db = x.db /\ y.found = n  BY <1>2 DEF Loaded, SameRest
<1>6. Heads(y, u, y.found)  BY <1>5 DEF Heads
<1>7. ComesTo(b, u, o, y)  BY <1>4, <1>6 DEF ComesTo
<1>. QED  BY <1>7 DEF y

LEMMA NewTableComesTo ==
  ASSUME NEW e, NEW x, Good(e, x), Served(x.m), NEW b, b => x.lost = "none",
         NEW u \in Users, NEW o, Coming(b, x, u, o), roomType = 0, x.lost # "row",
         \A k \in Tids : ~SeatIn(x.db, k, u)
  PROVE  ComesTo(b, u, o, NewTable(x, RoomSize))
<1>. DEFINE n == x.db.tid + 1
            y == Put(x, [x.db EXCEPT !.tid = n])
            z == Load(y, n, RoomSize)
<1>1. NewTable(x, RoomSize) = IF x.lost = "tid" \/ n > MaxTid THEN [x EXCEPT !.found = Null] ELSE z
  BY DEF NewTable
<1>2. x \in Work  BY DEF Good
<1>3. CASE x.lost = "tid" \/ n > MaxTid
  BY <1>1, <1>2, <1>3, NoneComesTo
<1>4. CASE ~(x.lost = "tid" \/ n > MaxTid)
  <2>1. NewTable(x, RoomSize) = z  BY <1>1, <1>4
  <2>2. /\ n \in Tids /\ Good(e, y) /\ Served(y.m) /\ y.m = x.m /\ y.lost = x.lost
        /\ y.db.row = x.db.row /\ y.db.rooms = x.db.rooms /\ y.db.zid = x.db.zid
        /\ n \notin y.m.tables /\ n \notin y.m.dismissed
        /\ ~RowThere(y.db, n) /\ n <= y.db.tid
    BY <1>4, CounterTaken
  <2>. HIDE DEF n, y
  <2>3. Coming(b, y, u, o)  BY <2>2, ComingKept
  <2>4. \A k \in Tids : ~SeatIn(y.db, k, u)  BY <2>2 DEF SeatIn
  <2>5. ComesTo(b, u, o, z)  BY <2>2, <2>3, <2>4, LoadComesTo
  <2>. QED  BY <2>1, <2>5
<1>. QED  BY <1>3, <1>4

LEMMA FindTableComesTo ==
  ASSUME NEW e, NEW x, Good(e, x), Served(x.m), NEW b, b => x.lost = "none",
         roomType \in {0, 1}, x.lost \notin {"row", "htid"},
         NEW u \in Users, NEW o, Coming(b, x, u, o), NEW n \in Tids \cup {Null}, Heads(x, u, n),
         NEW except, Spare(x.m) \/ (roomType = 0 /\ n = Null)
  PROVE  ComesTo(b, u, o, FindTable(x, u, n, except, RoomSize))
<1>1. /\ x \in Work /\ Rooms(x.m, x.db) /\ RowsWell(x.db) /\ x.m.tables \subseteq Tids
      /\ x.db.tid \in Nat /\ x.lost # "row" /\ u \in Ids
  BY WorkTyped, NullIsNone DEF Good, Rooms
<1>2. n = Null => \A k \in Tids : ~SeatIn(x.db, k, u)  BY NullIsNone DEF Heads
<1>3. Booked(b, x.db, u)  BY DEF Coming, Entering
<1>4. CASE roomType = 0
  <2>. DEFINE M == Matching(x, except, RoomSize)
  <2>1. FindTable(x, u, n, except, RoomSize) = FindServerTable(x, u, n, except, RoomSize)
    BY <1>4 DEF FindTable
  <2>2. CASE n = Null /\ M = {}
    <3>1. FindServerTable(x, u, n, except, RoomSize) = NewTable(x, RoomSize)
      BY <1>1, <2>2, NullIsNone DEF FindServerTable
    <3>. QED  BY <1>1, <1>2, <1>4, <2>1, <2>2, <3>1, NewTableComesTo
  <2>3. CASE n = Null /\ M # {}
    <3>1. FindServerTable(x, u, n, except, RoomSize) = [x EXCEPT !.found = Max(M)]
      BY <1>1, <2>3, NullIsNone DEF FindServerTable
    <3>2. M \subseteq x.m.tables  BY DEF Matching
    <3>3. M \in SUBSET (0..MaxTid) /\ MaxTid \in Nat  BY <1>1, <3>2, NullIsNone DEF Tids
    <3>. HIDE DEF M
    <3>4. Max(M) \in M  BY <2>3, <3>3, GreatestThere
    <3>. QED  BY <1>1, <1>2, <2>1, <2>3, <3>1, <3>2, <3>4, NoneComesTo
  <2>4. CASE n # Null /\ n \in x.m.tables
    <3>1. FindServerTable(x, u, n, except, RoomSize) = [x EXCEPT !.found = n]
      BY <2>4 DEF FindServerTable
    <3>. QED  BY <1>1, <2>1, <2>4, <3>1, NoneComesTo
  <2>5. CASE n # Null /\ n \notin x.m.tables /\ RowThere(x.db, n)
    <3>1. FindServerTable(x, u, n, except, RoomSize) = Load(x, n, RoomSize)
      BY <1>1, <2>5 DEF FindServerTable
    <3>2. n \in Tids /\ n \in Nat  BY <2>5, NullIsNone
    <3>3. n <= x.db.tid
      <4>1. x.db.row[n] # NoRow  BY <2>5 DEF RowThere, NoRow
      <4>. QED  BY <1>1, <1>4, <3>2, <4>1 DEF RowsWell
    <3>4. n \notin x.m.dismissed  BY <1>1, <1>4 DEF Rooms
    <3>. QED  BY <1>1, <1>4, <2>1, <2>5, <3>1, <3>2, <3>3, <3>4, LoadComesTo
  <2>6. CASE n # Null /\ n \notin x.m.tables /\ ~RowThere(x.db, n)
    <3>. DEFINE y == SetLastRoom(x, u, Null)
    <3>1. FindServerTable(x, u, n, except, RoomSize) = [y EXCEPT !.found = Null]
      BY <2>6 DEF FindServerTable
    <3>2. \A k \in Tids : ~SeatIn(x.db, k, u)
      <4>1. ~SeatIn(x.db, n, u)  BY <1>1, <2>6, NullIsNone DEF RowThere, SeatIn
      <4>. QED  BY <4>1 DEF Heads
    <3>3. /\ y \in Work /\ y.m = x.m /\ y.db.row = x.db.row /\ y.db.rooms = x.db.rooms
          /\ y.db.zid = IF x.lost = "leave" THEN x.db.zid ELSE [x.db.zid EXCEPT ![u] = Null]
      <4>1. Null \in Tids \cup {Null}  OBVIOUS
      <4>. QED  BY <1>1, <4>1, SetLastRoomDoes
    <3>. HIDE DEF y
    <3>4. /\ \A v \in Ids : v # u => y.db.zid[v] = x.db.zid[v]
          /\ b => y.db.zid[u] = Null
      BY <1>1, <3>3, WorkTyped
    <3>5. \A k, v : SeatIn(y.db, k, v) <=> SeatIn(x.db, k, v)  BY <3>3 DEF SeatIn
    <3>6. \A v \in Users \ {u} : Home(b, y.m, y.db, v)
      <4>. SUFFICES ASSUME NEW v \in Users \ {u}  PROVE Home(b, y.m, y.db, v)  OBVIOUS
      <4>1. v \in Ids /\ v # u /\ Home(b, x.m, x.db, v)  BY NullIsNone DEF Coming, Entering
      <4>2. y.db.zid[v] = x.db.zid[v]  BY <3>4, <4>1
      <4>3. Booked(b, y.db, v)  BY <3>3, <3>5, <4>1, <4>2 DEF Home, Lodged, Booked
      <4>4. Seatless(y.m, y.db, v) <=> Seatless(x.m, x.db, v)  BY <3>3, <3>5 DEF Seatless
      <4>. QED  BY <3>3, <3>5, <4>1, <4>3, <4>4 DEF Home, Lodged
    <3>7. Booked(b, y.db, u)  BY <3>2, <3>4, <3>5 DEF Booked
    <3>8. Known(b, y.m, y.db)  BY <3>3 DEF Known, Coming, Entering
    <3>9. Entering(b, y, u, o)  BY <3>3, <3>6, <3>7, <3>8 DEF Entering, Coming
    <3>10. x.m.at[u] = Null  BY <1>1, <3>2 DEF Coming
    <3>11. Coming(b, y, u, o)  BY <3>3, <3>9, <3>10 DEF Coming
    <3>12. \A k \in Tids : ~SeatIn(y.db, k, u)  BY <3>2, <3>5
    <3>. QED  BY <2>1, <3>1, <3>3, <3>11, <3>12, NoneComesTo
  <2>. QED  BY <2>2, <2>3, <2>4, <2>5, <2>6
<1>5. CASE roomType = 1
  <2>1. FindTable(x, u, n, except, RoomSize) = FindFriendsTable(x, n)
    BY <1>5 DEF FindTable
  <2>2. CASE n \in x.m.tables
    <3>1. FindFriendsTable(x, n) = [x EXCEPT !.found = n]  BY <2>2 DEF FindFriendsTable
    <3>. QED  BY <1>1, <2>1, <2>2, <3>1, NoneComesTo
  <2>3. CASE n \notin x.m.tables /\ n \in x.db.rooms
    <3>1. FindFriendsTable(x, n) = Load(x, n, RoomSize)  BY <2>3 DEF FindFriendsTable
    <3>2. n \in Tids /\ n \notin x.m.dismissed  BY <1>1, <2>3, WorkTyped DEF Rooms
    <3>3. Spare(x.m) /\ roomType # 0  BY <1>5
    <3>4. ComesTo(b, u, o, Load(x, n, RoomSize))
      BY <1>1, <2>3, <3>2, <3>3, LoadComesTo
    <3>. QED  BY <2>1, <3>1, <3>4
  <2>4. CASE n \notin x.m.tables /\ n \notin x.db.rooms
    <3>1. FindFriendsTable(x, n) = [x EXCEPT !.found = Null]  BY <2>4 DEF FindFriendsTable
    <3>2. \A k \in Tids : ~SeatIn(x.db, k, u)  BY <1>3, <1>5, <2>4 DEF Booked, Heads
    <3>. QED  BY <1>1, <2>1, <3>1, <3>2, NoneComesTo
  <2>. QED  BY <2>2, <2>3, <2>4
<1>. QED  BY <1>4, <1>5

(* He is back on the chair that he has: nothing else changes in the        *)
(* databases.                                                              *)
Back(x, u, o, y) ==
  \A k \in Tids : SeatIn(x.db, k, u) =>
    y.m.obj[o].table = k /\ y.db.zid = x.db.zid /\ y.db.row = x.db.row

LEMMA JoinHomes ==
  ASSUME NEW e, NEW x, Good(e, x), Served(x.m), NEW b, NEW u \in Users, NEW o,
         Entering(b, x, u, o), NEW n \in x.m.tables, Heads(x, u, n), x.lost # "enter",
         x.m.here[u] = Null, x.m.at[u] \in {Null, n},
         Coming(b, x, u, o) \/ SeatIn(x.db, n, u)
  PROVE  LET y == Join(x, o, n) IN
         Homes(b, y.m, y.db) /\ Back(x, u, o, y)
<1>. DEFINE y == Join(x, o, n)
<1>1. /\ o \in Objs /\ Uid(x, o) = u /\ u \in Ids /\ u # Null /\ Uid(x, o) # Null
      /\ n \in Tids
  BY NullIsNone, WorkTyped DEF Good, Entering, Served, Online, Uid
<1>2. \A q \in Seat : x.m.table[n].chair[q].uid = u => x.m.table[n].chair[q].obj = o
  BY DEF Entering
<1>3. NotSatDown(x, u, n, y) \/ (y.ok /\ \E s \in Seat : Joined(x, u, o, n, s, y))
  BY <1>1, <1>2, JoinIs
<1>4. Good(e, y)  BY <1>1, JoinInRoom DEF InRoom
<1>. HIDE DEF y
<1>5. CASE NotSatDown(x, u, n, y)
  <2>1. /\ y.m = x.m /\ y.db = x.db
        /\ \A q \in Seat : x.m.table[n].chair[q].uid # u
    BY <1>5 DEF NotSatDown
  <2>2. ~SeatIn(x.db, n, u)  BY <1>1, <2>1, ChairsOfRow
  <2>3. \A k \in Tids : ~SeatIn(x.db, k, u)  BY <2>2 DEF Heads
  <2>4. Homes(b, x.m, x.db)  BY <2>2, <2>3, NoSeatHomes
  <2>. QED  BY <2>1, <2>3, <2>4 DEF y, Back
<1>6. CASE y.ok /\ \E s \in Seat : Joined(x, u, o, n, s, y)
  <2>1. PICK s \in Seat : Joined(x, u, o, n, s, y)  BY <1>6
  <2>2. Homes(b, y.m, y.db)  BY <1>4, <2>1, JoinedHomes
  <2>3. y.m.obj[o].table = n  BY <1>1, <2>1 DEF Joined
  <2>4. ASSUME NEW k \in Tids, SeatIn(x.db, k, u)
        PROVE  k = n /\ y.db.zid = x.db.zid /\ y.db.row = x.db.row
    <3>1. k = n  BY <2>4 DEF Heads
    <3>2. x.m.table[n].chair[s].uid = u
      <4>1. PICK q \in Seat : x.m.table[n].chair[q].uid = u  BY <1>1, <2>4, <3>1, ChairsOfRow
      <4>. QED  BY <2>1, <4>1 DEF Joined
    <3>3. y.db.row = x.db.row  BY <2>1, <3>2 DEF Joined
    <3>4. y.db.zid = x.db.zid
      <4>1. x.db.zid[u] = n  BY <1>1, <2>4, <3>1 DEF Entering, Booked
      <4>2. \A v \in Ids : y.db.zid[v] = x.db.zid[v]  BY <2>1, <4>1 DEF Joined
      <4>3. /\ x.db.zid \in [Ids -> Tids \cup {Null}]
            /\ y.db.zid \in [Ids -> Tids \cup {Null}]
        BY <1>4, WorkTyped DEF Good
      <4>. QED  BY <4>2, <4>3
    <3>. QED  BY <3>1, <3>3, <3>4
  <2>5. Back(x, u, o, y)  BY <2>3, <2>4 DEF Back
  <2>. QED  BY <2>2, <2>5 DEF y
<1>. QED  BY <1>3, <1>5, <1>6

(* Whoever has a chair is led to its table, and nothing is written.        *)
LEMMA FindTableBack ==
  ASSUME NEW e, NEW x, Good(e, x), Served(x.m), NEW b,
         roomType \in {0, 1}, x.lost \notin {"row", "htid"},
         NEW u \in Users, Booked(b, x.db, u), NEW n \in Tids, SeatIn(x.db, n, u),
         NEW except, Spare(x.m)
  PROVE  LET y == FindTable(x, u, n, except, RoomSize) IN y.db = x.db /\ y.found = n
<1>. DEFINE y == FindTable(x, u, n, except, RoomSize)
            l == Load(x, n, RoomSize)
            k == [x EXCEPT !.found = n]
<1>1. /\ x \in Work /\ RowWell(x.db.row[n]) /\ n # Null /\ Rooms(x.m, x.db)
  BY NullIsNone DEF Good, Rooms, RowsWell
<1>2. RowThere(x.db, n)  BY NullIsNone DEF RowThere, SeatIn
<1>3. roomType = 1 => n \in x.db.rooms  BY DEF Booked
<1>4. n \notin x.m.tables => y = l
  BY <1>1, <1>2, <1>3 DEF FindTable, FindServerTable, FindFriendsTable
<1>5. n \in x.m.tables => y = k
  BY <1>1 DEF FindTable, FindServerTable, FindFriendsTable
<1>. HIDE DEF y
<1>6. CASE n \in x.m.tables
  <2>1. k.db = x.db /\ k.found = n  BY <1>1 DEF Work
  <2>. QED  BY <1>5, <1>6, <2>1 DEF y
<1>7. CASE n \notin x.m.tables
  <2>1. Loaded(x, n, l)  BY <1>1, <1>7, LoadLoads
  <2>. HIDE DEF l
  <2>2. l.db = x.db /\ l.found = n  BY <2>1 DEF Loaded, SameRest
  <2>. QED  BY <1>4, <1>7, <2>2 DEF y
<1>. QED  BY <1>6, <1>7

(* A player who sits down is the only one who is seen to come.             *)
LEMMA JoinArrives ==
  ASSUME NEW e, NEW x, Good(e, x), NEW o \in Objs, NEW u \in Users, Uid(x, o) = u,
         NEW n \in x.m.tables, x.lost # "enter", x.m.here[u] = Null, x.m.at[u] \in {Null, n},
         \A q \in Seat : x.m.table[n].chair[q].uid = u => x.m.table[n].chair[q].obj = o,
         NEW k, n # k
  PROVE  Arrives(x, Join(x, o, n), u, k)
<1>. DEFINE y == Join(x, o, n)
<1>1. NotSatDown(x, u, n, y) \/ \E s \in Seat : Joined(x, u, o, n, s, y)  BY JoinIs
<1>. HIDE DEF y
<1>2. CASE NotSatDown(x, u, n, y)
  <2>1. y.m = x.m /\ y.db = x.db  BY <1>2 DEF NotSatDown
  <2>2. Quiet(x, y)  BY <2>1, SeatsApart
  <2>. QED  BY <2>1, <2>2 DEF Arrives, Still, SameSeats, y
<1>3. ASSUME NEW s \in Seat, Joined(x, u, o, n, s, y)  PROVE Arrives(x, y, u, k)
  <2>1. /\ n \in Tids /\ u # Null /\ u \in Ids /\ Users \subseteq Ids /\ Null \notin Users
    BY WorkTyped, NullIsNone DEF Good
  <2>2. /\ y.m.online = x.m.online /\ Quiet(x, y)
        /\ \A v \in Ids : v # u => y.m.at[v] = x.m.at[v]
        /\ x.m.table[n].chair[s].uid \in {Null, u}
    BY <1>3 DEF Joined
  <2>3. \A j \in Tids, q \in Seat : y.db.row[j].chair[q] =
          IF j = n /\ q = s THEN u ELSE x.db.row[j].chair[q]
    BY <1>3 DEF Joined
  <2>4. x.db.row[n].chair[s] \in {Null, u}  BY <2>2, ChairsOfRow
  <2>5. \A v \in Users \ {u} : SameSeats(x, y, v)  BY <2>1, <2>3, <2>4 DEF SameSeats
  <2>6. \A v \in Users \ {u} : Still(x, y, v)  BY <2>1, <2>2, <2>5 DEF Still
  <2>7. \A j \in Tids, q \in Seat :
          /\ x.db.row[j].chair[q] = u => y.db.row[j].chair[q] = u
          /\ j = k /\ y.db.row[j].chair[q] = u => x.db.row[j].chair[q] = u
    BY <2>3
  <2>. QED  BY <2>2, <2>6, <2>7 DEF Arrives
<1>. QED  BY <1>1, <1>2, <1>3 DEF y

(* Finding a table, the players see nothing of it.                         *)
Shows(x, y) == y.db.row = x.db.row /\ Quiet(x, y)

LEMMA LoadShows ==
  ASSUME NEW x \in Work, NEW n \in Tids, NEW y, Loaded(x, n, y)
  PROVE  Shows(x, y)
<1>1. /\ y.db = x.db /\ y.m.tables = x.m.tables \cup {n}
      /\ y.m.table = [x.m.table EXCEPT ![n] = y.m.table[n]]
      /\ \A s \in Seat : ~y.m.table[n].chair[s].ready
  BY DEF Loaded, SameRest, Filled
<1>2. x.m.table \in [Tids -> Table] /\ x.m.tables \subseteq Tids  BY WorkTyped
<1>3. \A k \in Tids : k # n => y.m.table[k] = x.m.table[k]  BY <1>1, <1>2
<1>. QED  BY <1>1, <1>2, <1>3 DEF Shows, Quiet

LEMMA FoundShows ==
  ASSUME NEW x \in Work, NEW k \in Tids \cup {Null}
  PROVE  Shows(x, [x EXCEPT !.found = k])
<1>. DEFINE y == [x EXCEPT !.found = k]
<1>1. y.m = x.m /\ y.db = x.db  BY DEF Work
<1>. HIDE DEF y
<1>2. Shows(x, y)  BY <1>1, SeatsApart DEF Shows
<1>. QED  BY <1>2 DEF y

LEMMA NewTableShows ==
  ASSUME NEW e, NEW x, Good(e, x), Served(x.m), roomType = 0, x.lost # "row"
  PROVE  LET y == NewTable(x, RoomSize) IN
         Shows(x, y) /\ y.found \notin x.m.tables
<1>. DEFINE n == x.db.tid + 1
            y == Put(x, [x.db EXCEPT !.tid = n])
            z == Load(y, n, RoomSize)
            w == NewTable(x, RoomSize)
<1>1. w = IF x.lost = "tid" \/ n > MaxTid THEN [x EXCEPT !.found = Null] ELSE z
  BY DEF NewTable
<1>. HIDE DEF w
<1>2. CASE x.lost = "tid" \/ n > MaxTid
  <2>1. x \in Work /\ Null \notin x.m.tables  BY WorkTyped, NullIsNone DEF Good
  <2>2. w = [x EXCEPT !.found = Null]  BY <1>1, <1>2
  <2>3. w.found = Null  BY <2>1, <2>2 DEF Work
  <2>. QED  BY <2>1, <2>2, <2>3, FoundShows DEF w
<1>3. CASE ~(x.lost = "tid" \/ n > MaxTid)
  <2>1. w = z  BY <1>1, <1>3
  <2>2. /\ n \in Tids /\ Good(e, y) /\ Served(y.m) /\ y.m = x.m /\ y.lost = x.lost
        /\ n \notin y.m.tables /\ ~RowThere(y.db, n) /\ y.db.row = x.db.row
    BY <1>3, CounterTaken
  <2>. HIDE DEF n, y
  <2>3. Loaded(y, n, z)
    <3>1. y \in Work /\ RowWell(y.db.row[n])  BY <2>2 DEF Good, Rooms, RowsWell
    <3>. QED  BY <2>2, <3>1, LoadLoads
  <2>. HIDE DEF z
  <2>4. Shows(y, z) /\ z.found = n  BY <2>2, <2>3, LoadShows DEF Good, Loaded
  <2>5. Quiet(x, y)  BY <2>2, SeatsApart
  <2>6. Shows(x, z)  BY <2>2, <2>4, <2>5, QuietOn DEF Shows
  <2>. QED  BY <2>1, <2>2, <2>4, <2>6 DEF w
<1>. QED  BY <1>2, <1>3

(* Who changes his table is not led back to it.                            *)
LEMMA FindTableShows ==
  ASSUME NEW e, NEW x, Good(e, x), Served(x.m), roomType \in {0, 1}, x.lost # "row",
         NEW u \in Ids, NEW n \in Tids \cup {Null}, NEW except,
         Spare(x.m) \/ (roomType = 0 /\ n = Null)
  PROVE  LET y == FindTable(x, u, n, except, RoomSize) IN
         /\ Shows(x, y)
         /\ roomType = 0 /\ n = Null /\ except \in x.m.tables => y.found # except
<1>1. /\ x \in Work /\ Rooms(x.m, x.db) /\ RowsWell(x.db) /\ x.m.tables \subseteq Tids
  BY WorkTyped DEF Good, Rooms
<1>2. ASSUME NEW k \in x.m.tables \cup {Null}  PROVE Shows(x, [x EXCEPT !.found = k])
  BY <1>1, FoundShows
<1>3. ASSUME NEW k \in Tids, Spare(x.m)  PROVE Shows(x, Load(x, k, RoomSize))
  <2>1. RowWell(x.db.row[k])  BY <1>1 DEF RowsWell
  <2>2. Loaded(x, k, Load(x, k, RoomSize))  BY <1>1, <1>3, <2>1, LoadLoads
  <2>. QED  BY <1>1, <2>2, LoadShows
<1>4. CASE roomType = 0
  <2>. DEFINE M == Matching(x, except, RoomSize)
  <2>1. FindTable(x, u, n, except, RoomSize) = FindServerTable(x, u, n, except, RoomSize)
    BY <1>4 DEF FindTable
  <2>2. CASE n = Null /\ M = {}
    <3>1. FindServerTable(x, u, n, except, RoomSize) = NewTable(x, RoomSize)
      BY <1>1, <2>2, NullIsNone DEF FindServerTable
    <3>. QED  BY <1>4, <2>1, <3>1, NewTableShows
  <2>3. CASE n = Null /\ M # {}
    <3>1. FindServerTable(x, u, n, except, RoomSize) = [x EXCEPT !.found = Max(M)]
      BY <1>1, <2>3, NullIsNone DEF FindServerTable
    <3>2. M \subseteq x.m.tables \ {except}  BY DEF Matching
    <3>3. M \in SUBSET (0..MaxTid) /\ MaxTid \in Nat  BY <1>1, <3>2, NullIsNone DEF Tids
    <3>. HIDE DEF M
    <3>4. Max(M) \in M  BY <2>3, <3>3, GreatestThere
    <3>5. Max(M) # except /\ Max(M) \in x.m.tables \cup {Null}  BY <3>2, <3>4
    <3>. DEFINE y == [x EXCEPT !.found = Max(M)]
    <3>6. y.found = Max(M)  BY <1>1 DEF Work
    <3>. QED  BY <1>2, <2>1, <3>1, <3>5, <3>6
  <2>4. CASE n # Null /\ n \in x.m.tables
    <3>1. FindServerTable(x, u, n, except, RoomSize) = [x EXCEPT !.found = n]
      BY <2>4 DEF FindServerTable
    <3>. QED  BY <1>2, <2>1, <2>4, <3>1
  <2>5. CASE n # Null /\ n \notin x.m.tables /\ RowThere(x.db, n)
    <3>1. FindServerTable(x, u, n, except, RoomSize) = Load(x, n, RoomSize)
      BY <2>5 DEF FindServerTable
    <3>. QED  BY <1>3, <2>1, <2>5, <3>1
  <2>6. CASE n # Null /\ n \notin x.m.tables /\ ~RowThere(x.db, n)
    <3>. DEFINE y == SetLastRoom(x, u, Null)
    <3>1. FindServerTable(x, u, n, except, RoomSize) = [y EXCEPT !.found = Null]
      BY <2>6 DEF FindServerTable
    <3>2. Null \in Tids \cup {Null}  OBVIOUS
    <3>3. y \in Work /\ y.m = x.m /\ y.db.row = x.db.row  BY Zenon, <1>1, <3>2, SetLastRoomDoes
    <3>. HIDE DEF y
    <3>4. Quiet(x, y)  BY <3>3, SeatsApart
    <3>5. Shows(y, [y EXCEPT !.found = Null])  BY <3>3, FoundShows
    <3>6. Shows(x, [y EXCEPT !.found = Null])  BY <3>3, <3>4, <3>5, QuietOn DEF Shows
    <3>. QED  BY <2>1, <2>6, <3>1, <3>6
  <2>. QED  BY <2>2, <2>3, <2>4, <2>5, <2>6
<1>5. CASE roomType = 1
  <2>1. FindTable(x, u, n, except, RoomSize) = FindFriendsTable(x, n)
    BY <1>5 DEF FindTable
  <2>2. CASE n \in x.m.tables
    <3>1. FindFriendsTable(x, n) = [x EXCEPT !.found = n]  BY <2>2 DEF FindFriendsTable
    <3>. QED  BY <1>2, <1>5, <2>1, <2>2, <3>1
  <2>3. CASE n \notin x.m.tables /\ n \in x.db.rooms /\ x.lost # "htid"
    <3>1. FindFriendsTable(x, n) = Load(x, n, RoomSize)  BY <2>3 DEF FindFriendsTable
    <3>2. n \in Tids  BY <1>1, <2>3, WorkTyped
    <3>. QED  BY <1>3, <1>5, <2>1, <3>1, <3>2
  <2>4. CASE n \notin x.m.tables /\ ~(n \in x.db.rooms /\ x.lost # "htid")
    <3>1. FindFriendsTable(x, n) = [x EXCEPT !.found = Null]  BY <2>4 DEF FindFriendsTable
    <3>. QED  BY <1>2, <1>5, <2>1, <3>1
  <2>. QED  BY <2>2, <2>3, <2>4
<1>. QED  BY <1>4, <1>5

LEMMA EnterRoomHomes ==
  ASSUME NEW e, NEW x, Good(e, x), Served(x.m), NEW b, b => x.lost = "none",
         roomType \in {0, 1}, x.lost \notin {"row", "htid", "enter"},
         NEW u \in Users, NEW o, Entering(b, x, u, o), Lodged(b, x.m, x.db, u, o),
         NEW n \in Tids \cup {Null}, Heads(x, u, n), NEW except, NEW rich,
         Spare(x.m) \/ (roomType = 0 /\ n = Null),
         NEW j, \/ j = Null
                \/ j = except /\ j \in x.m.tables /\ roomType = 0 /\ n = Null /\ x.m.at[u] = Null
  PROVE  LET y == EnterRoom(x, o, n, except, RoomSize, rich) IN
         Homes(b, y.m, y.db) /\ Back(x, u, o, y) /\ Arrives(x, y, u, j)
<1>. DEFINE U == Uid(x, o)
            f == ForgetInRoom(x, u)
            y == FindTable(f, u, n, except, RoomSize)
            z == Join(y, o, y.found)
            w == [y EXCEPT !.ok = FALSE]
            v == EnterRoom(x, o, n, except, RoomSize, rich)
            back == x.m.away[u] # Null /\ x.m.at[u] # Null
            may == y.found # Null /\ (rich \/ ChairsOf(y, y.found, u) # {})
<1>1. /\ x \in Work /\ o \in Objs /\ o \in x.m.live /\ U = u /\ u \in Ids /\ u # Null
      /\ x.m.at[u] \in Tids \cup {Null} /\ x.m.tables \subseteq Tids
  BY WorkTyped, NullIsNone DEF Good, Entering, Served, Online, Uid
<1>2. \/ back /\ v = Join(x, o, x.m.at[u])
      \/ ~back /\ may /\ v = z
      \/ ~back /\ ~may /\ v = w
  <2>. DEFINE J(i) ==
         LET a == FindTable(ForgetInRoom(x, i), i, n, except, RoomSize) IN
         IF x.m.away[i] # Null /\ x.m.at[i] # Null THEN Join(x, o, x.m.at[i])
         ELSE IF a.found # Null /\ (rich \/ ChairsOf(a, a.found, i) # {})
              THEN Join(a, o, a.found) ELSE [a EXCEPT !.ok = FALSE]
  <2>1. v = J(U)  BY Zenon DEF EnterRoom
  <2>2. \/ back /\ J(u) = Join(x, o, x.m.at[u])
        \/ ~back /\ may /\ J(u) = z
        \/ ~back /\ ~may /\ J(u) = w
    BY Zenon
  <2>. HIDE DEF J, U, v
  <2>. QED  BY <1>1, <2>1, <2>2
<1>. HIDE DEF U, v
<1>3. CASE back /\ v = Join(x, o, x.m.at[u])
  <2>1. ~Seatless(x.m, x.db, u)  BY <1>3 DEF Lodged, Nowhere
  <2>2. PICK k \in x.m.tables : SeatIn(x.db, k, u)  BY <2>1 DEF Seatless
  <2>3. PICK s \in Seat : x.m.table[k].chair[s].uid = u  BY <1>1, <2>2, ChairsOfRow
  <2>. DEFINE c == x.m.table[k].chair[s]
  <2>4. Placing(x.m, k, u, c)  BY <2>3 DEF Lodged, Chaired
  <2>. HIDE DEF c
  <2>5. x.m.at[u] = k /\ x.m.here[u] = Null  BY <1>3, <2>4 DEF Placing, Nowhere
  <2>6. Heads(x, u, k)  BY <1>1, <2>2 DEF Heads, Entering, Booked
  <2>7. LET a == Join(x, o, k) IN Homes(b, a.m, a.db) /\ Back(x, u, o, a)
    BY <2>2, <2>5, <2>6, JoinHomes
  <2>8. Arrives(x, Join(x, o, k), u, j)
    <3>1. Uid(x, o) = u /\ k # j  BY <1>1, <1>3, <2>2, NullIsNone DEF U
    <3>2. \A q \in Seat : x.m.table[k].chair[q].uid = u => x.m.table[k].chair[q].obj = o
      BY <2>2 DEF Entering
    <3>. QED  BY <1>1, <2>2, <2>5, <3>1, <3>2, JoinArrives
  <2>. QED  BY <1>3, <2>5, <2>7, <2>8 DEF v
<1>4. Forgets(x, u, f)  BY <1>1, ForgetInRoomDoes
<1>5. InRoom(e, x, f)  BY <1>1, ForgetInRoomInRoom
<1>6. CASE ~back
  <2>. HIDE DEF f
  <2>1. Coming(b, f, u, o)  BY <1>1, <1>4, <1>6, ForgottenComes
  <2>2. Good(e, f) /\ Served(f.m) /\ f.lost = x.lost /\ SameServer(x.m, f.m) /\ f.db = x.db
    <3>1. Grows(e, x, f)  BY <1>5, InRoomGrows
    <3>. QED  BY <1>4, <1>5, <3>1 DEF InRoom, Grows, Forgets, SameRest
  <2>3. Spare(f.m) \/ (roomType = 0 /\ n = Null)
    BY <2>2 DEF Spare, Absentees, SameServer
  <2>4. Heads(f, u, n)  BY <2>2 DEF Heads
  <2>5. ComesTo(b, u, o, y)  BY <2>1, <2>2, <2>3, <2>4, FindTableComesTo
  <2>6. Finds(e, f, y)  BY <1>1, <2>2, <2>3, FindTableFinds
  <2>. HIDE DEF y
  <2>7. /\ Good(e, y) /\ Served(y.m) /\ y.lost = x.lost /\ y \in Work
        /\ y.found \in y.m.tables \cup {Null}
    BY <2>2, <2>6 DEF Finds, Grows, Good
  <2>8. Coming(b, y, u, o) /\ Entering(b, y, u, o) /\ Heads(y, u, y.found)
        /\ y.m.here[u] = Null
    BY <2>5 DEF ComesTo, Coming
  <2>11. ASSUME NEW k \in Tids, SeatIn(x.db, k, u)
        PROVE  y.db = x.db /\ SeatIn(y.db, k, u)
    <3>1. k = n /\ n # Null  BY <2>11, NullIsNone DEF Heads
    <3>2. Booked(b, f.db, u)  BY <2>2 DEF Entering
    <3>3. y.db = f.db  BY <2>2, <2>3, <2>11, <3>1, <3>2, FindTableBack DEF y
    <3>. QED  BY <2>2, <2>11, <3>3
  <2>12. Arrives(x, y, u, j) /\ (y.found # Null => y.found # j)
    <3>1. /\ y.db.row = f.db.row /\ Quiet(f, y)
          /\ roomType = 0 /\ n = Null /\ except \in f.m.tables => y.found # except
      BY <1>1, <2>2, <2>3, FindTableShows DEF Shows, y
    <3>2. y.m.at = f.m.at /\ y.m.online = f.m.online
      BY <2>6 DEF Finds, Grows, SameRoom, SameNet
    <3>3. /\ f.m.at = x.m.at /\ f.m.online = x.m.online /\ f.m.tables = x.m.tables
          /\ f.m.table = x.m.table
      BY <1>4 DEF Forgets, SameServer, SameTables
    <3>4. Quiet(x, y)  BY <2>2, <3>1, <3>3, SeatsApart, QuietOn
    <3>. QED  BY <2>2, <3>1, <3>2, <3>3, <3>4 DEF Arrives, Still, SameSeats
  <2>9. CASE may /\ v = z
    <3>1. y.found \in y.m.tables  BY <2>7, <2>9
    <3>2. y.m.at[u] \in {Null, y.found}
      <4>1. y.m.at[u] # Null => y.m.at[u] \in Tids /\ SeatIn(y.db, y.m.at[u], u)
        BY <2>7, <2>8, WorkTyped DEF Coming
      <4>. QED  BY <2>8, <4>1 DEF Heads
    <3>3. Homes(b, z.m, z.db) /\ Back(y, u, o, z)  BY <2>7, <2>8, <3>1, <3>2, JoinHomes
    <3>5. Arrives(y, z, u, j)
      <4>1. Uid(y, o) = u /\ o \in Objs
        BY <2>7, <2>8, <1>1, NullIsNone DEF Entering, Served, Online, Uid
      <4>2. \A q \in Seat :
              y.m.table[y.found].chair[q].uid = u => y.m.table[y.found].chair[q].obj = o
        BY <2>8, <3>1 DEF Entering
      <4>3. y.found # j  BY <2>9, <2>12
      <4>4. y.lost # "enter"  BY <2>7
      <4>. QED  BY <2>7, <2>8, <3>1, <3>2, <4>1, <4>2, <4>3, <4>4, JoinArrives
    <3>. HIDE DEF z
    <3>4. Back(x, u, o, z)  BY <2>11, <3>3 DEF Back
    <3>6. Arrives(x, z, u, j)  BY <2>12, <3>5, ArrivesOn
    <3>. QED  BY <2>9, <3>3, <3>4, <3>6 DEF v
  <2>10. CASE ~may /\ v = w
    <3>1. \A k \in Tids : ~SeatIn(y.db, k, u)
      <4>1. CASE y.found = Null  BY <2>8, <4>1, NullIsNone DEF Heads
      <4>2. CASE y.found # Null
        <5>1. y.found \in y.m.tables /\ ChairsOf(y, y.found, u) = {}  BY <2>7, <2>10, <4>2
        <5>2. \A s \in Seat : y.m.table[y.found].chair[s].uid # u  BY <2>7, <5>1, MineIs
        <5>3. ~SeatIn(y.db, y.found, u)  BY <1>1, <2>7, <5>1, <5>2, ChairsOfRow
        <5>. QED  BY <2>8, <5>3 DEF Heads
      <4>. QED  BY <4>1, <4>2
    <3>2. Homes(b, y.m, y.db)  BY <2>7, <2>8, <3>1, NoSeatHomes
    <3>3. w.m = y.m /\ w.db = y.db  BY <2>7 DEF Work
    <3>4. Back(x, u, o, w)  BY <2>11, <3>1 DEF Back
    <3>. HIDE DEF w
    <3>5. Arrives(x, w, u, j)
      <4>1. Arrives(y, w, u, j)  BY <3>3, SeatsApart DEF Arrives, Still
      <4>. QED  BY <2>12, <4>1, ArrivesOn
    <3>. QED  BY <2>10, <3>2, <3>3, <3>4, <3>5 DEF v
  <2>. QED  BY <1>2, <1>6, <2>9, <2>10
<1>. QED  BY <1>2, <1>3, <1>6

-----------------------------------------------------------------------------
(***************************************************************************)
(* The handlers keep everybody's place.                                    *)
(***************************************************************************)
LEMMA LoggedInHomes ==
  ASSUME NEW e, NEW b, NEW x, Settled(e, b, x), b => x.lost = "none",
         NEW c \in Conns, c \in x.m.open, x.m.session[c] = Null,
         NEW u \in Users, x.lost \notin {"info", "row", "zid", "htid", "enter"},
         roomType \in {0, 1},
         Cardinality(x.m.live) + Cardinality(Users) <= Cardinality(Objs),
         NEW room \in Tids \cup {Null}, NEW rich
  PROVE  LET y == LoggedIn(x, c, u, room, RoomSize, rich) IN
         /\ Settled(e, b, y) /\ y.lost = x.lost
         /\ OnlyComes(x.m, y.m, u) /\ Back(x, u, y.m.online[u], y)
         /\ Arrives(x, y, u, Null) /\ y.m.online[u] # Null
<1>. DEFINE y == Login(x, c, u)
            n == Wanted(x, u, room)
            w == LoggedIn(x, c, u, room, RoomSize, rich)
<1>1. /\ x \in Work /\ Well(e, x) /\ Good(e, x) /\ Served(x.m) /\ Placed(x.m)
      /\ Homes(b, x.m, x.db)
  BY DEF Settled, Well, Good
<1>2. Objs \ x.m.live # {}
  <2>1. /\ IsFiniteSet(Users) /\ IsFiniteSet(Objs) /\ x.m.live \subseteq Objs
    BY <1>1, WorkTyped, NamesAssumption
  <2>2. Cardinality(Users) \in Nat /\ Cardinality(Users) # 0
    BY <2>1, FS_CardinalityType, FS_EmptySet
  <2>3. Cardinality(Objs) \in Nat  BY <2>1, FS_CardinalityType
  <2>4. x.m.live # Objs  BY <2>2, <2>3
  <2>. QED  BY Zenon, <2>1, <2>4
<1>3. PICK o \in Objs : \E k : WhoLogsIn(x, u, o) /\ Kicked(x, o, k) /\ Takes(k, c, u, o, y)
  BY <1>1, <1>2, LoginTakes
<1>4. PICK k : WhoLogsIn(x, u, o) /\ Kicked(x, o, k) /\ Takes(k, c, u, o, y)  BY <1>3
<1>. DEFINE z == SessionOf(y, c, o)
<1>5. w = EnterRoom(SessionOf(y, c, y.m.online[u]), y.m.online[u], n, Null, RoomSize, rich)
  BY Zenon DEF LoggedIn, SessionOf, w, y, n
<1>6. n \in Tids \cup {Null} /\ Heads(x, u, n)
  <2>1. n = IF x.db.zid[u] # Null THEN x.db.zid[u] ELSE room  BY DEF Wanted
  <2>2. x.db.zid[u] \in Tids \cup {Null}  BY <1>1, WorkTyped, NullIsNone
  <2>3. Booked(b, x.db, u)  BY <1>1 DEF Homes, Home, Lodged
  <2>. HIDE DEF n
  <2>. QED  BY <2>1, <2>2, <2>3, NullIsNone DEF Booked, Heads
<1>7. Well(e, w) /\ w.lost = x.lost /\ OnlyComes(x.m, w.m, u)  BY <1>1, LoggedInWell
<1>. HIDE DEF n, y, w
<1>8. /\ LogsIn(x, c, u, o, z) /\ y.m.online[u] = o
      /\ w = EnterRoom(z, o, n, Null, RoomSize, rich)
  BY <1>1, <1>4, <1>5, SessionOfLogsIn
<1>. HIDE DEF z
<1>9. z \in Work /\ SameRest(x, z) /\ SameRoom(x.m, z.m) /\ SameTables(x.m, z.m)
  BY <1>8 DEF LogsIn
<1>10. Good(e, z)  BY <1>1, <1>9, SameTablesAlike, ChairsKept
<1>11. Served(z.m)  BY <1>1, <1>4, <1>8, LogsInServed
<1>12. Spare(z.m)  BY <1>1, <1>8, LogsInSpare
<1>13. Entering(b, z, u, o) /\ Lodged(b, z.m, z.db, u, o)
  BY <1>1, <1>4, <1>8, LogsInHomes
<1>14. z.lost = x.lost /\ Heads(z, u, n)  BY <1>6, <1>9 DEF SameRest, Heads
<1>15. Homes(b, w.m, w.db) /\ Back(z, u, o, w) /\ Arrives(z, w, u, Null)
  BY <1>6, <1>8, <1>10, <1>11, <1>12, <1>13, <1>14, EnterRoomHomes
<1>16. w.m.online[u] = o
  <2>1. z.m.online[u] = o  BY <1>13 DEF Entering
  <2>2. SameNet(z.m, w.m)
    <3>1. Placed(z.m)  BY <1>1, <1>9, PlacedInTables
    <3>2. o \in z.m.live /\ Uid(z, o) # Null /\ z.lost # "row"
      BY <1>8, <1>14, NullIsNone DEF LogsIn, Uid
    <3>3. Settles(e, z, EnterRoom(z, o, n, Null, RoomSize, rich))
      BY <1>6, <1>10, <1>11, <1>12, <3>1, <3>2, EnterRoomSettles
    <3>. QED  BY <1>8, <3>3 DEF Settles, Grows
  <2>. QED  BY <2>1, <2>2 DEF SameNet
<1>17. Back(x, u, o, w)  BY <1>9, <1>15 DEF Back, SameRest
<1>18. Arrives(x, w, u, Null)
  <2>1. \A v \in Users \ {u} : z.m.online[v] = x.m.online[v]
    BY <1>1, <1>8, NullIsNone, WorkTyped DEF LogsIn
  <2>2. z.db = x.db /\ z.m.at = x.m.at /\ z.m.tables = x.m.tables /\ z.m.table = x.m.table
    BY <1>9 DEF SameRest, SameRoom, SameTables
  <2>3. Arrives(x, z, u, Null)  BY <2>1, <2>2, SeatsApart DEF Arrives, Still
  <2>. QED  BY <1>15, <2>3, ArrivesOn
<1>19. w.m.online[u] # Null  BY <1>16, NullIsNone
<1>. QED  BY <1>7, <1>15, <1>16, <1>17, <1>18, <1>19 DEF Settled, w

(* Who is online enters from his home.                                     *)
LEMMA HomeEnters ==
  ASSUME NEW e, NEW x, Good(e, x), NEW b, Homes(b, x.m, x.db),
         NEW u \in Users, NEW o \in Objs, x.m.online[u] = o
  PROVE  Entering(b, x, u, o) /\ Lodged(b, x.m, x.db, u, o)
<1>1. o # Null /\ Who(x.m, u) = o  BY NullIsNone DEF Who
<1>2. Home(b, x.m, x.db, u)  BY DEF Homes
<1>3. Lodged(b, x.m, x.db, u, o)  BY <1>1, <1>2 DEF Home
<1>. QED  BY <1>3 DEF Entering, Homes, Lodged, Chaired

LEMMA ChangeToHomes ==
  ASSUME NEW e, NEW b, NEW x, Settled(e, b, x), b => x.lost = "none",
         x.lost \notin {"row", "htid", "enter"}, roomType \in {0, 1},
         NEW u \in Users, NEW o \in Objs, x.m.online[u] = o, Uid(x, o) = u, NEW rich
  PROVE  LET y == ChangeTo(x, o, rich) IN
         /\ Settled(e, b, y) /\ y.lost = x.lost /\ Narrows(x.m, y.m)
         /\ y = x \/ Changes(x, y, u)
<1>. DEFINE n == x.m.at[u]
            y == Standup(x, o, n)
            w == ChangeTo(x, o, rich)
<1>1. /\ x \in Work /\ Good(e, x) /\ Served(x.m) /\ Well(e, x) /\ Homes(b, x.m, x.db)
      /\ u # Null /\ u \in Ids /\ Who(x.m, u) = o /\ n \in Tids \cup {Null}
      /\ o \in x.m.live
  BY WorkTyped, NullIsNone DEF Settled, Well, Good, Who, Served, Online
<1>2. Well(e, w) /\ w.lost = x.lost /\ Narrows(x.m, w.m) /\ w.m.online = x.m.online
  <2>1. Uid(x, o) # Null  BY <1>1
  <2>. QED  BY <1>1, <2>1, ChangeToWell
<1>3. w = IF roomType = 1 \/ n = Null \/ ~rich THEN x
          ELSE IF ~y.ok THEN x ELSE EnterRoom(y, o, Null, n, x.m.table[n].size, rich)
  <2>. DEFINE J(v) ==
         LET k == x.m.at[v]
             a == Standup(x, o, k) IN
         IF roomType = 1 \/ k = Null \/ ~rich THEN x
         ELSE IF ~a.ok THEN x ELSE EnterRoom(a, o, Null, k, x.m.table[k].size, rich)
  <2>1. w = J(Uid(x, o))  BY Zenon DEF ChangeTo
  <2>2. J(u) = IF roomType = 1 \/ n = Null \/ ~rich THEN x
               ELSE IF ~y.ok THEN x ELSE EnterRoom(y, o, Null, n, x.m.table[n].size, rich)
    BY Zenon
  <2>. HIDE DEF J, w, y, n
  <2>. QED  BY <2>1, <2>2
<1>. HIDE DEF w
<1>4. CASE w = x  BY <1>2, <1>4 DEF Settled, w
<1>5. CASE w # x
  <2>. HIDE DEF y, n
  <2>1. /\ roomType = 0 /\ n # Null /\ y.ok
        /\ w = EnterRoom(y, o, Null, n, x.m.table[n].size, rich)
    BY <1>3, <1>5
  <2>2. n \in Tids  BY <1>1, <2>1
  <2>3. x.m.table[n].size = RoomSize  BY <1>1, <2>2 DEF Good, Rooms, TableWell
  <2>4. /\ Homes(b, y.m, y.db) /\ Good(e, y) /\ Served(y.m)
        /\ y.m.online = x.m.online /\ y.m.tables = x.m.tables
        /\ (\E s \in Seat : x.m.table[n].chair[s].uid = u) =>
             y.m.obj[o].table = Null /\ (x.m.at[u] # Null => Parts(x, y, u))
    BY <1>1, <2>1, <2>2, StandupHomes DEF y
  <2>5. (\E s \in Seat : x.m.table[n].chair[s].uid = u) /\ n \in x.m.tables
    <3>1. Lodged(b, x.m, x.db, u, o)  BY <1>1 DEF Homes, Home
    <3>2. ~Seatless(x.m, x.db, u)  BY <2>1, <3>1 DEF Lodged, Nowhere, n
    <3>3. PICK k \in x.m.tables : SeatIn(x.db, k, u)  BY <3>2 DEF Seatless
    <3>4. PICK s \in Seat : x.m.table[k].chair[s].uid = u  BY <1>1, <3>3, ChairsOfRow
    <3>5. Placing(x.m, k, u, x.m.table[k].chair[s])  BY SMTT(60), <3>1, <3>4 DEF Lodged, Chaired
    <3>6. k = n  BY ZenonT(60), <2>1, <3>5 DEF Placing, Nowhere, n
    <3>. QED  BY <3>3, <3>4, <3>6
  <2>6. y.m.online[u] = o /\ o # Null /\ y.m.obj[o].table = Null
    BY <2>4, <2>5, NullIsNone
  <2>7. Heads(y, u, Null) /\ y.m.at[u] = Null
    <3>1. Home(b, y.m, y.db, u)  BY <2>4 DEF Homes
    <3>2. y.m.online[u] # Null /\ y.m.obj[y.m.online[u]].table = Null  BY <2>6
    <3>. QED  BY <2>4, <3>1, <3>2, NoTableNoChair DEF Heads, Nowhere
  <2>8. Entering(b, y, u, o) /\ Lodged(b, y.m, y.db, u, o)  BY <2>4, <2>6, HomeEnters
  <2>9. y.lost = x.lost
    <3>1. Uid(x, o) # Null  BY <1>1
    <3>. QED  BY <1>1, <2>2, <3>1, StandupInRoom DEF InRoom, y
  <2>10. Null \in Tids \cup {Null}  OBVIOUS
  <2>11. Homes(b, w.m, w.db) /\ Arrives(y, w, u, n)
    <3>1. n \in y.m.tables  BY <2>4, <2>5
    <3>. QED  BY SMTT(60), <2>1, <2>3, <2>4, <2>7, <2>8, <2>9, <2>10, <3>1, EnterRoomHomes
  <2>12. Changes(x, w, u)
    <3>1. n = x.m.at[u] /\ n # Null  BY <2>1 DEF n
    <3>2. Parts(x, y, u)  BY <2>4, <2>5, <3>1
    <3>3. Quiet(x, w)  BY <2>11, <3>2, QuietOn DEF Parts, Arrives
    <3>4. \A v \in Users \ {u} : Still(x, w, v)  BY <2>11, <3>2, StillOn DEF Parts, Arrives
    <3>5. ~SeatIn(w.db, n, u)  BY <2>2, <2>11, <3>2 DEF Parts, Stood, Arrives, SeatIn
    <3>6. w.m.online[u] = x.m.online[u] /\ x.m.online[u] # Null  BY <1>2, NullIsNone
    <3>. QED  BY <3>1, <3>3, <3>4, <3>5, <3>6 DEF Changes
  <2>. QED  BY <1>2, <2>11, <2>12 DEF Settled, w
<1>. QED  BY SMTT(60), <1>4, <1>5

(* Who is thrown out of his chair has his table there.                     *)
LEMMA ThrowOutOneHomes ==
  ASSUME NEW e, NEW b, NEW x, Settled(e, b, x), b => x.lost = "none", roomType = 0,
         NEW n \in x.m.tables, ~x.m.table[n].playing, NEW late, NEW s \in Seat,
         s \in late => x.m.table[n].chair[s].uid # Null
  PROVE  LET y == ThrowOutOne(x, n, s, late) IN
         /\ Settled(e, b, y) /\ y.lost = x.lost /\ n \in y.m.tables /\ ~y.m.table[n].playing
         /\ \A q \in Seat : q # s => y.m.table[n].chair[q].uid = x.m.table[n].chair[q].uid
         /\ Vacates(x, y)
<1>. DEFINE c == x.m.table[n].chair[s]
            o == c.obj
            v == c.uid
            y == ThrowOutOne(x, n, s, late)
            z == LeaveTable(x, o, n, s)
<1>1. /\ x \in Work /\ Good(e, x) /\ Served(x.m) /\ Well(e, x) /\ Homes(b, x.m, x.db)
      /\ n \in Tids /\ x.m.table[n] \in Table
  BY WorkTyped DEF Settled, Well, Good
<1>2. /\ Well(e, y) /\ y.lost = x.lost /\ n \in y.m.tables /\ ~y.m.table[n].playing
      /\ \A q \in Seat : q # s => y.m.table[n].chair[q].uid = x.m.table[n].chair[q].uid
  BY <1>1, ThrowOutOneWell
<1>3. y = x \/ (s \in late /\ x.m.obj[o].table = n /\ y = z)
  BY Zenon DEF ThrowOutOne, o, y, z, c
<1>. HIDE DEF y
<1>4. CASE y = x
  <2>1. Vacates(x, x)  BY SeatsApart DEF Vacates, Still
  <2>. QED  BY <1>2, <1>4, <2>1 DEF Settled, y
<1>5. CASE s \in late /\ x.m.obj[o].table = n /\ y = z
  <2>1. v \in Users  BY <1>1, <1>5, TableTyped DEF Ids
  <2>2. Home(b, x.m, x.db, v) /\ v \in Ids  BY SMTT(60), <1>1, <2>1, NullIsNone DEF Homes
  <2>3. o = Who(x.m, v) /\ o # Null /\ Placing(x.m, n, v, c)
    BY ZenonT(60), <2>2 DEF Home, Lodged, Chaired
  <2>4. o \in Objs  BY SMTT(60), <1>1, <2>2, <2>3, WhoLives, WorkTyped
  <2>5. x.m.obj[o].uid = v  BY ZenonT(60), <1>1, <1>5, <2>3, NullIsNone DEF Placing
  <2>6. LET u == x.m.obj[o].uid IN
        u \in Users /\ Who(x.m, u) = o /\ x.m.table[n].chair[s].uid = u
    BY ZenonT(60), <2>1, <2>3, <2>5
  <2>8. x.m.at[v] # Null  BY ZenonT(60), <1>1, <1>5, <2>3, NullIsNone DEF Placing, Nowhere
  <2>. HIDE DEF o, v, c
  <2>7. Homes(b, z.m, z.db) /\ Parts(x, z, v)  BY <1>1, <2>4, <2>5, <2>6, <2>8, LeaveTableHomes
  <2>9. Vacates(x, z)  BY <2>7 DEF Parts, Vacates
  <2>. QED  BY SMTT(60), <1>2, <1>5, <2>7, <2>9 DEF Settled, y
<1>. QED  BY ZenonT(60), <1>3, <1>4, <1>5

LEMMA ThrowOutHomes ==
  ASSUME NEW e, NEW b, NEW x, Settled(e, b, x), b => x.lost = "none", roomType = 0,
         NEW n \in x.m.tables, ~x.m.table[n].playing, NEW late,
         \A s \in Seat : s \in late => x.m.table[n].chair[s].uid # Null
  PROVE  LET y == ThrowOutOne(ThrowOutOne(ThrowOutOne(x, n, 0, late), n, 1, late), n, 2, late) IN
         Settled(e, b, y) /\ Narrows(x.m, y.m) /\ Vacates(x, y)
<1>. DEFINE a == ThrowOutOne(x, n, 0, late)
            d == ThrowOutOne(a, n, 1, late)
            y == ThrowOutOne(d, n, 2, late)
<1>1. 0 \in Seat /\ 1 \in Seat /\ 2 \in Seat /\ 0 # 1 /\ 0 # 2 /\ 1 # 2  BY SeatsAre
<1>2. /\ Settled(e, b, a) /\ a.lost = x.lost /\ n \in a.m.tables /\ ~a.m.table[n].playing
      /\ \A q \in Seat : q # 0 => a.m.table[n].chair[q].uid = x.m.table[n].chair[q].uid
      /\ Vacates(x, a)
  BY <1>1, ThrowOutOneHomes
<1>. HIDE DEF a
<1>3. 1 \in late => a.m.table[n].chair[1].uid # Null  BY Zenon, <1>1, <1>2
<1>4. /\ Settled(e, b, d) /\ d.lost = a.lost /\ n \in d.m.tables /\ ~d.m.table[n].playing
      /\ \A q \in Seat : q # 1 => d.m.table[n].chair[q].uid = a.m.table[n].chair[q].uid
      /\ Vacates(a, d)
  BY <1>1, <1>2, <1>3, ThrowOutOneHomes
<1>. HIDE DEF d
<1>5. 2 \in late => d.m.table[n].chair[2].uid # Null  BY Zenon, <1>1, <1>2, <1>4
<1>6. Settled(e, b, y) /\ Vacates(d, y)  BY <1>1, <1>2, <1>4, <1>5, ThrowOutOneHomes
<1>7. Narrows(x.m, y.m)  BY ThrowOutWell DEF Settled, d, a
<1>. HIDE DEF y
<1>8. Vacates(x, y)  BY <1>2, <1>4, <1>6, VacatesOn
<1>. QED  BY Zenon, <1>6, <1>7, <1>8 DEF y, d, a

-----------------------------------------------------------------------------
(* Games and connections move nobody.                                      *)
(* Games move nobody.  One begins only when all are there, and only who is *)
(* at a table becomes ready.                                               *)
Present(x, v) == v # Null /\ x.m.at[v] # Null
Plays(x, y, n) ==
  /\ y.m.online = x.m.online /\ y.m.at = x.m.at
  /\ \A k \in Tids, s \in Seat : y.db.row[k].chair[s] = x.db.row[k].chair[s]
  /\ \A k \in Tids : k # n => y.db.row[k].playing = x.db.row[k].playing
  /\ y.db.row[n].playing /\ ~x.db.row[n].playing =>
       \A s \in 0..(RoomSize - 1) : Present(x, x.db.row[n].chair[s])
  /\ \A k \in y.m.tables, s \in Seat : LET c == y.m.table[k].chair[s] IN
       c.ready /\ c.uid # Null =>
         /\ k \in x.m.tables /\ x.m.table[k].chair[s].uid = c.uid
         /\ x.m.table[k].chair[s].ready \/ x.m.at[c.uid] # Null

Shifts(x, y) ==
  \/ Goes(x, y) \/ Vacates(x, y)
  \/ \E u \in Users : (Arrives(x, y, u, Null) /\ y.m.online[u] # Null) \/ Changes(x, y, u)

LEMMA ApartGoes ==
  ASSUME NEW x, NEW y, y.db.row = x.db.row, SamePlaces(x, y), y.m.table = x.m.table
  PROVE  Goes(x, y)
BY SeatsApart DEF SamePlaces, SameRoom, Goes

LEMMA SamePlacesOn ==
  ASSUME NEW x, NEW y, NEW z, SamePlaces(x, y), SamePlaces(y, z)
  PROVE  SamePlaces(x, z)
BY DEF SamePlaces, SameRoom

LEMMA AtTablePlaces ==
  ASSUME NEW x \in Work, NEW n \in Tids, NEW t, NEW y, AtTable(x, n, t, y),
         \A s \in Seat : /\ t.chair[s].uid = x.m.table[n].chair[s].uid
                         /\ t.chair[s].obj = x.m.table[n].chair[s].obj
                         /\ t.chair[s].offline = x.m.table[n].chair[s].offline
  PROVE  SamePlaces(x, y)
<1>1. x.m.table \in [Tids -> Table]  BY WorkTyped
<1>2. /\ y.db = x.db /\ y.m.table = [x.m.table EXCEPT ![n] = t] /\ y.m.obj = x.m.obj
      /\ SameServer(x.m, y.m) /\ SameRoom(x.m, y.m) /\ y.m.tables = x.m.tables
  BY DEF AtTable, SameRest
<1>3. \A k \in Tids : y.m.table[k] = IF k = n THEN t ELSE x.m.table[k]  BY <1>1, <1>2
<1>4. \A k \in Tids, s \in Seat :
        /\ y.m.table[k].chair[s].uid = x.m.table[k].chair[s].uid
        /\ y.m.table[k].chair[s].obj = x.m.table[k].chair[s].obj
        /\ y.m.table[k].chair[s].offline = x.m.table[k].chair[s].offline
  BY Zenon, <1>3
<1>. QED  BY <1>2, <1>4 DEF SamePlaces, SameServer

LEMMA SavedPlaces ==
  ASSUME NEW x \in Work, NEW n \in Tids, NEW r, r.chair = x.db.row[n].chair,
         NEW y, Saved(x, n, r, y)
  PROVE  SamePlaces(x, y)
<1>1. x.db.row \in [Tids -> Row]  BY WorkTyped
<1>2. /\ y.m = x.m /\ y.db.row = [x.db.row EXCEPT ![n] = r] /\ y.db.zid = x.db.zid
      /\ y.db.rooms = x.db.rooms
  BY DEF Saved
<1>3. \A k \in Tids : y.db.row[k] = IF k = n THEN r ELSE x.db.row[k]  BY <1>1, <1>2
<1>4. \A k \in Tids, s \in Seat : y.db.row[k].chair[s] = x.db.row[k].chair[s]  BY Zenon, <1>3
<1>. QED  BY <1>2, <1>4 DEF SamePlaces, SameRoom

(* The row of the table has its chairs.                                    *)
Told(x, n) == \A s \in Seat : x.m.table[n].chair[s].uid = x.db.row[n].chair[s]

LEMMA ToldOn ==
  ASSUME NEW x, NEW y, NEW n \in Tids, Told(x, n), SamePlaces(x, y)
  PROVE  Told(y, n)
BY DEF Told, SamePlaces

(* A step that moves nobody and saves what the row has already, and of the *)
(* other tables not even that; and one after which nobody is ready who was *)
(* not before.                                                             *)
Moves(x, n, y) ==
  /\ y \in Work /\ SamePlaces(x, y) /\ Told(y, n)
  /\ \A k \in Tids : k # n => y.db.row[k].playing = x.db.row[k].playing
Calms(x, y) ==
  \A k \in Tids, s \in Seat : y.m.table[k].chair[s].ready => x.m.table[k].chair[s].ready

LEMMA MovesOn ==
  ASSUME NEW x, NEW y, NEW z, NEW n, Moves(x, n, y), Moves(y, n, z)
  PROVE  Moves(x, n, z)
<1>1. SamePlaces(x, z)  BY SamePlacesOn DEF Moves
<1>. QED  BY <1>1 DEF Moves

LEMMA CalmsOn ==
  ASSUME NEW x, NEW y, NEW z, Calms(x, y), Calms(y, z)
  PROVE  Calms(x, z)
BY DEF Calms

LEMMA AtTableCalms ==
  ASSUME NEW x \in Work, NEW n \in Tids, NEW t, NEW y, AtTable(x, n, t, y),
         \A s \in Seat : t.chair[s].ready => x.m.table[n].chair[s].ready
  PROVE  Calms(x, y) /\ y.db = x.db
<1>1. x.m.table \in [Tids -> Table]  BY WorkTyped
<1>2. y.db = x.db /\ y.m.table = [x.m.table EXCEPT ![n] = t]  BY DEF AtTable, SameRest
<1>3. \A k \in Tids : y.m.table[k] = IF k = n THEN t ELSE x.m.table[k]  BY <1>1, <1>2
<1>4. Calms(x, y)  BY Zenon, <1>3 DEF Calms
<1>. QED  BY <1>2, <1>4

LEMMA SavedCalms ==
  ASSUME NEW x \in Work, NEW n \in Tids, NEW r, NEW y, Saved(x, n, r, y)
  PROVE  /\ Calms(x, y)
         /\ \A k \in Tids : k # n => y.db.row[k].playing = x.db.row[k].playing
<1>1. x.db.row \in [Tids -> Row]  BY WorkTyped
<1>2. y.m = x.m /\ y.db.row = [x.db.row EXCEPT ![n] = r]  BY DEF Saved
<1>3. Calms(x, y)  BY <1>2 DEF Calms
<1>. QED  BY <1>1, <1>2, <1>3

LEMMA UnreadyMoves ==
  ASSUME NEW x \in Work, NEW n \in Tids, Told(x, n)
  PROVE  Moves(x, n, Unready(x, n)) /\ Calms(x, Unready(x, n))
<1>. DEFINE t == x.m.table[n]
            chair == [s \in Seat |-> [t.chair[s] EXCEPT !.ready = FALSE]]
            y == Unready(x, n)
<1>1. AtTable(x, n, Calm(t), y)  BY UnreadyDoes
<1>2. t \in Table /\ t.chair \in [Seat -> Chair]  BY WorkTyped, TableTyped
<1>. HIDE DEF y, t
<1>3. \A s \in Seat : /\ chair[s].uid = t.chair[s].uid /\ chair[s].obj = t.chair[s].obj
                      /\ chair[s].offline = t.chair[s].offline /\ ~chair[s].ready
  BY Zenon, <1>2 DEF Chair
<1>4. Calm(t) = [t EXCEPT !.chair = chair]  BY DEF Calm
<1>. HIDE DEF chair
<1>5. Calm(t).chair = chair  BY <1>2, <1>4 DEF Table
<1>6. SamePlaces(x, y)  BY <1>1, <1>3, <1>5, AtTablePlaces DEF t
<1>7. Told(y, n)  BY <1>6, ToldOn
<1>8. Calms(x, y) /\ y.db = x.db  BY <1>1, <1>3, <1>5, AtTableCalms
<1>. QED  BY <1>1, <1>6, <1>7, <1>8 DEF Moves, AtTable, y

LEMMA SaveStatusMoves ==
  ASSUME NEW x \in Work, NEW n \in Tids, Told(x, n), NEW b \in BOOLEAN
  PROVE  Moves(x, n, SaveStatus(x, n, b)) /\ Calms(x, SaveStatus(x, n, b))
<1>. DEFINE y == SaveStatus(x, n, b)
            r == Status(x.db.row[n], b)
<1>1. Saved(x, n, r, y) /\ r.chair = x.db.row[n].chair  BY SaveStatusDoes
<1>. HIDE DEF y, r
<1>2. SamePlaces(x, y)  BY <1>1, SavedPlaces
<1>3. Told(y, n)  BY <1>2, ToldOn
<1>4. /\ Calms(x, y)
      /\ \A k \in Tids : k # n => y.db.row[k].playing = x.db.row[k].playing
  BY <1>1, SavedCalms
<1>. QED  BY <1>1, <1>2, <1>3, <1>4 DEF Moves, Saved, y

LEMMA SaveChairsMoves ==
  ASSUME NEW x \in Work, NEW n \in Tids, Told(x, n)
  PROVE  Moves(x, n, SaveChairs(x, n)) /\ Calms(x, SaveChairs(x, n))
<1>. DEFINE y == SaveChairs(x, n)
<1>1. Saved(x, n, x.db.row[n], y)  BY SaveChairsDoes DEF Told
<1>. HIDE DEF y
<1>2. SamePlaces(x, y)  BY <1>1, SavedPlaces
<1>3. Told(y, n)  BY <1>2, ToldOn
<1>4. /\ Calms(x, y)
      /\ \A k \in Tids : k # n => y.db.row[k].playing = x.db.row[k].playing
  BY <1>1, SavedCalms
<1>. QED  BY <1>1, <1>2, <1>3, <1>4 DEF Moves, Saved, y

LEMMA PlayingMoves ==
  ASSUME NEW x \in Work, NEW n \in Tids, Told(x, n), NEW b \in BOOLEAN
  PROVE  LET y == [x EXCEPT !.m.table[n].playing = b] IN Moves(x, n, y) /\ Calms(x, y)
<1>. DEFINE y == [x EXCEPT !.m.table[n].playing = b]
            t == x.m.table[n]
            v == [t EXCEPT !.playing = b]
<1>1. AtTable(x, n, v, y) /\ v.chair = t.chair  BY PlayingSet
<1>. HIDE DEF y, v
<1>2. SamePlaces(x, y)  BY <1>1, AtTablePlaces
<1>3. Told(y, n)  BY <1>2, ToldOn
<1>4. Calms(x, y) /\ y.db = x.db  BY <1>1, AtTableCalms
<1>. QED  BY <1>1, <1>2, <1>3, <1>4 DEF Moves, AtTable, y

LEMMA GameStartMoves ==
  ASSUME NEW x \in Work, NEW n \in Tids, Told(x, n)
  PROVE  Moves(x, n, GameStart(x, n)) /\ Calms(x, GameStart(x, n))
<1>. DEFINE a == Unready(x, n)
            b == SaveStatus(a, n, FALSE)
            c == SaveChairs(b, n)
            d == SaveStatus(c, n, TRUE)
            f == SaveChairs(d, n)
            y == [f EXCEPT !.m.table[n].playing = TRUE]
<1>1. GameStart(x, n) = y  BY Zenon DEF GameStart
<1>2. Moves(x, n, a) /\ Calms(x, a)  BY UnreadyMoves
<1>. HIDE DEF a
<1>3. Moves(x, n, b) /\ Calms(x, b)
  <2>1. Moves(a, n, b) /\ Calms(a, b)  BY <1>2, SaveStatusMoves DEF Moves
  <2>. HIDE DEF b
  <2>. QED  BY <1>2, <2>1, MovesOn, CalmsOn
<1>. HIDE DEF b
<1>4. Moves(x, n, c) /\ Calms(x, c)
  <2>1. Moves(b, n, c) /\ Calms(b, c)  BY <1>3, SaveChairsMoves DEF Moves
  <2>. HIDE DEF c
  <2>. QED  BY <1>3, <2>1, MovesOn, CalmsOn
<1>. HIDE DEF c
<1>5. Moves(x, n, d) /\ Calms(x, d)
  <2>1. Moves(c, n, d) /\ Calms(c, d)  BY <1>4, SaveStatusMoves DEF Moves
  <2>. HIDE DEF d
  <2>. QED  BY <1>4, <2>1, MovesOn, CalmsOn
<1>. HIDE DEF d
<1>6. Moves(x, n, f) /\ Calms(x, f)
  <2>1. Moves(d, n, f) /\ Calms(d, f)  BY <1>5, SaveChairsMoves DEF Moves
  <2>. HIDE DEF f
  <2>. QED  BY <1>5, <2>1, MovesOn, CalmsOn
<1>. HIDE DEF f
<1>7. Moves(x, n, y) /\ Calms(x, y)
  <2>1. Moves(f, n, y) /\ Calms(f, y)  BY <1>6, PlayingMoves DEF Moves
  <2>. HIDE DEF y
  <2>. QED  BY <1>6, <2>1, MovesOn, CalmsOn
<1>. QED  BY <1>1, <1>7

LEMMA EndedMoves ==
  ASSUME NEW x \in Work, NEW n \in Tids, Told(x, n)
  PROVE  Moves(x, n, Ended(x, n)) /\ Calms(x, Ended(x, n))
<1>. DEFINE a == Unready(x, n)
            b == SaveStatus(a, n, FALSE)
            y == [b EXCEPT !.m.table[n].playing = FALSE]
<1>1. Ended(x, n) = y  BY Zenon DEF Ended
<1>2. Moves(x, n, a) /\ Calms(x, a)  BY UnreadyMoves
<1>. HIDE DEF a
<1>3. Moves(x, n, b) /\ Calms(x, b)
  <2>1. Moves(a, n, b) /\ Calms(a, b)  BY <1>2, SaveStatusMoves DEF Moves
  <2>. HIDE DEF b
  <2>. QED  BY <1>2, <2>1, MovesOn, CalmsOn
<1>. HIDE DEF b
<1>4. Moves(x, n, y) /\ Calms(x, y)
  <2>1. Moves(b, n, y) /\ Calms(b, y)  BY <1>3, PlayingMoves DEF Moves
  <2>. HIDE DEF y
  <2>. QED  BY <1>3, <2>1, MovesOn, CalmsOn
<1>. QED  BY <1>1, <1>4

MadeReady(x, n, s, y) ==
  /\ Moves(x, n, y) /\ y.db = x.db
  /\ \A k \in Tids, q \in Seat : y.m.table[k].chair[q].ready =>
       x.m.table[k].chair[q].ready \/ (k = n /\ q = s)

LEMMA ReadyMoves ==
  ASSUME NEW x \in Work, NEW n \in Tids, NEW s \in Seat, Told(x, n)
  PROVE  MadeReady(x, n, s, [x EXCEPT !.m.table[n].chair[s].ready = TRUE])
<1>. DEFINE t == x.m.table[n]
            c == [t.chair[s] EXCEPT !.ready = TRUE]
            chair == [t.chair EXCEPT ![s] = c]
            v == [t EXCEPT !.chair = chair]
            y == [x EXCEPT !.m.table[n] = v]
<1>1. t \in Table /\ t.chair \in [Seat -> Chair]  BY WorkTyped, TableTyped
<1>2. [x EXCEPT !.m.table[n].chair[s].ready = TRUE] = y  OBVIOUS
<1>. HIDE DEF t
<1>3. /\ c \in Chair /\ c.uid = t.chair[s].uid /\ c.obj = t.chair[s].obj
      /\ c.offline = t.chair[s].offline
  BY Zenon, <1>1 DEF Chair
<1>. HIDE DEF c
<1>4. /\ chair \in [Seat -> Chair]
      /\ \A q \in Seat : /\ chair[q].uid = t.chair[q].uid /\ chair[q].obj = t.chair[q].obj
                         /\ chair[q].offline = t.chair[q].offline
                         /\ q # s => chair[q] = t.chair[q]
  BY <1>1, <1>3
<1>. HIDE DEF chair
<1>5. v \in Table /\ v.chair = chair  BY <1>1, <1>4 DEF Table
<1>. HIDE DEF v
<1>6. AtTable(x, n, v, y)  BY <1>5, TableSet
<1>. HIDE DEF y
<1>7. SamePlaces(x, y)  BY <1>4, <1>5, <1>6, AtTablePlaces DEF t
<1>8. Told(y, n)  BY <1>7, ToldOn
<1>9. /\ y.db = x.db
      /\ \A k \in Tids, q \in Seat : y.m.table[k].chair[q].ready =>
           x.m.table[k].chair[q].ready \/ (k = n /\ q = s)
  <2>1. x.m.table \in [Tids -> Table]  BY WorkTyped
  <2>2. y.db = x.db /\ y.m.table = [x.m.table EXCEPT ![n] = v]  BY <1>6 DEF AtTable, SameRest
  <2>3. \A k \in Tids : y.m.table[k] = IF k = n THEN v ELSE x.m.table[k]  BY <2>1, <2>2
  <2>4. \A q \in Seat : v.chair[q].ready => x.m.table[n].chair[q].ready \/ q = s
    BY <1>4, <1>5 DEF t
  <2>. QED  BY Zenon, <2>2, <2>3, <2>4
<1>10. MadeReady(x, n, s, y)  BY <1>6, <1>7, <1>8, <1>9 DEF MadeReady, Moves, AtTable
<1>. QED  BY <1>2, <1>10

LEMMA CalmsPlays ==
  ASSUME NEW x, NEW y, NEW n, Moves(x, n, y), Calms(x, y), x.m.tables \subseteq Tids,
         x.db.row[n].playing \/ ~y.db.row[n].playing
  PROVE  Plays(x, y, n)
BY DEF Moves, SamePlaces, SameRoom, Calms, Plays

LEMMA ReadyPlays ==
  ASSUME NEW x, NEW y, NEW n \in Tids, NEW s \in Seat, Moves(x, n, y), x.m.tables \subseteq Tids,
         x.m.at[x.m.table[n].chair[s].uid] # Null,
         \A k \in Tids, q \in Seat : y.m.table[k].chair[q].ready =>
           x.m.table[k].chair[q].ready \/ (k = n /\ q = s),
         y.db.row[n].playing => x.db.row[n].playing
           \/ \A q \in 0..(RoomSize - 1) : Present(x, x.db.row[n].chair[q])
  PROVE  Plays(x, y, n)
<1>1. \A k \in y.m.tables, q \in Seat : LET c == y.m.table[k].chair[q] IN
        c.ready =>
          /\ k \in x.m.tables /\ x.m.table[k].chair[q].uid = c.uid
          /\ x.m.table[k].chair[q].ready \/ x.m.at[c.uid] # Null
  <2>1. /\ y.m.tables = x.m.tables
        /\ \A k \in Tids, q \in Seat : y.m.table[k].chair[q].uid = x.m.table[k].chair[q].uid
    BY DEF Moves, SamePlaces
  <2>. SUFFICES ASSUME NEW k \in y.m.tables, NEW q \in Seat, y.m.table[k].chair[q].ready
                PROVE  /\ k \in x.m.tables
                       /\ x.m.table[k].chair[q].uid = y.m.table[k].chair[q].uid
                       /\ \/ x.m.table[k].chair[q].ready
                          \/ x.m.at[y.m.table[k].chair[q].uid] # Null
    OBVIOUS
  <2>2. k \in Tids /\ k \in x.m.tables  BY <2>1
  <2>3. x.m.table[k].chair[q].uid = y.m.table[k].chair[q].uid  BY <2>1, <2>2
  <2>4. x.m.table[k].chair[q].ready \/ (k = n /\ q = s)  BY <2>2
  <2>. QED  BY <2>2, <2>3, <2>4
<1>. QED  BY <1>1 DEF Moves, SamePlaces, SameRoom, Plays

LEMMA NetPlaces ==
  ASSUME NEW x \in Work, NEW open \in SUBSET Conns, NEW fresh \in SUBSET Conns,
         NEW tick \in SUBSET Conns
  PROVE  LET y == [x EXCEPT !.m.open = open, !.m.fresh = fresh, !.m.tick = tick] IN
         SamePlaces(x, y) /\ Goes(x, y)
<1>. DEFINE g == [x.m EXCEPT !.open = open, !.fresh = fresh, !.tick = tick]
            y == [x EXCEPT !.m = g]
<1>1. x.m \in Memory  BY WorkTyped
<1>2. [x EXCEPT !.m.open = open, !.m.fresh = fresh, !.m.tick = tick] = y  BY Zenon
<1>3. /\ g.online = x.m.online /\ g.offline = x.m.offline /\ g.live = x.m.live
      /\ g.session = x.m.session
      /\ g.obj = x.m.obj /\ SameRoom(x.m, g) /\ SameTables(x.m, g)
  BY Zenon, <1>1 DEF Memory, SameRoom, SameTables
<1>. HIDE DEF g
<1>4. y.m = g /\ y.db = x.db  BY DEF Work
<1>. HIDE DEF y
<1>5. SamePlaces(x, y)  BY <1>3, <1>4 DEF SamePlaces, SameTables
<1>6. Goes(x, y)  BY <1>3, <1>4, <1>5, ApartGoes DEF SameTables
<1>. QED  BY <1>2, <1>5, <1>6

LEMMA DismissPlaces ==
  ASSUME NEW x \in Work
  PROVE  LET y == [x EXCEPT !.m.dismissed = {}] IN SamePlaces(x, y) /\ Goes(x, y)
<1>. DEFINE g == [x.m EXCEPT !.dismissed = {}]
            y == [x EXCEPT !.m = g]
<1>1. x.m \in Memory  BY WorkTyped
<1>2. [x EXCEPT !.m.dismissed = {}] = y  OBVIOUS
<1>3. /\ g.online = x.m.online /\ g.offline = x.m.offline /\ g.live = x.m.live
      /\ g.session = x.m.session
      /\ g.obj = x.m.obj /\ SameRoom(x.m, g) /\ g.tables = x.m.tables /\ g.table = x.m.table
  BY Zenon, <1>1 DEF Memory, SameRoom
<1>. HIDE DEF g
<1>4. y.m = g /\ y.db = x.db  BY DEF Work
<1>. HIDE DEF y
<1>5. SamePlaces(x, y)  BY <1>3, <1>4 DEF SamePlaces
<1>6. Goes(x, y)  BY <1>3, <1>4, <1>5, ApartGoes
<1>. QED  BY <1>2, <1>5, <1>6

LEMMA SettledKept ==
  ASSUME NEW e, NEW f, NEW b, NEW x, Settled(e, b, x), NEW y \in Work, Well(f, y),
         SamePlaces(x, y)
  PROVE  Settled(f, b, y) /\ Narrows(x.m, y.m)
BY SamePlacesHomes, SameNarrows DEF Settled, Well, Good, SamePlaces

-----------------------------------------------------------------------------
(***************************************************************************)
(* The invariant.  A room without a number, a chair restored without data  *)
(* and a last room that stays are forgiven; every other failure breaks one *)
(* of the properties below: without zid, or without enter, RoomAgrees;     *)
(* without htid, or when all after one command is lost (rest),             *)
(* PointersLive.  Those that Steady excludes break TablesAgree (row) and   *)
(* ConnectionsAgree (info).                                                *)
(***************************************************************************)
Forgiving == Steady /\ Failing \subseteq {"tid", "create", "leave"}

PlacesInv == SessionInv /\ Homes(failures = 0, m, db)

LEMMA HomesWeaker ==
  ASSUME NEW a \in BOOLEAN, NEW b \in BOOLEAN, b => a, NEW g, NEW d, Homes(a, g, d)
  PROVE  Homes(b, g, d)
<1>1. ASSUME NEW u \in Users  PROVE Home(b, g, d, u)
  <2>1. Home(a, g, d, u)  BY DEF Homes
  <2>. QED  BY <2>1 DEF Home, Lodged, Booked
<1>2. Known(b, g, d)
  <2>1. Known(a, g, d)  BY DEF Homes
  <2>. QED  BY <2>1 DEF Known
<1>. QED  BY <1>1, <1>2 DEF Homes

LEMMA HomesThere ==
  ASSUME NEW g, NEW d, Homes(failures' = 0, g, d), m' = g, db' = d, roomType' = roomType
  PROVE  Homes(failures = 0, m, db)'
<1>1. ASSUME NEW u \in Users  PROVE Home(failures = 0, m, db, u)'
  <2>1. Home(failures' = 0, m', db', u)  BY DEF Homes
  <2>. QED  BY <2>1 DEF Home, Lodged, Booked
<1>2. Known(failures = 0, m, db)'
  <2>1. Known(failures' = 0, m', db')  BY DEF Homes
  <2>. QED  BY <2>1 DEF Known
<1>. QED  BY <1>1, <1>2 DEF Homes

LEMMA StepHomes ==
  ASSUME SessionInv, "rest" \notin Failing, NEW x, Step(x), NEW b \in BOOLEAN,
         Homes(b, x.m, x.db), failures = 0 /\ x.lost = "none" => b
  PROVE  Homes(failures = 0, m, db)' /\ m' = x.m /\ db' = x.db /\ (failures' = 0 => b)
<1>1. Completes(x)  BY DEF Step, CutShort
<1>2. m' = x.m /\ db' = x.db /\ roomType' = roomType /\ Counted(x)  BY <1>1 DEF Completes
<1>3. failures \in Nat  BY FaultsAssumption DEF SessionInv, TypeOK
<1>4. failures' = 0 => failures = 0 /\ x.lost = "none"  BY <1>2, <1>3 DEF Counted
<1>5. Homes(failures' = 0, x.m, x.db)  BY <1>4, HomesWeaker
<1>. QED  BY <1>2, <1>4, <1>5, HomesThere

LEMMA DoingSettled ==
  ASSUME PlacesInv, NEW fate \in Fates
  PROVE  LET b == failures = 0 /\ fate = "none" IN
         /\ Settled(db, b, Doing(fate)) /\ b \in BOOLEAN /\ Doing(fate) \in Work
         /\ b => Doing(fate).lost = "none"
<1>. DEFINE b == failures = 0 /\ fate = "none"
<1>1. Well(db, Doing(fate)) /\ Doing(fate).m = m /\ Doing(fate).db = db /\ Doing(fate).lost = fate
  BY DoingWell DEF PlacesInv
<1>2. Homes(failures = 0, m, db)  BY DEF PlacesInv
<1>3. Homes(b, m, db)  BY <1>2, HomesWeaker
<1>4. Doing(fate) \in Work  BY <1>1 DEF Well, Good
<1>. QED  BY <1>1, <1>3, <1>4 DEF Settled

LEMMA NowSettled ==
  ASSUME PlacesInv
  PROVE  /\ Settled(db, failures = 0, Now) /\ Now.m = m /\ Now.db = db /\ Now.lost = "none"
         /\ Now \in Work /\ Well(db, Now) /\ Good(db, Now) /\ Served(m) /\ SessionInv
         /\ roomType \in {0, 1}
BY NowWell DEF PlacesInv, Settled

LEMMA StepSettled ==
  ASSUME PlacesInv, "rest" \notin Failing, NEW x, Step(x), NEW e, Settled(e, failures = 0, x),
         Narrows(m, x.m)
  PROVE  Homes(failures = 0, m, db)' /\ Narrows(m, m')
BY StepHomes DEF PlacesInv, Settled

(* What a handler has done to the seats.                                   *)
Turned == \E e, f, b, x, y :
  /\ Settled(e, b, x) /\ x.m = m /\ x.db = db
  /\ Settled(f, b, y) /\ y.m = m' /\ y.db = db'
  /\ Shifts(x, y) \/ \E n \in Tids : Plays(x, y, n)

LEMMA StepTurns ==
  ASSUME PlacesInv, "rest" \notin Failing, NEW y, Step(y), NEW f, Settled(f, failures = 0, y),
         Shifts(Now, y) \/ \E n \in Tids : Plays(Now, y, n)
  PROVE  Turned
<1>1. Homes(failures = 0, y.m, y.db) /\ (failures = 0) \in BOOLEAN  BY DEF Settled
<1>2. m' = y.m /\ db' = y.db  BY <1>1, StepHomes DEF PlacesInv
<1>3. Settled(db, failures = 0, Now) /\ Now.m = m /\ Now.db = db  BY NowSettled
<1>. QED  BY <1>2, <1>3 DEF Turned

-----------------------------------------------------------------------------
(* Who is ready is at a table.                                             *)
Readied(g) == \A n \in g.tables, s \in Seat : LET c == g.table[n].chair[s] IN
  c.ready /\ c.uid # Null => g.at[c.uid] # Null

(* Every handler keeps everybody's place.                                  *)
LEMMA ConnectPlaces ==
  ASSUME PlacesInv, Forgiving, NEW c \in Conns, Connect(c)
  PROVE  Homes(failures = 0, m, db)' /\ Narrows(m, m') /\ Turned
<1>. DEFINE open == m.open \cup {c}
            fresh == m.fresh \cup {c}
            y == [Now EXCEPT !.m.open = open, !.m.fresh = fresh, !.m.tick = m.tick]
            x == [Now EXCEPT !.m.open = @ \cup {c}, !.m.fresh = @ \cup {c}]
<1>1. /\ open \in SUBSET Conns /\ fresh \in SUBSET open /\ m.tick \in SUBSET open
      /\ m.open \subseteq open
  BY NowSettled, NetsAre
<1>2. x = y
  <2>1. Now.m = m /\ m \in Memory  BY NowSettled DEF SessionInv, TypeOK
  <2>2. [m EXCEPT !.tick = m.tick] = m  BY <2>1 DEF Memory
  <2>3. [m EXCEPT !.open = open, !.fresh = fresh, !.tick = m.tick] =
          [m EXCEPT !.open = open, !.fresh = fresh]
    BY Zenon, <2>1 DEF Memory
  <2>4. x = [Now EXCEPT !.m = [m EXCEPT !.open = open, !.fresh = fresh]]  BY Zenon, <2>1
  <2>5. y = [Now EXCEPT !.m = [m EXCEPT !.open = open, !.fresh = fresh, !.tick = m.tick]]
    BY Zenon, <2>1
  <2>. QED  BY <2>3, <2>4, <2>5
<1>3. Step(x)  BY DEF Connect
<1>4. SamePlaces(Now, y) /\ Goes(Now, y)
  <2>. HIDE DEF open, fresh
  <2>1. fresh \in SUBSET Conns /\ m.tick \in SUBSET Conns  BY <1>1
  <2>. QED  BY Zenon, <1>1, <2>1, NowSettled, NetPlaces
<1>. HIDE DEF open, fresh
<1>5. Well(db, y)
  <2>1. Well(db, Now) /\ Now.m.open \subseteq open  BY <1>1, NowSettled
  <2>. QED  BY Zenon, <1>1, <2>1, NetWell
<1>. HIDE DEF x, y
<1>6. Settled(db, failures = 0, y) /\ Narrows(m, y.m)
  <2>1. y \in Work  BY <1>5 DEF Well, Good
  <2>. QED  BY <1>4, <1>5, <2>1, NowSettled, SettledKept
<1>7. "rest" \notin Failing  BY DEF Forgiving
<1>8. Shifts(Now, y)  BY <1>4 DEF Shifts
<1>. QED  BY <1>2, <1>3, <1>6, <1>7, <1>8, StepSettled, StepTurns

LEMMA OnTimeOutPlaces ==
  ASSUME PlacesInv, Forgiving, NEW c \in Conns, OnTimeOut(c)
  PROVE  Homes(failures = 0, m, db)' /\ Narrows(m, m') /\ Turned
<1>. DEFINE fresh == m.fresh \ {c}
            tick == m.tick \cup {c}
            y == [Now EXCEPT !.m.open = m.open, !.m.fresh = fresh, !.m.tick = tick]
            x == [Now EXCEPT !.m.fresh = @ \ {c}, !.m.tick = @ \cup {c}]
<1>1. m.open \in SUBSET Conns /\ fresh \in SUBSET m.open /\ tick \in SUBSET m.open
  BY NowSettled, NetsAre DEF OnTimeOut
<1>2. x = y
  <2>1. Now.m = m /\ m \in Memory  BY NowSettled DEF SessionInv, TypeOK
  <2>2. [m EXCEPT !.open = m.open, !.fresh = fresh, !.tick = tick] =
          [m EXCEPT !.fresh = fresh, !.tick = tick]
    BY Zenon, <2>1 DEF Memory
  <2>3. x = [Now EXCEPT !.m = [m EXCEPT !.fresh = fresh, !.tick = tick]]  BY Zenon, <2>1
  <2>4. y = [Now EXCEPT !.m = [m EXCEPT !.open = m.open, !.fresh = fresh, !.tick = tick]]
    BY Zenon, <2>1
  <2>. QED  BY <2>2, <2>3, <2>4
<1>3. Step(x)  BY DEF OnTimeOut
<1>. HIDE DEF fresh, tick
<1>4. SamePlaces(Now, y) /\ Goes(Now, y)
  <2>1. fresh \in SUBSET Conns /\ tick \in SUBSET Conns  BY <1>1
  <2>. QED  BY Zenon, <1>1, <2>1, NowSettled, NetPlaces
<1>5. Well(db, y)
  <2>1. Well(db, Now) /\ Now.m.open \subseteq m.open  BY NowSettled
  <2>. QED  BY Zenon, <1>1, <2>1, NetWell
<1>. HIDE DEF x, y
<1>6. Settled(db, failures = 0, y) /\ Narrows(m, y.m)
  <2>1. y \in Work  BY <1>5 DEF Well, Good
  <2>. QED  BY <1>4, <1>5, <2>1, NowSettled, SettledKept
<1>7. "rest" \notin Failing  BY DEF Forgiving
<1>8. Shifts(Now, y)  BY <1>4 DEF Shifts
<1>. QED  BY <1>2, <1>3, <1>6, <1>7, <1>8, StepSettled, StepTurns

LEMMA msg_LoginPlaces ==
  ASSUME PlacesInv, Forgiving, NEW c \in Conns, NEW u \in Users, msg_Login(c, u)
  PROVE  /\ Homes(failures = 0, m, db)' /\ OnlyComes(m, m', u) /\ Turned
         /\ failures' = 0 => failures = 0
         /\ \A k \in Tids : SeatIn(db, k, u) =>
              m'.obj[m'.online[u]].table = k /\ db'.zid = db.zid /\ db'.row = db.row
<1>1. /\ c \in m.open /\ m.session[c] = Null
      /\ Cardinality(m.live) + Cardinality(Users) <= Cardinality(Objs)
  BY DEF msg_Login, Forgiving, Steady
<1>2. PICK fate \in Fates, room \in Tids \cup {Null}, size \in Sizes, rich \in BOOLEAN :
        Step(LoggedIn(Doing(fate), c, u, room, size, rich))
  BY DEF msg_Login
<1>3. size = RoomSize  BY DEF Forgiving, Steady
<1>4. fate \notin {"info", "row", "zid", "htid", "enter"} /\ "rest" \notin Failing
  BY DEF Fates, Forgiving
<1>. DEFINE x == Doing(fate)
            b == failures = 0 /\ fate = "none"
            y == LoggedIn(x, c, u, room, RoomSize, rich)
<1>5. /\ Settled(db, b, x) /\ b \in BOOLEAN /\ (b => x.lost = "none")
      /\ x.m = m /\ x.lost = fate /\ roomType \in {0, 1}
  BY DoingSettled, DoingWell DEF PlacesInv
<1>6. Step(y)  BY <1>2, <1>3
<1>. HIDE DEF x
<1>7. failures = 0 /\ fate = "none" => b  OBVIOUS
<1>. HIDE DEF b
<1>8. /\ Settled(db, b, y) /\ y.lost = x.lost
      /\ OnlyComes(m, y.m, u) /\ Back(x, u, y.m.online[u], y)
      /\ Arrives(x, y, u, Null) /\ y.m.online[u] # Null
  <2>1. c \in x.m.open /\ x.m.session[c] = Null
        /\ Cardinality(x.m.live) + Cardinality(Users) <= Cardinality(Objs)
        /\ x.lost \notin {"info", "row", "zid", "htid", "enter"}
    BY <1>1, <1>4, <1>5
  <2>. QED  BY <1>5, <2>1, LoggedInHomes
<1>. HIDE DEF y
<1>9. Homes(failures = 0, m, db)' /\ m' = y.m /\ db' = y.db /\ (failures' = 0 => b)
  BY <1>4, <1>5, <1>6, <1>7, <1>8, StepHomes DEF PlacesInv, Settled
<1>10. x.db = db  BY DoingWell DEF PlacesInv, x
<1>11. b => failures = 0  BY DEF b
<1>12. Turned
  <2>1. Shifts(x, y)  BY <1>8 DEF Shifts
  <2>. QED  BY <1>5, <1>8, <1>9, <1>10, <2>1 DEF Turned
<1>. QED  BY <1>8, <1>9, <1>10, <1>11, <1>12 DEF Back

LEMMA msg_LogoutPlaces ==
  ASSUME PlacesInv, Forgiving, NEW c \in Conns, msg_Logout(c)
  PROVE  Homes(failures = 0, m, db)' /\ Narrows(m, m') /\ Turned
<1>. DEFINE o == Now.m.session[c]
            a == RoomLogout(Now, o)
            k == IF a.ok THEN UserLogout(a, o) ELSE UserOffline(a, o)
            w == [k EXCEPT !.m.session[c] = Null]
<1>1. Now.m = m  BY NowSettled
<1>2. Now.m.session[c] # Null /\ Now.m.obj[Now.m.session[c]].table # Null /\ Step(w)
  BY <1>1, Zenon DEF msg_Logout, w, k, a, o
<1>3. /\ Settled(db, failures = 0, w) /\ Narrows(Now.m, w.m)
      /\ Goes(Now, w) \/ \E u \in Users : Parts(Now, w, u)
  <2>1. Settled(db, failures = 0, Now) /\ (failures = 0 => Now.lost = "none")
        /\ roomType \in {0, 1}
    BY NowSettled
  <2>. QED  BY Zenon, <1>2, <2>1, LogoutHomes
<1>. HIDE DEF w
<1>4. "rest" \notin Failing  BY DEF Forgiving
<1>5. Shifts(Now, w)  BY <1>3 DEF Shifts, Parts, Vacates
<1>. QED  BY <1>1, <1>2, <1>3, <1>4, <1>5, StepSettled, StepTurns

LEMMA ChangeTablePlaces ==
  ASSUME PlacesInv, Forgiving, NEW c \in Conns, ChangeTable(c)
  PROVE  Homes(failures = 0, m, db)' /\ Narrows(m, m') /\ Turned
<1>. DEFINE o == m.session[c]
<1>1. o # Null  BY DEF ChangeTable
<1>2. PICK fate \in Fates, rich \in BOOLEAN : Step(ChangeTo(Doing(fate), o, rich))
  BY DEF ChangeTable
<1>. DEFINE x == Doing(fate)
            b == failures = 0 /\ fate = "none"
            y == ChangeTo(x, o, rich)
<1>3. /\ Settled(db, b, x) /\ b \in BOOLEAN /\ (b => x.lost = "none")
      /\ x \in Work /\ x.m = m /\ x.lost = fate /\ roomType \in {0, 1}
  BY DoingSettled, DoingWell DEF PlacesInv
<1>4. Step(y)  BY <1>2
<1>5. fate \notin {"row", "htid", "enter"} /\ "rest" \notin Failing
  BY DEF Fates, Forgiving
<1>. HIDE DEF x
<1>6. failures = 0 /\ fate = "none" => b  OBVIOUS
<1>. HIDE DEF b
<1>7. Served(x.m) /\ x.m.session[c] = o  BY <1>3 DEF Settled, Well
<1>8. o \in Objs /\ Uid(x, o) \in Users /\ x.m.online[Uid(x, o)] = o
  BY <1>1, <1>3, <1>7, WhoIsConnected DEF Ids
<1>. HIDE DEF o
<1>9. /\ Settled(db, b, y) /\ y.lost = x.lost /\ Narrows(x.m, y.m)
      /\ y = x \/ Changes(x, y, Uid(x, o))
  <2>1. x.lost \notin {"row", "htid", "enter"}  BY <1>3, <1>5
  <2>. QED  BY <1>3, <1>8, <2>1, ChangeToHomes
<1>. HIDE DEF y
<1>10. Homes(failures = 0, m, db)' /\ m' = y.m /\ db' = y.db
  BY <1>3, <1>4, <1>5, <1>6, <1>9, StepHomes DEF PlacesInv, Settled
<1>11. Shifts(x, y)
  <2>1. Goes(x, x)  BY SeatsApart DEF Goes
  <2>. QED  BY <1>8, <1>9, <2>1 DEF Shifts
<1>12. x.db = db  BY DoingWell DEF PlacesInv, x
<1>13. Turned  BY <1>3, <1>9, <1>10, <1>11, <1>12 DEF Turned
<1>. QED  BY <1>3, <1>9, <1>10, <1>13

LEMMA handle_readyPlaces ==
  ASSUME PlacesInv, Forgiving, NEW c \in Conns, handle_ready(c)
  PROVE  Homes(failures = 0, m, db)' /\ Narrows(m, m') /\ (Readied(m) => Turned)
<1>. DEFINE o == m.session[c]
            n == m.obj[o].table
            mine == ChairsOf(Now, n, Uid(Now, o))
            s == Min(mine)
            x == [Now EXCEPT !.m.table[n].chair[s].ready = TRUE]
            y == GameStart(x, n)
<1>1. /\ o # Null /\ n # Null /\ ~m.table[n].playing /\ mine # {}
      /\ \/ /\ x.m.table[n].amount = x.m.table[n].size /\ Step(y)
            /\ \A q \in 0..(x.m.table[n].size - 1) :
                 Occupied(x.m.table[n].chair[q]) /\ x.m.table[n].chair[q].ready
         \/ Step(x)
  BY Zenon DEF handle_ready, o, n, mine, s, x, y
<1>2. /\ Now \in Work /\ Well(db, Now) /\ Good(db, Now) /\ Served(Now.m) /\ Now.m = m
      /\ Settled(db, failures = 0, Now)
  BY NowSettled
<1>3. o \in Objs /\ Uid(Now, o) # Null  BY Zenon, <1>1, <1>2, WhoIsConnected
<1>4. n \in Tids
  <2>1. m.obj[o] \in Player  BY <1>2, <1>3, WorkTyped
  <2>. QED  BY Zenon, <1>1, <2>1, PlayerTyped
<1>. HIDE DEF o, n
<1>5. s \in Seat /\ Now.m.table[n].chair[s].uid = Uid(Now, o)
  <2>1. mine # {}  BY <1>1
  <2>. QED  BY <1>2, <1>4, <2>1, ChairsOfAre
<1>. HIDE DEF mine, s
<1>6. n \in Now.m.tables  BY <1>2, <1>3, <1>4, <1>5, SeatedInMemory
<1>7. Told(Now, n)  BY <1>2, <1>6, ChairsOfRow DEF Told
<1>8. MadeReady(Now, n, s, x)  BY <1>2, <1>4, <1>5, <1>7, ReadyMoves
<1>9. /\ Well(db, x) /\ SameRest(Now, x) /\ x.m.tables = Now.m.tables
      /\ Alike(Now.m.table[n], x.m.table[n])
  BY Zenon, <1>2, <1>4, <1>5, ReadyWell
<1>. HIDE DEF x
<1>. USE <1>8 DEF MadeReady
<1>10. n \in x.m.tables /\ ~x.m.table[n].playing
  BY <1>1, <1>2, <1>6, <1>9 DEF Alike
<1>11. Settled(db, failures = 0, x) /\ Narrows(m, x.m)
  BY <1>2, <1>8, <1>9, SettledKept DEF Moves
<1>12. "rest" \notin Failing  BY DEF Forgiving
<1>13. Now.m.at[Now.m.table[n].chair[s].uid] # Null /\ Now.m.tables \subseteq Tids
  <2>1. o = Now.m.session[c] /\ Now.m.session[c] # Null /\ Now.m.obj[o].table = n
    BY <1>1, <1>2 DEF o, n
  <2>2. /\ Uid(Now, o) \in Users /\ Who(Now.m, Uid(Now, o)) = o
    BY <1>2, <2>1, WhoIsOn
  <2>3. Lodged(failures = 0, Now.m, Now.db, Uid(Now, o), o)
    BY <1>2, <2>2 DEF Settled, Homes, Home
  <2>4. \E q \in Seat : IsHis(Now, Uid(Now, o), o, n, q)
    BY <1>1, <1>2, <1>4, <2>1, <2>2, <2>3, TableIsHis
  <2>. QED  BY <1>1, <1>2, <1>5, <2>4, WorkTyped DEF IsHis
<1>14. CASE /\ x.m.table[n].amount = x.m.table[n].size /\ Step(y)
            /\ \A q \in 0..(x.m.table[n].size - 1) :
                 Occupied(x.m.table[n].chair[q]) /\ x.m.table[n].chair[q].ready
  <2>1. Well(db, y)  BY <1>9, <1>10, <1>14, GameStartWell
  <2>2. Moves(x, n, y) /\ Calms(x, y)  BY <1>4, <1>8, GameStartMoves DEF Moves
  <2>. HIDE DEF y
  <2>3. Settled(db, failures = 0, y) /\ Narrows(x.m, y.m)
    BY <1>11, <2>1, <2>2, <1>8, SettledKept DEF Moves
  <2>4. Narrows(m, y.m)  BY <1>11, <2>3, NarrowsOn
  <2>5. ASSUME Readied(m)  PROVE Turned
    <3>1. Moves(Now, n, y)  BY <1>8, <2>2, MovesOn
    <3>2. \A k \in Tids, q \in Seat : y.m.table[k].chair[q].ready =>
            Now.m.table[k].chair[q].ready \/ (k = n /\ q = s)
      BY <1>8, <2>2 DEF Calms
    <3>3. ASSUME NEW q \in 0..(RoomSize - 1)  PROVE Present(Now, Now.db.row[n].chair[q])
      <4>1. x.m.table[n].size = RoomSize  BY <1>4, <1>9 DEF Well, Good, Rooms, TableWell
      <4>2. q \in Seat  BY RoomAssumption, SeatsAre
      <4>3. x.m.table[n].chair[q].uid # Null /\ x.m.table[n].chair[q].ready
        BY <1>14, <4>1 DEF Occupied
      <4>4. /\ Now.m.table[n].chair[q].uid # Null
            /\ Now.m.table[n].chair[q].uid = Now.db.row[n].chair[q]
        BY <1>4, <1>7, <1>8, <4>2, <4>3 DEF Moves, SamePlaces, Told
      <4>5. Now.m.table[n].chair[q].ready \/ q = s  BY <1>4, <1>8, <4>2, <4>3
      <4>6. Now.m.at[Now.m.table[n].chair[q].uid] # Null
        BY <1>2, <1>6, <1>13, <2>5, <4>2, <4>4, <4>5 DEF Readied
      <4>. QED  BY <4>4, <4>6 DEF Present
    <3>4. Plays(Now, y, n)  BY <1>4, <1>5, <1>13, <3>1, <3>2, <3>3, ReadyPlays
    <3>. QED  BY <1>4, <1>12, <1>14, <2>3, <3>4, StepTurns
  <2>. QED  BY <1>12, <1>14, <2>3, <2>4, <2>5, StepSettled
<1>15. CASE Step(x)
  <2>1. Plays(Now, x, n)  BY <1>4, <1>5, <1>8, <1>13, ReadyPlays
  <2>2. Turned  BY <1>4, <1>11, <1>12, <1>15, <2>1, StepTurns
  <2>. QED  BY <1>11, <1>12, <1>15, <2>2, StepSettled
<1>. QED  BY <1>1, <1>14, <1>15

LEMMA GameEndPlaces ==
  ASSUME PlacesInv, Forgiving, NEW n \in Tids, GameEnd(n)
  PROVE  Homes(failures = 0, m, db)' /\ Narrows(m, m') /\ Turned
<1>. DEFINE e == [db EXCEPT !.row[n].playing = FALSE]
            y == Ended(Now, n)
<1>1. n \in m.tables /\ m.table[n].playing /\ Step(y)  BY Zenon DEF GameEnd, Ended
<1>2. db \in Database /\ db.row \in [Tids -> Row]
  BY NowSettled DEF SessionInv, TypeOK, Database
<1>3. /\ ~e.row[n].playing
      /\ \A k \in Tids : (e.row[k].playing => db.row[k].playing)
                         /\ e.row[k].chair = db.row[k].chair
  BY <1>2 DEF Database, Row
<1>. HIDE DEF e
<1>4. Well(e, Now)
  <2>1. Keeps(e, Now.db)  BY <1>3, NowSettled DEF Keeps
  <2>2. Now.trail = {}  BY NowSettled, NowWell
  <2>. QED  BY <2>1, <2>2, NowSettled DEF Well, Good
<1>5. Well(e, y)
  <2>1. n \in Now.m.tables /\ ~e.row[n].playing /\ Now.trail = {}
    BY <1>1, <1>3, NowSettled, NowWell
  <2>. HIDE DEF y
  <2>. QED  BY <1>4, <2>1, GameEndWell DEF y
<1>6. Told(Now, n)
  <2>1. Good(db, Now) /\ n \in Now.m.tables  BY <1>1, NowSettled
  <2>. QED  BY <2>1, ChairsOfRow DEF Told
<1>7. Moves(Now, n, y) /\ Calms(Now, y)  BY <1>6, NowSettled, EndedMoves
<1>. HIDE DEF y
<1>8. Settled(e, failures = 0, y) /\ Narrows(m, y.m)
  BY <1>5, <1>7, NowSettled, SettledKept DEF Moves
<1>9. "rest" \notin Failing  BY DEF Forgiving
<1>10. Plays(Now, y, n)
  <2>1. Now.db.row[n].playing  BY <1>1, NowSettled DEF Good, Rooms, Mirrors
  <2>2. Now.m.tables \subseteq Tids  BY NowSettled, WorkTyped
  <2>. QED  BY <1>7, <2>1, <2>2, CalmsPlays
<1>. QED  BY <1>1, <1>8, <1>9, <1>10, StepSettled, StepTurns

LEMMA ThrowOutPlaces ==
  ASSUME PlacesInv, Forgiving, NEW n \in Tids, NEW late \in SUBSET Seat, ThrowOut(n, late)
  PROVE  Homes(failures = 0, m, db)' /\ Narrows(m, m') /\ Turned
<1>. DEFINE y == ThrowOutOne(ThrowOutOne(ThrowOutOne(Now, n, 0, late), n, 1, late), n, 2, late)
<1>1. /\ roomType = 0 /\ n \in Now.m.tables /\ ~Now.m.table[n].playing
      /\ \A s \in Seat : s \in late => Now.m.table[n].chair[s].uid # Null
      /\ Step(y)
  BY NowSettled DEF ThrowOut, Occupied
<1>2. Settled(db, failures = 0, y) /\ Narrows(m, y.m) /\ Vacates(Now, y)
  <2>1. /\ Settled(db, failures = 0, Now) /\ (failures = 0 => Now.lost = "none") /\ Now.m = m
    BY NowSettled
  <2>. QED  BY <1>1, <2>1, ThrowOutHomes
<1>. HIDE DEF y
<1>3. "rest" \notin Failing  BY DEF Forgiving
<1>4. Shifts(Now, y)  BY <1>2 DEF Shifts
<1>. QED  BY <1>1, <1>2, <1>3, <1>4, StepSettled, StepTurns

LEMMA onClosePlaces ==
  ASSUME PlacesInv, Forgiving, NEW c \in Conns, onClose(c)
  PROVE  Homes(failures = 0, m, db)' /\ Narrows(m, m') /\ Turned
<1>1. Step(Close(Now, c))  BY DEF onClose
<1>2. /\ Settled(db, failures = 0, Close(Now, c)) /\ Narrows(m, Close(Now, c).m)
      /\ Shifts(Now, Close(Now, c))
  BY NowSettled, CloseHomes DEF Shifts
<1>3. "rest" \notin Failing  BY DEF Forgiving
<1>. QED  BY <1>1, <1>2, <1>3, StepSettled, StepTurns

LEMMA OnTimer_tickPlaces ==
  ASSUME PlacesInv, Forgiving, OnTimer_tick
  PROVE  Homes(failures = 0, m, db)' /\ Narrows(m, m') /\ Turned
<1>. DEFINE G == {x \in Work : Settled(db, failures = 0, x) /\ Narrows(m, x.m) /\ Goes(Now, x)}
            y == FoldSet(LAMBDA c, x : Close(x, c), Now, m.tick)
<1>1. m.tick \in SUBSET Conns /\ IsFiniteSet(m.tick)
  BY NowSettled, NetsAre, NamesAssumption, FS_Subset
<1>2. Now \in G
  <2>1. Goes(Now, Now)  BY SeatsApart DEF Goes
  <2>. QED  BY <2>1, NowSettled, SameNarrows
<1>3. ASSUME NEW x \in G, NEW c \in m.tick  PROVE Close(x, c) \in G
  <2>1. /\ Settled(db, failures = 0, Close(x, c)) /\ Narrows(x.m, Close(x, c).m)
        /\ Goes(x, Close(x, c))
    BY <1>1, CloseHomes
  <2>2. Narrows(m, Close(x, c).m)  BY <2>1, NarrowsOn
  <2>3. Goes(Now, Close(x, c))  BY <2>1, GoesOn
  <2>. QED  BY <2>1, <2>2, <2>3 DEF Settled, Well, Good
<1>4. y \in G
  <2>. HIDE DEF G
  <2>. QED  BY Zenon, <1>1, <1>2, <1>3, ClosingAll
<1>5. Step(y)  BY Zenon DEF OnTimer_tick
<1>. HIDE DEF y
<1>6. "rest" \notin Failing  BY DEF Forgiving
<1>7. Shifts(Now, y)  BY <1>4 DEF Shifts
<1>. QED  BY <1>4, <1>5, <1>6, <1>7, StepSettled, StepTurns

LEMMA OnTimer_dismissPlaces ==
  ASSUME PlacesInv, Forgiving, OnTimer_dismiss
  PROVE  Homes(failures = 0, m, db)' /\ Narrows(m, m') /\ Turned
<1>. DEFINE y == [Now EXCEPT !.m.dismissed = {}]
<1>1. Step(y)  BY DEF OnTimer_dismiss
<1>2. Well(db, y)  BY NowSettled, DismissWell
<1>3. SamePlaces(Now, y) /\ Goes(Now, y)  BY NowSettled, DismissPlaces
<1>. HIDE DEF y
<1>4. Settled(db, failures = 0, y) /\ Narrows(m, y.m)
  <2>1. y \in Work  BY <1>2 DEF Well, Good
  <2>. QED  BY <1>2, <1>3, <2>1, NowSettled, SettledKept
<1>5. "rest" \notin Failing  BY DEF Forgiving
<1>6. Shifts(Now, y)  BY <1>3 DEF Shifts
<1>. QED  BY <1>1, <1>4, <1>5, <1>6, StepSettled, StepTurns

(* A process that starts knows nobody; the chairs are in the rows.         *)
LEMMA BootedHomes ==
  ASSUME NEW b, NEW d, \A u \in Users : Booked(b, d, u)
  PROVE  Homes(b, Booted, d)
<1>1. /\ Booted.tables = {} /\ Booted.live = {}
      /\ \A u \in Ids : /\ Booted.online[u] = Null /\ Booted.offline[u] = Null
                        /\ Booted.at[u] = Null /\ Booted.here[u] = Null /\ Booted.away[u] = Null
  BY DEF Booted
<1>2. \A u \in Ids : Nowhere(Booted, u)  BY <1>1 DEF Nowhere
<1>3. \A u \in Ids : Who(Booted, u) = Null  BY <1>1 DEF Who
<1>4. ASSUME NEW u \in Users  PROVE Home(b, Booted, d, u)
  <2>1. u \in Ids  BY NullIsNone
  <2>. QED  BY <1>1, <1>2, <1>3, <2>1 DEF Home, Lodged, Chaired
<1>5. Known(b, Booted, d)  BY <1>1, <1>2, NullIsNone DEF Known
<1>. QED  BY <1>4, <1>5 DEF Homes

LEMMA CrashPlaces ==
  ASSUME PlacesInv, Crash
  PROVE  Homes(failures = 0, m, db)' /\ Narrows(m, m')
<1>1. m' = Booted /\ db' = db /\ roomType' = roomType /\ failures' = failures  BY DEF Crash
<1>2. \A u \in Users : Booked(failures = 0, db, u)  BY DEF PlacesInv, Homes, Home, Lodged
<1>3. Homes(failures = 0, Booted, db)  BY <1>2, BootedHomes
<1>4. Homes(failures' = 0, Booted, db)  BY <1>1, <1>3
<1>5. Narrows(m, Booted)  BY DEF Narrows, Booted
<1>. QED  BY <1>1, <1>4, <1>5, HomesThere

LEMMA InitPlaces ==
  ASSUME Init
  PROVE  PlacesInv
<1>1. /\ m = Booted
      /\ \A u \in Ids : db.zid[u] = Null
      /\ \A n \in Tids, s \in Seat : db.row[n].chair[s] = Null
  BY DEF Init, NoRow
<1>2. \A u \in Users : Booked(failures = 0, db, u)
  BY <1>1, NullIsNone DEF Booked, SeatIn
<1>3. Homes(failures = 0, m, db)  BY <1>1, <1>2, BootedHomes
<1>. QED  BY <1>3, InitHolds DEF PlacesInv

LEMMA NextPlaces ==
  ASSUME PlacesInv, Forgiving, [Next]_vars
  PROVE  PlacesInv'
<1>. DEFINE H == Homes(failures = 0, m, db)'
<1>1. ASSUME NEW c \in Conns, Connect(c)  PROVE H  BY <1>1, ConnectPlaces
<1>2. ASSUME NEW c \in Conns, NEW u \in Users, msg_Login(c, u)  PROVE H
  BY <1>2, msg_LoginPlaces
<1>3. ASSUME NEW c \in Conns, msg_Logout(c)  PROVE H  BY <1>3, msg_LogoutPlaces
<1>4. ASSUME NEW c \in Conns, ChangeTable(c)  PROVE H  BY <1>4, ChangeTablePlaces
<1>5. ASSUME NEW c \in Conns, handle_ready(c)  PROVE H  BY <1>5, handle_readyPlaces
<1>6. ASSUME NEW c \in Conns, onClose(c)  PROVE H  BY <1>6, onClosePlaces
<1>7. ASSUME NEW c \in Conns, OnTimeOut(c)  PROVE H  BY <1>7, OnTimeOutPlaces
<1>8. ASSUME NEW n \in Tids, GameEnd(n)  PROVE H  BY <1>8, GameEndPlaces
<1>9. ASSUME NEW n \in Tids, NEW late \in SUBSET Seat, ThrowOut(n, late)  PROVE H
  BY <1>9, ThrowOutPlaces
<1>10. ASSUME OnTimer_tick  PROVE H  BY <1>10, OnTimer_tickPlaces
<1>11. ASSUME OnTimer_dismiss  PROVE H  BY <1>11, OnTimer_dismissPlaces
<1>12. ASSUME Crash  PROVE H  BY <1>12, CrashPlaces
<1>13. ASSUME UNCHANGED vars  PROVE H
  <2>1. m' = m /\ db' = db /\ roomType' = roomType /\ failures' = failures
    BY <1>13 DEF vars
  <2>2. Homes(failures = 0, m, db)  BY DEF PlacesInv
  <2>3. Homes(failures' = 0, m, db)  BY <2>1, <2>2
  <2>. QED  BY <2>1, <2>3, HomesThere
<1>14. H
  <2>. HIDE DEF H
  <2>. QED  BY <1>1, <1>2, <1>3, <1>4, <1>5, <1>6, <1>7, <1>8, <1>9, <1>10, <1>11, <1>12, <1>13
            DEF Next
<1>15. SessionInv'  BY NextKeeps DEF PlacesInv, Forgiving
<1>. QED  BY <1>14, <1>15 DEF PlacesInv

-----------------------------------------------------------------------------
(***************************************************************************)
(* What is proved of every behaviour.                                      *)
(***************************************************************************)

(* The invariant: every user is at home in the server's maps, in those of  *)
(* the room, on his chair, in its row and in his last room, after every    *)
(* handler, failure and restart.                                           *)
THEOREM PlacesHold == ASSUME Forgiving PROVE Spec => []PlacesInv
<1>1. Init => PlacesInv  BY InitPlaces
<1>2. PlacesInv /\ [Next]_vars => PlacesInv'  BY NextPlaces
<1>. QED  BY <1>1, <1>2, PTL DEF Spec

(* The memory is typed.                                                    *)
LEMMA PlacesTyped ==
  ASSUME PlacesInv
  PROVE  /\ Now \in Work /\ Now.m = m /\ Now.db = db /\ Good(db, Now) /\ Served(m)
         /\ m.tables \subseteq Tids /\ m.live \subseteq Objs /\ Users \subseteq Ids
         /\ m.session \in [Conns -> Objs \cup {Null}]
         /\ m.online \in [Ids -> Objs \cup {Null}] /\ m.offline \in [Ids -> Objs \cup {Null}]
         /\ m.here \in [Ids -> Objs \cup {Null}] /\ m.away \in [Ids -> Objs \cup {Null}]
         /\ m.at \in [Ids -> Tids \cup {Null}] /\ m.table \in [Tids -> Table]
         /\ m.obj \in [Objs -> Player] /\ m.dismissed \subseteq Tids
         /\ db.row \in [Tids -> Row] /\ db.zid \in [Ids -> Tids \cup {Null}]
         /\ \A u \in Users : Home(failures = 0, m, db, u)
         /\ Known(failures = 0, m, db)
<1>1. /\ Now \in Work /\ Now.m = m /\ Now.db = db /\ Good(db, Now) /\ Served(m)
  BY NowSettled
<1>2. Homes(failures = 0, m, db)  BY DEF PlacesInv
<1>3. Users \subseteq Ids  BY NullIsNone
<1>. QED  BY <1>1, <1>2, <1>3, WorkTyped DEF Homes

(* Where the room's maps and the chairs lead.                              *)
LEMMA ChairLeads ==
  ASSUME PlacesInv, NEW n \in m.tables, NEW s \in Seat, m.table[n].chair[s].uid # Null
  PROVE  LET c == m.table[n].chair[s]
             u == c.uid IN
         /\ u \in Users /\ c.obj = Who(m, u) /\ c.obj # Null /\ c.obj \in m.live
         /\ Placing(m, n, u, c) /\ (c.offline <=> m.online[u] = Null)
<1>. DEFINE c == m.table[n].chair[s]
            u == c.uid
<1>1. n \in Tids /\ m.table[n] \in Table  BY PlacesTyped
<1>2. u \in Users  BY <1>1, TableTyped DEF Ids
<1>. HIDE DEF c
<1>3. Home(failures = 0, m, db, u)  BY SMTT(60), <1>2, PlacesTyped
<1>4. /\ c.obj = Who(m, u) /\ c.obj # Null /\ Placing(m, n, u, c)
      /\ (c.offline <=> m.online[u] = Null)
  BY <1>3 DEF Home, Lodged, Chaired, c
<1>5. c.obj \in m.live  BY <1>2, <1>4, PlacesTyped, WhoLives
<1>. QED  BY <1>2, <1>4, <1>5 DEF c

(* The place of a user: none, or a chair at a table in memory.             *)
LEMMA UserPlace ==
  ASSUME PlacesInv, NEW u \in Users
  PROVE  \/ Nowhere(m, u) /\ (Who(m, u) # Null => m.obj[Who(m, u)].table = Null)
         \/ \E n \in m.tables, s \in Seat : LET c == m.table[n].chair[s] IN
              /\ m.at[u] = n /\ c.uid = u /\ c.obj = Who(m, u) /\ c.obj # Null
              /\ \A q \in Seat : m.table[n].chair[q].uid = u => q = s
              /\ Placing(m, n, u, c) /\ (c.offline <=> m.online[u] = Null)
<1>1. /\ Good(db, Now) /\ Now.m = m /\ Now.db = db /\ u \in Ids /\ u # Null
      /\ Home(failures = 0, m, db, u)
  BY PlacesTyped, NullIsNone
<1>2. CASE Seatless(m, db, u)  BY <1>1, <1>2 DEF Home, Lodged
<1>3. CASE ~Seatless(m, db, u)
  <2>1. PICK n \in m.tables : SeatIn(db, n, u)  BY <1>3 DEF Seatless
  <2>2. PICK s \in Seat : m.table[n].chair[s].uid = u  BY <1>1, <2>1, ChairsOfRow
  <2>3. \A q \in Seat : m.table[n].chair[q].uid = u => q = s
    BY <1>1, <2>2, ChairsOfRow
  <2>. DEFINE c == m.table[n].chair[s]
  <2>4. /\ c.obj = Who(m, u) /\ c.obj # Null /\ Placing(m, n, u, c)
        /\ (c.offline <=> m.online[u] = Null)
    <3>1. c.uid # Null  BY <1>1, <2>2
    <3>. QED  BY <2>2, <3>1, ChairLeads
  <2>. HIDE DEF c
  <2>5. CASE c.offline /\ m.obj[c.obj].table = Null /\ Nowhere(m, u)  BY <2>4, <2>5
  <2>6. CASE ~(c.offline /\ m.obj[c.obj].table = Null /\ Nowhere(m, u))
    <3>1. m.at[u] = n  BY <2>4, <2>6 DEF Placing
    <3>. QED  BY <2>2, <2>3, <2>4, <2>6, <3>1 DEF c
  <2>. QED  BY <2>5, <2>6
<1>. QED  BY <1>2, <1>3

(* No map and no chair leads to a Player object that was deleted (Player   *)
(* objects are deleted in UserLogout, when the room has let them go).      *)
THEOREM PointersLiveHolds == ASSUME Forgiving PROVE Spec => []PointersLive
<1>1. ASSUME PlacesInv  PROVE PointersLive
  <2>. USE <1>1
  <2>1. /\ Served(m) /\ Now \in Work /\ Now.m = m
        /\ DOMAIN m.session = Conns /\ DOMAIN m.online = Ids /\ DOMAIN m.offline = Ids
        /\ DOMAIN m.here = Ids /\ DOMAIN m.away = Ids
    BY PlacesTyped
  <2>2. \A c \in Conns : m.session[c] # Null => m.session[c] \in m.live
    BY <2>1, WhoIsConnected
  <2>3. \A u \in Ids : /\ m.online[u] # Null => m.online[u] \in m.live
                       /\ m.offline[u] # Null => m.offline[u] \in m.live
    BY <2>1 DEF Served, Online, Offline
  <2>4. \A u \in Ids : /\ m.here[u] # Null => m.here[u] \in m.live
                       /\ m.away[u] # Null => m.away[u] \in m.live
    <3>. SUFFICES ASSUME NEW u \in Ids
                  PROVE  /\ m.here[u] # Null => m.here[u] \in m.live
                         /\ m.away[u] # Null => m.away[u] \in m.live
      OBVIOUS
    <3>1. CASE u = Null  BY <3>1, PlacesTyped DEF Known, Nowhere
    <3>2. CASE u # Null
      <4>1. u \in Users  BY <3>2 DEF Ids
      <4>2. CASE Nowhere(m, u)  BY <4>2 DEF Nowhere
      <4>3. CASE ~Nowhere(m, u)
        <5>1. PICK n \in m.tables, s \in Seat : LET c == m.table[n].chair[s] IN
                 c.obj = Who(m, u) /\ c.obj # Null /\ Placing(m, n, u, c)
          BY <4>1, <4>3, UserPlace
        <5>. DEFINE c == m.table[n].chair[s]
        <5>2. c.obj \in m.live  BY <2>1, <5>1, WhoLives
        <5>3. Placing(m, n, u, c)  BY <5>1
        <5>. HIDE DEF c
        <5>. QED  BY <4>3, <5>2, <5>3 DEF Placing, Nowhere
      <4>. QED  BY <4>2, <4>3
    <3>. QED  BY <3>1, <3>2
  <2>5. ASSUME NEW n \in m.tables, NEW s \in Seat, m.table[n].chair[s].obj # Null
        PROVE  m.table[n].chair[s].obj \in m.live
    <3>1. n \in Tids /\ TableWell(m.table[n])  BY PlacesTyped DEF Good, Rooms
    <3>2. m.table[n].chair[s].uid # Null  BY <2>5, <3>1 DEF TableWell
    <3>. QED  BY <3>2, ChairLeads
  <2>. QED  BY <2>1, <2>2, <2>3, <2>4, <2>5 DEF PointersLive
<1>. QED  BY <1>1, PlacesHold, PTL

(* A user has one Player object at most, which the server knows under his  *)
(* id, as long as no command has failed (CreateUser, Login).               *)
THEOREM OnePlayerPerUserHolds == ASSUME Forgiving PROVE Spec => []OnePlayerPerUser
<1>1. ASSUME PlacesInv  PROVE OnePlayerPerUser
  <2>. USE <1>1
  <2>1. SUFFICES ASSUME failures = 0
                 PROVE  /\ \A o \in m.live : LET u == m.obj[o].uid IN
                             u # Null /\ {m.online[u], m.offline[u]} = {o, Null}
                        /\ \A o, p \in m.live : m.obj[o].uid = m.obj[p].uid => o = p
    BY DEF OnePlayerPerUser
  <2>2. ASSUME NEW o \in m.live
        PROVE  LET u == m.obj[o].uid IN u # Null /\ u \in Ids /\ o = Who(m, u)
    <3>1. m.obj[o].uid \in Ids  BY PlacesTyped, PlayerTyped
    <3>2. Known(failures = 0, m, db)  BY PlacesTyped
    <3>. QED  BY <2>1, <3>1, <3>2 DEF Known
  <2>3. \A u \in Ids : m.online[u] = Null \/ m.offline[u] = Null
    BY PlacesTyped DEF Served, Online, Offline
  <2>4. ASSUME NEW o \in m.live
        PROVE  LET u == m.obj[o].uid IN {m.online[u], m.offline[u]} = {o, Null}
    BY <2>2, <2>3 DEF Who
  <2>5. \A o, p \in m.live : m.obj[o].uid = m.obj[p].uid => o = p
    <3>. SUFFICES ASSUME NEW o \in m.live, NEW p \in m.live, m.obj[o].uid = m.obj[p].uid
                  PROVE  o = p
      OBVIOUS
    <3>1. o = Who(m, m.obj[o].uid) /\ p = Who(m, m.obj[p].uid)  BY <2>2
    <3>. QED  BY <3>1
  <2>. QED  BY <2>2, <2>4, <2>5
<1>. QED  BY <1>1, PlacesHold, PTL

LEMMA OneSeat ==
  ASSUME NEW s \in Seat, NEW S, S = {s}
  PROVE  Cardinality(S) = 1 /\ Min(S) = s
<1>1. S \in SUBSET Nat /\ S # {}  BY SeatsAre
<1>. QED  BY SMTT(60), <1>1, LeastThere, FS_Singleton

(* The room's map of tables, the players' tables and the chairs agree, and *)
(* the room knows a user as here or as absent just as his chair does       *)
(* (EnterRoom, Sitdown, OnDisconnect, Standup).                            *)
THEOREM RoomAgreesHolds == ASSUME Forgiving PROVE Spec => []RoomAgrees
<1>1. ASSUME PlacesInv  PROVE RoomAgrees
  <2>. USE <1>1
  <2>. SUFFICES ASSUME NEW u \in Users
       PROVE  LET n == m.at[u] IN
         /\ (n = Null) => m.here[u] = Null /\ m.away[u] = Null
         /\ (n # Null) =>
              /\ n \in m.tables /\ Cardinality(SeatOf(n, u)) = 1
              /\ LET c == m.table[n].chair[Min(SeatOf(n, u))] IN
                   /\ m.obj[c.obj].table = n /\ m.obj[c.obj].uid = u
                   /\ <<m.here[u], m.away[u]>> =
                        IF c.offline THEN <<Null, c.obj>> ELSE <<c.obj, Null>>
                   /\ c.offline <=> m.offline[u] = c.obj
         /\ \A o \in m.live : m.obj[o].uid = u => m.obj[o].table = n
    BY ZenonT(60) DEF RoomAgrees
  <2>1. \A o \in m.live : m.obj[o].uid = u => o = Who(m, u)
    BY PlacesTyped, NullIsNone DEF Known
  <2>2. CASE Nowhere(m, u) /\ (Who(m, u) # Null => m.obj[Who(m, u)].table = Null)
    <3>1. \A o \in m.live : o # Null  BY SMTT(60), PlacesTyped, NullIsNone
    <3>. QED  BY <2>1, <2>2, <3>1 DEF Nowhere
  <2>3. CASE ~(Nowhere(m, u) /\ (Who(m, u) # Null => m.obj[Who(m, u)].table = Null))
    <3>. PICK n \in m.tables, s \in Seat : LET c == m.table[n].chair[s] IN
            /\ m.at[u] = n /\ c.uid = u /\ c.obj = Who(m, u) /\ c.obj # Null
            /\ \A q \in Seat : m.table[n].chair[q].uid = u => q = s
            /\ Placing(m, n, u, c) /\ (c.offline <=> m.online[u] = Null)
      BY <2>3, UserPlace
    <3>. DEFINE c == m.table[n].chair[s]
    <3>1. SeatOf(n, u) = {s}  BY DEF SeatOf
    <3>2. Cardinality(SeatOf(n, u)) = 1 /\ Min(SeatOf(n, u)) = s  BY <3>1, OneSeat
    <3>3. n # Null  BY PlacesTyped, NullIsNone
    <3>4. /\ c.obj = Who(m, u) /\ c.obj # Null /\ Placing(m, n, u, c) /\ m.at[u] = n
          /\ (c.offline <=> m.online[u] = Null)
      OBVIOUS
    <3>5. m.online[u] = Null \/ m.offline[u] = Null
      BY PlacesTyped DEF Served, Online, Offline
    <3>. HIDE DEF c
    <3>6. /\ m.obj[c.obj].table = n /\ m.obj[c.obj].uid = u
          /\ <<m.here[u], m.away[u]>> =
               IF c.offline THEN <<Null, c.obj>> ELSE <<c.obj, Null>>
      BY <3>3, <3>4 DEF Placing, Nowhere
    <3>7. c.offline <=> m.offline[u] = c.obj  BY <3>4, <3>5 DEF Who
    <3>8. \A o \in m.live : m.obj[o].uid = u => m.obj[o].table = n  BY <2>1, <3>4, <3>6
    <3>. QED  BY <3>2, <3>3, <3>4, <3>6, <3>7, <3>8 DEF c
  <2>. QED  BY ZenonT(60), <2>2, <2>3
<1>. QED  BY <1>1, PlacesHold, PTL

(* A user has one chair at most, in all the rows together, and the last    *)
(* room of his account leads to it, as long as no command has failed       *)
(* (Sitdown and SetLastRoom, Standup and LeaveRoom).                       *)
THEOREM ChairFoundHolds == ASSUME Forgiving PROVE Spec => []ChairFound
<1>1. ASSUME PlacesInv  PROVE ChairFound
  <2>. USE <1>1
  <2>. SUFFICES ASSUME failures = 0, NEW n \in Tids, NEW u \in Users
       PROVE  Cardinality({s \in Seat : db.row[n].chair[s] = u}) = IF db.zid[u] = n THEN 1 ELSE 0
    BY DEF ChairFound
  <2>. DEFINE S == {s \in Seat : db.row[n].chair[s] = u}
  <2>1. /\ Booked(failures = 0, db, u) /\ u # Null /\ n # Null
        /\ RowWell(db.row[n])
    BY PlacesTyped, NullIsNone DEF Home, Lodged, Good, Rooms, RowsWell
  <2>2. SeatIn(db, n, u) <=> db.zid[u] = n  BY <2>1 DEF Booked
  <2>3. CASE db.zid[u] = n
    <3>1. PICK s \in Seat : db.row[n].chair[s] = u  BY <2>2, <2>3 DEF SeatIn
    <3>2. \A q \in Seat : db.row[n].chair[q] = u => q = s  BY <2>1, <3>1 DEF RowWell
    <3>3. S = {s}  BY <3>1, <3>2
    <3>. HIDE DEF S
    <3>4. Cardinality(S) = 1  BY <3>3, OneSeat
    <3>. QED  BY <2>3, <3>4 DEF S
  <2>4. CASE db.zid[u] # n
    <3>1. S = {}  BY <2>2, <2>4 DEF SeatIn
    <3>2. Cardinality(S) = 0  BY <3>1, FS_EmptySet
    <3>. QED  BY <2>4, <3>2
  <2>. QED  BY <2>3, <2>4
<1>. QED  BY <1>1, PlacesHold, PTL

LEMMA TakenCounted ==
  ASSUME NEW t
  PROVE  Taken(t) = Cardinality({s \in Seat : t.chair[s].uid # Null})
<1>. DEFINE One(s) == IF t.chair[s].uid = Null THEN 0 ELSE 1
            A == {s \in {0} : t.chair[s].uid # Null}
            B == {s \in {0, 1} : t.chair[s].uid # Null}
            S == {s \in Seat : t.chair[s].uid # Null}
<1>0. One(0) \in {0, 1} /\ One(1) \in {0, 1}  OBVIOUS
<1>1. IsFiniteSet(A) /\ Cardinality(A) = One(0)
  <2>1. CASE t.chair[0].uid = Null
    <3>1. A = {}  BY <2>1
    <3>. QED  BY <2>1, <3>1, FS_EmptySet
  <2>2. CASE t.chair[0].uid # Null
    <3>1. A = {0}  BY <2>2
    <3>. QED  BY <2>2, <3>1, FS_Singleton
  <2>. QED  BY <2>1, <2>2
<1>2. IsFiniteSet(B) /\ Cardinality(B) = One(0) + One(1)
  <2>1. CASE t.chair[1].uid = Null
    <3>1. B = A /\ One(1) = 0  BY <2>1
    <3>. HIDE DEF A, B, One
    <3>. QED  BY <1>0, <1>1, <3>1
  <2>2. CASE t.chair[1].uid # Null
    <3>1. B = A \cup {1} /\ 1 \notin A  BY <2>2
    <3>. HIDE DEF A, B
    <3>2. IsFiniteSet(B) /\ Cardinality(B) = Cardinality(A) + 1
      BY <1>1, <3>1, FS_AddElement
    <3>. QED  BY <1>1, <2>2, <3>2
  <2>. QED  BY <2>1, <2>2
<1>3. Cardinality(S) = One(0) + One(1) + One(2)
  <2>1. CASE t.chair[2].uid = Null
    <3>1. S = B  BY <2>1, SeatsAre
    <3>. QED  BY SMTT(60), <1>2, <2>1, <3>1
  <2>2. CASE t.chair[2].uid # Null
    <3>1. S = B \cup {2} /\ 2 \notin B  BY <2>2, SeatsAre
    <3>. HIDE DEF B, S
    <3>2. Cardinality(S) = Cardinality(B) + 1  BY <1>2, <3>1, FS_AddElement
    <3>. QED  BY <1>2, <2>2, <3>2
  <2>. QED  BY <2>1, <2>2
<1>. QED  BY <1>3 DEF Taken

(* A table that is played has all its players.                             *)
LEMMA FullTables ==
  ASSUME SessionInv, NEW n \in m.tables, m.table[n].playing
  PROVE  m.table[n].amount = m.table[n].size
<1>. DEFINE t == m.table[n]
            r == db.row[n]
<1>1. /\ n \in Tids /\ t \in Table /\ TableWell(t) /\ Mirrors(t, r) /\ RowWell(r)
  BY NowWell, WorkTyped DEF SessionInv, Rooms, RowsWell
<1>2. t.playing  OBVIOUS
<1>. HIDE DEF t, r
<1>3. \A s \in 0..(RoomSize - 1) : r.chair[s] # Null  BY <1>1, <1>2 DEF Mirrors, RowWell
<1>4. 0..(RoomSize - 1) \subseteq Seat  BY RoomAssumption, SeatsAre
<1>5. \A s \in 0..(RoomSize - 1) : t.chair[s].uid # Null  BY <1>1, <1>3, <1>4 DEF Mirrors
<1>6. t.amount = t.size  BY <1>1, <1>5, TakenAre
<1>. QED  BY <1>6 DEF t

(* A table counts its players, its row has the same chairs, and a table    *)
(* that is dismissed has none, so that OnTimer_dismiss deletes nobody's    *)
(* table.                                                                  *)
THEOREM TablesAgreeHolds == ASSUME Forgiving PROVE Spec => []TablesAgree
<1>1. ASSUME PlacesInv, RoomAgrees  PROVE TablesAgree
  <2>. USE <1>1
  <2>1. SessionInv /\ Rooms(m, db) /\ Placed(m)  BY DEF PlacesInv, SessionInv
  <2>2. ASSUME NEW n \in m.tables
        PROVE  LET t == m.table[n] IN
               /\ t.amount = Cardinality({s \in Seat : t.chair[s].uid # Null})
               /\ \A s \in Seat : t.chair[s].uid = db.row[n].chair[s]
               /\ t.playing <=> db.row[n].playing
               /\ t.playing => t.amount = t.size
    <3>1. n \in Tids  BY PlacesTyped
    <3>2. TableWell(m.table[n]) /\ Mirrors(m.table[n], db.row[n])  BY <2>1, <3>1 DEF Rooms
    <3>3. m.table[n].amount = Cardinality({s \in Seat : m.table[n].chair[s].uid # Null})
      BY <3>2, TakenCounted DEF TableWell
    <3>4. m.table[n].playing => m.table[n].amount = m.table[n].size  BY <2>1, FullTables
    <3>. QED  BY <3>2, <3>3, <3>4 DEF Mirrors
  <2>3. ASSUME NEW n \in m.dismissed
        PROVE  /\ n \notin m.tables /\ \A u \in Users : m.at[u] # n
               /\ \A o \in m.live : m.obj[o].table # n
    <3>1. n \in Tids /\ n # Null  BY PlacesTyped, NullIsNone
    <3>2. n \notin m.tables  BY <2>1 DEF Rooms
    <3>3. \A u \in Users : m.at[u] # n  BY <2>1, <3>1, <3>2 DEF Placed
    <3>4. ASSUME NEW o \in m.live  PROVE m.obj[o].table # n
      <4>1. m.obj[o].uid \in Ids  BY PlacesTyped, PlayerTyped
      <4>2. CASE m.obj[o].uid = Null  BY <3>1, <4>2, PlacesTyped DEF Known
      <4>3. CASE m.obj[o].uid # Null
        <5>1. m.obj[o].uid \in Users  BY SMTT(60), <4>1, <4>3 DEF Ids
        <5>2. m.obj[o].table = m.at[m.obj[o].uid]  BY ZenonT(60), <5>1 DEF RoomAgrees
        <5>. QED  BY <3>3, <5>1, <5>2
      <4>. QED  BY <4>2, <4>3
    <3>. QED  BY <3>2, <3>3, <3>4
  <2>. QED  BY <2>2, <2>3 DEF TablesAgree
<1>. QED  BY <1>1, PlacesHold, RoomAgreesHolds, PTL

(* The assertion of GameStart, for the whole game, holds as long as all    *)
(* logins ask for tables of one size; the run session_size has logins that *)
(* do not.                                                                 *)
THEOREM PlacesTakenHolds == ASSUME Steady PROVE Spec => []PlacesTaken
<1>1. SessionInv => PlacesTaken  BY FullTables DEF PlacesTaken
<1>. QED  BY <1>1, InvariantHolds, PTL

(* Whose player was online before the step and whose connection led to it, *)
(* still has the same connection.                                          *)
LEMMA LineKept ==
  ASSUME NEW g, NEW h, Served(g), Served(h), h.live \subseteq Objs, h.obj \in [Objs -> Player],
         NEW v \in Ids, h.online[v] # Null, g.online[v] = h.online[v],
         \A c \in Conns : h.session[c] = h.online[v] => g.session[c] = h.online[v]
  PROVE  g.obj[g.online[v]].conn = h.obj[h.online[v]].conn
<1>. DEFINE o == h.online[v]
            c == h.obj[o].conn
<1>1. o # Null /\ Online(h, v, o)  BY DEF Served
<1>2. o \in Objs /\ c # Null /\ h.session[c] = o  BY <1>1 DEF Online
<1>3. c \in Conns  BY <1>2, PlayerTyped
<1>4. g.session[c] = o  BY <1>2, <1>3
<1>5. Connected(g, c, o)  BY <1>1, <1>3, <1>4 DEF Served
<1>. QED  BY <1>5 DEF Connected

(* A step after which a user is online on a connection that he had not.    *)
Comes(v) ==
  /\ m'.online[v] # Null
  /\ m.online[v] = Null \/ m.obj[m.online[v]].conn # m'.obj[m'.online[v]].conn

LEMMA NarrowsComes ==
  ASSUME PlacesInv, PlacesInv', Narrows(m, m'), NEW v \in Users, Comes(v)
  PROVE  FALSE
<1>1. v \in Ids /\ m'.online[v] # Null  BY NullIsNone DEF Comes
<1>2. Served(m) /\ Served(m') /\ m'.live \subseteq Objs /\ m'.obj \in [Objs -> Player]
  BY DEF PlacesInv, SessionInv, TypeOK, Memory
<1>3. m.online[v] = m'.online[v]  BY <1>1 DEF Narrows
<1>4. \A c \in Conns : m'.session[c] = m'.online[v] => m.session[c] = m'.online[v]
  BY <1>1 DEF Narrows
<1>5. m.obj[m.online[v]].conn = m'.obj[m'.online[v]].conn
  BY <1>1, <1>2, <1>3, <1>4, LineKept
<1>. QED  BY <1>1, <1>3, <1>5 DEF Comes

LEMMA LoginComes ==
  ASSUME PlacesInv, PlacesInv', NEW u \in Users, OnlyComes(m, m', u), NEW v \in Users, Comes(v)
  PROVE  v = u
<1>. SUFFICES ASSUME v # u  PROVE FALSE
  OBVIOUS
<1>1. v \in Ids /\ u \in Ids /\ m'.online[v] # Null  BY NullIsNone DEF Comes
<1>2. Served(m) /\ Served(m') /\ m'.live \subseteq Objs /\ m'.obj \in [Objs -> Player]
  BY DEF PlacesInv, SessionInv, TypeOK, Memory
<1>3. m.online[v] = m'.online[v]  BY <1>1 DEF OnlyComes
<1>4. m'.online[v] # m'.online[u]  BY <1>1, <1>2 DEF Served, Online
<1>5. \A c \in Conns : m'.session[c] = m'.online[v] => m.session[c] = m'.online[v]
  BY <1>1, <1>4 DEF OnlyComes
<1>6. m.obj[m.online[v]].conn = m'.obj[m'.online[v]].conn
  BY <1>1, <1>2, <1>3, <1>5, LineKept
<1>. QED  BY <1>1, <1>3, <1>6 DEF Comes

LEMMA ComesHome ==
  ASSUME PlacesInv, Forgiving, Next, failures' = 0, NEW v \in Users, db.zid[v] # Null, Comes(v)
  PROVE  m'.obj[m'.online[v]].table = db.zid[v] /\ db'.zid = db.zid /\ db'.row = db.row
<1>. DEFINE N == Narrows(m, m')
            B == m'.obj[m'.online[v]].table = db.zid[v] /\ db'.zid = db.zid /\ db'.row = db.row
<1>1. PlacesInv'  BY NextPlaces
<1>2. ASSUME N  PROVE B  BY <1>1, <1>2, NarrowsComes
<1>3. ASSUME NEW c \in Conns, NEW u \in Users, msg_Login(c, u)  PROVE B
  <2>1. /\ OnlyComes(m, m', u) /\ failures = 0
        /\ \A k \in Tids : SeatIn(db, k, u) =>
             m'.obj[m'.online[u]].table = k /\ db'.zid = db.zid /\ db'.row = db.row
    BY <1>3, msg_LoginPlaces
  <2>2. v = u  BY <1>1, <2>1, LoginComes
  <2>3. Home(failures = 0, m, db, v) /\ db.zid[v] \in Tids
    <3>. v \in Ids  BY NullIsNone
    <3>. QED  BY PlacesTyped
  <2>4. SeatIn(db, db.zid[v], v)  BY <2>1, <2>3 DEF Home, Lodged, Booked
  <2>. QED  BY <2>1, <2>2, <2>3, <2>4
<1>4. ASSUME NEW c \in Conns, Connect(c)  PROVE N  BY <1>4, ConnectPlaces
<1>5. ASSUME NEW c \in Conns, msg_Logout(c)  PROVE N  BY <1>5, msg_LogoutPlaces
<1>6. ASSUME NEW c \in Conns, ChangeTable(c)  PROVE N  BY <1>6, ChangeTablePlaces
<1>7. ASSUME NEW c \in Conns, handle_ready(c)  PROVE N  BY <1>7, handle_readyPlaces
<1>8. ASSUME NEW c \in Conns, onClose(c)  PROVE N  BY <1>8, onClosePlaces
<1>9. ASSUME NEW c \in Conns, OnTimeOut(c)  PROVE N  BY <1>9, OnTimeOutPlaces
<1>10. ASSUME NEW n \in Tids, GameEnd(n)  PROVE N  BY <1>10, GameEndPlaces
<1>11. ASSUME NEW n \in Tids, NEW late \in SUBSET Seat, ThrowOut(n, late)  PROVE N
  BY <1>11, ThrowOutPlaces
<1>12. ASSUME OnTimer_tick  PROVE N  BY <1>12, OnTimer_tickPlaces
<1>13. ASSUME OnTimer_dismiss  PROVE N  BY <1>13, OnTimer_dismissPlaces
<1>14. ASSUME Crash  PROVE N  BY <1>14, CrashPlaces
<1>. HIDE DEF N, B
<1>15. B
  BY <1>2, <1>3, <1>4, <1>5, <1>6, <1>7, <1>8, <1>9, <1>10, <1>11, <1>12, <1>13, <1>14
     DEF Next
<1>. QED  BY <1>15 DEF B

(* As long as no command has failed, whoever logs in while he has a room   *)
(* comes back to the table of that room, and his login writes neither a    *)
(* last room nor a row.                                                    *)
THEOREM ComesBackHolds == ASSUME Forgiving PROVE Spec => ComesBack
<1>1. ASSUME PlacesInv, [Next]_vars
      PROVE  [failures' = 0 => \A u \in Users :
                db.zid[u] # Null /\ m'.online[u] # Null
                  /\ (m.online[u] = Null \/ m.obj[m.online[u]].conn # m'.obj[m'.online[u]].conn)
                => m'.obj[m'.online[u]].table = db.zid[u] /\ db'.zid = db.zid
                   /\ db'.row = db.row]_vars
  <2>1. ASSUME Next, failures' = 0, NEW u \in Users, db.zid[u] # Null, Comes(u)
        PROVE  m'.obj[m'.online[u]].table = db.zid[u] /\ db'.zid = db.zid /\ db'.row = db.row
    BY <1>1, <2>1, ComesHome
  <2>. QED  BY <1>1, <2>1 DEF Comes
<1>. QED  BY <1>1, PlacesHold, PTL DEF Spec, ComesBack

-----------------------------------------------------------------------------
(***************************************************************************)
(* The refinement: every table keeps what Seats promises.                  *)
(***************************************************************************)

(* Who has a chair and is online, is at a table; who is at a table has a   *)
(* chair there.                                                            *)
LEMMA OnlineSits ==
  ASSUME NEW e, NEW b, NEW x, Settled(e, b, x), NEW n \in x.m.tables, NEW s \in Seat,
         x.m.table[n].chair[s].uid # Null
  PROVE  LET v == x.m.table[n].chair[s].uid IN
         /\ v \in Users /\ SeatIn(x.db, n, v) /\ n \in Tids
         /\ x.m.online[v] # Null => x.m.at[v] # Null
<1>. DEFINE c == x.m.table[n].chair[s]
            v == c.uid
<1>1. Good(e, x) /\ x \in Work /\ n \in Tids /\ n # Null
  BY WorkTyped, NullIsNone DEF Settled, Well, Good
<1>2. v \in Users
  <2>1. x.m.table[n] \in Table  BY <1>1, WorkTyped
  <2>. QED  BY <2>1, TableTyped DEF Ids
<1>3. SeatIn(x.db, n, v)  BY <1>1, <1>2, NullIsNone, ChairsOfRow
<1>4. Home(b, x.m, x.db, v)  BY <1>2, ZenonT(60) DEF Settled, Homes
<1>5. Placing(x.m, n, v, c) /\ (c.offline <=> x.m.online[v] = Null)
  BY <1>4, ZenonT(60) DEF Home, Lodged, Chaired
<1>. HIDE DEF c
<1>6. x.m.online[v] # Null => x.m.at[v] # Null  BY <1>1, <1>5 DEF Placing
<1>. QED  BY <1>1, <1>2, <1>3, <1>6 DEF c

LEMMA AtSits ==
  ASSUME NEW e, NEW b, NEW x, Settled(e, b, x), NEW u \in Users, x.m.at[u] # Null
  PROVE  \A n \in Tids : SeatIn(x.db, n, u) => n = x.m.at[u]
<1>1. Good(e, x) /\ Home(b, x.m, x.db, u)  BY DEF Settled, Well, Homes
<1>2. ~Seatless(x.m, x.db, u)  BY <1>1 DEF Home, Lodged, Nowhere
<1>3. PICK k \in x.m.tables : SeatIn(x.db, k, u)  BY <1>2 DEF Seatless
<1>4. k \in Tids /\ \E s \in Seat : x.m.table[k].chair[s].uid = u
  BY <1>1, <1>3, NullIsNone, ChairsOfRow
<1>5. PICK s \in Seat : x.m.table[k].chair[s].uid = u  BY <1>4
<1>. DEFINE c == x.m.table[k].chair[s]
<1>6. Placing(x.m, k, u, c)  BY <1>1, <1>5 DEF Home, Lodged, Chaired
<1>. HIDE DEF c
<1>7. x.m.at[u] = k  BY <1>6 DEF Placing, Nowhere
<1>. QED  BY <1>1, <1>3, <1>4, <1>7 DEF Home, Lodged, Booked

(* Who is ready stays at his table.                                        *)
LEMMA ReadyStays ==
  ASSUME NEW x, NEW f, NEW b, NEW y, Settled(f, b, y), Readied(x.m),
         Shifts(x, y) \/ \E n \in Tids : Plays(x, y, n)
  PROVE  Readied(y.m)
<1>. SUFFICES ASSUME NEW n \in y.m.tables, NEW s \in Seat,
                     LET c == y.m.table[n].chair[s] IN c.ready /\ c.uid # Null
              PROVE  y.m.at[y.m.table[n].chair[s].uid] # Null
  BY DEF Readied
<1>. DEFINE v == y.m.table[n].chair[s].uid
<1>1. /\ v \in Users /\ SeatIn(y.db, n, v) /\ n \in Tids
      /\ y.m.online[v] # Null => y.m.at[v] # Null
  BY OnlineSits, SMTT(60)
<1>2. ASSUME Quiet(x, y)  PROVE x.m.at[v] # Null
  <2>1. n \in x.m.tables /\ x.m.table[n].chair[s].uid = v /\ x.m.table[n].chair[s].ready
    BY <1>2, ZenonT(60) DEF Quiet
  <2>. QED  BY <1>1, <2>1, NullIsNone, ZenonT(60) DEF Readied
<1>3. ASSUME NEW k \in Tids, Plays(x, y, k)  PROVE y.m.at[v] # Null
  <2>1. /\ n \in x.m.tables /\ x.m.table[n].chair[s].uid = v
        /\ x.m.table[n].chair[s].ready \/ x.m.at[v] # Null
    BY <1>3, ZenonT(60) DEF Plays
  <2>2. x.m.at[v] # Null  BY <1>1, <2>1, ZenonT(60) DEF Readied
  <2>. QED  BY <1>3, <2>2, ZenonT(60) DEF Plays
<1>. HIDE DEF v
<1>4. CASE Goes(x, y)  BY <1>2, <1>4, ZenonT(60) DEF Goes, v
<1>5. CASE Vacates(x, y)
  <2>1. Still(x, y, v)  BY <1>1, <1>5 DEF Vacates, Stood
  <2>. QED  BY <1>2, <1>5, <2>1, ZenonT(60) DEF Vacates, Still, v
<1>6. ASSUME NEW u \in Users, Arrives(x, y, u, Null), y.m.online[u] # Null
      PROVE  y.m.at[v] # Null
  <2>1. CASE v = u  BY <1>1, <1>6, <2>1
  <2>2. CASE v # u  BY <1>1, <1>2, <1>6, <2>2 DEF Arrives, Still
  <2>. QED  BY <2>1, <2>2
<1>7. ASSUME NEW u \in Users, Changes(x, y, u)  PROVE y.m.at[v] # Null
  <2>1. CASE v = u  BY <1>1, <1>7, <2>1 DEF Changes
  <2>2. CASE v # u  BY <1>1, <1>2, <1>7, <2>2 DEF Changes, Still
  <2>. QED  BY <2>1, <2>2
<1>. QED  BY <1>3, <1>4, <1>5, <1>6, <1>7 DEF Shifts, v

LEMMA NextTurns ==
  ASSUME PlacesInv, Forgiving, Readied(m), Next
  PROVE  Turned \/ Crash
BY ConnectPlaces, msg_LoginPlaces, msg_LogoutPlaces, ChangeTablePlaces, handle_readyPlaces,
   onClosePlaces, OnTimeOutPlaces, GameEndPlaces, ThrowOutPlaces, OnTimer_tickPlaces,
   OnTimer_dismissPlaces DEF Next

(* A seat as the players see it, told from its row and the maps.           *)
Seen(g, u) ==
  IF g.online[u] # Null THEN "here" ELSE IF g.at[u] # Null THEN "absent" ELSE "restored"
View(x, n, s) ==
  LET u == x.db.row[n].chair[s] IN IF u = Null THEN "free" ELSE Seen(x.m, u)

Places == 0..(RoomSize - 1)
Shown == \A n \in Tids :
  /\ GameOn(n) = db.row[n].playing
  /\ \A s \in Seat : SeatAs(n, s) = View(Now, n, s)

LEMMA PlacesShown ==
  ASSUME PlacesInv
  PROVE  Shown
<1>. SUFFICES ASSUME NEW n \in Tids
              PROVE  /\ GameOn(n) = db.row[n].playing
                     /\ \A s \in Seat : SeatAs(n, s) = View(Now, n, s)
  BY DEF Shown
<1>1. /\ Now \in Work /\ Good(db, Now) /\ Now.m = m /\ Now.db = db /\ n # Null
      /\ db.row[n] \in Row /\ m.table[n] \in Table
  BY PlacesTyped, NullIsNone
<1>2. CASE n \notin m.tables
  <2>1. GameOn(n) = db.row[n].playing  BY <1>2 DEF GameOn
  <2>2. ASSUME NEW s \in Seat  PROVE SeatAs(n, s) = View(Now, n, s)
    <3>. DEFINE u == db.row[n].chair[s]
    <3>1. SeatAs(n, s) = IF u = Null THEN "free" ELSE "restored"  BY <1>2 DEF SeatAs
    <3>2. u # Null => m.online[u] = Null /\ m.at[u] = Null
      <4>. SUFFICES ASSUME u # Null  PROVE m.online[u] = Null /\ m.at[u] = Null  OBVIOUS
      <4>1. u \in Users  BY <1>1 DEF Row, Ids
      <4>2. SeatIn(db, n, u)  BY DEF SeatIn
      <4>3. Home(failures = 0, m, db, u)  BY <4>1, PlacesTyped
      <4>. HIDE DEF u
      <4>. QED  BY <1>1, <1>2, <4>1, <4>2, <4>3, HadNoPlayer DEF Nowhere
    <3>. QED  BY <1>1, <3>1, <3>2 DEF View, Seen
  <2>. QED  BY <2>1, <2>2
<1>3. CASE n \in m.tables
  <2>1. GameOn(n) = db.row[n].playing
    <3>1. m.table[n].playing <=> db.row[n].playing  BY <1>1, <1>3 DEF Good, Rooms, Mirrors
    <3>2. m.table[n].playing \in BOOLEAN /\ db.row[n].playing \in BOOLEAN
      BY <1>1 DEF Table, Row
    <3>. QED  BY <1>3, <3>1, <3>2 DEF GameOn
  <2>2. ASSUME NEW s \in Seat  PROVE SeatAs(n, s) = View(Now, n, s)
    <3>. DEFINE c == m.table[n].chair[s]
                u == c.uid
    <3>1. u = db.row[n].chair[s]  BY <1>1, <1>3, ChairsOfRow
    <3>2. SeatAs(n, s) = IF u = Null THEN "free" ELSE IF ~c.offline THEN "here"
                         ELSE IF m.obj[c.obj].table = n THEN "absent" ELSE "restored"
      BY <1>3 DEF SeatAs
    <3>3. u # Null => Placing(m, n, u, c) /\ (c.offline <=> m.online[u] = Null)
      BY <1>3, ChairLeads
    <3>. HIDE DEF c
    <3>. QED  BY <1>1, <3>1, <3>2, <3>3 DEF View, Seen, Placing, Nowhere
  <2>. QED  BY <2>1, <2>2
<1>. QED  BY <1>2, <1>3

(* The seats of nobody but u may look different.                           *)
LEMMA OthersSeen ==
  ASSUME NEW x \in Work, NEW y \in Work, NEW u, \A v \in Users \ {u} : Still(x, y, v),
         NEW n \in Tids, NEW s \in Seat, x.db.row[n].chair[s] # u, y.db.row[n].chair[s] # u
  PROVE  View(y, n, s) = View(x, n, s)
<1>. DEFINE v == x.db.row[n].chair[s]
            w == y.db.row[n].chair[s]
<1>1. v \in Ids /\ w \in Ids
  <2>1. x.db.row[n] \in Row /\ y.db.row[n] \in Row  BY WorkTyped
  <2>. QED  BY <2>1 DEF Row
<1>2. v # Null => v \in Users \ {u}  BY <1>1 DEF Ids
<1>3. w # Null => w \in Users \ {u}  BY <1>1 DEF Ids
<1>4. v = w  BY <1>2, <1>3 DEF Still, SameSeats
<1>. HIDE DEF w, v
<1>5. v # Null => y.m.online[v] = x.m.online[v] /\ y.m.at[v] = x.m.at[v]
  BY <1>2 DEF Still
<1>. QED  BY <1>4, <1>5 DEF View, Seen, v, w

(* What one table sees of a step: some players drop, some leave, or one is *)
(* there who was not.                                                      *)
Same(x, y, n, s) == View(y, n, s) = View(x, n, s)
DropsAt(x, y, n) == \A s \in Places :
  Same(x, y, n, s) \/ (View(x, n, s) = "here" /\ View(y, n, s) = "absent")
LeavesAt(x, y, n) == \A s \in Places :
  Same(x, y, n, s) \/ (View(x, n, s) \in {"here", "absent"} /\ View(y, n, s) = "free")
ComesAt(x, y, n, p) ==
  View(y, n, p) = "here" /\ \A s \in Places \ {p} : Same(x, y, n, s)
TableSees(x, y, n) ==
  DropsAt(x, y, n) \/ LeavesAt(x, y, n) \/ \E p \in Places : ComesAt(x, y, n, p)

LEMMA PlaceIsSeat ==
  ASSUME NEW x \in Work, NEW n \in Tids, NEW s \in Places
  PROVE  s \in Seat /\ x.db.row[n].chair[s] \in Users \cup {Null}
<1>1. s \in Seat  BY RoomAssumption, SeatsAre DEF Places
<1>2. x.db.row[n] \in Row  BY WorkTyped
<1>. QED  BY <1>1, <1>2 DEF Row, Ids

LEMMA GoesSeen ==
  ASSUME NEW e, NEW b, NEW x, Settled(e, b, x), NEW y \in Work, Goes(x, y), NEW n \in Tids
  PROVE  DropsAt(x, y, n)
<1>. SUFFICES ASSUME NEW s \in Places
              PROVE  Same(x, y, n, s) \/ (View(x, n, s) = "here" /\ View(y, n, s) = "absent")
  BY DEF DropsAt
<1>. DEFINE v == x.db.row[n].chair[s]
            w == y.db.row[n].chair[s]
<1>1. Good(e, x) /\ x \in Work  BY DEF Settled, Well, Good
<1>2. s \in Seat /\ v \in Users \cup {Null} /\ w \in Users \cup {Null}
  BY <1>1, PlaceIsSeat
<1>3. v = w  BY <1>2 DEF Goes, SameSeats
<1>4. y.m.at = x.m.at /\ (v \in Users => y.m.online[v] \in {x.m.online[v], Null})
  BY DEF Goes
<1>5. v \in Users /\ x.m.online[v] # Null => x.m.at[v] # Null
  <2>. SUFFICES ASSUME v \in Users, x.m.online[v] # Null  PROVE x.m.at[v] # Null
    OBVIOUS
  <2>1. Home(b, x.m, x.db, v) /\ SeatIn(x.db, n, v)  BY <1>2, ZenonT(60) DEF Settled, Homes, SeatIn
  <2>2. n \in x.m.tables  BY <2>1, ZenonT(60) DEF Home, Who
  <2>3. x.m.table[n].chair[s].uid = v  BY <1>1, <1>2, <2>2, ChairsOfRow
  <2>. HIDE DEF v
  <2>. QED  BY <1>2, <2>2, <2>3, NullIsNone, OnlineSits
<1>. HIDE DEF v, w
<1>6. CASE v = Null  BY <1>3, <1>6 DEF Same, View, v, w
<1>7. CASE v # Null
  <2>1. /\ View(x, n, s) = Seen(x.m, v) /\ View(y, n, s) = Seen(y.m, v)
    BY <1>3, <1>7 DEF View, v, w
  <2>. QED  BY <1>2, <1>4, <1>5, <1>7, <2>1 DEF Same, Seen
<1>. QED  BY <1>6, <1>7

LEMMA VacatesSeen ==
  ASSUME NEW x \in Work, NEW y \in Work, Vacates(x, y), NEW n \in Tids
  PROVE  LeavesAt(x, y, n)
<1>. SUFFICES ASSUME NEW s \in Places
              PROVE  \/ Same(x, y, n, s)
                     \/ View(x, n, s) \in {"here", "absent"} /\ View(y, n, s) = "free"
  BY DEF LeavesAt
<1>. DEFINE v == x.db.row[n].chair[s]
            w == y.db.row[n].chair[s]
<1>1. s \in Seat /\ v \in Users \cup {Null} /\ w \in Users \cup {Null}
  BY PlaceIsSeat
<1>2. w # Null => Still(x, y, w)
  <2>. SUFFICES ASSUME w # Null  PROVE Still(x, y, w)  OBVIOUS
  <2>1. w \in Users /\ SeatIn(y.db, n, w)  BY <1>1 DEF SeatIn
  <2>. HIDE DEF w
  <2>. QED  BY <2>1 DEF Vacates, Stood
<1>3. w # Null => v = w  BY <1>1, <1>2 DEF Still, SameSeats
<1>. HIDE DEF v, w
<1>4. CASE v = Null  BY <1>3, <1>4 DEF Same, View, v, w
<1>5. CASE v # Null /\ v = w
  <2>1. y.m.online[v] = x.m.online[v] /\ y.m.at[v] = x.m.at[v]  BY <1>2, <1>5 DEF Still
  <2>. QED  BY <1>5, <2>1 DEF Same, View, Seen, v, w
<1>6. CASE v # Null /\ v # w
  <2>1. w = Null  BY <1>3, <1>6
  <2>2. x.m.at[v] # Null
    <3>1. ~Still(x, y, v)  BY <1>1, <1>6 DEF Still, SameSeats, v, w
    <3>. QED  BY <1>1, <1>6, <3>1 DEF Vacates, Stood
  <2>. QED  BY <1>6, <2>1, <2>2 DEF View, Seen, v, w
<1>. QED  BY <1>4, <1>5, <1>6

(* One who is online in the end comes to a table, if he has a seat there.  *)
LEMMA ComesSeen ==
  ASSUME NEW f, NEW x \in Work, NEW y, Good(f, y), NEW u \in Users,
         \A v \in Users \ {u} : Still(x, y, v), y.m.online[u] # Null, NEW n \in Tids,
         \A s \in Seat : x.db.row[n].chair[s] = u => y.db.row[n].chair[s] = u
  PROVE  TableSees(x, y, n)
<1>1. y \in Work /\ u # Null /\ RowWell(y.db.row[n])
  BY NullIsNone DEF Good, Rooms, RowsWell
<1>2. CASE \A s \in Places : y.db.row[n].chair[s] # u
  <2>1. ASSUME NEW s \in Places  PROVE Same(x, y, n, s)
    <3>1. s \in Seat  BY PlaceIsSeat
    <3>. QED  BY <1>1, <1>2, <3>1, OthersSeen DEF Same
  <2>. QED  BY <2>1 DEF TableSees, DropsAt
<1>3. ASSUME NEW p \in Places, y.db.row[n].chair[p] = u  PROVE ComesAt(x, y, n, p)
  <2>1. View(y, n, p) = "here"  BY <1>1, <1>3 DEF View, Seen
  <2>2. ASSUME NEW s \in Places \ {p}  PROVE Same(x, y, n, s)
    <3>1. s \in Seat /\ p \in Seat /\ s # p  BY PlaceIsSeat
    <3>2. y.db.row[n].chair[s] # u  BY <1>1, <1>3, <3>1 DEF RowWell
    <3>3. x.db.row[n].chair[s] # u  BY <3>1, <3>2
    <3>. QED  BY <1>1, <3>1, <3>2, <3>3, OthersSeen DEF Same
  <2>. QED  BY <2>1, <2>2 DEF ComesAt
<1>. QED  BY <1>2, <1>3 DEF TableSees

LEMMA ChangesSeen ==
  ASSUME NEW e, NEW b, NEW x, Settled(e, b, x), NEW f, NEW y, Good(f, y), NEW u \in Users,
         Changes(x, y, u), NEW n \in Tids
  PROVE  TableSees(x, y, n)
<1>1. x \in Work /\ y \in Work /\ u # Null  BY NullIsNone DEF Settled, Well, Good
<1>2. CASE n = x.m.at[u]
  <2>. SUFFICES ASSUME NEW s \in Places
                PROVE  \/ Same(x, y, n, s)
                       \/ View(x, n, s) \in {"here", "absent"} /\ View(y, n, s) = "free"
    BY DEF TableSees, LeavesAt
  <2>1. s \in Seat /\ y.db.row[n].chair[s] # u
    <3>1. s \in Seat  BY <1>1, PlaceIsSeat
    <3>2. ~SeatIn(y.db, n, u)  BY <1>2, Zenon DEF Changes
    <3>. QED  BY <3>1, <3>2, Zenon DEF SeatIn
  <2>2. CASE x.db.row[n].chair[s] # u
    BY <1>1, <2>1, <2>2, OthersSeen DEF Changes, Same
  <2>3. CASE x.db.row[n].chair[s] = u
    <3>. DEFINE w == y.db.row[n].chair[s]
    <3>1. w \in Users \cup {Null}  BY <1>1, PlaceIsSeat
    <3>2. w = Null  BY <2>1, <2>3, <3>1 DEF Changes, Still, SameSeats
    <3>3. View(x, n, s) = "here"  BY <1>1, <2>3 DEF Changes, View, Seen
    <3>. QED  BY <3>2, <3>3 DEF View
  <2>. QED  BY <2>2, <2>3
<1>3. CASE n # x.m.at[u]
  <2>1. ~SeatIn(x.db, n, u)  BY <1>3, AtSits DEF Changes
  <2>. QED  BY <1>1, <2>1, ComesSeen DEF Changes, SeatIn
<1>. QED  BY <1>2, <1>3

LEMMA ShiftsSeen ==
  ASSUME NEW e, NEW b, NEW x, Settled(e, b, x), NEW f, NEW y, Good(f, y), Shifts(x, y),
         NEW n \in Tids
  PROVE  TableSees(x, y, n) /\ y.db.row[n].playing = x.db.row[n].playing
<1>1. x \in Work /\ y \in Work  BY DEF Settled, Well, Good
<1>2. CASE Goes(x, y)  BY <1>1, <1>2, GoesSeen DEF TableSees, Goes, Quiet
<1>3. CASE Vacates(x, y)  BY <1>1, <1>3, VacatesSeen DEF TableSees, Vacates, Quiet
<1>4. ASSUME NEW u \in Users, Arrives(x, y, u, Null), y.m.online[u] # Null
      PROVE  TableSees(x, y, n) /\ y.db.row[n].playing = x.db.row[n].playing
  BY <1>1, <1>4, ComesSeen DEF Arrives, Quiet
<1>5. ASSUME NEW u \in Users, Changes(x, y, u)
      PROVE  TableSees(x, y, n) /\ y.db.row[n].playing = x.db.row[n].playing
  BY <1>5, ChangesSeen DEF Changes, Quiet
<1>. QED  BY <1>2, <1>3, <1>4, <1>5 DEF Shifts

(* The same in the words of Seats.                                         *)
Watched(x, y) ==
  /\ x \in Work /\ x.m = m /\ x.db = db /\ y \in Work /\ y.m = m' /\ y.db = db'
  /\ Shown /\ Shown' /\ ChairsKeptIn(db')

LEMMA SeatsSeen ==
  ASSUME NEW x, NEW y, Watched(x, y), NEW n \in Tids
  PROVE  /\ GameOn(n) = x.db.row[n].playing /\ GameOn(n)' = y.db.row[n].playing
         /\ x.db.row[n].playing \in BOOLEAN /\ y.db.row[n].playing \in BOOLEAN
         /\ \A s \in Places : SeatAs(n, s) = View(x, n, s) /\ SeatAs(n, s)' = View(y, n, s)
         /\ GameOn(n) => \A s \in Places :
              (View(x, n, s) = "free") = (View(y, n, s) = "free")
<1>1. x.db.row[n].playing \in BOOLEAN /\ y.db.row[n].playing \in BOOLEAN
  <2>1. x.db.row[n] \in Row /\ y.db.row[n] \in Row  BY WorkTyped DEF Watched
  <2>. QED  BY <2>1 DEF Row
<1>2. GameOn(n) = x.db.row[n].playing /\ GameOn(n)' = y.db.row[n].playing
  BY DEF Watched, Shown
<1>3. ASSUME NEW s \in Places
      PROVE  SeatAs(n, s) = View(x, n, s) /\ SeatAs(n, s)' = View(y, n, s)
  <2>1. s \in Seat  BY PlaceIsSeat DEF Watched
  <2>2. SeatAs(n, s) = View(Now, n, s)  BY <2>1 DEF Watched, Shown
  <2>3. SeatAs(n, s)' = View(Now, n, s)'
    <3>1. Shown'  BY DEF Watched
    <3>2. (\A q \in Seat : SeatAs(n, q) = View(Now, n, q))'  BY <3>1 DEF Shown
    <3>. QED  BY Zenon, <2>1, <3>2
  <2>. QED  BY <2>2, <2>3 DEF Watched, View, Seen, Now, Doing
<1>4. ASSUME GameOn(n), NEW s \in Places
      PROVE  (View(x, n, s) = "free") = (View(y, n, s) = "free")
  <2>1. x.db.row[n].chair = y.db.row[n].chair  BY <1>2, <1>4 DEF Watched, ChairsKeptIn
  <2>. QED  BY <2>1 DEF View, Seen
<1>. QED  BY <1>1, <1>2, <1>3, <1>4

LEMMA SeesNext ==
  ASSUME NEW x, NEW y, Watched(x, y), NEW n \in Tids, TableSees(x, y, n),
         y.db.row[n].playing = x.db.row[n].playing
  PROVE  Seats(n)!Next
<1>. DEFINE S == {s \in Places : ~Same(x, y, n, s)}
<1>1. /\ GameOn(n)' = GameOn(n) /\ GameOn(n) \in BOOLEAN
      /\ \A s \in Places : SeatAs(n, s) = View(x, n, s) /\ SeatAs(n, s)' = View(y, n, s)
      /\ GameOn(n) => \A s \in Places : (View(x, n, s) = "free") = (View(y, n, s) = "free")
  BY SeatsSeen
<1>2. CASE DropsAt(x, y, n)
  <2>1. \A s \in Places : SeatAs(n, s)' = IF s \in S THEN "absent" ELSE SeatAs(n, s)
    BY <1>1, <1>2 DEF DropsAt, Same
  <2>2. \A s \in S : SeatAs(n, s) = "here"  BY <1>1, <1>2 DEF DropsAt, Same
  <2>3. S \in SUBSET Places  OBVIOUS
  <2>. HIDE DEF S
  <2>4. Seats(n)!Drop(S)
    BY <1>1, <2>1, <2>2, <2>3 DEF Places, Seats!Drop, Seats!Becomes, Seats!Which
  <2>. QED  BY <2>3, <2>4 DEF Places, Seats!Next
<1>3. CASE LeavesAt(x, y, n)
  <2>1. \A s \in Places : SeatAs(n, s)' = IF s \in S THEN "free" ELSE SeatAs(n, s)
    BY <1>1, <1>3 DEF LeavesAt, Same
  <2>2. \A s \in S : SeatAs(n, s) \in {"here", "absent"}  BY <1>1, <1>3 DEF LeavesAt, Same
  <2>3. S \in SUBSET Places  OBVIOUS
  <2>4. S # {} => ~GameOn(n)  BY <1>1, <1>3 DEF LeavesAt, Same
  <2>. HIDE DEF S
  <2>5. CASE GameOn(n)
    <3>1. S = {}  BY <2>4, <2>5
    <3>2. Seats(n)!Drop({})
      BY <1>1, <2>1, <3>1 DEF Places, Seats!Drop, Seats!Becomes, Seats!Which
    <3>. QED  BY <3>2 DEF Places, Seats!Next
  <2>6. CASE ~GameOn(n)
    <3>1. Seats(n)!Leave(S)
      BY <1>1, <2>1, <2>2, <2>3, <2>6 DEF Places, Seats!Leave, Seats!Becomes, Seats!Which
    <3>. QED  BY <2>3, <3>1 DEF Places, Seats!Next
  <2>. QED  BY <2>5, <2>6
<1>4. ASSUME NEW p \in Places, ComesAt(x, y, n, p)  PROVE Seats(n)!Next
  <2>1. \A s \in Places : SeatAs(n, s)' = IF s = p THEN "here" ELSE SeatAs(n, s)
    BY <1>1, <1>4 DEF ComesAt, Same
  <2>2. CASE SeatAs(n, p) = "free"
    <3>1. ~GameOn(n)  BY <1>1, <1>4, <2>2 DEF ComesAt
    <3>2. Seats(n)!Sit(p)
      BY <1>1, <1>4, <2>1, <2>2, <3>1 DEF Places, Seats!Sit, Seats!Becomes
    <3>. QED  BY <1>4, <3>2 DEF Places, Seats!Next
  <2>3. CASE SeatAs(n, p) # "free"
    <3>1. Seats(n)!Return(p)
      BY <1>1, <1>4, <2>1, <2>3 DEF Places, Seats!Return, Seats!Becomes
    <3>. QED  BY <1>4, <3>1 DEF Places, Seats!Next
  <2>. QED  BY <2>2, <2>3
<1>. QED  BY <1>2, <1>3, <1>4 DEF TableSees

LEMMA PlaysSeen ==
  ASSUME NEW x, NEW y, Watched(x, y), NEW k \in Tids, Plays(x, y, k), NEW n \in Tids
  PROVE  UNCHANGED Seats(n)!seats \/ Seats(n)!Next
<1>1. /\ GameOn(n) = x.db.row[n].playing /\ GameOn(n)' = y.db.row[n].playing
      /\ x.db.row[n].playing \in BOOLEAN /\ y.db.row[n].playing \in BOOLEAN
      /\ \A s \in Places : SeatAs(n, s) = View(x, n, s) /\ SeatAs(n, s)' = View(y, n, s)
  BY SeatsSeen
<1>2. ASSUME NEW s \in Places  PROVE View(y, n, s) = View(x, n, s)
  <2>1. s \in Seat  BY PlaceIsSeat DEF Watched
  <2>. QED  BY <2>1 DEF Plays, View, Seen
<1>3. \A s \in Places : SeatAs(n, s)' = SeatAs(n, s)  BY <1>1, <1>2
<1>4. CASE GameOn(n)' = GameOn(n)
  <2>1. UNCHANGED Seats(n)!seats  BY <1>3, <1>4 DEF Places, Seats!seats
  <2>. QED  BY <2>1
<1>5. CASE GameOn(n) /\ ~GameOn(n)'
  <2>1. Seats(n)!End  BY <1>1, <1>3, <1>5 DEF Places, Seats!End
  <2>. QED  BY <2>1 DEF Seats!Next
<1>6. CASE ~GameOn(n) /\ GameOn(n)'
  <2>1. n = k  BY <1>1, <1>6 DEF Plays
  <2>2. ASSUME NEW s \in Places  PROVE SeatAs(n, s) \in {"here", "absent"}
    <3>1. Present(x, x.db.row[n].chair[s])  BY <1>1, <1>6, <2>1 DEF Plays, Places
    <3>. QED  BY <1>1, <3>1 DEF Present, View, Seen
  <2>3. 0 \in Places  BY RoomAssumption DEF Places
  <2>4. Seats(n)!Complete  BY <2>2, <2>3 DEF Places, Seats!Complete, Seats!Which
  <2>5. Seats(n)!Start  BY <1>1, <1>3, <1>6, <2>4 DEF Places, Seats!Start
  <2>. QED  BY <2>5 DEF Seats!Next
<1>. QED  BY <1>1, <1>4, <1>5, <1>6

(* After a restart the seats are those of the rows.                        *)
LEMMA CrashSeen ==
  ASSUME PlacesInv, Shown, Crash, NEW n \in Tids
  PROVE  Seats(n)!Next
<1>. DEFINE kept == {s \in Places : SeatAs(n, s) # "free"}
<1>1. m' = Booted /\ db' = db  BY DEF Crash
<1>2. /\ Now \in Work /\ Now.m = m /\ Now.db = db /\ db.row[n].playing \in BOOLEAN
  <2>1. Now \in Work /\ Now.m = m /\ Now.db = db /\ db.row[n] \in Row  BY PlacesTyped
  <2>. QED  BY <2>1 DEF Row
<1>3. GameOn(n)' = GameOn(n) /\ GameOn(n) \in BOOLEAN
  <2>1. GameOn(n)' = db.row[n].playing  BY <1>1 DEF GameOn, Booted
  <2>. QED  BY <1>2, <2>1 DEF Shown
<1>4. ASSUME NEW s \in Places
      PROVE  SeatAs(n, s)' = IF s \in kept THEN "restored" ELSE "free"
  <2>1. s \in Seat  BY <1>2, PlaceIsSeat
  <2>2. SeatAs(n, s) = View(Now, n, s)  BY <2>1 DEF Shown
  <2>3. SeatAs(n, s) = "free" <=> db.row[n].chair[s] = Null  BY <1>2, <2>2 DEF View, Seen
  <2>4. SeatAs(n, s)' = IF db.row[n].chair[s] = Null THEN "free" ELSE "restored"
    BY <1>1 DEF SeatAs, Booted
  <2>. QED  BY <2>3, <2>4
<1>5. kept \in SUBSET Places /\ kept = Seats(n)!Taken([s \in Places |-> SeatAs(n, s)])
  BY DEF Places, Seats!Taken
<1>. HIDE DEF kept
<1>6. Seats(n)!Restart  BY <1>3, <1>4, <1>5 DEF Places, Seats!Restart
<1>. QED  BY <1>6 DEF Seats!Next

LEMMA InitSeen ==
  ASSUME Init, NEW n \in Tids
  PROVE  Seats(n)!Init
<1>1. m.tables = {} /\ ~db.row[n].playing /\ db.row[n].playing \in BOOLEAN
      /\ \A s \in Seat : db.row[n].chair[s] = Null
  BY DEF Init, Booted, NoRow
<1>2. GameOn(n) = FALSE  BY <1>1 DEF GameOn
<1>3. ASSUME NEW s \in Places  PROVE SeatAs(n, s) = "free"
  <2>1. s \in Seat  BY RoomAssumption, SeatsAre DEF Places
  <2>. QED  BY <1>1, <2>1 DEF SeatAs
<1>. QED  BY <1>2, <1>3 DEF Places, Seats!Init

SeatsInv == PlacesInv /\ Readied(m)

LEMMA NextReadied ==
  ASSUME SeatsInv, Forgiving, [Next]_vars
  PROVE  SeatsInv'
<1>1. PlacesInv'  BY NextPlaces DEF SeatsInv
<1>2. CASE Turned
  <2>1. PICK e, f, b, x, y :
          /\ Settled(e, b, x) /\ x.m = m /\ x.db = db
          /\ Settled(f, b, y) /\ y.m = m' /\ y.db = db'
          /\ Shifts(x, y) \/ \E n \in Tids : Plays(x, y, n)
    BY <1>2 DEF Turned
  <2>2. Readied(y.m)  BY <2>1, ReadyStays DEF SeatsInv
  <2>. QED  BY <1>1, <2>1, <2>2 DEF SeatsInv, Readied
<1>3. CASE Crash
  <2>1. m'.tables = {}  BY <1>3 DEF Crash, Booted
  <2>. QED  BY <1>1, <2>1 DEF SeatsInv, Readied
<1>4. CASE UNCHANGED vars  BY <1>1, <1>4 DEF vars, SeatsInv, Readied
<1>. QED  BY <1>2, <1>3, <1>4, NextTurns DEF SeatsInv

LEMMA NextSeats ==
  ASSUME SeatsInv, Shown, Shown', Forgiving, [Next]_vars, NEW n \in Tids
  PROVE  UNCHANGED Seats(n)!seats \/ Seats(n)!Next
<1>1. ChairsKeptIn(db')  BY NextKeeps DEF SeatsInv, PlacesInv, Forgiving
<1>2. CASE Turned
  <2>1. PICK e, f, b, x, y :
          /\ Settled(e, b, x) /\ x.m = m /\ x.db = db
          /\ Settled(f, b, y) /\ y.m = m' /\ y.db = db'
          /\ Shifts(x, y) \/ \E k \in Tids : Plays(x, y, k)
    BY <1>2 DEF Turned
  <2>2. Watched(x, y) /\ Good(f, y)  BY <1>1, <2>1 DEF Watched, Settled, Well, Good
  <2>3. CASE Shifts(x, y)
    <3>1. TableSees(x, y, n) /\ y.db.row[n].playing = x.db.row[n].playing
      BY <2>1, <2>2, <2>3, ShiftsSeen
    <3>. QED  BY <2>2, <3>1, SeesNext
  <2>4. ASSUME NEW k \in Tids, Plays(x, y, k)
        PROVE  UNCHANGED Seats(n)!seats \/ Seats(n)!Next
    BY <2>2, <2>4, PlaysSeen
  <2>. QED  BY <2>1, <2>3, <2>4
<1>3. CASE Crash  BY <1>3, CrashSeen DEF SeatsInv
<1>4. CASE UNCHANGED vars
  <2>1. m' = m /\ db' = db  BY <1>4 DEF vars
  <2>2. UNCHANGED Seats(n)!seats  BY <2>1 DEF Seats!seats, SeatAs, GameOn
  <2>. QED  BY <2>2
<1>. QED  BY <1>2, <1>3, <1>4, NextTurns DEF SeatsInv

SeatsStep == \A n \in Tids : UNCHANGED Seats(n)!seats \/ Seats(n)!Next

(* Every step is one of Seats or none at every table, also after the       *)
(* failures that are forgiven, of which no run tells: whoever logs in, on  *)
(* any connection, wherever he was, changes no seat but his own, a game    *)
(* starts with all its players, nobody leaves it, and a restart takes no   *)
(* seat (Sitdown, Standup, GameTable::Offline, GameStart, LoadInfo).       *)
THEOREM SeatsAlwaysKept ==
  ASSUME Forgiving
  PROVE  Spec => (\A n \in Tids : Seats(n)!Init) /\ [][SeatsStep]_vars
<1>1. Init => SeatsInv /\ \A n \in Tids : Seats(n)!Init
  <2>1. ASSUME Init  PROVE SeatsInv /\ \A n \in Tids : Seats(n)!Init
    <3>1. m.tables = {}  BY <2>1 DEF Init, Booted
    <3>. QED  BY <2>1, <3>1, InitPlaces, InitSeen DEF SeatsInv, Readied
  <2>. QED  BY <2>1
<1>2. SeatsInv /\ [Next]_vars => SeatsInv'  BY NextReadied
<1>3. SeatsInv => Shown  BY PlacesShown DEF SeatsInv
<1>4. SeatsInv /\ Shown /\ Shown' /\ [Next]_vars => SeatsStep  BY NextSeats DEF SeatsStep
<1>. QED  BY <1>1, <1>2, <1>3, <1>4, PTL DEF Spec

(* Every table keeps what Seats promises, as long as no command fails.     *)
THEOREM KeepsSeatsHolds == ASSUME Forgiving PROVE Spec => KeepsSeats
<1>1. SeatsStep => [failures' = 0 => SeatsStep]_vars  OBVIOUS
<1>. QED  BY <1>1, SeatsAlwaysKept, PTL DEF KeepsSeats, SeatsStep
=============================================================================
