------------------------------- MODULE Seats -------------------------------
(***************************************************************************)
(* What the server promises to the players of one table: a seat is kept    *)
(* for who sits on it, present, absent, or not back yet after a restart; a *)
(* game is played by the players who are there when it starts, until it    *)
(* ends, and a restart of the process takes neither the seats nor the game *)
(* from them.  GameTable and Session implement it.                         *)
(***************************************************************************)
EXTENDS FiniteSets

CONSTANT Places   \* the seats of the table

VARIABLES
  seat,   \* how each seat is taken
  game    \* whether a game is played

seats == <<seat, game>>

Takings == {"free", "here", "absent", "restored"}

Taken(f) == {p \in Places : f[p] # "free"}
Which(takings) == {p \in Places : seat[p] \in takings}
Becomes(S, taking) == [p \in Places |-> IF p \in S THEN taking ELSE seat[p]]

Init == seat = [p \in Places |-> "free"] /\ game = FALSE

(* A player sits down on a free seat, while no game is played.             *)
Sit(p) == ~game /\ seat[p] = "free" /\ seat' = Becomes({p}, "here") /\ UNCHANGED game

(* A player comes back to his seat.                                        *)
Return(p) == seat[p] # "free" /\ seat' = Becomes({p}, "here") /\ UNCHANGED game

(* Players lose their connections.                                         *)
Drop(S) == S \subseteq Which({"here"}) /\ seat' = Becomes(S, "absent") /\ UNCHANGED game

(* Players leave or are thrown out: never out of a game, and never before  *)
(* they came back after a restart.                                         *)
Leave(S) ==
  /\ ~game /\ S \subseteq Which({"here", "absent"})
  /\ seat' = Becomes(S, "free") /\ UNCHANGED game

(* All the seats are taken by players who have been there.                 *)
Complete == Places # {} /\ Which({"here", "absent"}) = Places

Start == ~game /\ Complete /\ game' = TRUE /\ UNCHANGED seat

End == game /\ game' = FALSE /\ UNCHANGED seat

(* The process dies and begins anew.  What it was doing is done, or not,   *)
(* or only for some of the players who leave.                              *)
Restart ==
  \E kept \in SUBSET Places :
    LET come == kept \ Taken(seat)
        gone == Taken(seat) \ kept
    IN /\ seat' = [p \in Places |-> IF p \in kept THEN "restored" ELSE "free"]
       /\ game' \in BOOLEAN
       /\ game => come = {} /\ gone = {}
       /\ come = {} \/ (gone = {} /\ \E p \in Places : come = {p} /\ ~game')
       /\ gone \subseteq Which({"here", "absent"})
       /\ ~game /\ game' => Complete /\ gone = {}

Next ==
  \/ \E p \in Places : Sit(p) \/ Return(p)
  \/ \E S \in SUBSET Places : Drop(S) \/ Leave(S)
  \/ Start \/ End \/ Restart

Spec == Init /\ [][Next]_seats

-----------------------------------------------------------------------------
(* Properties.                                                             *)

TypeOK == seat \in [Places -> Takings] /\ game \in BOOLEAN

(* While a game is played, all the seats are taken (GameStart, Standup and *)
(* KickOut, LoadInfo).                                                     *)
AllPlay == game => Taken(seat) = Places

(* A player loses his seat only while no game is played and after he has   *)
(* come back to it, whatever the process does in between.                  *)
SeatKept ==
  [][\A p \in Places :
       seat[p] # "free" /\ seat'[p] = "free" => ~game /\ seat[p] # "restored"]_seats
=============================================================================
