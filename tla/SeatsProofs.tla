---------------------------- MODULE SeatsProofs ----------------------------
(***************************************************************************)
(* What Seats promises, for any set of places.                             *)
(***************************************************************************)
EXTENDS Seats, TLAPS

(* The seats and the game keep their types, and a game has all its players. *)
Inv == TypeOK /\ AllPlay

LEMMA InitInv == Init => Inv
BY DEF Init, Inv, TypeOK, AllPlay, Takings

(* The steps that leave the game alone and take no seat away from one that *)
(* is played.                                                              *)
LEMMA SeatSteps ==
  ASSUME Inv, NEW S \in SUBSET Places, NEW taking \in Takings,
         seat' = Becomes(S, taking), UNCHANGED game,
         taking = "free" => ~game
  PROVE  Inv'
<1>1. TypeOK'
  BY DEF Inv, TypeOK, Becomes, Takings
<1>2. AllPlay'
  <2>1. SUFFICES ASSUME game, NEW p \in Places PROVE seat'[p] # "free"
    BY DEF AllPlay, Taken
  <2>2. seat[p] # "free"
    BY <2>1 DEF Inv, AllPlay, Taken
  <2>3. QED BY <2>1, <2>2 DEF Becomes, Takings
<1>3. QED BY <1>1, <1>2 DEF Inv

LEMMA StepInv == Inv /\ [Next]_seats => Inv'
<1>1. SUFFICES ASSUME Inv, [Next]_seats PROVE Inv'
  OBVIOUS
<1>2. ASSUME NEW p \in Places, Sit(p) PROVE Inv'
  <2>1. {p} \in SUBSET Places /\ "here" \in Takings
    BY DEF Takings
  <2>2. QED BY <1>1, <1>2, <2>1, SeatSteps DEF Sit
<1>3. ASSUME NEW p \in Places, Return(p) PROVE Inv'
  <2>1. {p} \in SUBSET Places /\ "here" \in Takings
    BY DEF Takings
  <2>2. QED BY <1>1, <1>3, <2>1, SeatSteps DEF Return
<1>4. ASSUME NEW S \in SUBSET Places, Drop(S) PROVE Inv'
  <2>1. "absent" \in Takings
    BY DEF Takings
  <2>2. QED BY <1>1, <1>4, <2>1, SeatSteps DEF Drop
<1>5. ASSUME NEW S \in SUBSET Places, Leave(S) PROVE Inv'
  <2>1. "free" \in Takings
    BY DEF Takings
  <2>2. QED BY <1>1, <1>5, <2>1, SeatSteps DEF Leave
<1>6. CASE Start
  <2>1. \A p \in Places : seat[p] # "free"
    BY <1>6 DEF Start, Complete, Which
  <2>2. QED BY <1>1, <1>6, <2>1 DEF Inv, TypeOK, AllPlay, Taken, Start
<1>7. CASE End
  BY <1>1, <1>7 DEF Inv, TypeOK, AllPlay, Taken, End
<1>8. CASE Restart
  <2>1. PICK kept \in SUBSET Places :
          /\ seat' = [p \in Places |-> IF p \in kept THEN "restored" ELSE "free"]
          /\ game' \in BOOLEAN
          /\ game => Taken(seat) \ kept = {}
          /\ ~game /\ game' => Complete /\ Taken(seat) \ kept = {}
    BY <1>8 DEF Restart
  <2>2. TypeOK'
    BY <2>1 DEF TypeOK, Takings
  <2>3. ASSUME game' PROVE Taken(seat) = Places /\ Places \subseteq kept
    <3>1. Complete => Taken(seat) = Places
      BY DEF Complete, Which, Taken
    <3>2. Taken(seat) = Places
      BY <1>1, <2>1, <2>3, <3>1 DEF Inv, AllPlay
    <3>3. QED BY <2>1, <2>3, <3>2
  <2>4. AllPlay'
    BY <2>1, <2>3 DEF AllPlay, Taken
  <2>5. QED BY <2>2, <2>4 DEF Inv
<1>9. CASE UNCHANGED seats
  BY <1>1, <1>9 DEF Inv, TypeOK, AllPlay, Taken, seats
<1>10. QED BY <1>1, <1>2, <1>3, <1>4, <1>5, <1>6, <1>7, <1>8, <1>9 DEF Next

(* While a game is played, all the seats are taken.                        *)
THEOREM GamesPlayed == Spec => []AllPlay
<1>1. Inv => AllPlay
  BY DEF Inv
<1>2. QED BY InitInv, StepInv, <1>1, PTL DEF Spec

(* A player loses his seat only while no game is played and after he has   *)
(* come back to it.                                                        *)
LEMMA SeatLost ==
  ASSUME TypeOK, Next, NEW p \in Places, seat[p] # "free", seat'[p] = "free"
  PROVE  ~game /\ seat[p] # "restored"
<1>1. ASSUME NEW S \in SUBSET Places, Leave(S) PROVE p \in S
  BY <1>1 DEF Leave, Becomes, TypeOK
<1>2. ASSUME NEW S \in SUBSET Places, Leave(S) PROVE ~game /\ seat[p] # "restored"
  BY <1>1, <1>2 DEF Leave, Which
<1>3. ASSUME NEW q \in Places, Sit(q) \/ Return(q) PROVE FALSE
  BY <1>3 DEF Sit, Return, Becomes, TypeOK
<1>4. ASSUME NEW S \in SUBSET Places, Drop(S) PROVE FALSE
  BY <1>4 DEF Drop, Becomes, TypeOK
<1>5. ASSUME Start \/ End PROVE FALSE
  BY <1>5 DEF Start, End
<1>6. CASE Restart
  <2>1. PICK kept \in SUBSET Places :
          /\ seat' = [q \in Places |-> IF q \in kept THEN "restored" ELSE "free"]
          /\ game => Taken(seat) \ kept = {}
          /\ Taken(seat) \ kept \subseteq Which({"here", "absent"})
    BY <1>6 DEF Restart
  <2>2. p \in Taken(seat) \ kept
    BY <2>1 DEF Taken
  <2>3. QED BY <2>1, <2>2 DEF Which
<1>7. QED BY <1>2, <1>3, <1>4, <1>5, <1>6 DEF Next

(* Whatever the process does, crashes included, a seat is only taken from  *)
(* a player who is back and not in a game.                                 *)
THEOREM SeatsKept == Spec => SeatKept
<1>1. Inv /\ [Next]_seats =>
        [\A p \in Places :
           seat[p] # "free" /\ seat'[p] = "free" => ~game /\ seat[p] # "restored"]_seats
  <2>1. SUFFICES ASSUME Inv, Next, NEW p \in Places, seat[p] # "free", seat'[p] = "free"
                 PROVE  ~game /\ seat[p] # "restored"
    OBVIOUS
  <2>2. QED BY <2>1, SeatLost DEF Inv
<1>2. QED BY InitInv, StepInv, <1>1, PTL DEF Spec, SeatKept
=============================================================================
