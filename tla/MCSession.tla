----------------------------- MODULE MCSession -----------------------------
(***************************************************************************)
(* The server with accounts that log in on several connections.  Which     *)
(* account and which connection it is makes no difference.                 *)
(***************************************************************************)
EXTENDS Session, TLC

FourObjs == 1..4
ServerRoom == {0}
AllRooms == {0, 1}
Twos == {2}
TwosAndThrees == {2, 3}

Same == Permutations(Users) \cup Permutations(Conns)
=============================================================================
