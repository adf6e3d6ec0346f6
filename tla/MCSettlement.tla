---------------------------- MODULE MCSettlement ----------------------------
(* The amounts with which TLC checks Settlement.                           *)
EXTENDS Settlement

(* A table where bombs are paid, and one where a player may run.           *)
LowStake == {1}
BothStakes == {1, 10000}

(* Players who have nothing, less than a hand may cost, and enough; at the *)
(* high stake, also just as much as the penalty, which a fee brings below. *)
TwoStarts == {0, 5, 30, 10000}

(* A little less than two bombs cost, and more.                            *)
LossStarts == {13, 40}
=============================================================================
