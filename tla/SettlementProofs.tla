-------------------------- MODULE SettlementProofs --------------------------
(***************************************************************************)
(* What Settlement promises for every base money, fee and account: TLC     *)
(* checks the same properties on a few amounts.                            *)
(***************************************************************************)
EXTENDS Settlement, TLAPS

(* The scores of a game's bombs cancel out, and there are none where bombs *)
(* cost nothing or are not played.                                         *)
ScoresCancel ==
  /\ Total(score) = 0
  /\ HighStake => \A s \in Seat : score[s] = 0
  /\ MaxBombs = 0 => \A s \in Seat : score[s] = 0

IInv == TypeOK /\ ScoresCancel

(* The amounts of a settlement are integers, and nobody owes less than 0.  *)
LEMMA OwedNat ==
  ASSUME base \in Nat, NEW s \in Seat, NEW w \in Seat, NEW cards \in Nat, NEW bird
  PROVE  Owed(s, w, cards, bird) \in Nat
<1>1. cards * base \in Nat  OBVIOUS
<1>2. cards * base * 2 \in Nat  BY <1>1
<1>3. \A n \in Nat : 2 * n \in Nat  OBVIOUS
<1>. QED  BY <1>1, <1>2, <1>3 DEF Owed

LEMMA SeatCases == Seat = IF NP = 3 THEN {0, 1, 2} ELSE {0, 1}
<1>1. CASE NP = 3  BY <1>1 DEF Seat
<1>2. CASE NP = 2  BY <1>2 DEF Seat
<1>. QED  BY <1>1, <1>2, PlayersAssumption

LEMMA TotalInt == \A f \in [Seat -> Int] : Total(f) \in Int
BY SeatCases DEF Total

(* Every step preserves the types and keeps the scores of bombs balanced.  *)
LEMMA BombsCancel ==
  ASSUME IInv, NEW s \in Seat, PlayBomb(s) PROVE IInv'
<1>1. BombMoney \in Int /\ (HighStake => BombMoney = 0)
  BY DEF BombMoney, IInv, TypeOK
<1>2. BombMoney * (NP - 1) \in Int
  BY <1>1, PlayersAssumption
<1>3. score' \in [Seat -> Int]
  BY <1>1, <1>2 DEF PlayBomb, IInv, TypeOK
<1>4. TypeOK'
  BY <1>3 DEF PlayBomb, IInv, TypeOK
<1>5. Total(score') = 0
  <2>1. CASE NP = 3
    <3>1. \A r \in Seat : score'[r] = score[r] + (IF r = s THEN BombMoney * 2 ELSE 0 - BombMoney)
      BY <2>1 DEF PlayBomb
    <3>. QED  BY <2>1, <3>1, <1>1, SeatCases DEF IInv, TypeOK, ScoresCancel, Total
  <2>2. CASE NP = 2
    <3>1. \A r \in Seat : score'[r] = score[r] + (IF r = s THEN BombMoney * 1 ELSE 0 - BombMoney)
      BY <2>2 DEF PlayBomb
    <3>. QED  BY <2>2, <3>1, <1>1, SeatCases DEF IInv, TypeOK, ScoresCancel, Total
  <2>. QED  BY <2>1, <2>2, PlayersAssumption
<1>6. HighStake' => \A r \in Seat : score'[r] = 0
  BY <1>1, <1>2, PlayersAssumption DEF PlayBomb, IInv, TypeOK, ScoresCancel, HighStake
<1>7. MaxBombs # 0
  BY BoundsAssumption DEF PlayBomb, IInv, TypeOK
<1>. QED  BY <1>4, <1>5, <1>6, <1>7 DEF IInv, ScoresCancel

(* The raw amounts of a settlement are integers, and cancel out.           *)
LEMMA RawType ==
  ASSUME IInv, NEW w \in Seat, NEW left \in Lefts(w), NEW bird
  PROVE  /\ Raw(w, left, bird) \in [Seat -> Int]
         /\ \A s \in Seat : s # w => Raw(w, left, bird)[s] <= score[s]
<1> DEFINE owed == [s \in Seat |-> IF s = w THEN 0 ELSE Owed(s, w, left[s], bird)]
<1>1. \A s \in Seat : left[s] \in Nat
  BY MoneyAssumption DEF Lefts
<1>2. owed \in [Seat -> Nat]
  BY <1>1, OwedNat DEF IInv, TypeOK
<1>3. Total(owed) \in Int
  BY <1>2, TotalInt
<1>4. score \in [Seat -> Int]
  BY DEF IInv, TypeOK
<1>5. Raw(w, left, bird) = [s \in Seat |-> score[s] + (IF s = w THEN Total(owed) ELSE 0 - owed[s])]
  BY DEF Raw
<1> HIDE DEF owed
<1>. QED  BY <1>2, <1>3, <1>4, <1>5

LEMMA RawCancels ==
  ASSUME IInv, NEW w \in Seat, NEW left \in Lefts(w), NEW bird
  PROVE  Total(Raw(w, left, bird)) = 0
<1> DEFINE owed == [s \in Seat |-> IF s = w THEN 0 ELSE Owed(s, w, left[s], bird)]
<1>1. \A s \in Seat : left[s] \in Nat
  BY MoneyAssumption DEF Lefts
<1>2. owed \in [Seat -> Nat] /\ owed[w] = 0
  BY <1>1, OwedNat DEF IInv, TypeOK
<1>3. score \in [Seat -> Int] /\ Total(score) = 0
  BY DEF IInv, TypeOK, ScoresCancel
<1>4. Raw(w, left, bird) = [s \in Seat |-> score[s] + (IF s = w THEN Total(owed) ELSE 0 - owed[s])]
  BY DEF Raw
<1> HIDE DEF owed
<1>5. CASE NP = 3
  BY <1>2, <1>3, <1>4, <1>5, SeatCases DEF Total
<1>6. CASE NP = 2
  BY <1>2, <1>3, <1>4, <1>6, SeatCases DEF Total
<1>. QED  BY <1>5, <1>6, PlayersAssumption

(* A capped amount takes nothing that the seat does not have.              *)
LEMMA CappedBounds ==
  ASSUME NEW raw \in [Seat -> Int], NEW has \in [Seat -> Int]
  PROVE  /\ Capped(raw, has) \in [Seat -> Int]
         /\ \A s \in Seat :
              /\ raw[s] <= Capped(raw, has)[s]
              /\ raw[s] >= 0 => Capped(raw, has)[s] = raw[s]
              /\ raw[s] <= 0 => Capped(raw, has)[s] <= 0
              /\ has[s] + Capped(raw, has)[s] >= 0 \/ Capped(raw, has)[s] >= 0
BY DEF Capped

(* Balancing takes from who wins, at most what he wins.                    *)
LEMMA BalancedBounds ==
  ASSUME NEW capped \in [Seat -> Int], NEW missing \in Nat, NEW w \in Seat
  PROVE  /\ Balanced(capped, missing, w) \in [Seat -> Int]
         /\ \A s \in Seat :
              /\ capped[s] <= 0 => Balanced(capped, missing, w)[s] = capped[s]
              /\ capped[s] >= 0 => Balanced(capped, missing, w)[s] >= 0
BY DEF Balanced

LEMMA TotalOrder ==
  ASSUME NEW f \in [Seat -> Int], NEW g \in [Seat -> Int], \A s \in Seat : f[s] <= g[s]
  PROVE  Total(g) - Total(f) \in Nat
BY SeatCases, PlayersAssumption DEF Total

LEMMA AdjustedBounds ==
  ASSUME NEW raw \in [Seat -> Int], NEW has \in [Seat -> Int], NEW w \in Seat,
         NEW capped, capped = Capped(raw, has),
         NEW missing, missing = Total(capped) - Total(raw),
         NEW use, use = Balanced(capped, missing, w)
  PROVE  /\ use \in [Seat -> Int]
         /\ \A s \in Seat : has[s] + use[s] >= 0 \/ use[s] >= 0
         /\ \A s \in Seat : raw[s] >= 0 => use[s] >= 0
<1>1. /\ capped \in [Seat -> Int]
      /\ \A s \in Seat : raw[s] <= capped[s]
      /\ \A s \in Seat : raw[s] >= 0 => capped[s] = raw[s]
      /\ \A s \in Seat : has[s] + capped[s] >= 0 \/ capped[s] >= 0
  BY CappedBounds
<1>2. missing \in Nat
  BY <1>1, TotalOrder
<1>3. /\ use \in [Seat -> Int]
      /\ \A s \in Seat : capped[s] <= 0 => use[s] = capped[s]
      /\ \A s \in Seat : capped[s] >= 0 => use[s] >= 0
  BY <1>1, <1>2, BalancedBounds
<1>. QED  BY <1>1, <1>3

LEMMA UseMoneyBounds ==
  ASSUME IInv, NEW w \in Seat, NEW left \in Lefts(w), NEW bird, NEW has \in [Seat -> Int],
         NEW use, use = UseMoney(w, left, bird, has)
  PROVE  /\ use \in [Seat -> Int]
         /\ \A s \in Seat : has[s] + use[s] >= 0 \/ use[s] >= 0
         /\ \A s \in Seat : Raw(w, left, bird)[s] >= 0 => use[s] >= 0
BY RawType, AdjustedBounds DEF UseMoney

(* When one seat at most wins, it pays all that the others could not pay.  *)
LEMMA AdjustedTotal ==
  ASSUME NEW raw \in [Seat -> Int], NEW has \in [Seat -> Int], NEW w \in Seat,
         NEW capped, capped = Capped(raw, has),
         NEW missing, missing = Total(capped) - Total(raw),
         NEW use, use = Balanced(capped, missing, w),
         NEW p \in Seat, \A s \in Seat : s # p => raw[s] <= 0,
         Total(raw) = 0
  PROVE  use \in [Seat -> Int] /\ Total(use) = 0
<1>1. /\ capped \in [Seat -> Int]
      /\ \A s \in Seat : raw[s] <= capped[s]
      /\ \A s \in Seat : raw[s] >= 0 => capped[s] = raw[s]
      /\ \A s \in Seat : raw[s] <= 0 => capped[s] <= 0
  BY CappedBounds
<1>2. missing \in Nat /\ missing = Total(capped)
  <2>1. missing \in Nat  BY <1>1, TotalOrder
  <2>. QED  BY <1>1, <2>1, TotalInt
<1>3. use \in [Seat -> Int]
  BY <1>1, <1>2, BalancedBounds
<1>4. \A s \in Seat : s # p => capped[s] <= 0
  BY <1>1
<1>5. capped[p] >= missing
  BY <1>1, <1>2, <1>4, SeatCases, PlayersAssumption DEF Total
<1>6. CASE missing = 0
  <2>1. use = capped
    BY <1>1, <1>6 DEF Balanced
  <2>. QED  BY <1>2, <1>3, <1>6, <2>1
<1>7. CASE missing # 0
  <2>1. capped[p] > 0
    BY <1>1, <1>2, <1>5, <1>7
  <2>2. use[p] = capped[p] - missing
    <3>1. (p - w - 1) % NP \in Int
      BY PlayersAssumption DEF Seat
    <3>2. \A r \in Seat : ~(capped[r] > 0 /\ (r - w - 1) % NP < (p - w - 1) % NP)
      BY <1>1, <1>4, <3>1
    <3>. QED  BY <1>1, <1>2, <1>5, <1>7, <2>1, <3>2 DEF Balanced
  <2>3. \A s \in Seat : s # p => use[s] = capped[s]
    BY <1>1, <1>4 DEF Balanced
  <2>4. Total(use) = Total(capped) - missing
    <3>1. \A s \in Seat : use[s] = IF s = p THEN capped[s] - missing ELSE capped[s]
      BY <2>2, <2>3
    <3>2. CASE NP = 3
      <4>1. Seat = {0, 1, 2} /\ p \in {0, 1, 2}
        BY <3>2, SeatCases
      <4>2. capped[0] \in Int /\ capped[1] \in Int /\ capped[2] \in Int /\ missing \in Int
        BY <1>1, <1>2, <4>1
      <4>3. Total(use) = use[0] + use[1] + use[2] /\ Total(capped) = capped[0] + capped[1] + capped[2]
        BY <3>2 DEF Total
      <4>. QED  BY <3>1, <4>1, <4>2, <4>3
    <3>3. CASE NP = 2
      <4>1. Seat = {0, 1} /\ p \in {0, 1}
        BY <3>3, SeatCases
      <4>2. capped[0] \in Int /\ capped[1] \in Int /\ missing \in Int
        BY <1>1, <1>2, <4>1
      <4>3. Total(use) = use[0] + use[1] + 0 /\ Total(capped) = capped[0] + capped[1] + 0
        BY <3>3 DEF Total
      <4>. QED  BY <3>1, <4>1, <4>2, <4>3
    <3>. QED  BY <3>2, <3>3, PlayersAssumption
  <2>. QED  BY <1>1, <1>2, <1>3, <2>4, TotalInt
<1>. QED  BY <1>3, <1>6, <1>7

LEMMA UseMoneyCancels ==
  ASSUME IInv, NEW w \in Seat, NEW left \in Lefts(w), NEW bird, NEW has \in [Seat -> Int],
         NEW use, use = UseMoney(w, left, bird, has),
         NP = 2 \/ MaxBombs = 0
  PROVE  use \in [Seat -> Int] /\ Total(use) = 0
<1>1. PICK raw \in [Seat -> Int] :
        /\ raw = Raw(w, left, bird)
        /\ \A s \in Seat : s # w => raw[s] <= score[s]
  BY RawType
<1>2. Total(raw) = 0
  BY <1>1, RawCancels
<1>3. \E p \in Seat : \A s \in Seat : s # p => raw[s] <= 0
  <2>1. CASE NP = 2
    BY <1>1, <1>2, <2>1, SeatCases DEF Total
  <2>2. CASE MaxBombs = 0
    BY <1>1, <2>2 DEF IInv, ScoresCancel
  <2>. QED  BY <2>1, <2>2
<1>. QED  BY <1>1, <1>2, <1>3, AdjustedTotal DEF UseMoney

(* The accounts that GameEnd leaves.                                       *)
LEMMA GameEndAccounts ==
  ASSUME IInv, NEW w \in Seat, NEW left \in Lefts(w), NEW bird, GameEnd(w, left, bird)
  PROVE  \E use \in [Seat -> Int] :
           /\ account' = [s \in Seat |-> account[s] - Fee + use[s]]
           /\ account' \in [Seat -> Int]
           /\ \A s \in Seat : account[s] - Fee + use[s] >= 0 \/ use[s] >= 0
           /\ \A s \in Seat : Raw(w, left, bird)[s] >= 0 => use[s] >= 0
           /\ NP = 2 \/ MaxBombs = 0 => Total(use) = 0
<1> DEFINE has == [s \in Seat |-> account[s] - Fee]
           use == UseMoney(w, left, bird, has)
<1>1. account \in [Seat -> Int] /\ Fee \in Int
  BY MoneyAssumption DEF IInv, TypeOK
<1>2. has \in [Seat -> Int] /\ \A s \in Seat : has[s] = account[s] - Fee
  BY <1>1
<1>3. account' = [s \in Seat |-> has[s] + use[s]]
  BY DEF GameEnd
<1> HIDE DEF has
<1>4. /\ use \in [Seat -> Int]
      /\ \A s \in Seat : has[s] + use[s] >= 0 \/ use[s] >= 0
      /\ \A s \in Seat : Raw(w, left, bird)[s] >= 0 => use[s] >= 0
  BY <1>2, UseMoneyBounds
<1>5. NP = 2 \/ MaxBombs = 0 => Total(use) = 0
  BY <1>2, UseMoneyCancels
<1> HIDE DEF use
<1>6. account' = [s \in Seat |-> account[s] - Fee + use[s]] /\ account' \in [Seat -> Int]
  BY <1>1, <1>2, <1>3, <1>4
<1>7. \A s \in Seat : account[s] - Fee + use[s] >= 0 \/ use[s] >= 0
  BY <1>2, <1>4
<1>. QED  BY <1>4, <1>5, <1>6, <1>7

-----------------------------------------------------------------------------
(* The invariant, and the theorems.                                        *)

(* No scores cancel out.                                                   *)
LEMMA Zeros == score' = [s \in Seat |-> 0] => ScoresCancel'
BY SeatCases, PlayersAssumption DEF ScoresCancel, Total

LEMMA Inductive == IInv /\ [Next]_vars => IInv'
<1> SUFFICES ASSUME IInv, [Next]_vars PROVE IInv'
  OBVIOUS
<1> USE DEF IInv, TypeOK, ScoresCancel, HighStake
<1>0. Total([s \in Seat |-> 0]) = 0 /\ [s \in Seat |-> 0] \in [Seat -> Int]
  BY SeatCases, PlayersAssumption DEF Total
<1>1. CASE GameStart
  BY <1>0, <1>1 DEF GameStart
<1>2. ASSUME NEW s \in Seat, PlayBomb(s) PROVE IInv'
  BY <1>2, BombsCancel
<1>3. ASSUME NEW s \in Seat, Pay(s) PROVE IInv'
  BY <1>3, MoneyAssumption DEF Pay
<1>4. ASSUME NEW s \in Seat, handle_recharge(s) PROVE IInv'
  BY <1>4 DEF handle_recharge
<1>5. ASSUME NEW s \in Seat, NEW count \in 1..2, handle_forward(s, count) PROVE IInv'
  <2>1. count * PhotoPrice \in Int  BY DEF PhotoPrice
  <2>. QED  BY <1>5, <2>1 DEF handle_forward
<1>6. ASSUME NEW w \in Seat, NEW left \in Lefts(w), NEW bird \in Birds, GameEnd(w, left, bird)
      PROVE IInv'
  <2>1. account' \in [Seat -> Int]
    BY <1>6, GameEndAccounts
  <2>2. known' \in [Seat -> Int] /\ score' = [s \in Seat |-> 0]
    BY <1>6, <2>1 DEF GameEnd
  <2>3. TypeOK'
    <3>1. base' \in Nat /\ playing' \in BOOLEAN /\ bombs' \in Nat
      BY ZenonT(60), <1>6 DEF GameEnd
    <3>2. games' \in Nat /\ extras' \in Nat
      BY <1>6 DEF GameEnd
    <3>3. score' \in [Seat -> Int]
      BY <2>2
    <3>. QED  BY <2>1, <2>2, <3>1, <3>2, <3>3
  <2>4. ScoresCancel'
    BY <2>2, Zeros
  <2>. QED  BY <2>3, <2>4
<1>7. ASSUME NEW s \in Seat, GameEndSpecial(s) PROVE IInv'
  <2>1. Penalty(s) \in Int  BY DEF Penalty
  <2>2. account' \in [Seat -> Int]
    BY <1>7, <2>1 DEF GameEndSpecial
  <2>3. known' \in [Seat -> Int] /\ score' = [r \in Seat |-> 0]
    BY <1>7, <2>2 DEF GameEndSpecial
  <2>4. TypeOK'
    <3>1. base' = base /\ playing' = FALSE /\ bombs' = 0
      BY <1>7 DEF GameEndSpecial
    <3>2. games' \in Nat /\ extras' \in Nat
      BY <1>7 DEF GameEndSpecial
    <3>3. score' \in [Seat -> Int]
      BY <2>3
    <3>. QED  BY ZenonT(60), <2>2, <2>3, <3>1, <3>2, <3>3
  <2>5. ScoresCancel'
    BY <2>3, Zeros
  <2>. QED  BY <2>4, <2>5
<1>8. CASE UNCHANGED vars
  BY <1>8 DEF vars, Total
<1>. QED
  BY <1>1, <1>2, <1>3, <1>4, <1>5, <1>6, <1>7, <1>8 DEF Next, Ends

LEMMA Initially == Init => IInv
<1> SUFFICES ASSUME Init PROVE IInv
  OBVIOUS
<1>1. TypeOK
  <2>1. account \in [Seat -> Int]
    BY MoneyAssumption DEF Init
  <2>2. score \in [Seat -> Int]
    BY DEF Init
  <2>3. playing \in BOOLEAN /\ bombs \in Nat /\ games \in Nat /\ extras \in Nat
    BY DEF Init
  <2>4. known \in [Seat -> Int]
    BY <2>1 DEF Init
  <2>5. base \in Nat
    BY MoneyAssumption DEF Init
  <2>. QED  BY <2>1, <2>2, <2>3, <2>4, <2>5 DEF TypeOK
<1>2. ScoresCancel
  BY SeatCases, PlayersAssumption DEF Init, ScoresCancel, Total
<1>. QED  BY <1>1, <1>2 DEF IInv

(* Accounts, remembered amounts and scores are integers, for all amounts.  *)
THEOREM Typed == Spec => []TypeOK
<1>1. IInv => TypeOK  BY DEF IInv
<1>. QED  BY <1>1, Initially, Inductive, PTL DEF Spec

(* A step that settles a game is one of the two ends of a game.            *)
LEMMA Settlers ==
  ASSUME IInv, [Next]_vars, Settles
  PROVE  \/ \E w \in Seat : \E left \in Lefts(w), bird \in Birds : GameEnd(w, left, bird)
         \/ \E s \in Seat : GameEndSpecial(s)
<1>1. ~GameStart  BY DEF Settles, GameStart
<1>2. \A s \in Seat : ~PlayBomb(s) /\ ~Pay(s) /\ ~handle_recharge(s)
  BY DEF Settles, PlayBomb, Pay, handle_recharge
<1>3. \A s \in Seat, count \in 1..2 : ~handle_forward(s, count)
  BY DEF Settles, handle_forward
<1>4. ~UNCHANGED vars  BY DEF Settles, vars
<1>. QED  BY <1>1, <1>2, <1>3, <1>4 DEF Next, Ends

(* Who runs pays the other what he loses, and bombs cost nothing.          *)
LEMMA SpecialAccounts ==
  ASSUME IInv, NEW s \in Seat, GameEndSpecial(s)
  PROVE  /\ NP = 2 /\ Seat = {0, 1}
         /\ account[0] \in Int /\ account[1] \in Int
         /\ account'[0] + account'[1] = account[0] + account[1]
         /\ \A r \in Seat : account'[r] >= 0 \/ account'[r] >= account[r]
<1>1. NP = 2 /\ Seat = {0, 1}
  BY SeatCases DEF GameEndSpecial
<1>2. account[0] \in Int /\ account[1] \in Int /\ score[0] = 0 /\ score[1] = 0
  BY <1>1 DEF IInv, TypeOK, ScoresCancel, GameEndSpecial
<1>3. /\ Penalty(s) \in Nat
      /\ Penalty(s) # 0 => s = 0 /\ account[0] >= Penalty(s)
  BY DEF Penalty, IInv, TypeOK
<1>4. \A r \in Seat : account'[r] = account[r] + score[r] +
                     IF r = s THEN 0 - Penalty(s) ELSE Penalty(s)
  BY DEF GameEndSpecial
<1>5. account'[0] = account[0] + (IF s = 0 THEN 0 - Penalty(s) ELSE Penalty(s))
  BY <1>1, <1>2, <1>3, <1>4
<1>6. account'[1] = account[1] + (IF s = 1 THEN 0 - Penalty(s) ELSE Penalty(s))
  BY <1>1, <1>2, <1>3, <1>4
<1>. QED  BY <1>1, <1>2, <1>3, <1>5, <1>6

(* No settlement takes an account below zero by more than the fee, for any *)
(* base money, bombs and accounts.                                         *)
THEOREM NeverOverdrawn == Spec => NoOverdraft
<1> DEFINE Kept == Settles => \A s \in Seat : account'[s] >= 0 \/ account'[s] >= account[s] - Fee
<1>1. ASSUME IInv, [Next]_vars, Settles, NEW s \in Seat
      PROVE  account'[s] >= 0 \/ account'[s] >= account[s] - Fee
  <2>1. account[s] \in Int /\ Fee \in Nat
    BY <1>1, MoneyAssumption DEF IInv, TypeOK
  <2>2. ASSUME NEW w \in Seat, NEW left \in Lefts(w), NEW bird, GameEnd(w, left, bird)
        PROVE  account'[s] >= 0 \/ account'[s] >= account[s] - Fee
    <3>1. PICK use \in [Seat -> Int] :
            /\ account' = [r \in Seat |-> account[r] - Fee + use[r]]
            /\ \A r \in Seat : account[r] - Fee + use[r] >= 0 \/ use[r] >= 0
      BY <1>1, <2>2, GameEndAccounts
    <3>. QED  BY <2>1, <3>1
  <2>3. ASSUME NEW r \in Seat, GameEndSpecial(r)
        PROVE  account'[s] >= 0 \/ account'[s] >= account[s] - Fee
    <3>1. account'[s] >= 0 \/ account'[s] >= account[s]
      BY <1>1, <2>3, SpecialAccounts
    <3>2. account'[s] \in Int
      BY <1>1, Inductive DEF IInv, TypeOK
    <3>. QED  BY <2>1, <3>1, <3>2
  <2>. QED  BY <1>1, <2>2, <2>3, Settlers
<1>2. IInv /\ [Next]_vars => [Kept]_vars
  BY <1>1
<1>. QED  BY <1>2, Initially, Inductive, PTL DEF Spec, NoOverdraft

(* Balancing is paid by those who win: whom the cards and the bombs of the *)
(* game owe nothing pays the fee at most, for two players and for three.   *)
THEOREM WinnersSpared == Spec => WinnersDoNotPay
<1>1. ASSUME IInv, NEW w \in Seat, NEW left \in Lefts(w), NEW bird \in Birds,
             GameEnd(w, left, bird), NEW s \in Seat, Raw(w, left, bird)[s] >= 0
      PROVE  account'[s] >= account[s] - Fee
  <2>1. PICK use \in [Seat -> Int] :
          /\ account' = [r \in Seat |-> account[r] - Fee + use[r]]
          /\ \A r \in Seat : Raw(w, left, bird)[r] >= 0 => use[r] >= 0
    BY <1>1, GameEndAccounts
  <2>2. account[s] \in Int /\ Fee \in Int
    BY <1>1, MoneyAssumption DEF IInv, TypeOK
  <2>3. use[s] >= 0 /\ use[s] \in Int /\ account'[s] = account[s] - Fee + use[s]
    BY <1>1, <2>1
  <2>. QED  BY <2>2, <2>3
<1>2. IInv /\ [Next]_vars => [WinnersPayNothing]_vars
  BY <1>1 DEF WinnersPayNothing
<1>. QED  BY <1>2, Initially, Inductive, PTL DEF Spec, WinnersDoNotPay

(* Two players, or players without bombs, keep what they have between them *)
(* but for the fees, whatever a loser cannot pay.  With three players and  *)
(* bombs this is false.                                                    *)
THEOREM TwoConserve == NP = 2 \/ MaxBombs = 0 => (Spec => Conserved)
<1> SUFFICES ASSUME NP = 2 \/ MaxBombs = 0 PROVE Spec => Conserved
  OBVIOUS
<1> DEFINE Kept == Settles => Total(account') \in {Total(account) - NP * Fee, Total(account)}
<1>1. ASSUME IInv, [Next]_vars, Settles
      PROVE  Total(account') \in {Total(account) - NP * Fee, Total(account)}
  <2>1. account \in [Seat -> Int] /\ Fee \in Int
    BY <1>1, MoneyAssumption DEF IInv, TypeOK
  <2>2. ASSUME NEW w \in Seat, NEW left \in Lefts(w), NEW bird, GameEnd(w, left, bird)
        PROVE  Total(account') = Total(account) - NP * Fee
    <3>1. PICK use \in [Seat -> Int] :
            /\ account' = [r \in Seat |-> account[r] - Fee + use[r]]
            /\ Total(use) = 0
      BY <1>1, <2>2, GameEndAccounts
    <3>2. CASE NP = 3
      BY <2>1, <3>1, <3>2, SeatCases DEF Total
    <3>3. CASE NP = 2
      BY <2>1, <3>1, <3>3, SeatCases DEF Total
    <3>. QED  BY <3>2, <3>3, PlayersAssumption
  <2>3. ASSUME NEW r \in Seat, GameEndSpecial(r)
        PROVE  Total(account') = Total(account)
    <3>1. /\ NP = 2 /\ account'[0] + account'[1] = account[0] + account[1]
          /\ account[0] \in Int /\ account[1] \in Int
      BY <1>1, <2>3, SpecialAccounts
    <3>2. account' \in [Seat -> Int] /\ 0 \in Seat /\ 1 \in Seat
      BY <1>1, <3>1, Inductive, SeatCases DEF IInv, TypeOK
    <3>. QED  BY <3>1, <3>2 DEF Total
  <2>. QED  BY <1>1, <2>2, <2>3, Settlers
<1>2. IInv /\ [Next]_vars => [Kept]_vars
  BY <1>1
<1>. QED  BY <1>2, Initially, Inductive, PTL DEF Spec, Conserved
=============================================================================
