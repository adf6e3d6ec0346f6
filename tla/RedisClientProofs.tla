------------------------- MODULE RedisClientProofs -------------------------
(***************************************************************************)
(* The redis client, for any number of calls, faults, errors and outages.  *)
(***************************************************************************)
EXTENDS RedisClient, TLAPS

(* A command takes one round, and its caller has tries left.               *)
OneRound == call.retry = 2 /\ (call.times = 1 => call.op \in {"save", "push"})

(* While no server was away, every try that was lost and every connection  *)
(* that is dead has had a fault of its own.                                *)
Accounted ==
  outages = 0 =>
    /\ \A d \in Databases : reach[d] /\ (link[d] = "dead" => faults >= 1)
    /\ call.busy => call.times <= faults + errors
    /\ call.busy /\ link[Db(call.op)] = "dead" => call.times + 1 <= faults + errors

Inv == TypeOK /\ OneRound /\ Accounted /\ MoneyKnown /\ WritesKept /\ OneLossMasked

-----------------------------------------------------------------------------
LEMMA DbTyped == ASSUME NEW op \in Ops PROVE Db(op) \in Databases
BY DEF Ops, Db, Databases

(* The operators on what is stored and known, case by case.                *)
LEMMA ExecutedTyped ==
  ASSUME TypeOK, NEW op \in Ops PROVE Executed(store, op) \in Store
<1>1. store \in Store /\ known \in Known /\ Amount(op) \in Int
  BY DEF TypeOK, Amount
<1>2. CASE op = "save"
  BY <1>1, <1>2 DEF Executed, Store, Known
<1>3. CASE op = "push"
  BY <1>1, <1>3 DEF Executed, Store
<1>4. CASE op \in Bookings
  <2>1. Executed(store, op) = [store EXCEPT !.money = @ + Amount(op)]
    BY <1>4 DEF Executed, Bookings
  <2>2. QED BY <1>1, <2>1 DEF Store
<1>5. CASE op \in {"read", "log"}
  BY <1>1, <1>5 DEF Executed, Bookings
<1>6. QED BY <1>2, <1>3, <1>4, <1>5 DEF Ops, Bookings

LEMMA HeardTyped ==
  ASSUME TypeOK, NEW op \in Ops PROVE Heard(known, op) \in Known
<1>1. /\ known \in Known /\ known.game \in Nat /\ known.pushed \in Nat /\ known.booked \in Int
      /\ store.money \in Int /\ Amount(op) \in Int
  BY DEF TypeOK, Amount, Known, Store
<1>2. CASE op = "save"
  <2>1. Heard(known, op) = [known EXCEPT !.saved = known.game]
    BY <1>2 DEF Heard, Bookings
  <2>2. QED BY <1>1, <2>1 DEF Known
<1>3. CASE op = "push"
  <2>1. Heard(known, op) = [known EXCEPT !.pushed = known.pushed + 1]
    BY <1>3 DEF Heard, Bookings
  <2>2. QED BY <1>1, <2>1 DEF Known
<1>4. ASSUME NEW x \in Int PROVE [[known EXCEPT !.cached = x] EXCEPT !.blank = FALSE] \in Known
  <2>. DEFINE k == [known EXCEPT !.cached = x]
  <2>1. k \in Known
    BY <1>1 DEF Known
  <2>. HIDE DEF k
  <2>2. [k EXCEPT !.blank = FALSE] \in Known
    BY <2>1 DEF Known
  <2>3. QED BY <2>2 DEF k
<1>5. CASE op \in Bookings
  <2>. DEFINE k == [[known EXCEPT !.cached = store.money + Amount(op)] EXCEPT !.blank = FALSE]
  <2>1. Heard(known, op) = [k EXCEPT !.booked = known.booked + Amount(op)]
    BY <1>5 DEF Heard, Bookings
  <2>2. store.money + Amount(op) \in Int
    BY <1>1
  <2>3. k \in Known
    BY <1>4, <2>2, Zenon
  <2>. HIDE DEF k
  <2>4. QED BY <1>1, <2>1, <2>3 DEF Known
<1>6. CASE op = "read"
  <2>1. Heard(known, op) = [[known EXCEPT !.cached = store.money] EXCEPT !.blank = FALSE]
    BY <1>6 DEF Heard, Bookings
  <2>2. QED BY <1>1, <1>4, <2>1
<1>7. CASE op = "log"
  BY <1>1, <1>7 DEF Heard, Bookings
<1>8. QED BY <1>2, <1>3, <1>5, <1>6, <1>7 DEF Ops, Bookings

LEMMA FailedTyped ==
  ASSUME NEW op \in Ops, NEW k \in Known PROVE Failed(k, op) \in Known
<1>1. CASE op = "read"
  <2>. DEFINE l == [k EXCEPT !.cached = 0]
  <2>1. Failed(k, op) = [l EXCEPT !.blank = TRUE]
    BY <1>1 DEF Failed, Bookings
  <2>2. l \in Known
    BY DEF Known
  <2>. HIDE DEF l
  <2>3. QED BY <2>1, <2>2 DEF Known
<1>2. CASE op \in Bookings
  <2>1. Failed(k, op) = [k EXCEPT !.unbooked = @ + 1]
    BY <1>2 DEF Failed, Bookings
  <2>2. QED BY <2>1 DEF Known
<1>3. CASE op \in {"save", "push", "log"}
  BY <1>3 DEF Failed, Bookings
<1>4. QED BY <1>1, <1>2, <1>3 DEF Ops, Bookings

LEMMA InitInv == Init => Inv
<1>1. SUFFICES ASSUME Init PROVE Inv
  OBVIOUS
<1>2. TypeOK
  BY <1>1, BoundsAssumption DEF Init, TypeOK, Call, Store, Known, Ops, Databases
<1>3. OneRound /\ Accounted /\ MoneyKnown /\ WritesKept /\ OneLossMasked
  BY <1>1 DEF Init, OneRound, Accounted, MoneyKnown, WritesKept, OneLossMasked, Databases, Db
<1>4. QED BY <1>2, <1>3 DEF Inv

(* The command that is executed and answered.                              *)
LEMMA AnswerInv == Inv /\ Answer => Inv'
<1>1. SUFFICES ASSUME Inv, Answer PROVE Inv'
  OBVIOUS
<1>2. PICK d \in Databases : d = Db(call.op) /\ link' = [link EXCEPT ![d] = "up"]
  BY <1>1, DbTyped DEF Answer, Inv, TypeOK, Call
<1>3. store' \in Store /\ known' \in Known
  BY <1>1, ExecutedTyped, HeardTyped DEF Answer, Inv, TypeOK, Call
<1>4. call' \in Call /\ OneRound'
  <2>1. CASE call.op \in Bookings
    <3>1. call' = [op |-> "log", busy |-> TRUE, times |-> 0, retry |-> 2]
      BY <1>1, <2>1 DEF Answer, Succeed, Retries
    <3>2. QED BY <3>1 DEF Call, Ops, OneRound
  <2>2. CASE call.op \notin Bookings
    <3>1. call' = [call EXCEPT !.busy = FALSE]
      BY <1>1, <2>2 DEF Answer, Succeed
    <3>2. QED BY <1>1, <3>1 DEF Inv, TypeOK, Call, OneRound
  <2>3. QED BY <2>1, <2>2
<1>5. TypeOK'
  BY <1>1, <1>2, <1>3, <1>4 DEF Answer, Inv, TypeOK, counters
<1>6. Accounted'
  <2>1. call'.busy => call'.times = 0 /\ call'.op = "log"
    BY <1>1 DEF Answer, Inv, TypeOK, Succeed, Call
  <2>2. QED BY <1>1, <1>2, <1>5, <2>1 DEF Answer, Inv, TypeOK, Accounted, counters, Db, Databases
<1>7. MoneyKnown'
  BY <1>1 DEF Answer, Inv, TypeOK, MoneyKnown, Executed, Heard, Amount, Bookings, Store, Known
<1>8. WritesKept'
  BY <1>1 DEF Answer, Inv, TypeOK, WritesKept, Executed, Heard, Bookings, Store, Known
<1>9. OneLossMasked'
  BY <1>1 DEF Answer, Inv, OneLossMasked, counters
<1>10. QED BY <1>4, <1>5, <1>6, <1>7, <1>8, <1>9 DEF Inv

(* A net error ends the command, since the count is 2.                     *)
LEMMA ErrorEnds ==
  ASSUME OneRound, NEW k, NetError(k) PROVE Return(k)
BY DEF OneRound, NetError, Return

(* What the end of a lost try leaves: k and st are what the process knows  *)
(* and what the servers hold when it ends.                                 *)
LEMMA ReturnTyped ==
  ASSUME TypeOK, OneRound, NEW k \in Known, Return(k)
  PROVE  call' \in Call /\ known' \in Known /\ gaveUp' \subseteq Ops /\ OneRound'
<1>1. call' \in Call /\ OneRound'
  <2>1. CASE call.times + 1 >= Tries(call.op)
    <3>1. call' = [call EXCEPT !.busy = FALSE]
      BY <2>1 DEF Return
    <3>2. QED BY <3>1 DEF TypeOK, Call, OneRound
  <2>2. CASE ~(call.times + 1 >= Tries(call.op))
    <3>1. call' = [call EXCEPT !.times = @ + 1, !.retry = 2]
      BY <2>2 DEF Return, Retries
    <3>2. call.op \in {"save", "push"} /\ call.times = 0
      BY <2>2 DEF TypeOK, Call, Tries
    <3>3. call' = [op |-> call.op, busy |-> call.busy, times |-> 1, retry |-> 2]
      <4>1. call = [op |-> call.op, busy |-> call.busy, times |-> 0, retry |-> call.retry]
        BY <3>2 DEF TypeOK, Call
      <4>2. call' = [call EXCEPT !.times = 1, !.retry = 2]
        BY <3>1, <3>2
      <4>3. QED BY <4>1, <4>2
    <3>4. QED BY <3>2, <3>3 DEF TypeOK, Call, OneRound
  <2>3. QED BY <2>1, <2>2
<1>2. known' \in Known
  BY FailedTyped DEF TypeOK, Return, Call
<1>3. gaveUp' \subseteq Ops
  BY DEF TypeOK, Return, Call
<1>4. QED BY <1>1, <1>2, <1>3

Troubles == faults + errors

LEMMA ReturnMasked ==
  ASSUME TypeOK, TypeOK', OneRound, OneLossMasked, NEW k, Return(k),
         Troubles <= Troubles', outages <= outages',
         outages' = 0 => call.times + 1 <= Troubles'
  PROVE  OneLossMasked'
<1>1. CASE gaveUp' \cap {"save", "push"} = {}
  BY <1>1 DEF OneLossMasked
<1>2. CASE gaveUp \cap {"save", "push"} # {}
  <2>1. Troubles >= 2 \/ outages >= 1
    BY <1>2 DEF OneLossMasked, Troubles
  <2>2. Troubles \in Int /\ outages \in Int /\ Troubles' \in Int /\ outages' \in Int
    BY DEF TypeOK, Troubles
  <2>3. Troubles' >= 2 \/ outages' >= 1
    BY <2>1, <2>2
  <2>4. QED BY <2>3 DEF OneLossMasked, Troubles
<1>3. CASE gaveUp \cap {"save", "push"} = {} /\ gaveUp' \cap {"save", "push"} # {}
  <2>1. call.op \in {"save", "push"} /\ call.times + 1 >= 2
    BY <1>3 DEF Return, Tries
  <2>2. Troubles' \in Int /\ outages' \in Nat /\ call.times \in Nat
    BY BoundsAssumption DEF TypeOK, Call, Troubles
  <2>3. Troubles' >= 2 \/ outages' >= 1
    BY <2>1, <2>2
  <2>4. QED BY <2>3 DEF OneLossMasked, Troubles
<1>4. QED BY <1>1, <1>2, <1>3

(* A try that ends without having changed the servers.                     *)
LEMMA ReturnKnown ==
  ASSUME TypeOK, OneRound, MoneyKnown, WritesKept, Return(known), store' = store
  PROVE  MoneyKnown' /\ WritesKept'
<1>1. MoneyKnown'
  BY DEF TypeOK, MoneyKnown, Return, Failed, Bookings, Store, Known
<1>2. WritesKept'
  BY DEF TypeOK, WritesKept, Return, Failed, Bookings, Store, Known
<1>3. QED BY <1>1, <1>2

(* One whose reply was lost.  A booking has no other try.                  *)
LEMMA ReturnUnheard ==
  ASSUME TypeOK, OneRound, MoneyKnown, WritesKept, Return(Unheard(known, call.op)),
         store' = Executed(store, call.op)
  PROVE  MoneyKnown' /\ WritesKept'
<1>1. CASE call.op \in Bookings
  <2>1. known' = [known EXCEPT !.unbooked = @ + 1]
    BY <1>1 DEF TypeOK, OneRound, Call, Return, Tries, Unheard, Failed, Bookings
  <2>2. QED BY <1>1, <2>1 DEF TypeOK, MoneyKnown, WritesKept, Executed, Amount, Bookings, Store, Known
<1>2. CASE call.op = "push"
  BY <1>2 DEF TypeOK, MoneyKnown, WritesKept, Return, Unheard, Failed, Executed, Bookings, Store, Known
<1>3. CASE call.op = "save"
  BY <1>3 DEF TypeOK, MoneyKnown, WritesKept, Return, Unheard, Failed, Executed, Bookings, Store, Known
<1>4. CASE call.op \in {"read", "log"}
  BY <1>4 DEF TypeOK, MoneyKnown, WritesKept, Return, Unheard, Failed, Executed, Bookings, Store, Known
<1>5. QED BY <1>1, <1>2, <1>3, <1>4 DEF TypeOK, Call, Ops, Bookings

LEMMA LoseReplyInv == Inv /\ LoseReply => Inv'
<1>1. SUFFICES ASSUME Inv, LoseReply PROVE Inv'
  OBVIOUS
<1>2. PICK d \in Databases : d = Db(call.op) /\ link' = [link EXCEPT ![d] = "none"]
  BY <1>1, DbTyped DEF LoseReply, Inv, TypeOK, Call
<1>3. Return(Unheard(known, call.op))
  BY <1>1, ErrorEnds DEF LoseReply, Inv
<1>4. Unheard(known, call.op) \in Known
  BY <1>1 DEF Inv, TypeOK, Unheard, Known
<1>5. call' \in Call /\ known' \in Known /\ gaveUp' \subseteq Ops /\ OneRound'
  BY <1>1, <1>3, <1>4, ReturnTyped DEF Inv
<1>6. store' \in Store
  BY <1>1, ExecutedTyped DEF LoseReply, Inv, TypeOK, Call
<1>7. TypeOK'
  BY <1>1, <1>2, <1>5, <1>6, BoundsAssumption DEF LoseReply, Inv, TypeOK
<1>8. call'.op = call.op /\ (call'.busy => call'.times <= call.times + 1)
  BY <1>1, <1>3 DEF Inv, TypeOK, Call, Return
<1>9. Accounted'
  <2>1. link'[d] = "none" /\ \A e \in Databases \ {d} : link'[e] = link[e]
    BY <1>1, <1>2 DEF Inv, TypeOK
  <2>2. outages = 0 => call.times <= faults + errors
    BY <1>1 DEF LoseReply, Inv, Accounted
  <2>3. QED BY <1>1, <1>2, <1>5, <1>7, <1>8, <2>1, <2>2 DEF LoseReply, Inv, TypeOK, Accounted, Call
<1>10. OneLossMasked'
  <2>1. outages = 0 => call.times <= faults + errors
    BY <1>1 DEF LoseReply, Inv, Accounted
  <2>2. /\ faults' = faults + 1 /\ errors' = errors /\ outages' = outages
        /\ faults \in Int /\ errors \in Int /\ outages \in Int /\ call.times \in Int
    BY <1>1 DEF LoseReply, Inv, TypeOK, Call
  <2>3. QED BY <1>1, <1>3, <1>7, <2>1, <2>2, ReturnMasked DEF Inv, Troubles
<1>11. MoneyKnown' /\ WritesKept'
  BY <1>1, <1>3, ReturnUnheard DEF LoseReply, Inv
<1>12. QED BY <1>5, <1>7, <1>9, <1>10, <1>11 DEF Inv

LEMMA RefuseInv == Inv /\ Refuse => Inv'
<1>1. SUFFICES ASSUME Inv, Refuse PROVE Inv'
  OBVIOUS
<1>2. PICK d \in Databases : d = Db(call.op) /\ link' = [link EXCEPT ![d] = "up"]
  BY <1>1, DbTyped DEF Refuse, Inv, TypeOK, Call
<1>3. Return(known)
  BY <1>1 DEF Refuse
<1>4. call' \in Call /\ known' \in Known /\ gaveUp' \subseteq Ops /\ OneRound'
  BY <1>1, <1>3, ReturnTyped DEF Inv, TypeOK
<1>5. TypeOK'
  BY <1>1, <1>2, <1>4, BoundsAssumption DEF Refuse, Inv, TypeOK
<1>6. call'.op = call.op /\ (call'.busy => call'.times <= call.times + 1)
  BY <1>1, <1>3 DEF Inv, TypeOK, Call, Return
<1>7. outages = 0 => call.times <= faults + errors
  BY <1>1 DEF Refuse, Inv, Accounted
<1>8. Accounted'
  <2>1. link'[d] = "up" /\ \A e \in Databases \ {d} : link'[e] = link[e]
    BY <1>1, <1>2 DEF Inv, TypeOK
  <2>2. QED BY <1>1, <1>2, <1>4, <1>5, <1>6, <1>7, <2>1 DEF Refuse, Inv, TypeOK, Accounted, Call
<1>9. OneLossMasked'
  <2>1. /\ faults' = faults /\ errors' = errors + 1 /\ outages' = outages
        /\ faults \in Int /\ errors \in Int /\ outages \in Int /\ call.times \in Int
    BY <1>1 DEF Refuse, Inv, TypeOK, Call
  <2>2. QED BY <1>1, <1>3, <1>5, <1>7, <2>1, ReturnMasked DEF Inv, Troubles
<1>10. MoneyKnown' /\ WritesKept'
  BY <1>1, <1>3, ReturnKnown DEF Refuse, Inv
<1>11. QED BY <1>4, <1>5, <1>8, <1>9, <1>10 DEF Inv

LEMMA FindDeadInv == Inv /\ FindDead => Inv'
<1>1. SUFFICES ASSUME Inv, FindDead PROVE Inv'
  OBVIOUS
<1>2. PICK d \in Databases :
        d = Db(call.op) /\ link[d] = "dead" /\ link' = [link EXCEPT ![d] = "none"]
  BY <1>1, DbTyped DEF FindDead, Inv, TypeOK, Call
<1>3. Return(known)
  BY <1>1, ErrorEnds DEF FindDead, Inv
<1>4. call' \in Call /\ known' \in Known /\ gaveUp' \subseteq Ops /\ OneRound'
  BY <1>1, <1>3, ReturnTyped DEF Inv, TypeOK
<1>5. TypeOK'
  BY <1>1, <1>2, <1>4 DEF FindDead, Inv, TypeOK, counters
<1>6. call'.op = call.op /\ (call'.busy => call'.times <= call.times + 1)
  BY <1>1, <1>3 DEF Inv, TypeOK, Call, Return
<1>7. outages = 0 => call.times + 1 <= faults + errors
  BY <1>1, <1>2 DEF FindDead, Inv, Accounted
<1>8. Accounted'
  <2>1. link'[d] = "none" /\ \A e \in Databases \ {d} : link'[e] = link[e]
    BY <1>1, <1>2 DEF Inv, TypeOK
  <2>2. QED
    BY <1>1, <1>2, <1>4, <1>5, <1>6, <1>7, <2>1 DEF FindDead, Inv, TypeOK, Accounted, Call, counters
<1>9. OneLossMasked'
  <2>1. /\ faults' = faults /\ errors' = errors /\ outages' = outages
        /\ faults \in Int /\ errors \in Int /\ outages \in Int /\ call.times \in Int
    BY <1>1 DEF FindDead, Inv, TypeOK, Call, counters
  <2>2. QED BY <1>1, <1>3, <1>5, <1>7, <2>1, ReturnMasked DEF Inv, Troubles
<1>10. MoneyKnown' /\ WritesKept'
  BY <1>1, <1>3, ReturnKnown DEF FindDead, Inv
<1>11. QED BY <1>4, <1>5, <1>8, <1>9, <1>10 DEF Inv

(* A server is away only after an outage.                                  *)
LEMMA FailToConnectInv == Inv /\ FailToConnect => Inv'
<1>1. SUFFICES ASSUME Inv, FailToConnect PROVE Inv'
  OBVIOUS
<1>2. Return(known)
  BY <1>1, ErrorEnds DEF FailToConnect, Inv
<1>3. call' \in Call /\ known' \in Known /\ gaveUp' \subseteq Ops /\ OneRound'
  BY <1>1, <1>2, ReturnTyped DEF Inv, TypeOK
<1>4. TypeOK'
  BY <1>1, <1>3 DEF FailToConnect, Inv, TypeOK, counters, network
<1>5. outages # 0
  <2>1. ~reach[Db(call.op)] /\ Db(call.op) \in Databases
    BY <1>1, DbTyped DEF FailToConnect, Inv, TypeOK, Call
  <2>2. QED BY <1>1, <2>1 DEF Inv, Accounted
<1>6. Accounted' /\ OneLossMasked'
  BY <1>1, <1>5 DEF FailToConnect, Inv, TypeOK, Accounted, OneLossMasked, counters
<1>7. MoneyKnown' /\ WritesKept'
  BY <1>1, <1>2, ReturnKnown DEF FailToConnect, Inv
<1>8. QED BY <1>3, <1>4, <1>6, <1>7 DEF Inv

LEMMA BeginInv == ASSUME Inv, NEW op \in Ops, Begin(op) PROVE Inv'
<1>1. known' \in Known
  BY DEF Begin, Inv, TypeOK, Known
<1>2. call' \in Call /\ OneRound'
  BY DEF Begin, Inv, OneRound, Call, Retries
<1>3. TypeOK'
  BY <1>1, <1>2, BoundsAssumption DEF Begin, Inv, TypeOK, network, counters
<1>4. Accounted'
  BY DbTyped DEF Begin, Inv, TypeOK, Accounted, network, counters
<1>5. MoneyKnown' /\ WritesKept' /\ OneLossMasked'
  BY DEF Begin, Inv, TypeOK, MoneyKnown, WritesKept, OneLossMasked, Store, Known, counters
<1>6. QED BY <1>2, <1>3, <1>4, <1>5 DEF Inv

(* What the network and the servers do changes nothing but themselves.     *)
LEMMA NetworkInv ==
  ASSUME Inv, NEW d \in Databases, Break(d) \/ GoAway(d) \/ ComeBack(d) PROVE Inv'
<1>1. CASE Break(d)
  <2>1. link' = [link EXCEPT ![d] = "dead"] /\ faults' = faults + 1 /\ faults < MaxFaults
    BY <1>1 DEF Break
  <2>2. TypeOK'
    BY <1>1, <2>1, BoundsAssumption DEF Break, Inv, TypeOK
  <2>3. Accounted'
    <3>1. \A e \in Databases : link'[e] = "dead" => faults' >= 1
      BY <2>1, BoundsAssumption DEF Inv, TypeOK
    <3>2. outages = 0 /\ call.busy => call.times + 1 <= faults' + errors
      <4>1. call.times \in Int /\ faults \in Int /\ errors \in Int
        BY DEF Inv, TypeOK, Call
      <4>2. QED BY <2>1, <4>1 DEF Inv, Accounted
    <3>3. call.busy /\ outages = 0 => call.times <= faults' + errors
      BY <2>1, <3>2 DEF Inv, TypeOK, Call
    <3>4. QED BY <1>1, <3>1, <3>2, <3>3 DEF Break, Inv, Accounted
  <2>4. QED BY <1>1, <2>2, <2>3, <2>1
    DEF Break, Inv, TypeOK, OneRound, MoneyKnown, WritesKept, OneLossMasked
<1>2. CASE GoAway(d)
  <2>1. link' = [link EXCEPT ![d] = IF @ = "up" THEN "dead" ELSE @]
        /\ reach' = [reach EXCEPT ![d] = FALSE] /\ outages' = outages + 1 /\ outages < MaxOutages
    BY <1>2 DEF GoAway
  <2>2. TypeOK' /\ outages' >= 1
    BY <1>2, <2>1, BoundsAssumption DEF GoAway, Inv, TypeOK
  <2>3. Accounted' /\ OneLossMasked'
    BY <2>2 DEF Accounted, OneLossMasked
  <2>4. QED BY <1>2, <2>2, <2>3 DEF GoAway, Inv, OneRound, MoneyKnown, WritesKept
<1>3. CASE ComeBack(d)
  <2>1. TypeOK'
    BY <1>3 DEF ComeBack, Inv, TypeOK, counters
  <2>2. Accounted'
    BY <1>3 DEF ComeBack, Inv, TypeOK, Accounted, counters
  <2>3. QED BY <1>3, <2>1, <2>2
    DEF ComeBack, Inv, OneRound, MoneyKnown, WritesKept, OneLossMasked, counters
<1>4. QED BY <1>1, <1>2, <1>3

LEMMA StepInv == Inv /\ [Next]_vars => Inv'
<1>1. SUFFICES ASSUME Inv, [Next]_vars PROVE Inv'
  OBVIOUS
<1>2. CASE \E op \in Ops : Begin(op)
  BY <1>1, <1>2, BeginInv
<1>3. CASE Round
  BY <1>1, <1>3, AnswerInv, LoseReplyInv, RefuseInv, FindDeadInv, FailToConnectInv DEF Round
<1>4. CASE \E d \in Databases : Break(d) \/ GoAway(d) \/ ComeBack(d)
  BY <1>1, <1>4, NetworkInv
<1>5. CASE UNCHANGED vars
  BY <1>1, <1>5 DEF vars, Inv, TypeOK, OneRound, Accounted, MoneyKnown, WritesKept, OneLossMasked
<1>6. QED BY <1>1, <1>2, <1>3, <1>4, <1>5 DEF Next

-----------------------------------------------------------------------------
(* The client's state stays within its types; a count of retries is never  *)
(* used up.                                                                *)
THEOREM Typed == Spec => []TypeOK
<1>1. Inv => TypeOK
  BY DEF Inv
<1>2. QED BY InitInv, StepInv, <1>1, PTL DEF Spec

(* No booking of money is made twice, and the process is off by one at     *)
(* most for each booking that failed.                                      *)
THEOREM BookedOnce == Spec => []MoneyKnown
<1>1. Inv => MoneyKnown
  BY DEF Inv
<1>2. QED BY InitInv, StepInv, <1>1, PTL DEF Spec

(* A write that was reported as done is in the database.                   *)
THEOREM ReportedWrites == Spec => []WritesKept
<1>1. Inv => WritesKept
  BY DEF Inv
<1>2. QED BY InitInv, StepInv, <1>1, PTL DEF Spec

(* No single fault costs a write of a row or a log.                        *)
THEOREM SingleFaults == Spec => []OneLossMasked
<1>1. Inv => OneLossMasked
  BY DEF Inv
<1>2. QED BY InitInv, StepInv, <1>1, PTL DEF Spec
=============================================================================
