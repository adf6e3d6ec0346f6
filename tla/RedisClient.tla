---------------------------- MODULE RedisClient ----------------------------
(***************************************************************************)
(* The redis client (src/Database/redis_io.cpp, database.cpp) under the    *)
(* commands of the game: what a lost connection, a lost reply or a server  *)
(* that is away does to the row of a table, the list of game logs and the  *)
(* money of a player, and what the process knows of them afterwards.       *)
(*                                                                         *)
(* A command blocks the event loop until it returns, so there is one at a  *)
(* time; between its rounds only the network and the servers act.  The     *)
(* other modules take a command for one step: this one says when they may. *)
(***************************************************************************)
EXTENDS Integers

CONSTANTS
  MaxCalls,    \* bound: commands that are ever called
  MaxFaults,   \* bound: connections that break
  MaxErrors,   \* bound: commands that the server refuses
  MaxOutages   \* bound: times a server goes away

ASSUME BoundsAssumption ==
  MaxCalls \in Nat /\ MaxFaults \in Nat /\ MaxErrors \in Nat /\ MaxOutages \in Nat

(* _dbPlayer, _dbEvent, _dbRoom and _dbData of the server.                 *)
Databases == {"player", "event", "room", "data"}

(* save stands for the writes of a row, push for WriteGameLog, win and     *)
(* lose for DBPlayer::IncrMoney, log for the event log that follows it,    *)
(* read for DBPlayer::GetMoney.                                            *)
Ops == {"save", "push", "win", "lose", "log", "read"}

Db(op) ==
  CASE op = "save" -> "data" [] op = "push" -> "room" [] op = "log" -> "event"
    [] OTHER -> "player"

(* Mutants of Tries: nobody tries again; everybody does.                   *)
TriesOnce(op) == 1
TriesTwice(op) == 2

(* The callers' loops: do ... while (++times < 2).                         *)
Tries(op) == IF op \in {"save", "push"} THEN 2 ELSE 1

VARIABLES
  link,     \* m_pRedisClient of each database: none, up, or dead but not seen yet
  reach,    \* whether its server can be reached
  call,     \* the command that runs
  store,    \* the databases: the row's version, entries of the list, the money
  known,    \* what the process has and knows of them
  gaveUp,   \* what was called and failed in the end
  faults, errors, outages, calls   \* counters of what is bounded

vars == <<link, reach, call, store, known, gaveUp, faults, errors, outages, calls>>
network == <<link, reach>>
counters == <<faults, errors, outages>>

Call == [op : Ops, busy : BOOLEAN, times : 0..1, retry : 0..2]

Store == [row : Nat, list : Nat, money : Int]

(* game is the version of the game in memory and saved the last one whose  *)
(* save succeeded; pushed counts the logs whose push succeeded, unheard    *)
(* the replies to pushes that were lost; cached is _userInfo.money, and    *)
(* blank that it is the 0 of a lookup that failed; booked is the sum of    *)
(* the bookings that succeeded, unbooked the number of those that failed.  *)
Known ==
  [game : Nat, saved : Nat, pushed : Nat, unheard : Nat,
   cached : Int, blank : BOOLEAN, booked : Int, unbooked : Nat]

(* Mutants of Retries: the condition holds for ever; there is one more.    *)
RetriesOne == 1
RetriesThree == 3

Retries == 2   \* nRetryCount

(* InitRedis has connected all the databases, else the server ends.        *)
Init ==
  /\ link = [d \in Databases |-> "up"] /\ reach = [d \in Databases |-> TRUE]
  /\ call = [op |-> "read", busy |-> FALSE, times |-> 0, retry |-> 2]
  /\ store = [row |-> 0, list |-> 0, money |-> 0]
  /\ known = [game |-> 0, saved |-> 0, pushed |-> 0, unheard |-> 0,
              cached |-> 0, blank |-> FALSE, booked |-> 0, unbooked |-> 0]
  /\ gaveUp = {} /\ faults = 0 /\ errors = 0 /\ outages = 0 /\ calls = 0

-----------------------------------------------------------------------------
(* What a command does on the server, and what its end tells the process.  *)

Bookings == {"win", "lose"}
Amount(op) == IF op = "win" THEN 1 ELSE -1

Executed(st, op) ==
  CASE op = "save" -> [st EXCEPT !.row = known.game]
    [] op = "push" -> [st EXCEPT !.list = @ + 1]
    [] op \in Bookings -> [st EXCEPT !.money = @ + Amount(op)]
    [] OTHER -> st

(* The reply of hincrby and hget is the money of the account.              *)
Heard(k, op) ==
  CASE op = "save" -> [k EXCEPT !.saved = k.game]
    [] op = "push" -> [k EXCEPT !.pushed = @ + 1]
    [] op \in Bookings ->
         [k EXCEPT !.cached = store.money + Amount(op), !.blank = FALSE, !.booked = @ + Amount(op)]
    [] op = "read" -> [k EXCEPT !.cached = store.money, !.blank = FALSE]
    [] OTHER -> k

(* No reply, though the server has executed the command.                   *)
Unheard(k, op) == IF op = "push" THEN [k EXCEPT !.unheard = @ + 1] ELSE k

(* Mutant of Failed: nRet is 0 from the start.                             *)
FailedUnseen(k, op) == Heard(k, op)

(* GetMoney returns 0 when it fails, and Player::GetMoney keeps that.      *)
Failed(k, op) ==
  CASE op = "read" -> [k EXCEPT !.cached = 0, !.blank = TRUE]
    [] op \in Bookings -> [k EXCEPT !.unbooked = @ + 1]
    [] OTHER -> k

-----------------------------------------------------------------------------
(* A call of the game.  The game has changed before its row is saved.      *)
Begin(op) ==
  /\ ~call.busy /\ calls < MaxCalls /\ op # "log"
  /\ call' = [op |-> op, busy |-> TRUE, times |-> 0, retry |-> Retries]
  /\ known' = IF op = "save" THEN [known EXCEPT !.game = @ + 1] ELSE known
  /\ calls' = calls + 1
  /\ UNCHANGED <<network, store, gaveUp, counters>>

(* IncrMoney writes the event log once the money is booked, whatever comes *)
(* of that.                                                                *)
Succeed ==
  call' = IF call.op \in Bookings
          THEN [op |-> "log", busy |-> TRUE, times |-> 0, retry |-> Retries]
          ELSE [call EXCEPT !.busy = FALSE]

(* command returns -1: the caller tries again or gives up.  k is what the  *)
(* process knows by now.                                                   *)
Return(k) ==
  LET over == call.times + 1 >= Tries(call.op) IN
  /\ call' = IF over THEN [call EXCEPT !.busy = FALSE]
             ELSE [call EXCEPT !.times = @ + 1, !.retry = Retries]
  /\ known' = IF over THEN Failed(k, call.op) ELSE k
  /\ gaveUp' = IF over THEN gaveUp \cup {call.op} ELSE gaveUp

(* A net error: while (--nRetryCount <= 0).  The count is kept at 0, where *)
(* the code counts on below it.                                            *)
NetError(k) ==
  IF call.retry - 1 <= 0
  THEN call' = [call EXCEPT !.retry = 0] /\ known' = k /\ UNCHANGED gaveUp
  ELSE Return(k)

(* __tryConnect has a connection, or gets one.                             *)
Connects(d) == link[d] = "up" \/ (link[d] = "none" /\ reach[d])

(* The command is executed and answered.                                   *)
Answer ==
  LET d == Db(call.op) IN
  /\ call.busy /\ Connects(d)
  /\ link' = [link EXCEPT ![d] = "up"]
  /\ store' = Executed(store, call.op) /\ known' = Heard(known, call.op)
  /\ Succeed
  /\ UNCHANGED <<reach, gaveUp, counters, calls>>

(* The command is executed, and the connection breaks before the reply.    *)
LoseReply ==
  LET d == Db(call.op) IN
  /\ call.busy /\ Connects(d) /\ faults < MaxFaults
  /\ link' = [link EXCEPT ![d] = "none"] /\ faults' = faults + 1
  /\ store' = Executed(store, call.op) /\ NetError(Unheard(known, call.op))
  /\ UNCHANGED <<reach, errors, outages, calls>>

(* The server answers with an error (REDIS_REPLY_ERROR).                   *)
Refuse ==
  LET d == Db(call.op) IN
  /\ call.busy /\ Connects(d) /\ errors < MaxErrors
  /\ link' = [link EXCEPT ![d] = "up"] /\ errors' = errors + 1
  /\ Return(known)
  /\ UNCHANGED <<reach, store, faults, outages, calls>>

(* The connection has broken since the last command: __commPrepareReply    *)
(* disconnects.                                                            *)
FindDead ==
  LET d == Db(call.op) IN
  /\ call.busy /\ link[d] = "dead"
  /\ link' = [link EXCEPT ![d] = "none"]
  /\ NetError(known)
  /\ UNCHANGED <<reach, store, counters, calls>>

(* __tryConnect fails: the server is away.                                 *)
FailToConnect ==
  LET d == Db(call.op) IN
  /\ call.busy /\ link[d] = "none" /\ ~reach[d]
  /\ NetError(known)
  /\ UNCHANGED <<network, store, counters, calls>>

Round == Answer \/ LoseReply \/ Refuse \/ FindDead \/ FailToConnect

(* A connection breaks between two rounds, or while nothing is sent.       *)
Break(d) ==
  /\ link[d] = "up" /\ faults < MaxFaults
  /\ link' = [link EXCEPT ![d] = "dead"] /\ faults' = faults + 1
  /\ UNCHANGED <<reach, call, store, known, gaveUp, errors, outages, calls>>

GoAway(d) ==
  /\ reach[d] /\ outages < MaxOutages
  /\ reach' = [reach EXCEPT ![d] = FALSE] /\ outages' = outages + 1
  /\ link' = [link EXCEPT ![d] = IF @ = "up" THEN "dead" ELSE @]
  /\ UNCHANGED <<call, store, known, gaveUp, faults, errors, calls>>

ComeBack(d) ==
  /\ ~reach[d]
  /\ reach' = [reach EXCEPT ![d] = TRUE]
  /\ UNCHANGED <<link, call, store, known, gaveUp, counters, calls>>

Next ==
  \/ \E op \in Ops : Begin(op)
  \/ Round
  \/ \E d \in Databases : Break(d) \/ GoAway(d) \/ ComeBack(d)

(* Weak fairness: a command that runs goes on, as it blocks the loop.  A   *)
(* server that neither answers nor closes is not considered: the client    *)
(* sets no time limit on a reply.                                          *)
Spec == Init /\ [][Next]_vars /\ WF_vars(Round)

-----------------------------------------------------------------------------
(* Properties.                                                             *)

(* The variables stay within their types.                                  *)
TypeOK ==
  /\ link \in [Databases -> {"none", "up", "dead"}] /\ reach \in [Databases -> BOOLEAN]
  /\ call \in Call /\ store \in Store /\ known \in Known
  /\ gaveUp \subseteq Ops
  /\ faults \in 0..MaxFaults /\ errors \in 0..MaxErrors
  /\ outages \in 0..MaxOutages /\ calls \in 0..MaxCalls

(* No booking is made twice: the account differs from the bookings that    *)
(* succeeded, and from the money that the process goes by, by at most one  *)
(* booking for each that failed (IncrMoney), unless a lookup has failed.   *)
MoneyKnown ==
  LET doubt == -known.unbooked..known.unbooked IN
  /\ store.money - known.booked \in doubt
  /\ ~known.blank => store.money - known.cached \in doubt

(* The row of a table is never older than the last save that succeeded,    *)
(* and is a game that was in memory; the list of WriteGameLog has every    *)
(* log whose push succeeded, and one too many at most for every lost reply. *)
WritesKept ==
  /\ store.row \in known.saved..known.game
  /\ store.list - known.pushed \in 0..known.unheard

(* One broken connection never costs a write that is tried twice: it takes *)
(* two faults, or a server that was away.                                  *)
OneLossMasked ==
  gaveUp \cap {"save", "push"} # {} => faults + errors >= 2 \/ outages >= 1

(* A command returns to the game, and the server goes on.                  *)
CallsEnd == call.busy ~> ~call.busy

(* On a net error the client tries to reconnect (the comment in command),  *)
(* so that no lookup fails for one connection that broke.                  *)
NetErrorRetried == "read" \in gaveUp => faults >= 2
=============================================================================
