---------------------------- MODULE RedisCounter ----------------------------
(***************************************************************************)
(* redis_lua and redis_atomic: the stock of a product is the Redis key      *)
(* stock:<id>, shared by both, and the order goes to Postgres afterwards.   *)
(* A Redis command or script is atomic; no transaction spans the two        *)
(* stores.  The caller may get an error from a command that took effect:    *)
(* that is Fail at the following step, or Unacknowledged where the command  *)
(* is the last one.  When the reply is lost the client library may send a   *)
(* command again: that is Resent for a decrement, increment or script; a    *)
(* SET sent again is a seed that starts again.  A crash of the server is    *)
(* Fail of all its calls.                                                   *)
(***************************************************************************)
EXTENDS Integers, FiniteSets, Totals

CONSTANTS
  Buyers,       \* calls to Decrement
  Seeders,      \* calls to an adapter's Seed
  Deployments,  \* the sets of adapters that clients may use together
  Quantities,   \* units a buyer may ask for
  Stocks,       \* stocks the product may be seeded with
  MaxResends,   \* bound on commands that are sent twice
  None          \* no answer yet

RedisKinds == {"redis_lua", "redis_atomic"}
Clients == Buyers \cup Seeders
Answers == {"ok", "out_of_stock", "not_found", "error"}

ASSUME RedisClientsAssumption ==
  /\ Buyers \cap Seeders = {} /\ IsFiniteSet(Buyers)
  /\ None \notin Answers
ASSUME RedisDeploymentsAssumption == Deployments \subseteq SUBSET RedisKinds
ASSUME RedisQuantitiesAssumption ==
  /\ Quantities \subseteq Nat \ {0}
  /\ Stocks \subseteq Nat
  /\ MaxResends \in Nat

-----------------------------------------------------------------------------
(* State                                                                    *)

VARIABLES
  key,       \* does stock:<id> exist?
  counter,   \* its value, 0 without the key
  product,   \* is there a products row, which orders must refer to?
  orders,    \* orders[b]: rows of the orders table that buyer b inserted
  kind,      \* kind[c]: the adapter that client c uses
  qty,       \* qty[b]: units that buyer b asks for
  pc,        \* pc[c]: the next command of client c
  answer,    \* answer[c]: what the call returned
  seeded,    \* history: stock at the last SET
  taken,     \* history: units granted since then
  overshot,  \* history: overshot[b]: b's DECRBY since then is not undone
  leaked,    \* history: units that commands sent twice took since then for nobody
  stray,     \* history: units that came back since then and were not out
  resends    \* commands sent twice so far

ledger == <<seeded, taken, overshot, leaked, stray>>
vars == <<key, counter, product, orders, kind, qty, pc, answer, ledger, resends>>

Locations ==
  {"eval", "exists", "decrby", "incrby", "insert", "upsert", "delete", "set", "done"}

TypeOK ==
  /\ key \in BOOLEAN
  /\ counter \in Int
  /\ product \in BOOLEAN
  /\ orders \in [Buyers -> {0, 1}]
  /\ kind \in [Clients -> RedisKinds]
  /\ qty \in [Buyers -> Quantities]
  /\ pc \in [Clients -> Locations]
  /\ answer \in [Clients -> Answers \cup {None}]
  /\ seeded \in Nat
  /\ taken \in Nat
  /\ overshot \in [Buyers -> BOOLEAN]
  /\ leaked \in Nat
  /\ stray \in Nat
  /\ resends \in 0 .. MaxResends

\* The first command of Decrement and of Seed.
FirstStep(c) ==
  CASE c \in Buyers /\ kind[c] = "redis_lua"     -> "eval"
    [] c \in Buyers /\ kind[c] = "redis_atomic"  -> "exists"
    [] c \in Seeders /\ kind[c] = "redis_lua"    -> "upsert"
    [] c \in Seeders /\ kind[c] = "redis_atomic" -> "set"

Init ==
  /\ key \in BOOLEAN
  /\ counter \in IF key THEN Stocks ELSE {0}
  /\ product \in BOOLEAN
  /\ orders = [b \in Buyers |-> 0]
  /\ \E d \in Deployments : kind \in [Clients -> d]
  /\ qty \in [Buyers -> Quantities]
  /\ pc = [c \in Clients |-> FirstStep(c)]
  /\ answer = [c \in Clients |-> None]
  /\ seeded = counter
  /\ taken = 0
  /\ overshot = [b \in Buyers |-> FALSE]
  /\ leaked = 0
  /\ stray = 0
  /\ resends = 0

-----------------------------------------------------------------------------

Goto(c, loc) == pc' = [pc EXCEPT ![c] = loc]

Return(c, a) ==
  /\ Goto(c, "done")
  /\ answer' = [answer EXCEPT ![c] = a]

\* A check that grants nothing and changes no store.
Refuse(b, a) ==
  /\ Return(b, a)
  /\ UNCHANGED <<key, counter, product, orders, kind, qty, ledger, resends>>

\* The units of b leave the counter and are b's.
Grant(b) ==
  /\ counter' = counter - qty[b]
  /\ taken' = taken + qty[b]
  /\ Goto(b, "insert")
  /\ UNCHANGED <<key, product, orders, kind, qty, answer, seeded, overshot, leaked, stray,
                 resends>>

\* Variant: the script compares with the wrong operator.
EvalStrict(b) ==
  /\ pc[b] = "eval"
  /\ \/ ~key /\ Refuse(b, "not_found")
     \/ key /\ counter <= qty[b] /\ Refuse(b, "out_of_stock")
     \/ key /\ counter > qty[b] /\ Grant(b)

\* The Lua script: look, check and take in one step.
Eval(b) ==
  /\ pc[b] = "eval"
  /\ \/ ~key /\ Refuse(b, "not_found")
     \/ key /\ counter < qty[b] /\ Refuse(b, "out_of_stock")
     \/ key /\ counter >= qty[b] /\ Grant(b)

Exists(b) ==
  /\ pc[b] = "exists"
  /\ \/ ~key /\ Refuse(b, "not_found")
     \/ /\ key
        /\ Goto(b, "decrby")
        /\ UNCHANGED <<key, counter, product, orders, kind, qty, answer, ledger,
                       resends>>

\* DECRBY took units that were not there.
Overshoot(b) ==
  /\ counter' = counter - qty[b]
  /\ overshot' = [overshot EXCEPT ![b] = TRUE]
  /\ Goto(b, "incrby")
  /\ UNCHANGED <<key, product, orders, kind, qty, answer, seeded, taken, leaked, stray,
                 resends>>

\* Variant: looks at the counter as it was before the decrement.
DecrByChecksOldValue(b) ==
  /\ pc[b] = "decrby"
  /\ \/ counter < 0 /\ Overshoot(b)
     \/ counter >= 0 /\ Grant(b)

\* Variant: the last unit is given back, too.
DecrByKeepsLastUnit(b) ==
  /\ pc[b] = "decrby"
  /\ \/ counter - qty[b] <= 0 /\ Overshoot(b)
     \/ counter - qty[b] > 0 /\ Grant(b)

DecrBy(b) ==
  /\ pc[b] = "decrby"
  /\ \/ counter - qty[b] < 0 /\ Overshoot(b)
     \/ counter - qty[b] >= 0 /\ Grant(b)

\* Variant: returns without giving the units back.
CompensationForgotten(b, a) ==
  /\ pc[b] = "incrby"
  /\ overshot' = [overshot EXCEPT ![b] = FALSE]
  /\ Return(b, a)
  /\ UNCHANGED <<key, counter, product, orders, kind, qty, seeded, taken, leaked, stray,
                 resends>>

\* INCRBY gives the units back to whatever sale is on by now.
Compensate(b, a) ==
  /\ pc[b] = "incrby"
  /\ counter' = counter + qty[b]
  /\ overshot' = [overshot EXCEPT ![b] = FALSE]
  /\ stray' = IF overshot[b] THEN stray ELSE stray + qty[b]
  /\ Return(b, a)
  /\ UNCHANGED <<key, product, orders, kind, qty, seeded, taken, leaked, resends>>

\* Variant: an INSERT without a reply is sent again.
InsertRetried(b, a) ==
  /\ pc[b] = "insert"
  /\ product
  /\ orders' = [orders EXCEPT ![b] = @ + 1]
  /\ IF a = "ok" THEN Return(b, a) ELSE UNCHANGED <<pc, answer>>
  /\ UNCHANGED <<key, counter, product, kind, qty, ledger, resends>>

\* The order row needs a products row to refer to; without one the statement fails.
Insert(b, a) ==
  /\ pc[b] = "insert"
  /\ product
  /\ orders' = [orders EXCEPT ![b] = @ + 1]
  /\ Return(b, a)
  /\ UNCHANGED <<key, counter, product, kind, qty, ledger, resends>>

\* A command fails without effect, or the server dies before it: what the call
\* took from the counter before stays taken.
Fail(b) ==
  /\ pc[b] # "done"
  /\ Return(b, "error")
  /\ UNCHANGED <<key, counter, product, orders, kind, qty, ledger, resends>>

\* The last command takes effect and its reply is lost.
Unacknowledged(b) == Compensate(b, "error") \/ Insert(b, "error")

\* The reply to a command is lost and the client library sends it again (redisconn
\* leaves go-redis its default of three retries): the first one took effect.
ResentTake(b) ==
  /\ pc[b] = "decrby" \/ (pc[b] = "eval" /\ key /\ counter >= qty[b])
  /\ counter' = counter - qty[b]
  /\ leaked' = leaked + qty[b]
  /\ UNCHANGED stray

ResentIncrBy(b) ==
  /\ pc[b] = "incrby"
  /\ counter' = counter + qty[b]
  /\ stray' = stray + qty[b]
  /\ UNCHANGED leaked

Resent(b) ==
  /\ resends < MaxResends
  /\ resends' = resends + 1
  /\ ResentTake(b) \/ ResentIncrBy(b)
  /\ UNCHANGED <<key, product, orders, kind, qty, pc, answer, seeded, taken, overshot>>

RedisLuaDecrement(b) ==
  /\ kind[b] = "redis_lua"
  /\ Eval(b) \/ Insert(b, "ok")

RedisAtomicDecrement(b) ==
  /\ kind[b] = "redis_atomic"
  /\ Exists(b) \/ DecrBy(b) \/ Compensate(b, "out_of_stock") \/ Insert(b, "ok")

-----------------------------------------------------------------------------
(* Seed: three commands on two stores, in another order in each adapter     *)

SeedUpsert(s) ==
  /\ pc[s] = "upsert"
  /\ product' = TRUE
  /\ Goto(s, "delete")
  /\ UNCHANGED <<key, counter, orders, kind, qty, answer, ledger, resends>>

SeedDelete(s) ==
  /\ pc[s] = "delete"
  /\ orders' = [b \in Buyers |-> 0]
  /\ IF kind[s] = "redis_lua"
     THEN Goto(s, "set") /\ UNCHANGED answer
     ELSE Return(s, "ok")
  /\ UNCHANGED <<key, counter, product, kind, qty, ledger, resends>>

\* SET starts the sale again.
SeedSet(s) ==
  /\ pc[s] = "set"
  /\ key' = TRUE
  /\ counter' \in Stocks
  /\ seeded' = counter'
  /\ taken' = 0
  /\ overshot' = [b \in Buyers |-> FALSE]
  /\ leaked' = 0
  /\ stray' = 0
  /\ IF kind[s] = "redis_lua"
     THEN Return(s, "ok")
     ELSE Goto(s, "upsert") /\ UNCHANGED answer
  /\ UNCHANGED <<product, orders, kind, qty, resends>>

-----------------------------------------------------------------------------

Finished ==
  /\ \A c \in Clients : pc[c] = "done"
  /\ UNCHANGED vars

Next ==
  \/ \E b \in Buyers : RedisLuaDecrement(b) \/ RedisAtomicDecrement(b)
                         \/ Unacknowledged(b) \/ Resent(b)
  \/ \E s \in Seeders : SeedUpsert(s) \/ SeedDelete(s) \/ SeedSet(s)
  \/ \E c \in Clients : Fail(c)
  \/ Finished

Spec == Init /\ [][Next]_vars

-----------------------------------------------------------------------------
(* Properties                                                               *)

Overshot == Total(qty, {b \in Buyers : overshot[b]})

\* What the counter would show if no compensation were outstanding.
Left == counter + Overshot

\* Units are for sale, sold, on their way back or lost to a command that was sent
\* twice; what is in excess came back from before the seed, or came back twice.
Ledger == Left + taken + leaked = seeded + stray

\* "the total number of successful claims is bounded exactly and this adapter never
\* oversells" (redis_atomic.go:18-19).
NeverOversells == taken <= seeded

\* So it is as long as no INCRBY is sent twice or finds a seed before it: commands
\* that take units may be sent twice, and every buyer may crash.
OversellsOnlyStrays == taken <= seeded + stray

NoSeedYet == \A s \in Seeders : pc[s] = FirstStep(s)

\* While a compensation is under way others are refused although what they want is
\* there; but never unless somebody asked for more than there is.
RefusalsHaveACause ==
  NoSeedYet /\ stray = 0 /\ (\E b \in Buyers : answer[b] = "out_of_stock") =>
    \E o \in Buyers :
      /\ pc[o] \in {"incrby", "done"}
      /\ answer[o] # "ok"
      /\ Left < qty[o]

\* The contract is kept by redis_lua where it is by itself; of other mixes nothing is
\* said, so they are mapped to a sale in which nothing happens.
LuaOnly == \A c \in Clients : kind[c] = "redis_lua"
Seen(n) == IF LuaOnly THEN n ELSE 0

BuyerAnswers == [b \in Buyers |-> IF LuaOnly THEN answer[b] ELSE None]
BuyersHolding == [b \in Buyers |-> LuaOnly /\ pc[b] = "insert"]
BuyersShort == [b \in Buyers |-> LuaOnly /\ answer[b] = "out_of_stock"]

Contract == INSTANCE Sale WITH
  left <- Seen(counter), taken <- Seen(taken + leaked), seeded <- Seen(seeded),
  answer <- BuyerAnswers, holding <- BuyersHolding, seenShort <- BuyersShort

\* redis_lua keeps the contract of Inventory, seeds and crashes included: the sale
\* takes effect in the script; what fails afterwards, and a script that runs twice,
\* loses units but never sells one twice.
RefinesSale == Contract!LossySpec

=============================================================================
