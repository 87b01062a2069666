--------------------------- MODULE CheckoutService ---------------------------
(***************************************************************************)
(* What one server keeps about its sales (internal/service,                 *)
(* internal/handler, internal/metrics): it sends each call to the adapter   *)
(* it names, counts the units sold per adapter against the stock of the     *)
(* last seed and raises oversell_total when there are more, sets the gauge  *)
(* stock_remaining, and seeds every adapter in turn.  The steps of a call   *)
(* after Decrement are steps of its goroutine; only the tracker has a mutex.*)
(*                                                                          *)
(* Of an adapter only what the service can tell is here.  Most sell in one  *)
(* step; three read the row and write it in two, redis_atomic takes and may *)
(* have to give back, token_queue gives back what it cannot queue.  A call  *)
(* that fails may leave a command behind that takes effect, if ever, at any *)
(* time afterwards (a COMMIT, too, although its locks would make it earlier *)
(* than others), and a command to Redis may be sent twice.  One product.    *)
(***************************************************************************)
EXTENDS Integers, FiniteSets

CONSTANTS
  Buyers,      \* requests POST /checkout
  Seeders,     \* requests POST /seed
  Kinds,       \* the adapters there are
  Deployments, \* the sets of adapters a server may be started with
  Paths,       \* what buyers write for :adapter beside these: Default or nonsense
  Default,     \* no :adapter in the path
  DefaultKind, \* cfg.DefaultKind
  Quantities,  \* units a buyer may ask for
  Stocks,      \* stocks the product may be seeded with
  MaxRestarts, \* bound on restarts of the process
  MaxAstray,   \* bound on commands that outlive their call or that Redis gets twice
  None         \* no value

AllKinds ==
  {"naive", "pg_cond", "pg_for_update", "pg_advisory", "pg_optimistic", "pg_serializable",
   "pg_skip_locked", "redis_lua", "redis_atomic", "go_chan", "token_queue"}

\* Those that sell the row of products.
RowKinds ==
  {"naive", "pg_cond", "pg_for_update", "pg_advisory", "pg_optimistic", "pg_serializable"}

\* Where an adapter keeps its stock.  Every Seed also writes the row.
StoreOf(k) ==
  CASE k \in RowKinds -> "row"
    [] k = "pg_skip_locked" -> "pile"
    [] k \in {"redis_lua", "redis_atomic"} -> "key"
    [] k = "go_chan" -> "owner"
    [] k = "token_queue" -> "quota"

Stores == {"row"} \cup {StoreOf(k) : k \in Kinds}

\* What a server that ends takes with it.
InProcess == {"owner", "quota"}

\* The adapters that read the row, and write what they made of it without a lock on it.
ReadFirst == {"naive", "pg_advisory", "pg_optimistic"}

\* The adapters whose claim is one step and stays.
OneStep == AllKinds \ (ReadFirst \cup {"redis_atomic", "token_queue"})

\* What Decrement returns besides nil, and the status the client gets for it.
Errors == {"out_of_stock", "not_found", "retry_exhausted", "unavailable", "error"}
Outcomes == {"ok"} \cup Errors

\* What a call that failed may leave behind.
Commands == {"decrement", "write", "incrby"}

\* Variant: an error of a store is taken for a dependency that was never reached.
StatusRetry(o) ==
  CASE o = "ok" -> 200
    [] o = "out_of_stock" -> 409
    [] o = "not_found" -> 404
    [] o \in {"retry_exhausted", "unavailable", "error"} -> 503

Status(o) ==
  CASE o = "ok" -> 200
    [] o = "out_of_stock" -> 409
    [] o = "not_found" -> 404
    [] o \in {"retry_exhausted", "unavailable"} -> 503
    [] o = "error" -> 400

ASSUME ServiceClientsAssumption == Buyers \cap Seeders = {} /\ IsFiniteSet(Buyers)
ASSUME ServiceKindsAssumption ==
  /\ Kinds \subseteq AllKinds
  /\ Deployments \subseteq SUBSET Kinds
  /\ Default \notin Kinds
ASSUME ServiceQuantitiesAssumption ==
  /\ Quantities \subseteq Nat \ {0}
  /\ Stocks \subseteq Nat
  /\ MaxRestarts \in Nat
  /\ MaxAstray \in Nat
  /\ None \notin Int \cup Outcomes \cup Commands

Clients == Buyers \cup Seeders

-----------------------------------------------------------------------------
(* State                                                                    *)

VARIABLES
  adapters,      \* the adapters of this server, s.inventories
  stock,         \* stock[st]: units in a store, None before its first seed
  initialStock,  \* initialStock[k]: the tracker's, None without an entry
  orderCount,    \* orderCount[k]: the tracker's count of units
  oversell,      \* oversell[k]: the counter oversell_total
  gauge,         \* gauge[k]: stock_remaining, None before it is set
  pc,            \* pc[c]: where the handler of client c is
  path,          \* path[b]: the :adapter of b's request
  amount,        \* amount[c]: qty of a buyer, stock of a seeder
  read,          \* read[b]: the stock in the row that b read
  outcome,       \* outcome[b]: what Decrement returned
  remaining,     \* remaining[b]: its StockRemaining
  todo,          \* todo[s]: adapters that s has still to seed
  answer,        \* answer[c]: status of the response
  underway,      \* underway[b]: the command that b's failed call left behind
  resent,        \* buyers with a command that Redis got twice
  astray,        \* commands so far that outlived their call or came twice
  restarts,      \* restarts so far
  sold,          \* history: sold[k]: units k sold out of the stock last seeded for it
  took,          \* history: buyers with units, or with an order that was queued
  out,           \* history: buyers with units of this sale that may be given back
  back,          \* history: back[st]: units given back to a store since its seed
  strayed,       \* history: stores that since their seed got units which were not out
  disturbed      \* history: the last seed overlapped a call or another, or failed

tracker == <<initialStock, orderCount, oversell>>
handlerVars == <<outcome, remaining, todo, answer>>
clientVars == <<pc, read, handlerVars>>
request == <<adapters, path, amount>>
lost == <<underway, resent, astray>>
returns == <<out, back, strayed>>
vars == <<request, stock, tracker, gauge, clientVars, lost, restarts, sold, took,
          returns, disturbed>>

Locations ==
  {"idle", "decrement", "write", "incrby", "produce", "classify", "record", "seed", "done"}
Statuses == {200, 400, 404, 409, 500, 503}
Maybe(S) == S \cup {None}

TypeOK ==
  /\ adapters \in Deployments
  /\ stock \in [Stores -> Maybe(Int)]
  /\ initialStock \in [Kinds -> Maybe(Nat)]
  /\ orderCount \in [Kinds -> Nat]
  /\ oversell \in [Kinds -> Nat]
  /\ gauge \in [Kinds -> Maybe(Nat \cup {-1})]
  /\ pc \in [Clients -> Locations]
  /\ path \in [Buyers -> Kinds \cup Paths]
  /\ amount \in [Clients -> Nat]
  /\ read \in [Buyers -> Maybe(Nat)]
  /\ outcome \in [Buyers -> Maybe(Outcomes)]
  /\ remaining \in [Buyers -> Maybe(Nat \cup {-1})]
  /\ todo \in [Seeders -> SUBSET Kinds]
  /\ answer \in [Clients -> Maybe(Statuses)]
  /\ underway \in [Buyers -> Maybe(Commands)]
  /\ resent \subseteq Buyers
  /\ astray \in 0 .. MaxAstray
  /\ restarts \in 0 .. MaxRestarts
  /\ sold \in [Kinds -> Nat]
  /\ took \subseteq Buyers
  /\ out \subseteq Buyers
  /\ back \in [Stores -> Nat]
  /\ strayed \subseteq Stores
  /\ disturbed \in BOOLEAN

\* A server that just started, on stores that nothing was seeded in yet.
Init ==
  /\ adapters \in Deployments
  /\ stock = [st \in Stores |-> None]
  /\ initialStock = [k \in Kinds |-> None]
  /\ orderCount = [k \in Kinds |-> 0]
  /\ oversell = [k \in Kinds |-> 0]
  /\ gauge = [k \in Kinds |-> None]
  /\ pc = [c \in Clients |-> "idle"]
  /\ path \in [Buyers -> {p \in Paths : p \in Kinds => p \in adapters}]
  /\ amount \in {f \in [Clients -> Quantities \cup Stocks] :
                   /\ \A b \in Buyers : f[b] \in Quantities
                   /\ \A s \in Seeders : f[s] \in Stocks}
  /\ read = [b \in Buyers |-> None]
  /\ outcome = [b \in Buyers |-> None]
  /\ remaining = [b \in Buyers |-> None]
  /\ todo = [s \in Seeders |-> {}]
  /\ answer = [c \in Clients |-> None]
  /\ underway = [b \in Buyers |-> None]
  /\ resent = {} /\ astray = 0
  /\ restarts = 0
  /\ sold = [k \in Kinds |-> 0]
  /\ took = {} /\ out = {}
  /\ back = [st \in Stores |-> 0]
  /\ strayed = {}
  /\ disturbed = FALSE

InFlight(c) == pc[c] \notin {"idle", "done"}
Seeding == \E s \in Seeders : InFlight(s)
Quiet == \A c \in Clients : ~InFlight(c)

-----------------------------------------------------------------------------
(* POST /checkout                                                           *)

Goto(c, loc) == pc' = [pc EXCEPT ![c] = loc]

\* What the handlers of the clients in D had in hand is gone.
Forget(D) ==
  /\ outcome' = [b \in Buyers |-> IF b \in D THEN None ELSE outcome[b]]
  /\ remaining' = [b \in Buyers |-> IF b \in D THEN None ELSE remaining[b]]
  /\ todo' = [s \in Seeders |-> IF s \in D THEN {} ELSE todo[s]]

Respond(c, status) ==
  /\ Goto(c, "done")
  /\ answer' = [answer EXCEPT ![c] = status]
  /\ Forget({c})

\* An empty :adapter is the default.
KindOf(b) == IF path[b] = Default THEN DefaultKind ELSE path[b]
StoreFor(b) == StoreOf(KindOf(b))

\* resolveKind; an unknown kind falls through to 400.
Resolve(b) ==
  /\ pc[b] = "idle"
  /\ IF KindOf(b) \in adapters
     THEN /\ Goto(b, "decrement")
          /\ disturbed' = (disturbed \/ Seeding)
          /\ UNCHANGED handlerVars
     ELSE Respond(b, 400) /\ UNCHANGED disturbed
  /\ UNCHANGED <<request, stock, tracker, gauge, read, lost, restarts, sold, took,
                 returns>>

\* Decrement returned; n units are left as far as it knows.
Returned(b, o, n) ==
  /\ Goto(b, "classify")
  /\ outcome' = [outcome EXCEPT ![b] = o]
  /\ remaining' = [remaining EXCEPT ![b] = n]
  /\ sold' = IF o = "ok" THEN [sold EXCEPT ![KindOf(b)] = @ + amount[b]] ELSE sold

\* A claim that finds the units it wants; DECRBY takes them first and looks afterwards.
CanTake(b) ==
  /\ stock[StoreFor(b)] # None
  /\ KindOf(b) = "redis_atomic" \/ amount[b] <= stock[StoreFor(b)]

Take(b) ==
  /\ stock' = [stock EXCEPT ![StoreFor(b)] = @ - amount[b]]
  /\ took' = took \cup {b}

\* pg_skip_locked does not say how many are left: stockUnknown.
Reported(b, n) == IF KindOf(b) = "pg_skip_locked" THEN -1 ELSE n

Sell(b) ==
  /\ pc[b] = "decrement"
  /\ KindOf(b) \in OneStep
  /\ CanTake(b)
  /\ Take(b)
  /\ Returned(b, "ok", Reported(b, stock[StoreFor(b)] - amount[b]))
  /\ UNCHANGED <<request, tracker, gauge, read, todo, answer, lost, restarts,
                 returns, disturbed>>

\* Somebody has the rows of the pile locked: another claim, or the DELETE of a seed.
PileLocked(b) ==
  \/ \E o \in Buyers \ {b} : /\ KindOf(o) = "pg_skip_locked"
                             /\ pc[o] = "decrement" \/ underway[o] = "decrement"
  \/ Seeding

\* pg_skip_locked passes over locked tickets; and like pg_cond it looks for the product
\* only when it found no stock, when a seed may have put it there.
FindsNone(b) ==
  \/ ~CanTake(b)
  \/ KindOf(b) = "pg_skip_locked" /\ PileLocked(b)
  \/ KindOf(b) \in {"pg_cond", "pg_skip_locked"} /\ disturbed

\* The product of a pile is its row.
Known(b) == stock[IF KindOf(b) = "pg_skip_locked" THEN "row" ELSE StoreFor(b)] # None

Refuse(b) ==
  /\ pc[b] = "decrement"
  /\ \/ ~Known(b) /\ Returned(b, "not_found", None)
     \/ Known(b) /\ FindsNone(b) /\ Returned(b, "out_of_stock", None)
  /\ UNCHANGED <<request, stock, tracker, gauge, read, todo, answer, lost,
                 restarts, took, returns, disturbed>>

\* Whom b's adapter does not keep from the row as b sells: naive anybody, an advisory lock
\* and a version those who do not mind them, which are all other adapters of the row.
Uncoordinated(b) ==
  \/ KindOf(b) = "naive"
  \/ /\ KindOf(b) \in ReadFirst
     /\ \E o \in Buyers : pc[o] # "idle" /\ KindOf(o) \in RowKinds \ {KindOf(b)}

\* Another transaction has the advisory lock.
Locked(b) ==
  /\ KindOf(b) = "pg_advisory"
  /\ \E o \in Buyers \ {b} : KindOf(o) = "pg_advisory" /\ "write" \in {pc[o], underway[o]}

ReadRow(b) ==
  /\ pc[b] = "decrement"
  /\ KindOf(b) \in ReadFirst
  /\ CanTake(b) /\ ~Locked(b)
  /\ read' = [read EXCEPT ![b] = stock["row"]]
  /\ Goto(b, "write")
  /\ UNCHANGED <<request, stock, tracker, gauge, handlerVars, lost, restarts, sold,
                 took, returns, disturbed>>

\* What was read is still there; but one who is not coordinated, or a seed, may have come
\* in between, and b does not notice.
Overwrite(b) ==
  /\ Uncoordinated(b) \/ disturbed \/ read[b] = stock["row"]
  /\ stock' = [stock EXCEPT !["row"] = read[b] - amount[b]]
  /\ took' = took \cup {b}
  /\ read' = [read EXCEPT ![b] = None]

WriteRow(b) ==
  /\ pc[b] = "write"
  /\ Overwrite(b)
  /\ Returned(b, "ok", read[b] - amount[b])
  /\ UNCHANGED <<request, tracker, gauge, todo, answer, lost, restarts, returns,
                 disturbed>>

\* The version moved; the next attempt reads again.
Retry(b) ==
  /\ pc[b] = "write"
  /\ KindOf(b) = "pg_optimistic"
  /\ read[b] # stock["row"]
  /\ read' = [read EXCEPT ![b] = None]
  /\ Goto(b, "decrement")
  /\ UNCHANGED <<request, stock, tracker, gauge, handlerVars, lost, restarts, sold,
                 took, returns, disturbed>>

\* redis_atomic: below zero the units were not there and have to be given back; until
\* then others find too few.
DecrBy(b) ==
  /\ pc[b] = "decrement"
  /\ KindOf(b) = "redis_atomic"
  /\ CanTake(b)
  /\ Take(b)
  /\ IF stock["key"] < amount[b]
     THEN /\ Goto(b, "incrby")
          /\ out' = out \cup {b}
          /\ UNCHANGED <<outcome, remaining, sold>>
     ELSE Returned(b, "ok", stock["key"] - amount[b]) /\ UNCHANGED out
  /\ UNCHANGED <<request, tracker, gauge, read, todo, answer, lost, restarts, back,
                 strayed, disturbed>>

\* Units come back to a store, whatever sale is on there by now.
GiveBack(b) ==
  /\ stock' = [stock EXCEPT ![StoreFor(b)] = @ + amount[b]]
  /\ back' = [back EXCEPT ![StoreFor(b)] = @ + amount[b]]
  /\ strayed' = IF b \in out THEN strayed ELSE strayed \cup {StoreFor(b)}
  /\ out' = out \ {b}

\* Of two DECRBYs of one call an INCRBY makes good only one.
Compensated(b) == took' = IF b \in resent THEN took ELSE took \ {b}

IncrBy(b) ==
  /\ pc[b] = "incrby"
  /\ GiveBack(b)
  /\ Compensated(b)
  /\ Returned(b, "out_of_stock", None)
  /\ UNCHANGED <<request, tracker, gauge, read, todo, answer, lost, restarts,
                 disturbed>>

\* token_queue: the quota goes down before the order is queued.
Grant(b) ==
  /\ pc[b] = "decrement"
  /\ KindOf(b) = "token_queue"
  /\ CanTake(b)
  /\ Take(b)
  /\ remaining' = [remaining EXCEPT ![b] = stock["quota"] - amount[b]]
  /\ out' = out \cup {b}
  /\ Goto(b, "produce")
  /\ UNCHANGED <<request, tracker, gauge, read, outcome, todo, answer, lost,
                 restarts, sold, back, strayed, disturbed>>

Produce(b) ==
  /\ pc[b] = "produce"
  /\ Returned(b, "ok", remaining[b])
  /\ out' = out \ {b}
  /\ UNCHANGED <<request, stock, tracker, gauge, read, todo, answer, lost,
                 restarts, took, back, strayed, disturbed>>

\* No order could be made of it, or the broker did not say that it has the record, which
\* it may have all the same.
Refund(b) ==
  /\ pc[b] = "produce"
  /\ GiveBack(b)
  /\ \/ Returned(b, "error", None) /\ took' = took \ {b}
     \/ Returned(b, "unavailable", None) /\ took' \in {took, took \ {b}}
  /\ UNCHANGED <<request, tracker, gauge, read, todo, answer, lost, restarts,
                 disturbed>>

\* A store or the context fails before anything takes effect; or the adapter gives up.
Fail(b) ==
  /\ pc[b] \in {"decrement", "write", "incrby"}
  /\ KindOf(b) # "token_queue"
  /\ \E o \in {"error", "retry_exhausted"} :
       /\ o = "retry_exhausted" =>
            pc[b] = "decrement" /\ KindOf(b) \in {"pg_optimistic", "pg_serializable"}
       /\ Returned(b, o, None)
  /\ UNCHANGED <<request, stock, tracker, gauge, read, todo, answer, lost, restarts, took,
                 returns, disturbed>>

\* Or the reply does not come, and nobody knows of the command.
GiveUp(b) ==
  /\ pc[b] \in {"decrement", "write", "incrby"}
  /\ KindOf(b) # "token_queue"
  /\ KindOf(b) \in ReadFirst => pc[b] = "write"
  /\ astray < MaxAstray
  /\ astray' = astray + 1
  /\ underway' = [underway EXCEPT ![b] = pc[b]]
  /\ Returned(b, "error", None)
  /\ UNCHANGED <<request, stock, tracker, gauge, read, todo, answer, resent, restarts, took,
                 returns, disturbed>>

\* What a failed call left behind takes effect.  An order that could not be placed after
\* the claim of its units is such an effect, too.
RunLate(b) ==
  /\ underway' = [underway EXCEPT ![b] = None]
  /\ \/ /\ underway[b] = "decrement"
        /\ CanTake(b) /\ Take(b)
        /\ UNCHANGED <<read, returns>>
     \/ underway[b] = "write" /\ Overwrite(b) /\ UNCHANGED returns
     \/ underway[b] = "incrby" /\ GiveBack(b) /\ Compensated(b) /\ UNCHANGED read
  /\ UNCHANGED <<request, tracker, gauge, pc, handlerVars, resent, astray, restarts,
                 sold, disturbed>>

\* The reply to a command is lost and go-redis sends it again: the first one took effect.
Resent(b) ==
  /\ StoreFor(b) = "key"
  /\ astray < MaxAstray
  /\ astray' = astray + 1
  /\ resent' = resent \cup {b}
  /\ \/ pc[b] = "decrement" /\ CanTake(b) /\ Take(b) /\ UNCHANGED returns
     \/ pc[b] = "incrby" /\ GiveBack(b) /\ UNCHANGED took
  /\ UNCHANGED <<request, tracker, gauge, clientVars, underway, restarts, sold, disturbed>>

\* The switch on the error, and the answer the handler makes of it.
Refused(b) ==
  /\ pc[b] = "classify"
  /\ outcome[b] # "ok"
  /\ Respond(b, Status(outcome[b]))
  /\ UNCHANGED <<request, stock, tracker, gauge, read, lost, restarts, sold, took,
                 returns, disturbed>>

\* Variant: StockRemaining is taken for the stock before the sale.
SetGaugeSubtracts(b) ==
  /\ pc[b] = "classify"
  /\ outcome[b] = "ok"
  /\ gauge' = [gauge EXCEPT ![KindOf(b)] = remaining[b] - amount[b]]
  /\ Goto(b, "record")
  /\ UNCHANGED <<request, stock, tracker, read, handlerVars, lost, restarts, sold,
                 took, returns, disturbed>>

SetGauge(b) ==
  /\ pc[b] = "classify"
  /\ outcome[b] = "ok"
  /\ gauge' = [gauge EXCEPT ![KindOf(b)] = remaining[b]]
  /\ Goto(b, "record")
  /\ UNCHANGED <<request, stock, tracker, read, handlerVars, lost, restarts, sold,
                 took, returns, disturbed>>

\* Variant: >= in place of >.
RecordAtLimit(b) ==
  LET k == KindOf(b)
      count == orderCount[k] + amount[b]
  IN /\ pc[b] = "record"
     /\ orderCount' = [orderCount EXCEPT ![k] = count]
     /\ oversell' = IF initialStock[k] # None /\ count >= initialStock[k]
                    THEN [oversell EXCEPT ![k] = @ + 1] ELSE oversell
     /\ Respond(b, 200)
     /\ UNCHANGED <<request, stock, initialStock, gauge, read, lost, restarts, sold,
                    took, returns, disturbed>>

\* Variant: the count is compared before the checkout is added to it.
RecordLate(b) ==
  LET k == KindOf(b)
  IN /\ pc[b] = "record"
     /\ orderCount' = [orderCount EXCEPT ![k] = @ + amount[b]]
     /\ oversell' = IF initialStock[k] # None /\ orderCount[k] > initialStock[k]
                    THEN [oversell EXCEPT ![k] = @ + 1] ELSE oversell
     /\ Respond(b, 200)
     /\ UNCHANGED <<request, stock, initialStock, gauge, read, lost, restarts, sold,
                    took, returns, disturbed>>

\* recordOversell, under the mutex; one alarm per checkout, whatever its units.
RecordOversell(b) ==
  LET k == KindOf(b)
      count == orderCount[k] + amount[b]
  IN /\ pc[b] = "record"
     /\ orderCount' = [orderCount EXCEPT ![k] = count]
     /\ oversell' = IF initialStock[k] # None /\ count > initialStock[k]
                    THEN [oversell EXCEPT ![k] = @ + 1] ELSE oversell
     /\ Respond(b, 200)
     /\ UNCHANGED <<request, stock, initialStock, gauge, read, lost, restarts, sold,
                    took, returns, disturbed>>

-----------------------------------------------------------------------------
(* POST /seed                                                               *)

BeginSeed(s) ==
  /\ pc[s] = "idle"
  /\ Goto(s, "seed")
  /\ todo' = [todo EXCEPT ![s] = adapters]
  /\ disturbed' = (disturbed \/ ~Quiet)
  /\ UNCHANGED <<request, stock, tracker, gauge, read, outcome, remaining, answer, lost,
                 restarts, sold, took, returns>>

\* A new sale in some stores, new[st] units in each.
Refill(new) ==
  /\ stock' = [st \in Stores |-> IF st \in DOMAIN new THEN new[st] ELSE stock[st]]
  /\ sold' = [k \in Kinds |-> IF StoreOf(k) \in DOMAIN new THEN 0 ELSE sold[k]]
  /\ out' = {b \in out : StoreFor(b) \notin DOMAIN new}
  /\ back' = [st \in Stores |-> IF st \in DOMAIN new THEN 0 ELSE back[st]]
  /\ strayed' = strayed \ DOMAIN new

\* The adapters in the order of a Go map, which is any; each writes the row too.
SeedAdapter(s, k) ==
  /\ pc[s] = "seed"
  /\ k \in todo[s]
  /\ todo' = [todo EXCEPT ![s] = @ \ {k}]
  /\ Refill([st \in {"row", StoreOf(k)} |-> amount[s]])
  /\ UNCHANGED <<request, tracker, gauge, pc, read, outcome, remaining, answer, lost,
                 restarts, took, disturbed>>

\* The first error ends the call: the adapters before it stay seeded, the one that failed
\* may be in part, of the pile with the old tickets gone, and the tracker is not told.
SeedFails(s, k) ==
  /\ pc[s] = "seed"
  /\ k \in todo[s]
  /\ Respond(s, 500)
  /\ \E W \in SUBSET {"row", StoreOf(k)} : \E new \in [W -> {0, amount[s]}] :
       /\ \A st \in W : new[st] = amount[s] \/ st = "pile"
       /\ Refill(new)
  /\ disturbed' = TRUE
  /\ UNCHANGED <<request, tracker, gauge, read, lost, restarts, took>>

\* The section under the mutex, for all adapters at once.
ResetTracker(s) ==
  /\ pc[s] = "seed"
  /\ todo[s] = {}
  /\ initialStock' = [k \in Kinds |-> IF k \in adapters THEN amount[s] ELSE None]
  /\ orderCount' = [k \in Kinds |-> 0]
  /\ gauge' = [k \in Kinds |-> IF k \in adapters THEN amount[s] ELSE None]
  /\ Respond(s, 200)
  /\ UNCHANGED <<request, stock, oversell, read, lost, restarts, sold, took,
                 returns, disturbed>>

-----------------------------------------------------------------------------
(* The process                                                              *)

\* The process ends with its calls, its tracker, its metrics and the stocks it held; what
\* was done in a store stays.  A call that it cut off is one that failed before.
Restart ==
  /\ restarts < MaxRestarts
  /\ restarts' = restarts + 1
  /\ stock' = [st \in Stores |-> IF st \in InProcess THEN None ELSE stock[st]]
  /\ initialStock' = [k \in Kinds |-> None]
  /\ orderCount' = [k \in Kinds |-> 0]
  /\ oversell' = [k \in Kinds |-> 0]
  /\ gauge' = [k \in Kinds |-> None]
  /\ pc' = [c \in Clients |-> IF InFlight(c) THEN "done" ELSE pc[c]]
  /\ Forget(Clients)
  /\ underway' = [b \in Buyers |-> IF StoreFor(b) \in InProcess THEN None ELSE underway[b]]
  /\ disturbed' = (disturbed \/ Seeding)
  /\ UNCHANGED <<request, read, answer, resent, astray, sold, took, returns>>

BuyerStep(b) ==
  \/ Resolve(b) \/ Sell(b) \/ Refuse(b) \/ ReadRow(b) \/ WriteRow(b) \/ Retry(b)
  \/ DecrBy(b) \/ IncrBy(b) \/ Grant(b) \/ Produce(b) \/ Refund(b)
  \/ Refused(b) \/ SetGauge(b) \/ RecordOversell(b)

SeederStep(s) ==
  \/ BeginSeed(s) \/ ResetTracker(s)
  \/ \E k \in todo[s] : SeedAdapter(s, k) \/ SeedFails(s, k)

\* Every request has its answer.
Finished == (\A c \in Clients : pc[c] = "done") /\ UNCHANGED vars

Next ==
  \/ \E b \in Buyers : BuyerStep(b) \/ Fail(b) \/ GiveUp(b) \/ RunLate(b) \/ Resent(b)
  \/ \E s \in Seeders : SeederStep(s)
  \/ Restart \/ Finished

Spec == Init /\ [][Next]_vars

-----------------------------------------------------------------------------
(* Properties                                                               *)

\* A request may have written over what others sold from this store.
Racing(st) == st = "row" /\ \E b \in Buyers : pc[b] # "idle" /\ Uncoordinated(b)

\* An alarm means that more was sold than was there: an adapter's counter goes up only
\* with naive on its row, or an advisory lock or a version next to adapters that do not mind
\* it; after a seed that overlapped another call or failed; or when the store got units
\* that were not out: an INCRBY that ran twice or after a seed (metrics/metrics.go:37,
\* "MUST be 0 for correct adapters").
NoFalseAlarm ==
  [][\A k \in Kinds : oversell'[k] > oversell[k] =>
       disturbed \/ Racing(StoreOf(k)) \/ StoreOf(k) \in strayed]_vars

\* And when one adapter sold more than was seeded, the alarm went off: the tracker of
\* this process missed no sale, whatever the order in which calls got to it.
NoMissedOversell ==
  Quiet /\ ~disturbed =>
    \A k \in Kinds : initialStock[k] # None /\ sold[k] > initialStock[k] => oversell[k] > 0

\* Calls set the gauge in any order, so it may lag, but it shows no less than is left, but
\* for the units that redis_atomic and token_queue gave back since the seed: a call that
\* comes and goes in between has shown the stock without them.  pg_skip_locked's gauge
\* does not show the stock at all.
GaugeNeverUnderstates ==
  ~disturbed /\ ~Seeding =>
    \A k \in Kinds \ {"pg_skip_locked"} :
      gauge[k] # None /\ ~Racing(StoreOf(k)) =>
        gauge[k] + back[StoreOf(k)] >= stock[StoreOf(k)]

\* Who is told "sold out", "no such product" or "try again" has lost no units and has no
\* order under way, and may try again (handler/checkout.go:69-75).  Except: a command that
\* Redis got twice may take the units and then find none; and after a 503 of token_queue
\* nobody knows, as nobody does after a 400.
RefusedMeansUntouched ==
  \A b \in took : /\ answer[b] # 404
                  /\ answer[b] = 409 => b \in resent
                  /\ answer[b] = 503 => KindOf(b) = "token_queue"

\* metrics/metrics.go:37 and RECIPE.md:126, taken at their word.
CorrectAdaptersNeverAlarm == \A k \in Kinds \ {"naive"} : oversell[k] = 0

=============================================================================
