# Formal specification of the flash-sale inventory

The repository is a Go monorepo of recipes for distributed systems; its one recipe with a
program is `src/recipes/flashsale`: a checkout service that sells a limited stock through
eleven interchangeable inventory adapters, each a different answer to the question how
concurrent buyers can be kept from overselling. This directory specifies those adapters
in TLA+, model-checks them with TLC on small instances, and proves the most important facts
with TLAPS for every instance.

Paths below are relative to `src/recipes/flashsale/` unless they start with `src/`.

## 1. Inventory

### Components

| component | state | operations | interacts with |
|---|---|---|---|
| row adapters: `naive`, `pg_cond`, `pg_for_update`, `pg_advisory`, `pg_optimistic`, `pg_serializable` (`internal/repository/*.go`) | one row of `flashsale.products` (`stock`, `version`), rows of `flashsale.orders`, row and advisory locks, connections of a pool | `Decrement` (a transaction of 3 to 5 statements, with up to 5 attempts in two adapters), `Seed` (two autocommitted statements), `Stock` (a read) | each other, through the same row |
| `pg_skip_locked` | one row of `flashsale.stock_tickets` per unit | claim units one at a time with `FOR UPDATE SKIP LOCKED`, roll back a partial claim | other buyers, through the tickets |
| `redis_lua`, `redis_atomic` | a counter in Redis, orders in Postgres | take units in Redis, then insert the order; `redis_atomic` compensates a counter below zero | each other, through the same key; two stores that no transaction joins |
| `go_chan` | a map owned by one goroutine, a channel of 1024 requests, one reply channel per request | ask the owner, then insert the order | callers' contexts, the server's context |
| `token_queue` | a local quota, a Kafka log, the consumer's batch and offsets, idempotency keys in `orders` | grant, produce, refund; consume, flush, commit offsets | broker redelivery, `Seed` |
| checkout service (`internal/service/checkout_service.go`) | units sold since the seed and stock at the seed per product and adapter, gauges | `Checkout`, `recordOversell`, `Seed` (every adapter, in map order), `Stock` | all adapters, metrics |
| HTTP server and composition root (`src/pkg/httpserver`, `cmd/server/main.go`) | the server's context, open requests | start, SIGTERM, shutdown in 10 s | the goroutines of `go_chan` and `token_queue` |
| handlers, DTOs, configuration, telemetry, entities | none the adapters depend on | parsing, mapping of errors, logging | - |

### What is hard here, and what makes a component correct

* **Row adapters.** Between two statements of a transaction any other client may run, and
  what was read may be stale when it is written back. Every adapter has a different remedy
  (one conditional statement, a row lock, an advisory lock, a version, a snapshot), one
  server offers all of them on the same row at once, and seeds rewrite the row meanwhile.
  Correct: no write overwrites one it has not seen; a unit is for sale or sold, never both
  or neither; no oversell; a retry never places a second order, not even when the
  acknowledgement of a COMMIT is lost; refusals are justified; retries and lock queues end.
* **Tickets.** Skipping the locked rows lets buyers of several units starve each other into
  spurious refusals; a seed's DELETE waits for buyers, works on a snapshot, and can deadlock
  with another seed's. Correct: no ticket is sold twice, partial claims leave no trace, a
  seed replaces the whole pile, buyers wait for nobody.
* **Redis.** Two stores and no transaction: a crash in between loses units (never sells
  them twice); the compensation races buyers and seeds; the client library repeats a
  command whose reply was lost.
* **Owner goroutine.** A cancelled caller's request stays queued and takes a unit nobody
  sells; at shutdown the owner may be gone while requests still wait for it.
* **Token queue.** At-least-once delivery made exactly-once by a key; a produce whose
  outcome is unknown; a seed that deletes the keys while old records are still in the log.
* **Service.** Tracker, gauges and adapters are updated without a common lock; a seed that
  fails half-way leaves them inconsistent; and the adapters under it fail in their own ways.
  Correct: an alarm has a cause and is not missed where seeds run alone, a gauge is not too
  low, and a refused client has lost no units, with exceptions that can be named.

`PROJECT.json` lists each of these hazards at its line, with the properties that watch it. Some
have none: what can go wrong there does go wrong, the models have the step, and the properties
exclude or tolerate it by name. Their notes say where.

## 2. Modules

| module | role |
|---|---|
| `Sale` | abstract specification: what the interface `Inventory` promises for one product |
| `SaleProofs` | theorem: whatever keeps `Sale` never oversells |
| `PgRow` | the six row adapters on one product row |
| `PgRowProofs` | theorems about `PgRow`: types, stock never negative, no lost update, conservation, no oversell; coordinated adapters implement `Sale`; orders, answers, refusals and retries |
| `RedisCounter` | the two Redis adapters on one counter |
| `RedisCounterProofs` | theorems: types; the ledger of the counter, the bound on oversells, the cause of refusals; redis_lua implements `Sale` but for leaks |
| `PgSkipLocked` | pg_skip_locked, ticket by ticket |
| `PgSkipLockedProofs` | theorems: types; tickets, refusals, seeds, orders; pg_skip_locked implements `Sale` |
| `GoChan` | go_chan and the life of the server process it runs in |
| `GoChanProofs` | theorems: types; go_chan implements `Sale` |
| `TokenQueue` | token_queue: replicas, partition, consumer loop |
| `TokenQueueProofs` | theorems: types; quotas, offsets, keys, seeds |
| `CheckoutService` | handler, service and metrics of one server, above the eleven adapters as it sees them |
| `CheckoutServiceProofs` | theorems: types; alarms, gauges, refusals |
| `Totals`, `TotalsProofs` | the units that a set of calls has together, and lemmas about them |
| `MCPgRow`, `MCRedisCounter`, `MCPgSkipLocked`, `MCGoChan`, `MCTokenQueue`, `MCCheckoutService` | instances for TLC |

### `Sale`

One product: units `left`, units `taken` since the last seed, one answer per call. A call
ends by `Buy` (its units leave the stock at one instant; the caller learns `ok`, or an
error that leaves it in doubt, at once or later by `Deliver`: `holding` is the time in
between), by `Shortage` / `Refuse` (out of stock, answered only to a caller for whom the
stock was too small at some instant of the call, as `internal/domain/errors.go` words it),
or by `GiveUp` (any other error: nothing was taken). `Reseed` starts the sale again.
`PgRow`, `PgSkipLocked`, `RedisCounter` and `GoChan` instantiate it with their own state.

`LossySpec` adds `Leak`: the store loses units that nobody gets. The interface says nothing of
it, but an adapter whose commands can be sent twice leaks, and still never oversells.

Two modules hold several deployments of which only some keep the contract. `PgRow.RefinesSale`
and the invariants on lost updates are guarded by `Coordinated`; `RedisCounter` maps every
mix but redis_lua alone to a sale in which nothing happens.

### `PgRow`

The unit of atomicity is one SQL statement, as it is for the program: each round trip of
a `Decrement` is one step, and every other client may run in between.

| code | model |
|---|---|
| `products` row; hidden row version of Postgres | `row`: `exists`, `stock`, `version`, and `xmin`, which counts committed versions |
| rows of `orders` by buyer | `orders[b]` |
| row lock, `pg_advisory_xact_lock` | `rowLock`, `advLock` |
| the local variables of a `Decrement` | `read[b]` (what its SELECT returned), `failures[b]` (the loop counter), `pc[b]` (the next statement) |
| the uncommitted effects of its transaction | `write[b]` |
| result of the call | `answer[c]` |
| `BeginTx`, and the pool's limit | `Begin`, `ConnectionFree`, `MaxConns` |
| `SELECT ...`, `SELECT ... FOR UPDATE` and the stock check in Go | `Select(b, forUpdate)` |
| the four forms of UPDATE | `UpdateLiteral` (naive, for_update, advisory), `UpdateConditional`, `UpdateVersioned`, `UpdateSnapshot` (serializable) |
| `classifyUpdateErr` | `Classify` |
| INSERT of the order; COMMIT | `Insert`; `Commit`, `CommitUnacknowledged` |
| `defer tx.Rollback` and locks ending with the transaction | `Release`, part of every way out |
| retry loops | `Conflict` |
| SQLSTATE 40001 | `SerializationFailure`, possible at every statement of a serializable transaction |
| any other error of a statement | `Fail` |
| `Seed`: upsert, then DELETE, each on its own connection | `SeedConnect`, `SeedUpsert`, `SeedConnect`, `SeedDelete`, `SeedFail` |

`XDecrement(b)` composes these statements into the method of adapter X; its order of
disjuncts is the order of the code, and `pc` enforces it. `seeded` and `sinceSeed` are
history variables. Postgres is not under `src/`; the head of the module says what is
assumed of it.

### `RedisCounter`

One step is one Redis command (or the script), or one SQL statement.

| code | model |
|---|---|
| `stock:<id>` | `key` (does it exist), `counter` |
| the products row that orders refer to; orders by buyer | `product`, `orders[b]` |
| `decrementLua` | `Eval` |
| EXISTS, DECRBY, INCRBY | `Exists`, `DecrBy` (which is a `Grant` or an `Overshoot`), `Compensate` |
| INSERT of the order | `Insert` |
| an error, or a crash, before a command | `Fail` |
| a last command that took effect although the caller sees an error | `Unacknowledged` |
| the two `Seed`s, whose SET comes last in redis_lua and first in redis_atomic | `SeedUpsert`, `SeedDelete`, `SeedSet` |

A command whose reply is lost is sent again by the client library, since
`src/pkg/redisconn` leaves it its default of three retries. `Resent` is the effect of the
first of two such sends; it says nothing of reads, which may be repeated. A repeated take
leaks units (`leaked`), a repeated INCRBY returns units twice (`stray`). Other history:
`seeded`, `taken`, and `overshot[b]`, true while b's DECRBY of this sale waits for its
compensation (for ever, if the compensation failed).

### `PgSkipLocked`

The claim is one statement of SQL, but it is not atomic: it takes a snapshot, then visits
row after row, and others commit in between. One visit is one step.

| code | model |
|---|---|
| `stock_tickets`; `claimed`; the BIGSERIAL | `pile`; `claimed`; `lastId` |
| BEGIN and the snapshot of the claim | `BeginClaim`, `visit[b]` |
| one row of `... FOR UPDATE SKIP LOCKED`, and its UPDATE | `Visit`: skips what is locked, looks again at what it locked, takes it into `held[b]` |
| `LIMIT qty`; the count of the rows in Go | `Claiming`; `Claimed` |
| partial claim, `classifyEmpty`, rollback | `RollBack`, `ClassifyEmpty` |
| INSERT of the order; COMMIT | `InsertOrder`; `Commit` |
| `Seed`: upsert, DELETE of the tickets, INSERT of the pile, DELETE of the orders | `SeedUpsert`; `BeginDelete`, `DeleteTicket` (waits for locks), `CommitDelete`; `InsertTickets`; `DeleteOrders` |
| deadlock of two DELETEs, which Postgres resolves by failing one | `Deadlocked`, `SeedFail` |

The order of the visits is any. "Out of stock" from a buyer that lost tickets to a claim that
was rolled back later is a spurious refusal; the code says so (`pg_skip_locked.go:88-90`), and the
refinement counts it as a call that gave up. `RefusalsHaveACause` bounds it: without
such a rollback, what nobody else has or is about to have is less than was asked for.

A call begins when it has its connection. The wait for one is in `PgRow`, whose pool has the same
limit; `BuyersNeverWait` is about tickets and locks and not about the pool, which seeds that stand
still for ever would use up in time.

### `GoChan`

| code | model |
|---|---|
| the map owned by `run` | `stock`, `known` |
| the request channel; the reply channel of a request | `reqs` (bounded by `ChanCap`), `reply[c]` |
| `ask`: two selects, each against the caller's context | `Enqueue`, `Await`, `Abandon`; `Cancel` ends the context |
| `run`, `apply` | `Serve`, `Apply` (`Set`, `Claim`, `Deny`), `OwnerStop` |
| the statements of `Decrement` and `Seed` | `Insert`, `SeedPostgres`, `Fail` |
| `signal.NotifyContext` and `httpserver.Run` | `Signal`, `Drained`, `ShutdownTimeout` |
| death of the process, and a new one | `Kill`, `LoseRequest`, `LoseCall`, `Restart` |

A caller that leaves does not take its request out of the channel. `ShutdownTimeout` is
enabled only when every open request waits for an owner that is gone: ten seconds are
taken to be long enough for everything that can move.

### `TokenQueue`

| code | model |
|---|---|
| `quota` of a replica, under its mutex | `quota[r]`, `known[r]` |
| `grant`, `refund` | `Grant`, `Refuse`; part of `ProduceFails` |
| `ProduceSync` with its retries and time-out | `Send`, `Acknowledged`, `ProduceFails` |
| requests on their way to the leader, the partition | `wire[b]`, `log`; `Arrive`, `Drop` |
| the consumer group | `assigned`, `committed`, `Rebalance` |
| what a consumer has fetched; its batch | `position`, `pending[r]` |
| a turn of `consume`: poll, insert, commit | `Poll`, `InsertBatch` / `InsertUnacknowledged`, `CommitOffsets` / `CommitFails` |
| `orders` with the unique key | `orders[b]`, `recorded` (keys that were ever in it) |
| `Seed`: DELETE, then the quota | `SeedDelete`, `SeedQuota` (`NewShare`) |
| end and restart of a replica | `Crash` |

Kafka is external and modelled as the code configures it: acknowledgement of the leader
only, no idempotent writes (a record may be appended again by a resend, or after its
producer gave up), offsets committed by hand, a new consumer begins at the committed
offset. The log itself is not lost.

A replica has an account per share: `share[r]` is what it was last seeded with, `current` the
buyers with a grant out of it, `stray[r]` refunds of grants that an earlier share had made.
`drained` are keys whose record was settled when a seed deleted the orders: nothing can
deliver it again, so its order has to stay away.

### `CheckoutService`

One server, one product, and of each adapter what the service can tell of it: which units leave
its store, which come back, what the caller is told. Adapters on one store share it.

| code | model |
|---|---|
| `inventories`, `AllKinds`, `factory.New` | `Kinds`, `adapters`, `StoreOf` |
| the stocks in Postgres, Redis, the owner, the quota | `stock[st]` |
| `initialStock`, `orderCount`, `oversell_total` | the same names per adapter, and `oversell` |
| the gauge `stock_remaining`; `stockUnknown` | `gauge`; `Reported` |
| `resolveKind` | `Resolve`, `KindOf` |
| `Decrement` where the claim is one step and stays | `Sell`, `Refuse` |
| `Decrement` of `naive`, `pg_advisory`, `pg_optimistic`: read the row, then write it | `ReadRow`, `WriteRow`; `Retry` of a version that moved |
| `Decrement` of `redis_atomic` | `DecrBy`, `IncrBy` |
| `Decrement` of `token_queue`: grant, produce, refund | `Grant`, `Produce`, `Refund` |
| an error before anything took effect | `Fail` |
| an error although a command (a COMMIT, a script, a request to the owner) may yet take effect; that it does; a command to Redis whose reply was lost | `GiveUp`; `RunLate`; `Resent` |
| the switch on the error, and the handler's | `Refused`, `Status` |
| setting the gauge; `recordOversell` | `SetGauge`; `RecordOversell`, in the order of the code, other goroutines in between |
| `Seed`: each adapter in the order of a Go map; the section under the mutex | `BeginSeed`, `SeedAdapter`, `SeedFails` (which may leave any part of an adapter's seed behind); `ResetTracker` |
| end of the process and a new one | `Restart`, which takes tracker, metrics and `InProcess` stocks |

"Out of stock" needs no empty store: redis_atomic answers it while another's units are out,
pg_skip_locked while others have tickets locked (`PileLocked`), pg_cond and pg_skip_locked when
the product appeared between two of their statements, redis_lua when its script ran twice. An
adapter of `ReadFirst` writes over what others did in between unless it finds out: by a lock or a
version that the others mind as well. `Uncoordinated` names those whose adapter does not see to
that: naive, and pg_advisory or pg_optimistic once another adapter of the row is in use. `Racing`
says that there is such a request on a store; the sales on it cannot be accounted for then.

History: `sold[k]`, what adapter k sold out of the stock last seeded; `took`, the buyers with
units, or with an order that was queued; `out`, those whose units may still come back; `back[st]`
and `strayed`, what came back since the seed, and where it had not been out (an INCRBY
that ran twice, or after a seed); `disturbed`, true once a seed overlapped another call or did not
end well. The properties of the tracker are stated for what is not disturbed, because for the rest
they are false, which finding 5 is about.

Where the model does more than the code can: once a seed disturbed the row, nothing is assumed of
what a read-first adapter writes; a late COMMIT may land after its locks are gone. Where
it does less: an upsert or a DELETE of a seed that takes effect after the seed failed is not a
step, but such a seed has set `disturbed`.

### Variants

Operators whose comment begins with "Variant:" are not part of the specification. Each is
a plausible faulty version of the definition after it (a dropped lock, a forgotten
rollback, a literal where a version check belongs) and is there to show that the property
it is paired with in `PROJECT.json` can tell the difference.

## 3. Runs

| run | instance | what it shows |
|---|---|---|
| `row_coordinated` | 2 buyers, 1 seeder, every mix of `pg_cond`, `pg_for_update`, `pg_serializable`; product present or absent; 2 connections | types, conservation, orders within the seed, `Sale` implemented |
| `row_together` | 3 buyers, any mix of all six adapters, product present or absent, 2 connections, no seed | stock never negative even with `naive`; an order exactly where the answer says so; nobody waits for ever; in the mixes that are coordinated no lost update and "out of stock" stays true; `retry_exhausted` means others were served |
| `row_optimistic_seed` | 2 optimistic buyers and their seed | finding 1: TLC finds the violation |
| `redis_counter` | 3 buyers of 1 or 2 units and a seed, each with either adapter, one command sent twice | counter, units on their way back, taken and leaked add up to the seed and the strays; only strays oversell; who is refused without need owes it to a buyer who wanted more than there was; redis_lua implements `Sale` but for leaks |
| `redis_atomic_seed` | 3 buyers and a seed of redis_atomic | finding 2 |
| `chan_lifecycle` | 2 buyers and a seed, a channel with one place, shutdown, kill and restarts | `Sale` implemented with callers that leave; every call that got in comes back |
| `chan_shutdown` | the same | finding 3 |
| `queue_sale` | 2 orders at one of 2 replicas, 2 faults (a resend, a rebalance, a crash or a seed each) | the units of every share are accounted for; offsets are committed behind the orders; one order per key; settled orders do not come back after a seed; what was accepted is recorded in the end |
| `queue_refund` | one buyer | finding 4 |
| `tickets_sale` | 2 buyers of 1 or 2 units and 2 seeds, 2 tickets or no product at the start | no ticket sold twice; refusals have a cause; a seed alone replaces the pile; orders have tickets; `Sale` implemented; buyers return whatever seeds do, seeds return although they can deadlock |
| `service_tracker` | 2 checkouts and 2 seeds on a server with naive and pg_optimistic, or with one of pg_advisory, pg_skip_locked, redis_lua, redis_atomic, go_chan, token_queue; a restart; one command that outlives its call or comes twice | every alarm has a cause and none is missed, the gauge is too low only by what came back, a refused client has lost no units but for the named exceptions |
| `service_alarm` | 2 checkouts and 2 seeds of pg_cond | finding 5 |

**Bounds.** A lost update needs two writers, and a third actor decides whether a seed or a
third sale in between matters; no rule of the code counts beyond that. Quantities 1 and 2
against stocks 1 and 2 give the boundary cases `stock = qty`, `stock < qty`, and a stock
that suffices for one of two buyers. `MaxAttempts` is 2 where the code has 5: one attempt that is
retried, one that exhausts the loop. `MaxConns` is 2 where the code has 25, so that with
three clients the pool really is exhausted. Each client makes one call. The runs that use a
symmetry of buyers have no liveness property; the refinements among their properties are
safety and treat buyers alike, so this is sound.

Three buyers of `redis_counter` let one overshoot, a second be refused by that and a third
be served; `MaxResends` is 1, so that each kind of command is repeated in some behaviour. Two
buyers of `tickets_sale` each claim one of two tickets and want both; two seeds overlap, leave two
piles, or deadlock. `service_tracker` has a sale in each order with a seed, two in each order
with each other, and a seed before both; quantities 1 to 3 against a stock of 2, so that one
buyer, both, or none can be served. Adapters on different stores meet only in a seed, hence one
store per server; both Redis adapters on one key are `redis_counter`'s. The theorems have any
deployment. One place in the channel of
`chan_lifecycle`, where the code has 1024, makes senders wait; restarts are unbounded
there. `MaxSends` is 2 where the code has 4: a record is in the log once, twice, or not at all.
Two faults are what it takes for a partition to leave a consumer that holds a batch and to
come back to it, or for a seed to meet a redelivery; seeds count as faults (`MaxFaults`). With
one unit per share a second grant has to come out of a refund or of another share. The batches of `TokenQueue` have no upper limit: the code's 500 rows only
make a flush earlier, and a flush may happen after any poll.

**Fairness.** `FairSpec` has weak fairness for each client's own steps: a goroutine that
can run its next statement does so eventually, and a waiter in a lock queue of Postgres
gets the lock (queues are first come, first served). Nothing is assumed of faults: they may
happen always or never. Without a deadlock check being switched off, TLC also shows that
no state but the final one is stuck.

`GoChan`: weak fairness for a handler that can take a step, for the owner, for the end of
the owner and of a shutdown; none for cancellation, signals or arrivals. The owner's `select`
chooses among ready cases at random, so weak fairness of `Serve` is what Go gives: a queued
request is served, or the owner stops. `TokenQueue`: the consumer loop never stops turning
while its replica has the partition; it polls every 50 ms and flushes what is older than 50 ms.
A flush competes with polls and inserts that are not acknowledged, hence strong fairness
of `Poll` and `InsertBatch`, which says that the store does not fail for ever. Rebalances and
crashes are bounded, so that a consumer keeps the partition in the end. `RedisCounter` and `CheckoutService`
have no liveness property: each call is a straight line of commands, or repeats one that `PgRow` bounds.

`PgSkipLocked` is fair to buyers only: `BuyersNeverWait` has to hold although a seed, and the
locks it has, may stand still for ever. `SeedsReturn` names the fairness of seeds as its
premise; it says that they do return if they are run, and that rests on buyers returning and
on Postgres ending one of two DELETEs that wait for each other.

## 4. Proofs

| theorem | says | needs |
|---|---|---|
| `ContractNeverOversells`, `LossyNeverOversells` | `Sale`: `Spec => []NoOversell`, `LossySpec => []NoOversell` | nothing |
| `TypeCorrect` | `PgRow`: `Spec => []TypeOK` | the named assumptions on the constants |
| `NeverNegative` | `PgRow`: `Spec => []StockNeverNegative` | any mix of adapters |
| `WritesAreFresh` | `PgRow`: `Spec => []NoLostUpdate` | the property is about coordinated clients |
| `UnitsConserved` | `PgRow`: `Spec => []Conservation` | the same |
| `NoOversell` | `PgRow`: `Spec => [](Coordinated => sinceSeed <= seeded)` | the same |
| `KeepsContract` | `PgRow`: `Spec => RefinesSale` | all deployments are coordinated |
| `OrdersMatchAnswers` | `PgRow`: `Spec => []OrderMatchesAnswer` | `Seeders = {}`; any mix of adapters |
| `OrdersAreOfThisSale` | `PgRow`: `Spec => []OrdersWithinSeed` | any mix of adapters, any seeds |
| `RefusalsAreFinal` | `PgRow`: `Spec => []OutOfStockIsTrue` | the property is about coordinated buyers without a seed |
| `GivesUpBehindOthers` | `PgRow`: `Spec => []ExhaustionIsContention` | `Seeders = {}`; any mix of adapters |
| `RedisTypeCorrect` | `RedisCounter`: `Spec => []TypeOK` | the named assumptions; any mix of both adapters, here and below |
| `UnitsAccounted`, `OversellIsStray` | `RedisCounter`: `Spec => []Ledger`, `Spec => []OversellsOnlyStrays` | the same |
| `RefusalsHaveCauses` | `RedisCounter`: `Spec => []RefusalsHaveACause` | the same; the property is about the time before a seed |
| `LuaKeepsContract` | `RedisCounter`: `Spec => RefinesSale` | the same; the mapping sees only redis_lua by itself |
| `NoTicketSoldTwice`, `OrdersKeepTickets`, `RefusalsAreFair`, `SeedsReplaceThePile` | `PgSkipLocked`: `Spec => []P` for `TicketLedger`, `OrdersHaveTickets`, `RefusalsHaveACause`, `SeedReplacesThePile` | the named assumptions |
| `TicketsImplementSale` | `PgSkipLocked`: `Spec => RefinesSale` | the same |
| `LuaNeverOversells`, `TicketsNeverOversell`, `ChannelNeverOversells` | `RedisCounter`: `Spec => [](LuaOnly => NeverOversells)`; `PgSkipLocked`: `Spec => [](sold <= seeded)`; `GoChan`: `Spec => [](taken <= seeded)` | the same |
| `ChanTypeCorrect`, `ChannelKeepsContract` | `GoChan`: `Spec => []TypeOK`, `Spec => RefinesSale` | the same |
| `QueueTypeCorrect`, `SharesBalance`, `CommitsLoseNothing`, `KeysPreventDuplicates`, `SettledOrdersStayAway` | `TokenQueue`: `Spec => []P` for `TypeOK`, `QuotaLedger`, `CommittedIsRecorded`, `NoDuplicateOrders`, `SeedIsClean` | the same |
| `RefusalsTouchNothing`, `OversellsAreCounted`, `GaugesNeverUnderstate` | `CheckoutService`: `Spec => []P` for `RefusedMeansUntouched`, `NoMissedOversell`, `GaugeNeverUnderstates` | the same; any deployment |
| `AlarmsHaveACause` | `CheckoutService`: `Spec => NoFalseAlarm`, a property of steps | the same |

They hold for any number of buyers, seeders, connections, attempts, replicas, faults and
places in the channel, and for all quantities and stocks.

**Assumptions.** The named assumptions on the constants say that buyers are not seeders,
quantities positive and stocks natural numbers, limits positive, and `None` no answer. Where the
units of buyers are added up (`PgRow`, `RedisCounter`, `TokenQueue`, `CheckoutService`), the set of
buyers is also finite. A state is reached in finitely many steps, and finitely many calls take part in
them, so an invariant that holds for every finite set of calls holds of a server that runs for ever.
`Seeders = {}` in two theorems is the hypothesis under which the properties are
meant and checked (`row_together`): a seed deletes orders and sets versions back, whatever their
buyers were told.

**Sums.** `Totals` defines the units of a set of calls by counting the pairs of a call and one of
its units, instead of by recursion, so that what happens to a sum when a call joins, leaves or
keeps its units (`TotalAdd`, `TotalRemove`, `TotalSame`, `TotalAtLeast`) is a fact about
the cardinality of finite sets, with no induction.

### Row adapters

`Coordinated` names the mixes that are safe: `pg_cond`, `pg_for_update` and
`pg_serializable` in any combination and with any seeds, or `pg_advisory` alone, or
`pg_optimistic` alone, the last two without a seed during the sale. That is not a
convenience: an advisory lock is respected by nobody else, and a version is moved by nobody
else, so that literal writes of other mixes really lose updates.

A behaviour never changes which adapter a client uses, so `Coordinated`, a state predicate on
`kind`, is constant along it (`KindIsFixed`); the invariants below are proved where it holds and
are vacuous where it does not.

`Conservation` is not inductive: to see that a COMMIT preserves it, one must know that
what is committed was computed from the row as it is now. The inductive invariant is
therefore the type invariant with the conjuncts

1. `LocksHeld`: whoever has written holds the row lock; `pg_for_update` from its SELECT
   on, `pg_advisory` the advisory lock;
2. `ReadsCurrent`: a lock, an equal version or an equal snapshot implies that the stock
   that was read is the stock of the row;
3. `WritesFresh`: the pending write is the row less the quantity;
4. that a call that is running has attempts left;
5. `Conservation` itself.

`NoOversell` follows from `Conservation` and `NeverNegative`. The refinement maps
`left` to `row.stock` and `taken` to `sinceSeed`; a COMMIT is `Buy`, the statement that
saw too little stock is `Shortage`, pg_cond's second statement is `Refuse`, every
other return is `GiveUp`, an upsert is `Reseed`, and all else stutters. `RefusalsAreFinal` is
read off the contract's steps: without `Reseed` none of them raises `left`, so
that who has seen it too small (`ShortStays`) has seen it so for good.

The theorems about orders need no coordination. `BuyerForms` says that every step of every
adapter walks on, gives up, retries or sells; the invariants then take four cases instead of
one per statement. `Once` says that a call that is running has neither answer nor order;
with it `OrdersWithinSeed` is inductive as it stands (`WithinInv`), since a COMMIT adds the same units
to the table and to `sinceSeed`, and a DELETE empties the table. `Contended` counts for each
buyer of pg_optimistic its failures, and one more while its snapshot is behind the row, against
the others that were served: the extra one pays for the conflict before it happens.

### Redis

`RedisTypeCorrect` rests on an invariant that ties a buyer's row in `orders` to its place in the
call: before its INSERT there is none. For the ledger, `Moves` classifies what any step can do to
the account: nothing, sell, lose units, bring back units that were not out, or seed. The
strengthening needed is small: a DECRBY that is marked as waiting for its compensation belongs to a
call that is about to send it or has ended (`Away`); without it, INCRBY would be
subtracted twice. `RefusalsHaveCauses` carries one witness: as soon as there is a sign that
somebody asked for too much (an overshoot in flight, or an answer), there is a call that really
did (`Cause`), and nothing but a seed or a stray makes it lose that claim.

A step of redis_lua maps to `Sale` thus: a script that grants is a `Buy` that leaves the buyer
`holding`, the end of the INSERT (or its failure) is `Deliver`, a refusal `Shortage`,
SET is `Reseed`, a script that is sent twice is `Leak`, the rest stutters. By
`LossyNeverOversells` redis_lua never oversells, however many commands are sent twice
(`LuaNeverOversells`; the theorems of `SaleProofs` are instantiated with the mapping, as for
pg_skip_locked and go_chan).

### Tickets

`Locks` is the invariant the other theorems rest on: a ticket is in the hands of one
transaction, what a buyer holds is unclaimed and no more than it asked for, what it commits is
exactly that, and a transaction that has ended holds nothing. `Searched` follows a buyer
through the pile: what nobody else has is in its hands or still ahead of it, so that at the end of
the search nothing else is free. `Alone` follows a seed that overlaps no other: its DELETE has
the whole pile in its snapshot or under its locks. In the refinement a COMMIT is `Buy`, every
other return `GiveUp`, the COMMIT of the DELETE and the INSERT of the pile are `Reseed`.

### go_chan

`ChanInv`: no call has two requests in the channel; a request in the channel has no reply; its
caller waits for one, or has left with an error. That the channel is a queue enters by two lemmas on `Append`
and `Tail` (`QueueAppend`, `QueueTail`); all actions then change one call and leave the others as they
were (`OnlyCall`). The owner's step on a request is the step of the contract: `Buy`, which leaves the
caller `holding`, or ends its call with an error if it has left; `Shortage`; `GiveUp`; or
`Reseed`. A handler that learns the reply stutters or ends its call by `Deliver`, `Refuse` or
`GiveUp`; a request lost with the process is `GiveUp`, a granted one that is lost `Deliver` with
an error; a restart is a `Reseed` with nothing.

### token_queue

`BatchesCover`: what the consumer that has the partition has skipped is in its batch or in the
table, and a batch that is about to be committed is in the table; `CommittedIsRecorded` is not inductive
without it, as a commit covers all that was skipped. `StaysSettled`: an order that was settled when
a seed deleted it is below the committed offset, has no record on its way and none in a batch.
`SharesBalance` has one step per action that touches a quota; a grant adds a buyer to those
that are summed up, a refund removes one.

### Service

`RefusedMeansUntouched` follows from `Taken`, which says for a buyer in `took` where its call can
be and what it will be answered.

For the tracker, every step of a buyer is given as one of four effects on a store (`BuyerEffect`): it
`Rests`, a buyer `Takes` units out of it, `Gives` them back, or `Queues` them, whereupon they no
longer come back. A read-first adapter's write is a `Takes` because it is not `Uncoordinated` and
found what it had read (`OverwriteTakes`); a request that is `Racing` stays so, which keeps the
other case out of the way. On these effects rest

1. `SeedInv`: a seed that overlaps nothing is alone, and an adapter it has seeded has no sale, no
   unit out and no more than the seed and what came back (`Primed`);
2. `Account`, per adapter, while nothing is disturbed: the sales that the tracker counted and those
   on their way to it are all there were (`Counted`); what is left, what is out and what was
   sold are no more than was seeded, unless units strayed in (`Kept`); a gauge, or a value on its
   way to one, with what came back since, is no less than what is left (`Shown`);
3. `Alarm`: if the tracker counted too much, the counter is above zero.

`AlarmCause` is read off `Counted` and `Kept`: a count above the seed is a sale above it.
`NoMissedOversell` follows from `Counted` and `Alarm` when no sale is on its way any more.

### Only model-checked

`EveryCallReturns`, `AcceptedIsRecorded`, `BuyersNeverWait` and `SeedsReturn`: liveness under
fairness is out of reach of the prover. All other properties of the runs that pass are theorems. The
five properties that TLC refutes (section 5) are not true, so there is nothing to prove.

`TypeOK` of `PgSkipLocked` and `CheckoutService` documents their state and is not part of a run; it
is proved all the same (`TicketTypeCorrect`, `ServiceTypeCorrect`).

## 5. Findings

1. `row_optimistic_seed`: the comment on pg_optimistic's compare-and-set
   (`internal/repository/pg_optimistic.go:99-101`) says that if anyone else committed in
   between, the version moved and the UPDATE updates nothing. The adapter's own `Seed` commits
   a row whose version is 0 again (line 142). A buyer that read version 0, paused, and
   resumes after the seed passes the check and overwrites the seeded stock.
2. `redis_atomic_seed`: `redis_atomic.go:18-19` says the adapter never oversells. A buyer
   overshoots, a seed sets the counter, and the compensation (line 68) raises the new counter
   by units that the new sale never had; they are sold.
3. `chan_shutdown`: `RECIPE.md:64` says of a restart that requests in flight drain first. The
   owner goroutine returns at the signal (`go_chan.go:79-81`), not when the drain is over: a
   request that waits for it hangs for the ten seconds of the shutdown and is cut off.
4. `queue_refund`: the comment `token_queue.go:184` says that the order did not queue, so the
   unit is given back. The produce also fails for the client when only the acknowledgement
   is missing; then the unit is granted again and the order is recorded as well.
5. `service_alarm`: `internal/metrics/metrics.go:37` and `RECIPE.md:126` say that `oversell_total` must
   be 0 for correct adapters. `Seed` resets the tracker (`checkout_service.go:222-233`) whatever
   checkouts are under way: one that took its unit out of the old stock and records it after
   the reset counts against the new one, and when the new one is sold out the alarm of
   pg_cond goes off. By `NoFalseAlarm` it takes a seed that overlaps
   another call or fails, requests that may write over each other, or units that came back
   without having been out.

Two more observations, without a run. A comment in `migrations/000001_init.up.sql:7-8` wants
`stock` to be able to go negative for the naive adapter; by `NeverNegative` no mix of row
adapters ever writes a negative stock, since each checks before it subtracts: what naive does
is sell units without counting them. And `token_queue.go:61-62` rightly claims that a 200
means the order is in the log: `CommittedIsRecorded` and `AcceptedIsRecorded` confirm it as far
as the consumer is concerned.

## 6. Plan

Done: every adapter and the service above them, each with its runs; every safety property and every
refinement that a run checks is a theorem as well. To come:

1. `TokenQueue` as an implementation of a contract of its own: it keeps `Sale` per replica only
   up to refunds of orders that were recorded after all (finding 4), which asks for a contract
   with a `Return` step.
2. The bound on oversells of several replicas of token_queue together: the sum of the shares.

## 7. Not modelled, and why

`Stock()` of every adapter is a read without effect. Of handlers, routes and DTOs, the mapping of
errors to statuses is in `CheckoutService`; what they check is an assumption on the inputs of
the models (`qty > 0`, seeds of at least 0), and the rest is stateless. Of the metrics, the
counters of attempts and the histogram of latencies are left out: nothing reads them. Configuration, logging, telemetry, connection set-up and the load test
carry no logic the adapters depend on. `src/main.go` is a project template unrelated to the
recipe. Several products are independent: every statement names one product, and the models
have one. Arithmetic overflow is out of scope: stocks are `integer` columns, whose range errors surface
as errors of a statement. `products.stock` has no CHECK constraint, and the models put none.
