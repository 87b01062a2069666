------------------------------- MODULE PgRow -------------------------------
(***************************************************************************)
(* The six adapters that keep the stock of a product in one row of          *)
(* flashsale.products: naive, pg_cond, pg_for_update, pg_advisory,          *)
(* pg_optimistic and pg_serializable.  A server offers all of them at once  *)
(* on the same row, so the module takes any mix.  The unit of atomicity is  *)
(* one SQL statement; between two statements of a transaction any other     *)
(* client may run.                                                          *)
(*                                                                          *)
(* Postgres is modelled by what a statement does under its isolation level: *)
(* an UPDATE, an upsert or a SELECT FOR UPDATE waits for the row lock and   *)
(* then works on the newest committed row; an UPDATE whose WHERE clause     *)
(* does not hold returns at once; under SERIALIZABLE an UPDATE of a row     *)
(* that changed since the snapshot fails with 40001, and so may any         *)
(* statement; the end of a transaction releases its locks.                  *)
(***************************************************************************)
EXTENDS Integers, FiniteSets, Totals

CONSTANTS
  Buyers,       \* calls to Decrement
  Seeders,      \* calls to an adapter's Seed
  Deployments,  \* the sets of adapters that clients may use together
  Quantities,   \* units a buyer may ask for
  Stocks,       \* stocks the product may be seeded with
  RowAtStart,   \* subset of BOOLEAN: may the product be there at the start?
  MaxAttempts,  \* optimisticMaxAttempts
  MaxConns,     \* connections in the pool
  None          \* no lock holder, no answer yet

RowKinds == {"naive", "pg_cond", "pg_for_update", "pg_advisory",
             "pg_optimistic", "pg_serializable"}

Clients == Buyers \cup Seeders

\* nil, an error of domain/errors.go, or an error of Postgres or the pool.
Answers == {"ok", "out_of_stock", "not_found", "retry_exhausted", "error"}

ASSUME ClientsAssumption ==
  /\ Buyers \cap Seeders = {} /\ IsFiniteSet(Buyers)
  /\ None \notin Clients \cup Answers
ASSUME DeploymentsAssumption == Deployments \subseteq SUBSET RowKinds
ASSUME QuantitiesAssumption ==
  /\ Quantities \subseteq Nat \ {0}   \* handler/checkout.go rejects qty <= 0
  /\ Stocks \subseteq Nat             \* and a seed below 0
ASSUME RowAtStartAssumption == RowAtStart \subseteq BOOLEAN
ASSUME LimitsAssumption ==
  /\ MaxAttempts \in Nat \ {0}
  /\ MaxConns \in Nat \ {0}

-----------------------------------------------------------------------------
(* State                                                                    *)

VARIABLES
  row,        \* the committed products row; xmin counts its row versions
  orders,     \* orders[b]: rows of the orders table that buyer b inserted
  rowLock,    \* the client whose open transaction locks the row
  advLock,    \* the client that holds pg_advisory_xact_lock(product id)
  kind,       \* kind[c]: the adapter that client c uses
  qty,        \* qty[b]: units that buyer b asks for
  pc,         \* pc[c]: the next statement of client c
  failures,   \* failures[b]: attempts that ended in a conflict
  read,       \* read[b]: the row as b's SELECT returned it
  write,      \* write[b]: the row version b wrote and did not commit yet
  answer,     \* answer[c]: what the call returned
  seeded,     \* history: stock at the last seed
  sinceSeed   \* history: units sold by committed orders since then

vars == <<row, orders, rowLock, advLock, kind, qty, pc, failures, read, write,
          answer, seeded, sinceSeed>>

Rows == [exists : BOOLEAN, stock : Int, version : Nat, xmin : Nat]
NoRow == [exists |-> FALSE, stock |-> 0, version |-> 0, xmin |-> 0]

\* Program counters of clients that hold a connection of the pool.
InTransaction ==
  {"lock", "select", "update", "classify", "insert", "commit", "upsert", "delete"}
Locations == {"idle", "gap", "done"} \cup InTransaction

TypeOK ==
  /\ row \in Rows
  /\ orders \in [Buyers -> Nat]
  /\ rowLock \in Buyers \cup {None}
  /\ advLock \in Buyers \cup {None}
  /\ kind \in [Clients -> RowKinds]
  /\ qty \in [Buyers -> Quantities]
  /\ pc \in [Clients -> Locations]
  /\ failures \in [Buyers -> 0 .. MaxAttempts]
  /\ read \in [Buyers -> Rows]
  /\ write \in [Buyers -> Rows]
  /\ answer \in [Clients -> Answers \cup {None}]
  /\ seeded \in Nat
  /\ sinceSeed \in Nat

Init ==
  /\ \E present \in RowAtStart, s \in Stocks :
       row = IF present THEN [NoRow EXCEPT !.exists = TRUE, !.stock = s] ELSE NoRow
  /\ orders = [b \in Buyers |-> 0]
  /\ rowLock = None
  /\ advLock = None
  /\ \E d \in Deployments : kind \in [Clients -> d]
  /\ qty \in [Buyers -> Quantities]
  /\ pc = [c \in Clients |-> "idle"]
  /\ failures = [b \in Buyers |-> 0]
  /\ read = [b \in Buyers |-> NoRow]
  /\ write = [b \in Buyers |-> NoRow]
  /\ answer = [c \in Clients |-> None]
  /\ seeded = row.stock
  /\ sinceSeed = 0

-----------------------------------------------------------------------------
(* Transactions                                                             *)

\* A new version of the product row.
NextRow(stock, version) ==
  [exists |-> TRUE, stock |-> stock, version |-> version, xmin |-> row.xmin + 1]

\* pgxpool.BeginTx and Exec wait for a free connection.
ConnectionFree == Cardinality({c \in Clients : pc[c] \in InTransaction}) < MaxConns

\* The row can be locked by b: nobody else's transaction has it.
RowFreeFor(b) == rowLock \in {None, b}

Goto(c, loc) == pc' = [pc EXCEPT ![c] = loc]

\* Variant: pg_advisory_lock, which a transaction's end does not release.
ReleaseSessionLock(b) ==
  /\ rowLock' = IF rowLock = b THEN None ELSE rowLock
  /\ read' = [read EXCEPT ![b] = NoRow]
  /\ write' = [write EXCEPT ![b] = NoRow]
  /\ UNCHANGED advLock

\* Commit or rollback: the locks of b go, and with them the locals of attempt.
Release(b) ==
  /\ rowLock' = IF rowLock = b THEN None ELSE rowLock
  /\ advLock' = IF advLock = b THEN None ELSE advLock
  /\ read' = [read EXCEPT ![b] = NoRow]
  /\ write' = [write EXCEPT ![b] = NoRow]

\* Decrement of b returns a after the deferred Rollback.
Return(b, a) ==
  /\ Goto(b, "done")
  /\ answer' = [answer EXCEPT ![b] = a]
  /\ Release(b)
  /\ UNCHANGED <<row, orders, kind, qty, failures, seeded, sinceSeed>>

\* Variant: a loop without a bound.
ConflictForever(b) ==
  /\ failures' = [failures EXCEPT ![b] = @ + 1]
  /\ Goto(b, "idle")
  /\ Release(b)
  /\ UNCHANGED <<row, orders, kind, qty, answer, seeded, sinceSeed>>

\* Variant: a lost race answers 409 where it should answer 503.
ConflictAnswersOutOfStock(b) ==
  LET n == failures[b] + 1 IN
  /\ failures' = [failures EXCEPT ![b] = n]
  /\ Goto(b, IF n < MaxAttempts THEN "idle" ELSE "done")
  /\ answer' = [answer EXCEPT ![b] = IF n < MaxAttempts THEN None ELSE "out_of_stock"]
  /\ Release(b)
  /\ UNCHANGED <<row, orders, kind, qty, seeded, sinceSeed>>

\* The attempt lost a race: roll back and take the next turn of the loop, or
\* give up when there is none left.
Conflict(b) ==
  LET n == failures[b] + 1 IN
  /\ failures' = [failures EXCEPT ![b] = n]
  /\ Goto(b, IF n < MaxAttempts THEN "idle" ELSE "done")
  /\ answer' = [answer EXCEPT ![b] = IF n < MaxAttempts THEN None ELSE "retry_exhausted"]
  /\ Release(b)
  /\ UNCHANGED <<row, orders, kind, qty, seeded, sinceSeed>>

\* BeginTx; loc is the adapter's first statement.
Begin(b, loc) ==
  /\ pc[b] = "idle"
  /\ ConnectionFree
  /\ Goto(b, loc)
  /\ UNCHANGED <<row, orders, rowLock, advLock, kind, qty, failures, read, write,
                 answer, seeded, sinceSeed>>

\* Variant: the advisory lock taken outside the transaction, gone at once.
LockAdvisoryAutocommit(b) ==
  /\ pc[b] = "lock"
  /\ advLock = None
  /\ Goto(b, "select")
  /\ UNCHANGED <<row, orders, rowLock, advLock, kind, qty, failures, read, write,
                 answer, seeded, sinceSeed>>

LockAdvisory(b) ==
  /\ pc[b] = "lock"
  /\ advLock = None
  /\ advLock' = b
  /\ Goto(b, "select")
  /\ UNCHANGED <<row, orders, rowLock, kind, qty, failures, read, write, answer,
                 seeded, sinceSeed>>

\* SELECT the row and check the stock in Go.  With FOR UPDATE the SELECT takes the
\* row lock; a lock on a row with too little stock goes again with the rollback.
Select(b, forUpdate) ==
  /\ pc[b] = "select"
  /\ forUpdate /\ row.exists => RowFreeFor(b)
  /\ \/ /\ ~row.exists
        /\ Return(b, "not_found")
     \/ /\ row.exists
        /\ row.stock < qty[b]
        /\ Return(b, "out_of_stock")
     \/ /\ row.exists
        /\ row.stock >= qty[b]
        /\ read' = [read EXCEPT ![b] = row]
        /\ rowLock' = IF forUpdate THEN b ELSE rowLock
        /\ Goto(b, "update")
        /\ UNCHANGED <<row, orders, advLock, kind, qty, failures, write, answer,
                       seeded, sinceSeed>>

\* The UPDATE of b takes the row lock and leaves a new row version.
Put(b, version) ==
  /\ pc[b] = "update"
  /\ RowFreeFor(b)
  /\ rowLock' = b
  /\ write' = [write EXCEPT ![b] = version]
  /\ Goto(b, "insert")
  /\ UNCHANGED <<row, orders, advLock, kind, qty, failures, read, answer, seeded,
                 sinceSeed>>

\* SET stock = a number computed in Go.
UpdateLiteral(b) == Put(b, NextRow(read[b].stock - qty[b], row.version))

\* The same UPDATE under a snapshot.
UpdateSnapshot(b) ==
  \/ /\ row.xmin = read[b].xmin
     /\ UpdateLiteral(b)
  \/ /\ pc[b] = "update"
     /\ row.xmin # read[b].xmin
     /\ Conflict(b)

\* WHERE version = the version that was read.
UpdateVersioned(b) ==
  \/ /\ row.version = read[b].version
     /\ Put(b, NextRow(read[b].stock - qty[b], row.version + 1))
  \/ /\ pc[b] = "update"
     /\ row.version # read[b].version
     /\ Conflict(b)

\* Variant: WHERE without the stock.
UpdateUnconditional(b) == Put(b, NextRow(row.stock - qty[b], row.version))

\* Variant: WHERE stock > qty.
UpdateConditionalStrict(b) ==
  \/ /\ row.exists /\ row.stock > qty[b]
     /\ Put(b, NextRow(row.stock - qty[b], row.version))
  \/ /\ pc[b] = "update"
     /\ ~(row.exists /\ row.stock > qty[b])
     /\ Goto(b, "classify")
     /\ UNCHANGED <<row, orders, rowLock, advLock, kind, qty, failures, read, write,
                    answer, seeded, sinceSeed>>

\* SET stock = stock - qty WHERE stock >= qty.
UpdateConditional(b) ==
  \/ /\ row.exists /\ row.stock >= qty[b]
     /\ Put(b, NextRow(row.stock - qty[b], row.version))
  \/ /\ pc[b] = "update"
     /\ ~(row.exists /\ row.stock >= qty[b])
     /\ Goto(b, "classify")
     /\ UNCHANGED <<row, orders, rowLock, advLock, kind, qty, failures, read, write,
                    answer, seeded, sinceSeed>>

\* No row updated: a second statement asks whether the product exists.
Classify(b) ==
  /\ pc[b] = "classify"
  /\ Return(b, IF row.exists THEN "out_of_stock" ELSE "not_found")

Insert(b) ==
  /\ pc[b] = "insert"
  /\ Goto(b, "commit")
  /\ UNCHANGED <<row, orders, rowLock, advLock, kind, qty, failures, read, write,
                 answer, seeded, sinceSeed>>

\* COMMIT takes effect; the caller learns a.
CommitAs(b, a) ==
  /\ pc[b] = "commit"
  /\ row' = write[b]
  /\ orders' = [orders EXCEPT ![b] = @ + 1]
  /\ sinceSeed' = sinceSeed + qty[b]
  /\ Goto(b, "done")
  /\ answer' = [answer EXCEPT ![b] = a]
  /\ Release(b)
  /\ UNCHANGED <<kind, qty, failures, seeded>>

Commit(b) == CommitAs(b, "ok")

\* Variant: a failed Commit is retried as if nothing had been committed.
CommitRetried(b) ==
  /\ pc[b] = "commit"
  /\ failures[b] + 1 < MaxAttempts
  /\ row' = write[b]
  /\ orders' = [orders EXCEPT ![b] = @ + 1]
  /\ sinceSeed' = sinceSeed + qty[b]
  /\ Goto(b, "idle")
  /\ failures' = [failures EXCEPT ![b] = @ + 1]
  /\ Release(b)
  /\ UNCHANGED <<kind, qty, answer, seeded>>

\* The connection breaks after the server committed: Commit returns an error.
CommitUnacknowledged(b) == CommitAs(b, "error")

\* Variant: every error is taken for a conflict, whatever the adapter.
AnyErrorIsConflict(b) ==
  /\ pc[b] \in {"select", "update", "insert", "commit"}
  /\ Conflict(b)

\* 40001 at a statement or at COMMIT: the whole transaction is retried.  The
\* engine may raise it for reasons beyond this row, so it is always possible.
SerializationFailure(b) ==
  /\ kind[b] = "pg_serializable"
  /\ pc[b] \in {"select", "update", "insert", "commit"}
  /\ Conflict(b)

\* A statement, or BeginTx, fails: timeout, cancelled context, lost connection.
Fail(b) ==
  /\ pc[b] # "done"
  /\ Return(b, "error")

-----------------------------------------------------------------------------
(* Decrement of each adapter, as long as nothing fails                      *)

NaiveDecrement(b) ==
  /\ kind[b] = "naive"
  /\ \/ Begin(b, "select") \/ Select(b, FALSE) \/ UpdateLiteral(b)
     \/ Insert(b) \/ Commit(b)

PgCondDecrement(b) ==
  /\ kind[b] = "pg_cond"
  /\ \/ Begin(b, "update") \/ UpdateConditional(b) \/ Classify(b)
     \/ Insert(b) \/ Commit(b)

PgForUpdateDecrement(b) ==
  /\ kind[b] = "pg_for_update"
  /\ \/ Begin(b, "select") \/ Select(b, TRUE) \/ UpdateLiteral(b)
     \/ Insert(b) \/ Commit(b)

PgAdvisoryDecrement(b) ==
  /\ kind[b] = "pg_advisory"
  /\ \/ Begin(b, "lock") \/ LockAdvisory(b) \/ Select(b, FALSE) \/ UpdateLiteral(b)
     \/ Insert(b) \/ Commit(b)

PgOptimisticDecrement(b) ==
  /\ kind[b] = "pg_optimistic"
  /\ \/ Begin(b, "select") \/ Select(b, FALSE) \/ UpdateVersioned(b)
     \/ Insert(b) \/ Commit(b)

PgSerializableDecrement(b) ==
  /\ kind[b] = "pg_serializable"
  /\ \/ Begin(b, "select") \/ Select(b, FALSE) \/ UpdateSnapshot(b)
     \/ Insert(b) \/ Commit(b)

-----------------------------------------------------------------------------
(* Seed: two statements, each its own transaction on its own connection     *)

SeedConnect(s) ==
  /\ pc[s] \in {"idle", "gap"}
  /\ ConnectionFree
  /\ Goto(s, IF pc[s] = "idle" THEN "upsert" ELSE "delete")
  /\ UNCHANGED <<row, orders, rowLock, advLock, kind, qty, failures, read, write,
                 answer, seeded, sinceSeed>>

\* Only pg_optimistic's upsert touches the version of a row that exists.
SeedUpsert(s) ==
  /\ pc[s] = "upsert"
  /\ rowLock = None
  /\ \E n \in Stocks :
       /\ row' = NextRow(n, IF kind[s] = "pg_optimistic" THEN 0 ELSE row.version)
       /\ seeded' = n
  /\ sinceSeed' = 0
  /\ Goto(s, "gap")
  /\ UNCHANGED <<orders, rowLock, advLock, kind, qty, failures, read, write, answer>>

SeedReturn(s, a) ==
  /\ Goto(s, "done")
  /\ answer' = [answer EXCEPT ![s] = a]
  /\ UNCHANGED <<row, rowLock, advLock, kind, qty, failures, read, write, seeded,
                 sinceSeed>>

\* Variant: a seed that forgets the old orders.
SeedKeepsOrders(s) ==
  /\ pc[s] = "delete"
  /\ SeedReturn(s, "ok")
  /\ UNCHANGED orders

SeedDelete(s) ==
  /\ pc[s] = "delete"
  /\ orders' = [b \in Buyers |-> 0]
  /\ SeedReturn(s, "ok")

SeedFail(s) ==
  /\ pc[s] # "done"
  /\ SeedReturn(s, "error")
  /\ UNCHANGED orders

-----------------------------------------------------------------------------

\* What the goroutine of a client does when nothing fails.
BuyerStep(b) ==
  \/ NaiveDecrement(b)
  \/ PgCondDecrement(b)
  \/ PgForUpdateDecrement(b)
  \/ PgAdvisoryDecrement(b)
  \/ PgOptimisticDecrement(b)
  \/ PgSerializableDecrement(b)

SeederStep(s) == SeedConnect(s) \/ SeedUpsert(s) \/ SeedDelete(s)

BuyerFault(b) == CommitUnacknowledged(b) \/ SerializationFailure(b) \/ Fail(b)

\* Every call has returned.
Finished ==
  /\ \A c \in Clients : pc[c] = "done"
  /\ UNCHANGED vars

Next ==
  \/ \E b \in Buyers : BuyerStep(b) \/ BuyerFault(b)
  \/ \E s \in Seeders : SeederStep(s) \/ SeedFail(s)
  \/ Finished

\* A goroutine that can run its next statement eventually does; lock queues of
\* Postgres are first come, first served.  Nothing is assumed of the faults.
Fairness ==
  /\ \A b \in Buyers : WF_vars(BuyerStep(b))
  /\ \A s \in Seeders : WF_vars(SeederStep(s))

Spec == Init /\ [][Next]_vars
FairSpec == Spec /\ Fairness

-----------------------------------------------------------------------------
(* Properties                                                               *)

\* The adapters of d keep out of each other's way on the row.  Literal UPDATEs are
\* safe under a lock or a snapshot; what pg_advisory and pg_optimistic rely on is
\* respected neither by the other adapters nor by Seed.
Coordinate(d) ==
  \/ d \subseteq {"pg_cond", "pg_for_update", "pg_serializable"}
  \/ Seeders = {} /\ d \subseteq {"pg_advisory"}
  \/ Seeders = {} /\ d \subseteq {"pg_optimistic"}

\* The clients of this sale use such adapters.
Coordinated == Coordinate({kind[c] : c \in Clients})

\* A unit is for sale or sold, never both and never neither: what left the row
\* since the last seed is what committed orders took, so no update was lost.
Balance == row.stock + sinceSeed = seeded
Conservation == Coordinated => Balance

\* A transaction that wrote holds the row lock; pg_for_update holds it from its
\* SELECT on, and pg_advisory the advisory lock.
LocksHeld ==
  \A b \in Buyers :
    /\ pc[b] \in {"insert", "commit"} => rowLock = b
    /\ kind[b] = "pg_for_update" /\ pc[b] = "update" => rowLock = b
    /\ kind[b] = "pg_advisory" /\ pc[b] \in {"select", "update", "insert", "commit"}
         => advLock = b

\* What makes a write computed from read[b] safe: a lock keeps the row as it was
\* read, or the version or the snapshot tells that it is not.
ReadsCurrent ==
  \A b \in Buyers :
    pc[b] = "update" /\ kind[b] # "pg_cond" =>
      /\ read[b].version <= row.version
      /\ read[b].xmin <= row.xmin
      /\ \/ kind[b] \in {"pg_for_update", "pg_advisory"}
         \/ kind[b] = "pg_optimistic" /\ read[b].version = row.version
         \/ kind[b] = "pg_serializable" /\ read[b].xmin = row.xmin
         => read[b].stock = row.stock

\* What a transaction is about to commit was computed from the row as it is now.
WritesFresh ==
  \A b \in Buyers :
    pc[b] \in {"insert", "commit"} =>
      /\ write[b].stock = row.stock - qty[b]
      /\ write[b].xmin = row.xmin + 1
      /\ write[b].version = row.version + (IF kind[b] = "pg_optimistic" THEN 1 ELSE 0)

\* No write of coordinated adapters overwrites one it has not seen.
NothingOverwritten == LocksHeld /\ ReadsCurrent /\ WritesFresh
NoLostUpdate == Coordinated => NothingOverwritten

\* Even the racy adapter never writes a negative stock: every UPDATE writes a
\* difference that was checked, in Go or in its WHERE clause.
StockNeverNegative == row.stock >= 0

\* However many attempts a call makes, it leaves at most one order; a buyer who
\* got "ok" has one, and one who was refused or gave up has none.
OrderMatchesAnswer ==
  \A b \in Buyers :
    /\ orders[b] <= 1
    /\ answer[b] = "ok" => orders[b] = 1
    /\ orders[b] = 1 => answer[b] \in {"ok", "error"}

\* Between coordinated adapters the stock only falls without a seed, so whoever was
\* told "out of stock" could not be served later either (domain/errors.go:6).
OutOfStockIsTrue ==
  Coordinated /\ Seeders = {} =>
    \A b \in Buyers : answer[b] = "out_of_stock" => row.stock < qty[b]

\* Every attempt pg_optimistic loses is the sale of another buyer, whatever the other
\* adapters do, so it gives up only behind MaxAttempts others who were served.
ExhaustionIsContention ==
  \A b \in Buyers :
    kind[b] = "pg_optimistic" =>
      failures[b] <= Cardinality({o \in Buyers \ {b} : orders[o] > 0})

\* Every seed that began has cleared the orders table.
SeedsSettled ==
  \A s \in Seeders : pc[s] \in {"idle", "upsert"} \/ answer[s] = "ok"

\* The units in the orders table.
UnitsOrdered == [b \in Buyers |-> orders[b] * qty[b]]

\* Once the seeds are through, the orders table lists nothing but sales out of
\* the stock of the last one: orders of an earlier sale do not count against it.
OrdersWithinSeed == SeedsSettled => Total(UnitsOrdered, Buyers) <= sinceSeed

\* The comment on pg_optimistic's UPDATE: "if anyone else committed in between,
\* version moved" (pg_optimistic.go:99-101).
VersionMovesWithRow ==
  \A b \in Buyers :
    /\ kind[b] = "pg_optimistic"
    /\ pc[b] = "update"
    /\ row.xmin # read[b].xmin
    => row.version # read[b].version

\* No waiting for ever, on a lock, on a connection or in the retry loop.
EveryCallReturns == \A c \in Clients : <>(pc[c] = "done")

\* How the contract of Inventory sees a call: what it answered, and whether it has
\* met a shortage, as pg_cond has when its UPDATE found no row to change.
BuyerAnswers == [b \in Buyers |-> answer[b]]
BuyersShort == [b \in Buyers |-> pc[b] = "classify" \/ answer[b] = "out_of_stock"]

\* COMMIT and the answer are one step: nobody has units without knowing.
NobodyHolds == [b \in Buyers |-> FALSE]

Contract == INSTANCE Sale WITH
  left <- row.stock, taken <- sinceSeed, answer <- BuyerAnswers, seenShort <- BuyersShort,
  holding <- NobodyHolds

\* Coordinated adapters keep the contract: the sale takes effect at COMMIT, a refusal
\* at the statement that saw the stock.  A product that is not there is out of stock,
\* which pg_cond may answer when the product is seeded between its two statements.
RefinesSale == Contract!Spec

=============================================================================
