---------------------------- MODULE PgSkipLocked ----------------------------
(***************************************************************************)
(* pg_skip_locked: the stock of a product is a pile of tickets, one row of  *)
(* flashsale.stock_tickets per unit, and a buyer claims tickets with FOR    *)
(* UPDATE SKIP LOCKED.  The claim is one statement, but it visits the       *)
(* tickets one by one, and other transactions begin, commit and roll back   *)
(* between two visits; so does the DELETE of a seed.                        *)
(*                                                                          *)
(* Postgres under READ COMMITTED: a statement takes the rows its snapshot   *)
(* shows, locks each and looks again at what it locked; a locked row is     *)
(* skipped by the claim and waited for by the DELETE.  SQL promises no      *)
(* order of the visits.                                                     *)
(***************************************************************************)
EXTENDS Integers, FiniteSets

CONSTANTS
  Buyers,       \* calls to Decrement
  Seeders,      \* calls to Seed
  Quantities,   \* units a buyer may ask for
  Stocks,       \* tickets a seed may ask for
  StartStocks,  \* stocks an earlier seed may have left, None for no product at all
  None          \* no answer yet

Clients == Buyers \cup Seeders
Answers == {"ok", "out_of_stock", "not_found", "error"}

ASSUME TicketClientsAssumption ==
  /\ Buyers \cap Seeders = {}
  /\ None \notin Answers
ASSUME TicketQuantitiesAssumption ==
  /\ Quantities \subseteq Nat \ {0}   \* handler/checkout.go rejects qty <= 0
  /\ Stocks \subseteq Nat             \* and a seed below 0
  /\ StartStocks \subseteq Nat \cup {None}

-----------------------------------------------------------------------------
(* State                                                                    *)

VARIABLES
  product,   \* is there a row in flashsale.products?
  pile,      \* ids of the committed tickets
  claimed,   \* those with claimed = true
  lastId,    \* the sequence behind the ids
  orders,    \* orders[b]: committed rows of the orders table that b inserted
  pc,        \* pc[c]: the statement of client c that runs or is next
  visit,     \* visit[c]: tickets of the snapshot that c's statement has not visited
  held,      \* held[c]: tickets locked by c's transaction: claimed, or deleted, by it
  amount,    \* amount[c]: units a buyer asks for, tickets of a seed
  answer,    \* answer[c]: what the call returned
  got,       \* history: got[b]: tickets that b's committed transaction claimed
  seeded,    \* history: tickets for sale when a seed last changed the pile
  sold,      \* history: tickets claimed by committed transactions since then
  undone,    \* history: buyers whose transaction rolled back claimed tickets
  overlap    \* history: two seeds ran at the same time, or one failed half-way

tables == <<product, pile, claimed, lastId, orders>>
history == <<got, seeded, sold, undone, overlap>>
vars == <<tables, pc, visit, held, amount, answer, history>>

BuyerLocations == {"idle", "claim", "exists", "insert", "commit", "done"}
SeederLocations == {"idle", "upsert", "delete", "clear", "insert", "orders", "done"}

TypeOK ==
  /\ product \in BOOLEAN
  /\ lastId \in Nat
  /\ pile \subseteq 1 .. lastId
  /\ claimed \subseteq pile
  /\ orders \in [Buyers -> {0, 1}]
  /\ pc \in [Clients -> BuyerLocations \cup SeederLocations]
  /\ visit \in [Clients -> SUBSET (1 .. lastId)]
  /\ held \in [Clients -> SUBSET (1 .. lastId)]
  /\ amount \in [Clients -> Nat]
  /\ answer \in [Clients -> Answers \cup {None}]
  /\ got \in [Buyers -> SUBSET (1 .. lastId)]
  /\ seeded \in Nat
  /\ sold \in Nat
  /\ undone \subseteq Buyers
  /\ overlap \in BOOLEAN

Init ==
  /\ \E n \in StartStocks :
       /\ product = (n # None)
       /\ lastId = IF n = None THEN 0 ELSE n
  /\ pile = 1 .. lastId
  /\ seeded = lastId
  /\ claimed = {}
  /\ orders = [b \in Buyers |-> 0]
  /\ pc = [c \in Clients |-> "idle"]
  /\ visit = [c \in Clients |-> {}]
  /\ held = [c \in Clients |-> {}]
  /\ amount \in {f \in [Clients -> Quantities \cup Stocks] :
                   /\ \A b \in Buyers : f[b] \in Quantities
                   /\ \A s \in Seeders : f[s] \in Stocks}
  /\ answer = [c \in Clients |-> None]
  /\ got = [b \in Buyers |-> {}]
  /\ sold = 0
  /\ undone = {}
  /\ overlap = FALSE

InFlight(c) == pc[c] \notin {"idle", "done"}
LockedByOther(c, t) == \E o \in Clients \ {c} : t \in held[o]
Unclaimed == pile \ claimed

Goto(c, loc) == pc' = [pc EXCEPT ![c] = loc]

\* The end of a transaction, and of the call, releases the locks of c.
Return(c, a) ==
  /\ Goto(c, "done")
  /\ answer' = [answer EXCEPT ![c] = a]
  /\ visit' = [visit EXCEPT ![c] = {}]
  /\ held' = [held EXCEPT ![c] = {}]
  /\ UNCHANGED amount

\* Variant: without the deferred Rollback the transaction stays open.
RollBackForgotten(b, a) ==
  /\ Goto(b, "done")
  /\ answer' = [answer EXCEPT ![b] = a]
  /\ UNCHANGED <<tables, visit, held, amount, history>>

\* Variant: the claim is not in a transaction, and its tickets stay claimed.
RollBackAutocommit(b, a) ==
  /\ Return(b, a)
  /\ claimed' = claimed \cup held[b]
  /\ UNCHANGED <<product, pile, lastId, orders, history>>

\* The deferred Rollback runs before the caller has its answer.
RollBack(b, a) ==
  /\ Return(b, a)
  /\ undone' = IF held[b] = {} THEN undone ELSE undone \cup {b}
  /\ UNCHANGED <<tables, got, seeded, sold, overlap>>

-----------------------------------------------------------------------------
(* Decrement                                                                *)

\* BEGIN, and the snapshot of the claim.  A call begins here when it has its connection;
\* PgRow models the pool, and the wait for it.
BeginClaim(b) ==
  /\ pc[b] = "idle"
  /\ Goto(b, "claim")
  /\ visit' = [visit EXCEPT ![b] = Unclaimed]
  /\ UNCHANGED <<tables, held, amount, answer, history>>

\* Variant: LIMIT 1.
ClaimingOne(b) == pc[b] = "claim" /\ visit[b] # {} /\ Cardinality(held[b]) < 1

Claiming(b) == pc[b] = "claim" /\ visit[b] # {} /\ Cardinality(held[b]) < amount[b]

Visited(c, t) == visit' = [visit EXCEPT ![c] = @ \ {t}]
Lock(c, t) == held' = [held EXCEPT ![c] = @ \cup {t}]

\* Variant: the rows are read and not locked.
PassedUnlocked(b, t) == t \notin Unclaimed

\* Locked by somebody, or claimed or deleted since the snapshot was taken.
Passed(b, t) == LockedByOther(b, t) \/ t \notin Unclaimed

\* Variant: FOR UPDATE without SKIP LOCKED.
VisitWaits(b, t) ==
  /\ Claiming(b)
  /\ t \in visit[b]
  /\ ~LockedByOther(b, t)
  /\ Visited(b, t)
  /\ IF Passed(b, t) THEN UNCHANGED held ELSE Lock(b, t)
  /\ UNCHANGED <<tables, pc, amount, answer, history>>

Visit(b, t) ==
  /\ Claiming(b)
  /\ t \in visit[b]
  /\ Visited(b, t)
  /\ IF Passed(b, t) THEN UNCHANGED held ELSE Lock(b, t)
  /\ UNCHANGED <<tables, pc, amount, answer, history>>

\* The statement has its LIMIT or has seen every ticket.
Claimed(b) ==
  /\ pc[b] = "claim"
  /\ ~Claiming(b)
  /\ CASE Cardinality(held[b]) = amount[b] ->
            Goto(b, "insert") /\ UNCHANGED <<tables, visit, held, amount, answer, history>>
       [] held[b] = {} ->
            Goto(b, "exists") /\ UNCHANGED <<tables, visit, held, amount, answer, history>>
       [] OTHER -> RollBack(b, "out_of_stock")

\* classifyEmpty, in the same transaction but with a snapshot of its own.
ClassifyEmpty(b) ==
  /\ pc[b] = "exists"
  /\ RollBack(b, IF product THEN "out_of_stock" ELSE "not_found")

InsertOrder(b) ==
  /\ pc[b] = "insert"
  /\ Goto(b, "commit")
  /\ UNCHANGED <<tables, visit, held, amount, answer, history>>

\* With "error" the COMMIT arrived and its acknowledgement did not.
Commit(b, a) ==
  /\ pc[b] = "commit"
  /\ claimed' = claimed \cup held[b]
  /\ got' = [got EXCEPT ![b] = held[b]]
  /\ sold' = sold + Cardinality(held[b])
  /\ orders' = [orders EXCEPT ![b] = 1]
  /\ Return(b, a)
  /\ UNCHANGED <<product, pile, lastId, seeded, undone, overlap>>

\* A statement fails, the client hangs up, or the process dies: Postgres rolls back.
BuyerFail(b) ==
  /\ InFlight(b)
  /\ RollBack(b, "error")

BuyerStep(b) ==
  \/ BeginClaim(b)
  \/ \E t \in visit[b] : Visit(b, t)
  \/ Claimed(b) \/ ClassifyEmpty(b) \/ InsertOrder(b) \/ Commit(b, "ok")

-----------------------------------------------------------------------------
(* Seed: four statements, each a transaction of its own                     *)

SeedUpsert(s) ==
  /\ pc[s] = "idle"
  /\ product' = TRUE
  /\ overlap' = (overlap \/ \E o \in Seeders : InFlight(o))
  /\ Goto(s, "delete")
  /\ UNCHANGED <<pile, claimed, lastId, orders, visit, held, amount, answer, got, seeded,
                 sold, undone>>

\* Variant: only the tickets that are for sale are deleted.
BeginDeleteUnclaimed(s) ==
  /\ pc[s] = "delete"
  /\ Goto(s, "clear")
  /\ visit' = [visit EXCEPT ![s] = Unclaimed]
  /\ UNCHANGED <<tables, held, amount, answer, history>>

\* DELETE: a snapshot, then a lock on each ticket, waiting for whoever has it.
BeginDelete(s) ==
  /\ pc[s] = "delete"
  /\ Goto(s, "clear")
  /\ visit' = [visit EXCEPT ![s] = pile]
  /\ UNCHANGED <<tables, held, amount, answer, history>>

DeleteTicket(s, t) ==
  /\ pc[s] = "clear"
  /\ t \in visit[s]
  /\ ~LockedByOther(s, t)
  /\ Visited(s, t)
  /\ IF t \in pile THEN Lock(s, t) ELSE UNCHANGED held
  /\ UNCHANGED <<tables, pc, amount, answer, history>>

\* The pile is what is left of it, and counts as a stock of its own.
Restock(tickets) ==
  /\ pile' = tickets
  /\ claimed' = claimed \cap tickets
  /\ seeded' = Cardinality(tickets \ claimed)
  /\ sold' = 0

CommitDelete(s) ==
  /\ pc[s] = "clear"
  /\ visit[s] = {}
  /\ Restock(pile \ held[s])
  /\ held' = [held EXCEPT ![s] = {}]
  /\ Goto(s, "insert")
  /\ UNCHANGED <<product, lastId, orders, visit, amount, answer, got, undone, overlap>>

\* One INSERT for the whole pile.
InsertTickets(s) ==
  /\ pc[s] = "insert"
  /\ lastId' = lastId + amount[s]
  /\ Restock(pile \cup (lastId + 1 .. lastId + amount[s]))
  /\ Goto(s, "orders")
  /\ UNCHANGED <<product, orders, visit, held, amount, answer, got, undone, overlap>>

\* Variant: the orders are left alone.
KeepOrders(s) ==
  /\ pc[s] = "orders"
  /\ Return(s, "ok")
  /\ UNCHANGED <<tables, history>>

DeleteOrders(s) ==
  /\ pc[s] = "orders"
  /\ orders' = [b \in Buyers |-> 0]
  /\ Return(s, "ok")
  /\ UNCHANGED <<product, pile, claimed, lastId, history>>

\* A statement fails; a deadlock with another DELETE is one cause.  The statements
\* before it stay done.
SeedFail(s) ==
  /\ InFlight(s)
  /\ Return(s, "error")
  /\ overlap' = TRUE
  /\ UNCHANGED <<tables, got, seeded, sold, undone>>

\* Two DELETEs wait for each other: Postgres ends one of them.
Deadlocked(s) ==
  /\ pc[s] = "clear"
  /\ \E o \in Seeders \ {s} :
       /\ visit[s] \cap held[o] # {} /\ visit[s] \subseteq held[o]
       /\ visit[o] \cap held[s] # {} /\ visit[o] \subseteq held[s]

SeederStep(s) ==
  \/ SeedUpsert(s) \/ BeginDelete(s) \/ CommitDelete(s)
  \/ \E t \in visit[s] : DeleteTicket(s, t)
  \/ InsertTickets(s) \/ DeleteOrders(s)
  \/ Deadlocked(s) /\ SeedFail(s)

-----------------------------------------------------------------------------

\* Every call has returned.
Finished == (\A c \in Clients : pc[c] = "done") /\ UNCHANGED vars

Next ==
  \/ \E b \in Buyers : BuyerStep(b) \/ Commit(b, "error") \/ BuyerFail(b)
  \/ \E s \in Seeders : SeederStep(s) \/ SeedFail(s)
  \/ Finished

\* A call that came goes on.  Of the seeds, which wait for buyers, nothing is assumed:
\* SeedsReturn has its fairness as a premise.
Fairness == \A b \in Buyers : WF_vars(InFlight(b) /\ BuyerStep(b))

Spec == Init /\ [][Next]_vars
FairSpec == Spec /\ Fairness

-----------------------------------------------------------------------------
(* Properties                                                               *)

\* No unit is sold twice, and no part of a claim survives without the rest: a ticket
\* is claimed exactly if one committed transaction of a buyer has it, and that one
\* has as many as its buyer asked for (pg_skip_locked.go:88-90).
TicketLedger ==
  /\ \A b, o \in Buyers : b # o => got[b] \cap got[o] = {}
  /\ claimed = pile \cap UNION {got[b] : b \in Buyers}
  /\ \A b \in Buyers :
       /\ got[b] # {} => Cardinality(got[b]) = amount[b] /\ answer[b] \in {"ok", "error"}
       /\ answer[b] = "ok" => got[b] # {}

NoSeedYet == \A s \in Seeders : pc[s] = "idle"
Promised(b) == UNION {held[o] : o \in Buyers \ {b}}

\* A buyer who skips locked tickets and is refused is refused rightly, unless the claim
\* of another was rolled back later: the tickets that nobody else has or is about to
\* have are too few, from the answer on.
RefusalsHaveACause ==
  \A b \in Buyers :
    answer[b] = "out_of_stock" /\ undone \subseteq {b} /\ NoSeedYet =>
      Cardinality(Unclaimed \ Promised(b)) < amount[b]

\* A seed that ran alone replaced the whole pile, tickets that were being claimed
\* while its DELETE waited included; two at a time leave two piles.
SeedReplacesThePile ==
  /\ \A s \in Seeders : ~InFlight(s)
  /\ ~NoSeedYet
  /\ ~overlap
  => \E s \in Seeders : answer[s] = "ok" /\ Cardinality(pile) = amount[s]

\* Seeds delete the orders last, so outside of a seed, and of the ruins of a failed
\* one, no order is left whose tickets are gone.
OrdersHaveTickets ==
  (\A s \in Seeders : pc[s] \in {"idle", "delete", "clear"} \/ answer[s] = "ok") =>
    \A b \in Buyers : orders[b] = 1 => got[b] \subseteq claimed

\* "The only Postgres adapter here where buyers never wait": a call of Decrement that has
\* its connection returns though seeds, and their locks, may stand still for ever.
BuyersNeverWait == \A b \in Buyers : InFlight(b) ~> pc[b] = "done"

\* A seed waits for buyers and for other seeds, not for ever.
SeedsReturn ==
  (\A s \in Seeders : WF_vars(InFlight(s) /\ SeederStep(s))) =>
    \A s \in Seeders : InFlight(s) ~> pc[s] = "done"

\* The adapter answers "out of stock" to a buyer who lost a race for tickets that may
\* come back; in the contract that is a call that gave up.
BuyerAnswers ==
  [b \in Buyers |-> IF answer[b] = "out_of_stock" THEN "retry_exhausted" ELSE answer[b]]
BuyersQty == [b \in Buyers |-> amount[b]]
Nobody == [b \in Buyers |-> FALSE]

Contract == INSTANCE Sale WITH
  left <- Cardinality(Unclaimed), taken <- sold, qty <- BuyersQty, answer <- BuyerAnswers,
  holding <- Nobody, seenShort <- Nobody

\* But for that answer the adapter keeps the contract of Inventory: a sale takes its
\* units at COMMIT, out of tickets nobody else has.
RefinesSale == Contract!Spec

=============================================================================
