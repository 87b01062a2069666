----------------------------- MODULE TokenQueue -----------------------------
(***************************************************************************)
(* token_queue: every replica of the server grants units from a quota in    *)
(* its memory, queues the order in a Kafka topic and answers; the member of *)
(* the consumer group that has the product's partition moves the orders to  *)
(* Postgres in batches.  A record carries the key of its call, so that a    *)
(* record which is delivered again does not become a second order.          *)
(*                                                                          *)
(* Kafka is modelled as the code uses it: one leader that keeps what it     *)
(* appended; no idempotent writes, so that a request of the producer may be *)
(* lost, be late, or be sent again and appended twice; offsets are          *)
(* committed by hand; a partition that changes its consumer is read again   *)
(* from the committed offset.                                               *)
(***************************************************************************)
EXTENDS Integers, Sequences, FiniteSets, Totals

CONSTANTS
  Buyers,      \* calls to Decrement, and the idempotency keys of their records
  Seeders,     \* calls to Seed
  Replicas,    \* server processes
  Homes,       \* the ways calls may be spread over the replicas
  Quantities,  \* units a buyer may ask for
  Stocks,      \* shares a replica may be seeded with
  SeededFirst, \* subset of BOOLEAN: may a replica have a quota at the start?
  MaxSends,    \* requests the producer sends for a record, RecordRetries + 1
  MaxFaults,   \* bound on resends, crashes, rebalances and seeds
  None         \* no answer yet, no consumer

Clients == Buyers \cup Seeders
Answers == {"ok", "out_of_stock", "not_found", "unavailable", "error"}

ASSUME QueueClientsAssumption ==
  /\ Buyers \cap Seeders = {}
  /\ IsFiniteSet(Buyers)
  /\ None \notin Answers \cup Replicas
ASSUME QueueQuantitiesAssumption ==
  /\ Quantities \subseteq Nat \ {0}
  /\ Stocks \subseteq Nat
  /\ SeededFirst \subseteq BOOLEAN
ASSUME QueueHomesAssumption == Homes \subseteq [Clients -> Replicas]
ASSUME QueueLimitsAssumption ==
  /\ MaxSends \in Nat \ {0}
  /\ MaxFaults \in Nat

-----------------------------------------------------------------------------
(* State                                                                    *)

VARIABLES
  quota,      \* quota[r]: units replica r may still grant
  known,      \* known[r]: the map of r has an entry for the product
  home,       \* home[c]: the replica that handles call c
  qty,        \* qty[b]: units that buyer b asks for
  pc,         \* pc[c]: the next step of call c
  answer,     \* answer[c]: what the call returned
  sends,      \* sends[b]: requests sent for the record of b
  wire,       \* wire[b]: those of them still under way
  log,        \* the partition: keys of the records, oldest first
  assigned,   \* the replica whose consumer has the partition
  position,   \* records of the partition that replica has fetched or skipped
  pending,    \* pending[r]: offsets of the records in r's batch
  flushing,   \* flushing[r]: r's batch is inserted, its offsets not committed
  committed,  \* the offset committed for the consumer group
  orders,     \* orders[b]: rows of the orders table with the key of b
  faults,     \* resends, crashes, rebalances and seeds so far
  share,      \* history: share[r]: the quota r was last seeded with
  current,    \* history: buyers with a grant out of the present share
  stray,      \* history: stray[r]: refunds of grants out of earlier shares
  recorded,   \* history: keys that have been in the orders table
  drained     \* history: keys of the last seed's orders that nothing was under way for

callVars == <<quota, known, home, qty, pc, answer, sends>>
consumerVars == <<assigned, position, pending, flushing, committed>>
ledger == <<share, current, stray>>
history == <<faults, ledger, recorded, drained>>
vars == <<callVars, wire, log, consumerVars, orders, history>>

TypeOK ==
  /\ quota \in [Replicas -> Nat]
  /\ known \in [Replicas -> BOOLEAN]
  /\ home \in [Clients -> Replicas]
  /\ qty \in [Buyers -> Quantities]
  /\ pc \in [Clients -> {"grant", "produce", "delete", "set", "done"}]
  /\ answer \in [Clients -> Answers \cup {None}]
  /\ sends \in [Buyers -> 0 .. MaxSends]
  /\ wire \in [Buyers -> 0 .. MaxSends]
  /\ log \in Seq(Buyers)
  /\ assigned \in Replicas \cup {None}
  /\ position \in 0 .. Len(log)
  /\ pending \in [Replicas -> SUBSET (1 .. Len(log))]
  /\ flushing \in [Replicas -> BOOLEAN]
  /\ committed \in 0 .. Len(log)
  /\ orders \in [Buyers -> Nat]
  /\ faults \in 0 .. MaxFaults
  /\ share \in [Replicas -> Nat]
  /\ current \subseteq Buyers
  /\ stray \in [Replicas -> Nat]
  /\ recorded \subseteq Buyers
  /\ drained \subseteq Buyers

Init ==
  /\ known \in [Replicas -> SeededFirst]
  /\ quota \in {q \in [Replicas -> Stocks \cup {0}] :
                  \A r \in Replicas : IF known[r] THEN q[r] \in Stocks ELSE q[r] = 0}
  /\ home \in Homes
  /\ qty \in [Buyers -> Quantities]
  /\ pc = [c \in Clients |-> IF c \in Buyers THEN "grant" ELSE "delete"]
  /\ answer = [c \in Clients |-> None]
  /\ sends = [b \in Buyers |-> 0]
  /\ wire = [b \in Buyers |-> 0]
  /\ log = << >>
  /\ assigned \in Replicas
  /\ position = 0
  /\ pending = [r \in Replicas |-> {}]
  /\ flushing = [r \in Replicas |-> FALSE]
  /\ committed = 0
  /\ orders = [b \in Buyers |-> 0]
  /\ faults = 0
  /\ share = quota
  /\ current = {}
  /\ stray = [r \in Replicas |-> 0]
  /\ recorded = {}
  /\ drained = {}

-----------------------------------------------------------------------------
(* Decrement                                                                *)

Goto(c, loc) == pc' = [pc EXCEPT ![c] = loc]

Return(c, a) ==
  /\ Goto(c, "done")
  /\ answer' = [answer EXCEPT ![c] = a]

\* Variant: a grant does not look at the quota.
GrantUnchecked(b) ==
  LET r == home[b] IN
  /\ pc[b] = "grant"
  /\ known[r]
  /\ quota' = [quota EXCEPT ![r] = @ - qty[b]]
  /\ current' = current \cup {b}
  /\ Goto(b, "produce")
  /\ UNCHANGED <<known, home, qty, answer, sends, wire, log, consumerVars, orders,
                 faults, share, stray, recorded, drained>>

\* grant, under the mutex of the replica.
Grant(b) ==
  LET r == home[b] IN
  /\ pc[b] = "grant"
  /\ known[r] /\ quota[r] >= qty[b]
  /\ quota' = [quota EXCEPT ![r] = @ - qty[b]]
  /\ current' = current \cup {b}
  /\ Goto(b, "produce")
  /\ UNCHANGED <<known, home, qty, answer, sends, wire, log, consumerVars, orders,
                 faults, share, stray, recorded, drained>>

Refuse(b) ==
  LET r == home[b] IN
  /\ pc[b] = "grant"
  /\ \/ ~known[r] /\ Return(b, "not_found")
     \/ known[r] /\ quota[r] < qty[b] /\ Return(b, "out_of_stock")
  /\ UNCHANGED <<quota, known, home, qty, sends, wire, log, consumerVars, orders,
                 history>>

\* ProduceSync: the client library sends the record, and sends it again when it
\* hears nothing; that counts as a fault.
Send(b) ==
  /\ pc[b] = "produce"
  /\ sends[b] < MaxSends
  /\ IF sends[b] = 0
     THEN UNCHANGED faults
     ELSE faults < MaxFaults /\ faults' = faults + 1
  /\ sends' = [sends EXCEPT ![b] = @ + 1]
  /\ wire' = [wire EXCEPT ![b] = @ + 1]
  /\ UNCHANGED <<quota, known, home, qty, pc, answer, log, consumerVars, orders, ledger,
                 recorded, drained>>

Logged(b) == \E i \in DOMAIN log : log[i] = b

\* The leader acknowledged one of the requests: the sale is durably queued.
Acknowledged(b) ==
  /\ pc[b] = "produce"
  /\ Logged(b)
  /\ Return(b, "ok")
  /\ UNCHANGED <<quota, known, home, qty, sends, wire, log, consumerVars, orders,
                 history>>

\* Variant: the grant of a failed produce is not given back.
NoRefund(b) ==
  /\ pc[b] = "produce"
  /\ Return(b, "unavailable")
  /\ UNCHANGED <<quota, known, home, qty, sends, wire, log, consumerVars, orders,
                 history>>

\* Timeout, or the end of the caller's context, and refund: the client gave up on
\* the record, whatever the leader did or still does with the requests.
ProduceFails(b) ==
  LET r == home[b] IN
  /\ pc[b] = "produce"
  /\ quota' = [quota EXCEPT ![r] = @ + qty[b]]
  /\ stray' = IF b \in current THEN stray ELSE [stray EXCEPT ![r] = @ + qty[b]]
  /\ Return(b, "unavailable")
  /\ UNCHANGED <<known, home, qty, sends, wire, log, consumerVars, orders, faults, share,
                 current, recorded, drained>>

-----------------------------------------------------------------------------
(* The broker                                                               *)

Arrive(b) ==
  /\ wire[b] > 0
  /\ wire' = [wire EXCEPT ![b] = @ - 1]
  /\ log' = Append(log, b)
  /\ UNCHANGED <<callVars, consumerVars, orders, history>>

Drop(b) ==
  /\ wire[b] > 0
  /\ wire' = [wire EXCEPT ![b] = @ - 1]
  /\ UNCHANGED <<callVars, log, consumerVars, orders, history>>

\* Variant: without an offset of the group, a member starts at the beginning.
RebalanceFromStart(r) ==
  /\ assigned # r
  /\ \/ assigned = None /\ UNCHANGED faults
     \/ assigned # None /\ faults < MaxFaults /\ faults' = faults + 1
  /\ assigned' = r
  /\ position' = 0
  /\ UNCHANGED <<callVars, wire, log, pending, flushing, committed, orders, ledger,
                 recorded, drained>>

\* The group gives the partition to another member, which starts at the committed
\* offset; the old one keeps its batch.
Rebalance(r) ==
  /\ assigned # r
  /\ \/ assigned = None /\ UNCHANGED faults
     \/ assigned # None /\ faults < MaxFaults /\ faults' = faults + 1
  /\ assigned' = r
  /\ position' = committed
  /\ UNCHANGED <<callVars, wire, log, pending, flushing, committed, orders, ledger,
                 recorded, drained>>

-----------------------------------------------------------------------------
(* The consumer loop of a replica                                           *)

\* Variant: the client library commits what it hands out.
PollAutoCommits(r) ==
  /\ assigned = r
  /\ ~flushing[r]
  /\ position < Len(log)
  /\ position' = position + 1
  /\ pending' = [pending EXCEPT ![r] = @ \cup {position + 1}]
  /\ committed' = position + 1
  /\ UNCHANGED <<callVars, wire, log, assigned, flushing, orders, history>>

\* PollRecords fetches the next record into the batch; a poll of many is many polls.
Poll(r) ==
  /\ assigned = r
  /\ ~flushing[r]
  /\ position < Len(log)
  /\ position' = position + 1
  /\ pending' = [pending EXCEPT ![r] = @ \cup {position + 1}]
  /\ UNCHANGED <<callVars, wire, log, assigned, flushing, committed, orders, history>>

Batch(r) == {log[i] : i \in pending[r]}

\* INSERT ... ON CONFLICT (idempotency_key) DO NOTHING.
InsertOrders(keys) ==
  /\ orders' = [b \in Buyers |-> IF b \in keys /\ orders[b] = 0 THEN 1 ELSE orders[b]]
  /\ recorded' = recorded \cup keys
  /\ UNCHANGED <<callVars, wire, log, assigned, position, pending, committed, faults,
                 ledger, drained>>

\* Variant: the records carry no key.
InsertBatchWithoutKeys(r) ==
  /\ ~flushing[r]
  /\ pending[r] # {}
  /\ orders' = [b \in Buyers |-> IF b \in Batch(r) THEN orders[b] + 1 ELSE orders[b]]
  /\ recorded' = recorded \cup Batch(r)
  /\ flushing' = [flushing EXCEPT ![r] = TRUE]
  /\ UNCHANGED <<callVars, wire, log, assigned, position, pending, committed, faults,
                 ledger, drained>>

\* Variant: a batch waits until it is full.
InsertFullBatch(r) ==
  /\ ~flushing[r]
  /\ Cardinality(pending[r]) >= 2
  /\ InsertOrders(Batch(r))
  /\ flushing' = [flushing EXCEPT ![r] = TRUE]

\* flush: the batch is full or old enough.  A batch that is not inserted stays.
InsertBatch(r) ==
  /\ ~flushing[r]
  /\ pending[r] # {}
  /\ InsertOrders(Batch(r))
  /\ flushing' = [flushing EXCEPT ![r] = TRUE]

\* The INSERT took effect, but the loop is told that it failed.
InsertUnacknowledged(r) ==
  /\ ~flushing[r]
  /\ pending[r] # {}
  /\ InsertOrders(Batch(r))
  /\ UNCHANGED flushing

\* CommitUncommittedOffsets; a member that lost the partition has nothing to commit.
CommitOffsets(r) ==
  /\ flushing[r]
  /\ committed' = IF assigned = r THEN position ELSE committed
  /\ pending' = [pending EXCEPT ![r] = {}]
  /\ flushing' = [flushing EXCEPT ![r] = FALSE]
  /\ UNCHANGED <<callVars, wire, log, assigned, position, orders, history>>

\* The commit fails, or is done and said to have failed: the batch stays.
CommitFails(r) ==
  /\ flushing[r]
  /\ committed' \in {committed, IF assigned = r THEN position ELSE committed}
  /\ flushing' = [flushing EXCEPT ![r] = FALSE]
  /\ UNCHANGED <<callVars, wire, log, assigned, position, pending, orders, history>>

-----------------------------------------------------------------------------
(* Seed, crash and restart                                                  *)

\* The record of b is in the orders table for good: committed, in no batch, and no
\* request with another copy of it is under way.
Settled(b) ==
  /\ pc[b] = "done"
  /\ wire[b] = 0
  /\ \A i \in DOMAIN log : log[i] = b => i <= committed
  /\ \A r \in Replicas : b \notin Batch(r)

\* The products row is nobody's business here; then the orders, then the quota.  A seed
\* that fails before the orders are gone has changed nothing and is no step.
SeedDelete(s) ==
  /\ pc[s] = "delete"
  /\ faults < MaxFaults
  /\ faults' = faults + 1
  /\ orders' = [b \in Buyers |-> 0]
  /\ drained' = {b \in recorded : Settled(b)}
  /\ Goto(s, "set")
  /\ UNCHANGED <<quota, known, home, qty, answer, sends, wire, log, consumerVars, ledger,
                 recorded>>

\* What is granted out of the old share is no longer part of the account.
NewShare(r, n) ==
  /\ quota' = [quota EXCEPT ![r] = n]
  /\ share' = [share EXCEPT ![r] = n]
  /\ stray' = [stray EXCEPT ![r] = 0]
  /\ current' = {b \in current : home[b] # r}

SeedQuota(s) ==
  /\ pc[s] = "set"
  /\ \E n \in Stocks : NewShare(home[s], n)
  /\ known' = [known EXCEPT ![home[s]] = TRUE]
  /\ Return(s, "ok")
  /\ UNCHANGED <<home, qty, sends, wire, log, consumerVars, orders, faults, recorded,
                 drained>>

\* A replica stops, by a signal or a crash, and comes back: quota, batch and the calls
\* under way are gone, the partition is free, requests on the wire are not called
\* back.  A call that had done nothing yet arrives after the restart.
Crash(r) ==
  /\ faults < MaxFaults
  /\ faults' = faults + 1
  /\ known' = [known EXCEPT ![r] = FALSE]
  /\ NewShare(r, 0)
  /\ LET here == {c \in Clients : home[c] = r /\ pc[c] \in {"produce", "set"}} IN
       /\ pc' = [c \in Clients |-> IF c \in here THEN "done" ELSE pc[c]]
       /\ answer' = [c \in Clients |-> IF c \in here THEN "error" ELSE answer[c]]
  /\ assigned' = IF assigned = r THEN None ELSE assigned
  /\ pending' = [pending EXCEPT ![r] = {}]
  /\ flushing' = [flushing EXCEPT ![r] = FALSE]
  /\ UNCHANGED <<home, qty, sends, wire, log, position, committed, orders, recorded,
                 drained>>

-----------------------------------------------------------------------------

CallStep(b) == Grant(b) \/ Refuse(b) \/ Send(b) \/ Acknowledged(b) \/ ProduceFails(b)

ConsumerStep(r) ==
  \/ Poll(r) \/ InsertBatch(r) \/ InsertUnacknowledged(r)
  \/ CommitOffsets(r) \/ CommitFails(r)

\* Nothing is left to do; the seed need not have come.
Finished ==
  /\ \A b \in Buyers : pc[b] = "done"
  /\ \A s \in Seeders : pc[s] \in {"delete", "done"}
  /\ \A b \in Buyers : wire[b] = 0
  /\ UNCHANGED vars

Next ==
  \/ \E b \in Buyers : CallStep(b) \/ Arrive(b) \/ Drop(b)
  \/ \E s \in Seeders : SeedDelete(s) \/ SeedQuota(s)
  \/ \E r \in Replicas : ConsumerStep(r) \/ Rebalance(r) \/ Crash(r)
  \/ Finished

\* The consumer loop keeps turning: it polls in every round, the age of the batch
\* makes a flush due in some later round, and the group gives a free partition away.
Fairness ==
  /\ \A r \in Replicas : SF_vars(Poll(r)) /\ SF_vars(InsertBatch(r))
  /\ \A r \in Replicas : WF_vars(CommitOffsets(r) \/ CommitFails(r))
  /\ WF_vars(assigned = None /\ \E r \in Replicas : Rebalance(r))

Spec == Init /\ [][Next]_vars
FairSpec == Spec /\ Fairness

-----------------------------------------------------------------------------
(* Properties                                                               *)

\* Offsets are committed only for records that have become orders, so a crash or a
\* rebalance at any moment loses no order that was answered with 200.
CommittedIsRecorded == \A i \in 1 .. committed : log[i] \in recorded

\* insertBatch: "a redelivered message cannot double-book a unit".
NoDuplicateOrders == \A b \in Buyers : orders[b] <= 1

\* The grants out of the present share of r that were not given back.
Granted(r) == {b \in current : home[b] = r /\ answer[b] # "unavailable"}

\* Every unit of a replica's share is in its quota or granted to a call that sold it or
\* has not failed yet; what is in excess is refunds of grants that an earlier share
\* had made, which a seed cannot call back.
QuotaLedger ==
  \A r \in Replicas : quota[r] + Total(qty, Granted(r)) = share[r] + stray[r]

\* The keys go with the orders a seed deletes, so they stop no redelivery after it; an
\* order of the sale before stays away all the same once its record has settled.
SeedIsClean == \A b \in drained : orders[b] = 0

\* A buyer who was answered with 200 gets a row in Postgres in the end: sooner or later
\* there is nobody left who waits for one.
AcceptedIsRecorded ==
  <>[](\A b \in Buyers : answer[b] = "ok" => b \in recorded)

\* The comment on the refund: "the order did not queue, so give the unit back"
\* (token_queue.go:184).
RefundedIsNotQueued ==
  \A b \in Buyers : answer[b] = "unavailable" => ~Logged(b)

=============================================================================
