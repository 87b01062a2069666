------------------------------- MODULE GoChan -------------------------------
(***************************************************************************)
(* go_chan: the stock is a map that one goroutine owns.  Callers send it a  *)
(* request over a buffered channel and wait for the reply or for the end of *)
(* their context.  The owner lives on the context of the server, so its     *)
(* life and the life of the server process (pkg/httpserver, cmd/server) are *)
(* modelled with it: graceful shutdown, its time limit, a kill, a restart.  *)
(* One product; the orders table outlives the process, the stock does not.  *)
(***************************************************************************)
EXTENDS Integers, Sequences, FiniteSets

CONSTANTS
  Buyers,      \* calls to Decrement
  Seeders,     \* calls to Seed
  Quantities,  \* units a buyer may ask for
  Stocks,      \* stocks the product may be seeded with
  ChanCap,     \* capacity of the request channel, 1024 in the code
  None         \* no reply, no answer yet

Clients == Buyers \cup Seeders

\* What the owner replies, and what a call returns; "cut" is a connection that the
\* server's exit closes under a request.
Verdicts == {"granted", "set", "out_of_stock", "not_found"}
Answers == {"ok", "out_of_stock", "not_found", "error", "cut"}

ASSUME ChanClientsAssumption ==
  /\ Buyers \cap Seeders = {}
  /\ None \notin Answers \cup Verdicts
ASSUME ChanQuantitiesAssumption ==
  /\ Quantities \subseteq Nat \ {0}
  /\ Stocks \subseteq Nat
ASSUME ChanCapAssumption == ChanCap \in Nat \ {0}

-----------------------------------------------------------------------------
(* State                                                                    *)

VARIABLES
  stock,      \* the owner's entry for the product, 0 without one
  known,      \* is there an entry?
  owner,      \* "running" or "stopped"
  reqs,       \* the channel: clients whose requests wait, oldest first
  reply,      \* reply[c]: what is in the reply channel of c
  pc,         \* pc[c]: where the handler of client c is
  cancelled,  \* cancelled[c]: the context of c's request is done
  answer,     \* answer[c]: what the client got
  amount,     \* amount[c]: units a buyer asks for, or the stock of a seed
  orders,     \* orders[b]: rows of the orders table that buyer b inserted
  server,     \* the life of the server process
  seeded,     \* history: stock at the last seed of this process
  taken       \* history: units the owner granted since then

clientVars == <<pc, cancelled, answer, amount, orders>>
ownerVars == <<stock, known, owner, seeded, taken>>
vars == <<ownerVars, reqs, reply, clientVars, server>>

Locations == {"idle", "sql", "enqueue", "await", "insert", "done"}
Alive == {"up", "draining"}
Down == {"stopped", "timed_out", "killed"}

TypeOK ==
  /\ stock \in Nat
  /\ known \in BOOLEAN
  /\ owner \in {"running", "stopped"}
  /\ reqs \in Seq(Clients)
  /\ Len(reqs) <= ChanCap
  /\ reply \in [Clients -> Verdicts \cup {None}]
  /\ pc \in [Clients -> Locations]
  /\ cancelled \in [Clients -> BOOLEAN]
  /\ answer \in [Clients -> Answers \cup {None}]
  /\ amount \in [Clients -> Nat]
  /\ orders \in [Buyers -> {0, 1}]
  /\ server \in Alive \cup Down
  /\ seeded \in Nat
  /\ taken \in Nat

Init ==
  /\ known \in BOOLEAN
  /\ stock \in IF known THEN Stocks ELSE {0}
  /\ owner = "running"
  /\ reqs = << >>
  /\ reply = [c \in Clients |-> None]
  /\ pc = [c \in Clients |-> "idle"]
  /\ cancelled = [c \in Clients |-> FALSE]
  /\ answer = [c \in Clients |-> None]
  /\ amount \in {f \in [Clients -> Quantities \cup Stocks] :
                   /\ \A b \in Buyers : f[b] \in Quantities
                   /\ \A s \in Seeders : f[s] \in Stocks}
  /\ orders = [b \in Buyers |-> 0]
  /\ server = "up"
  /\ seeded = stock
  /\ taken = 0

InFlight(c) == pc[c] \notin {"idle", "done"}
Queued(c) == \E i \in DOMAIN reqs : reqs[i] = c

-----------------------------------------------------------------------------
(* The handlers of requests                                                 *)

Goto(c, loc) == pc' = [pc EXCEPT ![c] = loc]

Return(c, a) ==
  /\ Goto(c, "done")
  /\ answer' = [answer EXCEPT ![c] = a]

\* A new request; the server accepts none once it shuts down.
Arrive(c) ==
  /\ pc[c] = "idle"
  /\ server = "up"
  /\ Goto(c, IF c \in Buyers THEN "enqueue" ELSE "sql")
  /\ UNCHANGED <<ownerVars, reqs, reply, cancelled, answer, amount, orders, server>>

\* Seed writes Postgres before it asks the owner: the products row, which nobody here
\* reads, and then the orders.
SeedPostgres(s) ==
  /\ pc[s] = "sql"
  /\ orders' = [b \in Buyers |-> 0]
  /\ Goto(s, "enqueue")
  /\ UNCHANGED <<ownerVars, reqs, reply, cancelled, answer, amount, server>>

\* ask: send the request, waiting for room in the channel ...
Enqueue(c) ==
  /\ pc[c] = "enqueue"
  /\ Len(reqs) < ChanCap
  /\ reqs' = Append(reqs, c)
  /\ Goto(c, "await")
  /\ UNCHANGED <<ownerVars, reply, cancelled, answer, amount, orders, server>>

\* ... and wait for the reply.
Await(c) ==
  /\ pc[c] = "await"
  /\ reply[c] # None
  /\ CASE reply[c] = "granted" -> Goto(c, "insert") /\ UNCHANGED answer
       [] reply[c] = "set"     -> Return(c, "ok")
       [] OTHER                -> Return(c, reply[c])
  /\ UNCHANGED <<ownerVars, reqs, reply, cancelled, amount, orders, server>>

\* Both selects of ask also watch the context; the request stays in the channel.
Abandon(c) ==
  /\ pc[c] \in {"enqueue", "await"}
  /\ cancelled[c]
  /\ Return(c, "error")
  /\ UNCHANGED <<ownerVars, reqs, reply, cancelled, amount, orders, server>>

Insert(b, a) ==
  /\ pc[b] = "insert"
  /\ orders' = [orders EXCEPT ![b] = @ + 1]
  /\ Return(b, a)
  /\ UNCHANGED <<ownerVars, reqs, reply, cancelled, amount, server>>

\* A statement fails, on its own or because the context is done.
Fail(c) ==
  /\ pc[c] \in {"sql", "insert"}
  /\ Return(c, "error")
  /\ UNCHANGED <<ownerVars, reqs, reply, cancelled, amount, orders, server>>

HandlerStep(c) ==
  \/ SeedPostgres(c) \/ Enqueue(c) \/ Await(c) \/ Abandon(c) \/ Insert(c, "ok")

\* The client hangs up: its request's context ends.
Cancel(c) ==
  /\ InFlight(c)
  /\ ~cancelled[c]
  /\ cancelled' = [cancelled EXCEPT ![c] = TRUE]
  /\ UNCHANGED <<ownerVars, reqs, reply, pc, answer, amount, orders, server>>

-----------------------------------------------------------------------------
(* The owner                                                                *)

Set(s) ==
  /\ stock' = amount[s]
  /\ known' = TRUE
  /\ seeded' = amount[s]
  /\ taken' = 0
  /\ reply' = [reply EXCEPT ![s] = "set"]

Claim(b) ==
  /\ stock' = stock - amount[b]
  /\ taken' = taken + amount[b]
  /\ reply' = [reply EXCEPT ![b] = "granted"]
  /\ UNCHANGED <<known, seeded>>

Deny(b, verdict) ==
  /\ reply' = [reply EXCEPT ![b] = verdict]
  /\ UNCHANGED <<stock, known, seeded, taken>>

\* Variant: the stock is compared with zero and not with the request.
ApplyChecksEmpty(c) ==
  \/ c \in Seeders /\ Set(c)
  \/ c \in Buyers /\ ~known /\ Deny(c, "not_found")
  \/ c \in Buyers /\ known /\ stock = 0 /\ Deny(c, "out_of_stock")
  \/ c \in Buyers /\ known /\ stock > 0 /\ Claim(c)

\* Variant: a request for all that is left is denied.
ApplyKeepsLast(c) ==
  \/ c \in Seeders /\ Set(c)
  \/ c \in Buyers /\ ~known /\ Deny(c, "not_found")
  \/ c \in Buyers /\ known /\ stock <= amount[c] /\ Deny(c, "out_of_stock")
  \/ c \in Buyers /\ known /\ stock > amount[c] /\ Claim(c)

Apply(c) ==
  \/ c \in Seeders /\ Set(c)
  \/ c \in Buyers /\ ~known /\ Deny(c, "not_found")
  \/ c \in Buyers /\ known /\ stock < amount[c] /\ Deny(c, "out_of_stock")
  \/ c \in Buyers /\ known /\ stock >= amount[c] /\ Claim(c)

\* Variant: a reply channel without a buffer, so the owner waits for the caller.
ServeUnbuffered ==
  /\ owner = "running"
  /\ server \in Alive
  /\ reqs # << >>
  /\ pc[Head(reqs)] = "await"
  /\ reqs' = Tail(reqs)
  /\ Apply(Head(reqs))
  /\ UNCHANGED <<owner, clientVars, server>>

\* Take the oldest request, whether its caller still waits or not; the reply has
\* room in the caller's channel.
Serve ==
  /\ owner = "running"
  /\ server \in Alive
  /\ reqs # << >>
  /\ reqs' = Tail(reqs)
  /\ Apply(Head(reqs))
  /\ UNCHANGED <<owner, clientVars, server>>

\* The server's context ends with the signal, and run returns whatever is queued.
OwnerStop ==
  /\ owner = "running"
  /\ server = "draining"
  /\ owner' = "stopped"
  /\ UNCHANGED <<stock, known, seeded, taken, reqs, reply, clientVars, server>>

-----------------------------------------------------------------------------
(* The server process                                                       *)

BecomeServer(s) ==
  /\ server' = s
  /\ UNCHANGED <<ownerVars, reqs, reply, clientVars>>

\* SIGTERM: the signal's context is the owner's and the server's.
Signal == server = "up" /\ BecomeServer("draining")

Drained ==
  /\ server = "draining"
  /\ \A c \in Clients : ~InFlight(c)
  /\ BecomeServer("stopped")

\* The request of c can only wait for an owner that is gone.
Stuck(c) ==
  /\ owner = "stopped"
  /\ ~cancelled[c]
  /\ \/ pc[c] = "await" /\ reply[c] = None
     \/ pc[c] = "enqueue" /\ Len(reqs) = ChanCap

\* The ten seconds of srv.Shutdown are long: everything that can move has moved.
ShutdownTimeout ==
  /\ server = "draining"
  /\ \E c \in Clients : InFlight(c)
  /\ \A c \in Clients : InFlight(c) => Stuck(c)
  /\ BecomeServer("timed_out")

Kill == server \in Alive /\ BecomeServer("killed")

\* The client of a call that went down with the process sees its connection close.
Hangup(c) ==
  IF InFlight(c)
  THEN Return(c, IF server = "killed" THEN "error" ELSE "cut")
  ELSE UNCHANGED <<pc, answer>>

\* What the process held is gone: the requests in the channel, and every call.
LoseRequest ==
  /\ server \in Down
  /\ reqs # << >>
  /\ reqs' = Tail(reqs)
  /\ Hangup(Head(reqs))
  /\ UNCHANGED <<ownerVars, reply, cancelled, amount, orders, server>>

LoseCall(c) ==
  /\ server \in Down
  /\ InFlight(c)
  /\ ~Queued(c)
  /\ Hangup(c)
  /\ UNCHANGED <<ownerVars, reqs, reply, cancelled, amount, orders, server>>

\* A new process: NewGoChan with an empty map.
Restart ==
  /\ server \in Down
  /\ reqs = << >>
  /\ \A c \in Clients : ~InFlight(c)
  /\ server' = "up"
  /\ owner' = "running"
  /\ stock' = 0
  /\ known' = FALSE
  /\ seeded' = 0
  /\ taken' = 0
  /\ UNCHANGED <<reqs, reply, clientVars>>

-----------------------------------------------------------------------------

Next ==
  \/ \E c \in Clients : Arrive(c) \/ Cancel(c) \/ LoseCall(c)
  \/ /\ server \in Alive
     /\ \E c \in Clients : HandlerStep(c) \/ Fail(c)
  \/ /\ server \in Alive
     /\ \E b \in Buyers : Insert(b, "error")
  \/ Serve \/ OwnerStop
  \/ Signal \/ Drained \/ ShutdownTimeout \/ Kill
  \/ LoseRequest \/ Restart

\* Runnable goroutines run, the owner's select takes every ready case eventually,
\* and the shutdown's timer expires.  No fault and no arrival is assumed.
Fairness ==
  /\ \A c \in Clients : WF_vars(server \in Alive /\ HandlerStep(c))
  /\ \A c \in Clients : WF_vars(LoseCall(c))
  /\ WF_vars(LoseRequest)
  /\ WF_vars(Serve)
  /\ WF_vars(OwnerStop)
  /\ WF_vars(ShutdownTimeout)

Spec == Init /\ [][Next]_vars
FairSpec == Spec /\ Fairness

-----------------------------------------------------------------------------
(* Properties                                                               *)

\* A request that got into the server comes back: callers that leave, a full channel
\* and a shutdown notwithstanding, nobody waits for ever.
EveryCallReturns ==
  \A c \in Clients : InFlight(c) ~> pc[c] = "done"

\* RECIPE.md:64: on a restart "in-flight requests drain first".
NothingCutOff == \A c \in Clients : answer[c] # "cut"

\* A caller that left does not know what its queued request will do; the contract
\* sees its error only when that is settled.
BuyerAnswers ==
  [b \in Buyers |-> IF Queued(b) THEN None
                    ELSE IF answer[b] = "cut" THEN "error" ELSE answer[b]]
BuyersHolding ==
  [b \in Buyers |-> pc[b] = "insert" \/ (pc[b] = "await" /\ reply[b] = "granted")]
BuyersShort ==
  [b \in Buyers |-> \/ answer[b] = "out_of_stock"
                    \/ pc[b] = "await" /\ reply[b] = "out_of_stock"]
BuyersQty == [b \in Buyers |-> amount[b]]

Contract == INSTANCE Sale WITH
  left <- stock, qty <- BuyersQty, answer <- BuyerAnswers, holding <- BuyersHolding,
  seenShort <- BuyersShort

\* The owner keeps the contract of Inventory: every claim takes effect when it is
\* served, also that of a caller who has left; a restart is a seed of nothing.
RefinesSale == Contract!Spec

=============================================================================
