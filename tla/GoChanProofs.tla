---------------------------- MODULE GoChanProofs ----------------------------
(***************************************************************************)
(* Theorems about go_chan: types, and the contract of Inventory, for any    *)
(* number of callers and any capacity of the channel, while callers leave,  *)
(* the server stops, is killed and starts again.                            *)
(***************************************************************************)
EXTENDS GoChan, TLAPS

USE ChanClientsAssumption DEF Clients

\* No caller has two requests in the channel.
Distinct == \A i, j \in 1 .. Len(reqs) : reqs[i] = reqs[j] => i = j

\* A request that waits is not answered by the owner, and its caller waits or has left
\* without knowing.
CallInv(c) ==
  /\ pc[c] = "done" <=> answer[c] # None
  /\ pc[c] \notin {"await", "done"} => ~Queued(c)
  /\ pc[c] \in {"idle", "sql", "enqueue"} => reply[c] = None
  /\ Queued(c) => reply[c] = None /\ answer[c] \in {None, "error", "cut"}
  /\ c \in Buyers => reply[c] # "set"

BuyerInv(b) ==
  /\ amount[b] # 0
  /\ pc[b] # "done" => orders[b] = 0

ChanInv ==
  /\ TypeOK
  /\ Distinct
  /\ \A c \in Clients : CallInv(c)
  /\ \A b \in Buyers : BuyerInv(b)

-----------------------------------------------------------------------------
(* The channel                                                              *)

LEMMA QueueAppend ==
  ASSUME reqs \in Seq(Clients), Distinct, NEW c \in Clients, ~Queued(c),
         reqs' = Append(reqs, c)
  PROVE  /\ reqs' \in Seq(Clients) /\ Len(reqs') = Len(reqs) + 1
         /\ Distinct' /\ Queued(c)'
         /\ \A x \in Clients \ {c} : Queued(x)' <=> Queued(x)
<1>1. /\ reqs' \in Seq(Clients) /\ Len(reqs') = Len(reqs) + 1 /\ Len(reqs) \in Nat
      /\ \A i \in 1 .. Len(reqs) : reqs'[i] = reqs[i]
      /\ reqs'[Len(reqs) + 1] = c
  OBVIOUS
<1>2. DOMAIN reqs = 1 .. Len(reqs) /\ DOMAIN reqs' = 1 .. (Len(reqs) + 1)
  BY <1>1
<1>3. \A i \in 1 .. (Len(reqs) + 1) : i \in 1 .. Len(reqs) \/ i = Len(reqs) + 1
  BY <1>1
<1>4. \A i \in 1 .. Len(reqs) : reqs[i] # c
  BY <1>2 DEF Queued
<1>5. Distinct'
  BY <1>1, <1>3, <1>4 DEF Distinct
<1>6. Queued(c)'
  BY <1>1, <1>2 DEF Queued
<1>7. ASSUME NEW x \in Clients \ {c}
      PROVE  Queued(x)' <=> Queued(x)
  BY <1>1, <1>2, <1>3 DEF Queued
<1> QED
  BY <1>1, <1>5, <1>6, <1>7

LEMMA QueueTail ==
  ASSUME reqs \in Seq(Clients), Distinct, NEW c, c = Head(reqs), reqs # << >>,
         reqs' = Tail(reqs)
  PROVE  /\ reqs' \in Seq(Clients) /\ Len(reqs') <= Len(reqs)
         /\ Distinct'
         /\ c \in Clients /\ Queued(c) /\ ~Queued(c)'
         /\ \A x \in Clients \ {c} : Queued(x)' <=> Queued(x)
<1>1. /\ reqs' \in Seq(Clients) /\ Len(reqs) \in Nat \ {0} /\ Len(reqs') = Len(reqs) - 1
      /\ \A i \in 1 .. Len(reqs') : reqs'[i] = reqs[i + 1]
      /\ c = reqs[1] /\ c \in Clients
  OBVIOUS
<1>2. DOMAIN reqs = 1 .. Len(reqs) /\ DOMAIN reqs' = 1 .. Len(reqs')
  BY <1>1
<1>3. /\ \A i \in 1 .. Len(reqs') : i + 1 \in 1 .. Len(reqs) /\ i + 1 # 1
      /\ \A i \in 1 .. Len(reqs) : i = 1 \/ (i - 1 \in 1 .. Len(reqs') /\ (i - 1) + 1 = i)
      /\ 1 \in 1 .. Len(reqs)
  BY <1>1
<1>4. Distinct'
  <2> SUFFICES ASSUME NEW i \in 1 .. Len(reqs'), NEW j \in 1 .. Len(reqs'),
                      reqs'[i] = reqs'[j]
               PROVE  i = j
    BY DEF Distinct
  <2>1. i + 1 = j + 1
    BY <1>1, <1>3 DEF Distinct
  <2> QED
    BY <1>1, <2>1
<1>5. Queued(c)
  BY <1>1, <1>2, <1>3 DEF Queued
<1>6. ~Queued(c)'
  <2> SUFFICES ASSUME NEW i \in DOMAIN reqs', reqs'[i] = c PROVE FALSE
    BY DEF Queued
  <2>1. reqs[i + 1] = reqs[1] /\ i + 1 \in 1 .. Len(reqs) /\ i + 1 # 1
    BY <1>1, <1>2, <1>3
  <2> QED
    BY <1>3, <2>1 DEF Distinct
<1>7. ASSUME NEW x \in Clients \ {c}
      PROVE  Queued(x)' <=> Queued(x)
  <2>1. ASSUME NEW i \in DOMAIN reqs', reqs'[i] = x
        PROVE  Queued(x)
    BY <1>1, <1>2, <1>3, <2>1 DEF Queued
  <2>2. ASSUME NEW i \in DOMAIN reqs, reqs[i] = x
        PROVE  Queued(x)'
    <3>1. i # 1
      BY <1>1, <1>7, <2>2
    <3>2. i - 1 \in 1 .. Len(reqs') /\ (i - 1) + 1 = i
      BY <1>2, <1>3, <2>2, <3>1
    <3>3. reqs'[i - 1] = x
      BY <1>1, <2>2, <3>2
    <3> QED
      BY <1>2, <3>2, <3>3 DEF Queued
  <2> QED
    BY <2>1, <2>2 DEF Queued
<1>8. Len(reqs') <= Len(reqs)
  BY <1>1
<1> QED
  BY <1>1, <1>4, <1>5, <1>6, <1>7, <1>8

LEMMA ChannelStays ==
  ASSUME Distinct, reqs' = reqs
  PROVE  Distinct' /\ \A x \in Clients : Queued(x)' <=> Queued(x)
BY DEF Distinct, Queued

-----------------------------------------------------------------------------
(* The invariant                                                            *)

LEMMA ChanInit == Init => ChanInv
<1> SUFFICES ASSUME Init PROVE ChanInv
  OBVIOUS
<1>1. stock \in Nat
  BY ChanQuantitiesAssumption DEF Init
<1>2. amount \in [Clients -> Nat] /\ \A b \in Buyers : amount[b] \in Nat \ {0}
  BY ChanQuantitiesAssumption DEF Init
<1>3. reqs = << >> /\ reqs \in Seq(Clients) /\ Len(reqs) = 0 /\ DOMAIN reqs = {}
  BY DEF Init
<1>4. Len(reqs) <= ChanCap
  BY <1>3, ChanCapAssumption
<1>5. TypeOK
  BY <1>1, <1>2, <1>3, <1>4 DEF Init, TypeOK, Locations, Alive
<1>6. Distinct /\ \A c \in Clients : ~Queued(c)
  BY <1>3 DEF Distinct, Queued
<1>7. \A c \in Clients : CallInv(c)
  BY <1>6 DEF Init, CallInv, Verdicts
<1>8. \A b \in Buyers : BuyerInv(b)
  BY <1>2 DEF Init, BuyerInv
<1> QED
  BY <1>5, <1>6, <1>7, <1>8 DEF ChanInv

\* A step concerns one call; the others do not notice.
OnlyCall(c) ==
  \A o \in Clients \ {c} :
    /\ pc'[o] = pc[o]
    /\ answer'[o] = answer[o]
    /\ reply'[o] = reply[o]
    /\ Queued(o)' <=> Queued(o)

OrdersSettle(c) ==
  /\ amount' = amount
  /\ pc[c] = "done" => pc'[c] = "done"
  /\ \A b \in Buyers : orders'[b] \in {orders[b], 0} \/ (b = c /\ pc'[b] = "done")

LEMMA OneCallMoves ==
  ASSUME ChanInv, NEW c \in Clients, OnlyCall(c), OrdersSettle(c), CallInv(c)',
         TypeOK', Distinct'
  PROVE  ChanInv'
<1>1. ASSUME NEW o \in Clients, o # c
      PROVE  CallInv(o)'
  BY <1>1 DEF ChanInv, CallInv, OnlyCall
<1>2. ASSUME NEW b \in Buyers
      PROVE  BuyerInv(b)'
  <2>1. pc'[b] # "done" => pc[b] # "done"
    BY DEF OnlyCall, OrdersSettle
  <2> QED
    BY <2>1 DEF ChanInv, BuyerInv, OrdersSettle
<1> QED
  BY <1>1, <1>2 DEF ChanInv

\* What a step does to the calls when the channel stands still.
LEMMA HandlerMoves ==
  ASSUME ChanInv, NEW c \in Clients,
         \/ Arrive(c) \/ Cancel(c) \/ LoseCall(c) \/ Fail(c)
         \/ SeedPostgres(c) \/ Await(c) \/ Abandon(c)
         \/ \E a \in {"ok", "error"} : Insert(c, a)
  PROVE  OnlyCall(c) /\ OrdersSettle(c) /\ Distinct' /\ CallInv(c)' /\ TypeOK'
<1>0. /\ TypeOK /\ Distinct' /\ CallInv(c)
      /\ \A x \in Clients : Queued(x)' <=> Queued(x)
  <2>1. reqs' = reqs /\ Distinct
    BY DEF ChanInv, Arrive, Cancel, LoseCall, Fail, SeedPostgres, Await, Abandon, Insert
  <2> QED
    BY <2>1, ChannelStays DEF ChanInv
<1> USE DEF TypeOK, Goto, Return
<1>1. CASE Arrive(c)
  BY <1>0, <1>1
  DEF Arrive, OnlyCall, OrdersSettle, CallInv, Locations, ownerVars
<1>2. CASE Cancel(c)
  BY <1>0, <1>2
  DEF Cancel, OnlyCall, OrdersSettle, CallInv, ownerVars
<1>3. CASE LoseCall(c)
  <2>1. /\ pc[c] # "done" /\ pc' = [pc EXCEPT ![c] = "done"] /\ ~Queued(c)
        /\ \E a \in {"error", "cut"} : answer' = [answer EXCEPT ![c] = a]
        /\ UNCHANGED <<ownerVars, reqs, reply, cancelled, amount, orders, server>>
    BY <1>3 DEF LoseCall, Hangup, InFlight
  <2> QED
    BY <1>0, <2>1
    DEF OnlyCall, OrdersSettle, CallInv, Locations, Answers, ownerVars
<1>4. CASE Fail(c)
  BY <1>0, <1>4
  DEF Fail, OnlyCall, OrdersSettle, CallInv, Locations, Answers, ownerVars
<1>5. CASE SeedPostgres(c)
  BY <1>0, <1>5
  DEF SeedPostgres, OnlyCall, OrdersSettle, CallInv, Locations, ownerVars
<1>6. CASE Await(c)
  <2>0. /\ pc[c] = "await" /\ reply[c] # None /\ ~Queued(c)
        /\ UNCHANGED <<ownerVars, reqs, reply, cancelled, amount, orders, server>>
    BY <1>0, <1>6 DEF Await, CallInv
  <2>1. CASE pc' = [pc EXCEPT ![c] = "insert"] /\ answer' = answer
    BY <1>0, <2>0, <2>1
    DEF OnlyCall, OrdersSettle, CallInv, Locations, ownerVars
  <2>2. CASE /\ pc' = [pc EXCEPT ![c] = "done"]
             /\ \E a \in Answers : answer' = [answer EXCEPT ![c] = a]
    BY <1>0, <2>0, <2>2
    DEF OnlyCall, OrdersSettle, CallInv, Locations, ownerVars
  <2>3. reply[c] \in Verdicts
    BY <1>0, <2>0
  <2> QED
    BY <1>6, <2>1, <2>2, <2>3 DEF Await, Verdicts, Answers
<1>7. CASE Abandon(c)
  BY <1>0, <1>7
  DEF Abandon, OnlyCall, OrdersSettle, CallInv, Locations, Answers, ownerVars
<1>8. CASE \E a \in {"ok", "error"} : Insert(c, a)
  <2>1. PICK a \in {"ok", "error"} : Insert(c, a)
    BY <1>8
  <2>2. /\ \A b \in Buyers : orders'[b] = IF b = c THEN orders[b] + 1 ELSE orders[b]
        /\ orders' \in [Buyers -> {0, 1}]
    <3>1. pc[c] # "done" /\ orders' = [orders EXCEPT ![c] = @ + 1]
      BY <2>1 DEF Insert
    <3>2. c \in Buyers => orders[c] = 0
      BY <3>1 DEF ChanInv, BuyerInv
    <3>3. orders \in [Buyers -> {0, 1}]
      BY <1>0
    <3>4. \A b \in Buyers : orders'[b] = IF b = c THEN orders[b] + 1 ELSE orders[b]
      BY <3>1, <3>3
    <3>5. \A b \in Buyers : orders'[b] \in {0, 1}
      BY <3>2, <3>3, <3>4
    <3>6. orders' = [b \in Buyers |-> orders'[b]]
      BY <3>1, <3>3
    <3> QED
      BY <3>4, <3>5, <3>6
  <2> QED
    BY <1>0, <2>1, <2>2
    DEF Insert, OnlyCall, OrdersSettle, CallInv, Locations, Answers, ownerVars
<1> QED
  BY <1>1, <1>2, <1>3, <1>4, <1>5, <1>6, <1>7, <1>8

LEMMA EnqueueMoves ==
  ASSUME ChanInv, NEW c \in Clients, Enqueue(c)
  PROVE  /\ OnlyCall(c) /\ OrdersSettle(c) /\ Distinct' /\ CallInv(c)' /\ TypeOK'
         /\ Queued(c)' /\ ~Queued(c) /\ answer[c] = None
<1>0. TypeOK /\ Distinct /\ CallInv(c) /\ ~Queued(c) /\ reply[c] = None /\ answer[c] = None
  BY DEF ChanInv, CallInv, Enqueue
<1>1. /\ reqs' \in Seq(Clients) /\ Len(reqs') = Len(reqs) + 1 /\ Distinct' /\ Queued(c)'
      /\ \A x \in Clients \ {c} : Queued(x)' <=> Queued(x)
  BY <1>0, QueueAppend DEF Enqueue, TypeOK
<1>2. Len(reqs') <= ChanCap
  <2>1. Len(reqs) \in Nat /\ Len(reqs) < ChanCap
    BY <1>0 DEF Enqueue, TypeOK
  <2> QED
    BY <1>1, <2>1, ChanCapAssumption
<1>3. TypeOK'
  BY <1>0, <1>1, <1>2 DEF Enqueue, Goto, TypeOK, Locations, ownerVars
<1>4. OnlyCall(c) /\ OrdersSettle(c) /\ CallInv(c)'
  BY <1>0, <1>1 DEF Enqueue, Goto, TypeOK, OnlyCall, OrdersSettle, CallInv
<1> QED
  BY <1>0, <1>1, <1>3, <1>4

LEMMA ServeMoves ==
  ASSUME ChanInv, Serve, NEW c, c = Head(reqs)
  PROVE  /\ c \in Clients
         /\ OnlyCall(c) /\ OrdersSettle(c) /\ Distinct' /\ CallInv(c)' /\ TypeOK'
         /\ Queued(c) /\ ~Queued(c)' /\ Apply(c)
<1>0. TypeOK /\ Distinct /\ Apply(c)
  BY DEF ChanInv, Serve
<1>1. /\ reqs' \in Seq(Clients) /\ Len(reqs') <= Len(reqs) /\ Distinct'
      /\ c \in Clients /\ Queued(c) /\ ~Queued(c)'
      /\ \A x \in Clients \ {c} : Queued(x)' <=> Queued(x)
  BY <1>0, QueueTail DEF Serve, TypeOK
<1>2. CallInv(c) /\ amount[c] \in Nat /\ stock \in Nat /\ taken \in Nat
  BY <1>0, <1>1 DEF ChanInv, TypeOK
<1>3. Len(reqs') <= ChanCap
  <2>1. Len(reqs) \in Nat /\ Len(reqs') \in Nat /\ Len(reqs) <= ChanCap
    BY <1>0, <1>1 DEF TypeOK
  <2> QED
    BY <1>1, <2>1, ChanCapAssumption
<1>4. /\ stock' \in Nat /\ known' \in BOOLEAN /\ seeded' \in Nat /\ taken' \in Nat
  <2>1. CASE c \in Seeders /\ Set(c)
    BY <1>0, <1>2, <2>1 DEF Set, TypeOK
  <2>2. CASE c \in Buyers /\ \E v \in {"not_found", "out_of_stock"} : Deny(c, v)
    BY <1>0, <2>2 DEF Deny, TypeOK
  <2>3. CASE stock >= amount[c] /\ Claim(c)
    <3>1. stock - amount[c] \in Nat /\ taken + amount[c] \in Nat
      BY <1>2, <2>3
    <3> QED
      BY <1>0, <2>3, <3>1 DEF Claim, TypeOK
  <2> QED
    BY <1>0, <2>1, <2>2, <2>3 DEF Apply
<1>5. UNCHANGED <<owner, pc, cancelled, answer, amount, orders, server>>
  BY DEF Serve, clientVars
<1>6. PICK v \in Verdicts : /\ reply' = [reply EXCEPT ![c] = v]
                            /\ v = "set" => c \in Seeders
  BY <1>0 DEF Apply, Set, Deny, Claim, Verdicts
<1>7. reply \in [Clients -> Verdicts \cup {None}]
  BY <1>0 DEF TypeOK
<1>8. /\ reply' \in [Clients -> Verdicts \cup {None}]
      /\ reply'[c] = v
      /\ \A o \in Clients \ {c} : reply'[o] = reply[o]
  BY <1>1, <1>6, <1>7
<1>9. TypeOK'
  BY <1>0, <1>1, <1>3, <1>4, <1>5, <1>8 DEF TypeOK
<1>10. OnlyCall(c)
  BY <1>1, <1>5, <1>8 DEF OnlyCall
<1>11. OrdersSettle(c)
  BY <1>5 DEF OrdersSettle
<1>12. CallInv(c)'
  BY <1>1, <1>2, <1>5, <1>6, <1>8 DEF CallInv
<1> QED
  BY <1>0, <1>1, <1>9, <1>10, <1>11, <1>12

LEMMA LoseRequestMoves ==
  ASSUME ChanInv, LoseRequest, NEW c, c = Head(reqs)
  PROVE  /\ c \in Clients
         /\ OnlyCall(c) /\ OrdersSettle(c) /\ Distinct' /\ CallInv(c)' /\ TypeOK'
         /\ Queued(c) /\ ~Queued(c)' /\ pc'[c] = "done" /\ answer'[c] \in {"error", "cut"}
<1>0. TypeOK /\ Distinct /\ Hangup(c)
  BY DEF ChanInv, LoseRequest
<1>1. /\ reqs' \in Seq(Clients) /\ Len(reqs') <= Len(reqs) /\ Distinct'
      /\ c \in Clients /\ Queued(c) /\ ~Queued(c)'
      /\ \A x \in Clients \ {c} : Queued(x)' <=> Queued(x)
  BY <1>0, QueueTail DEF LoseRequest, TypeOK
<1>2. CallInv(c) /\ pc[c] \in {"await", "done"}
  BY <1>1 DEF ChanInv, CallInv
<1>3. Len(reqs') <= ChanCap
  <2>1. Len(reqs) \in Nat /\ Len(reqs') \in Nat /\ Len(reqs) <= ChanCap
    BY <1>0, <1>1 DEF TypeOK
  <2> QED
    BY <1>1, <2>1, ChanCapAssumption
<1>4. \/ /\ pc[c] = "await" /\ pc' = [pc EXCEPT ![c] = "done"]
         /\ \E a \in {"error", "cut"} : answer' = [answer EXCEPT ![c] = a]
      \/ pc[c] = "done" /\ pc' = pc /\ answer' = answer
  BY <1>0, <1>2 DEF Hangup, InFlight, Return, Goto
<1>5. TypeOK'
  <2>1. pc' \in [Clients -> Locations] /\ answer' \in [Clients -> Answers \cup {None}]
    BY <1>0, <1>4 DEF TypeOK, Locations, Answers
  <2> QED
    BY <1>0, <1>1, <1>3, <2>1 DEF LoseRequest, TypeOK, ownerVars
<1>6. /\ UNCHANGED <<reply, amount, orders>>
      /\ pc'[c] = "done" /\ \A o \in Clients \ {c} : pc'[o] = pc[o] /\ answer'[o] = answer[o]
      /\ answer'[c] \in {"error", "cut"}
  <2>1. pc \in [Clients -> Locations] /\ answer \in [Clients -> Answers \cup {None}]
    BY <1>0 DEF TypeOK
  <2>2. pc[c] = "done" => answer[c] \in {"error", "cut"}
    BY <1>1, <1>2 DEF CallInv
  <2> QED
    BY <1>1, <1>4, <2>1, <2>2 DEF LoseRequest
<1>7. OnlyCall(c)
  BY <1>1, <1>6 DEF OnlyCall
<1>8. OrdersSettle(c)
  BY <1>6 DEF OrdersSettle
<1>9. CallInv(c)'
  BY <1>1, <1>2, <1>6 DEF CallInv, Answers
<1> QED
  BY <1>1, <1>5, <1>6, <1>7, <1>8, <1>9

\* The server process starts to stop, stops, or is gone: the calls are as they were.
LEMMA ServerMoves ==
  ASSUME ChanInv,
         \/ OwnerStop \/ Signal \/ Drained \/ ShutdownTimeout \/ Kill \/ Restart
         \/ UNCHANGED vars
  PROVE  ChanInv' /\ UNCHANGED <<reqs, reply, pc, answer, amount>>
<1>1. UNCHANGED <<reqs, reply, pc, cancelled, answer, amount, orders>>
  BY DEF OwnerStop, Signal, Drained, ShutdownTimeout, Kill, Restart, BecomeServer, vars,
         clientVars
<1>2. Distinct' /\ \A x \in Clients : Queued(x)' <=> Queued(x)
  BY <1>1, ChannelStays DEF ChanInv
<1>3. \A c \in Clients : CallInv(c)'
  BY <1>1, <1>2 DEF ChanInv, CallInv
<1>4. \A b \in Buyers : BuyerInv(b)'
  BY <1>1 DEF ChanInv, BuyerInv
<1>5. /\ stock' \in Nat /\ known' \in BOOLEAN /\ owner' \in {"running", "stopped"}
      /\ server' \in Alive \cup Down /\ seeded' \in Nat /\ taken' \in Nat
  <2> USE DEF ChanInv, TypeOK, Alive, Down
  <2>1. CASE OwnerStop
    BY <2>1 DEF OwnerStop
  <2>2. CASE Restart
    BY <2>2 DEF Restart
  <2>3. CASE \E s \in {"draining", "stopped", "timed_out", "killed"} : BecomeServer(s)
    BY <2>3 DEF BecomeServer, ownerVars
  <2>4. CASE UNCHANGED vars
    BY <2>4 DEF vars, ownerVars
  <2> QED
    BY <2>1, <2>2, <2>3, <2>4 DEF Signal, Drained, ShutdownTimeout, Kill
<1>6. TypeOK'
  BY <1>1, <1>5 DEF ChanInv, TypeOK
<1> QED
  BY <1>1, <1>2, <1>3, <1>4, <1>6 DEF ChanInv

LEMMA ChanStep == ChanInv /\ [Next]_vars => ChanInv'
<1> SUFFICES ASSUME ChanInv, [Next]_vars PROVE ChanInv'
  OBVIOUS
<1>1. CASE Serve
  <2>1. PICK c : c = Head(reqs)
    OBVIOUS
  <2> QED
    BY <1>1, <2>1, ServeMoves, OneCallMoves
<1>2. CASE LoseRequest
  <2>1. PICK c : c = Head(reqs)
    OBVIOUS
  <2> QED
    BY <1>2, <2>1, LoseRequestMoves, OneCallMoves
<1>3. ASSUME NEW c \in Clients, HandlerStep(c) \/ Fail(c) \/ Arrive(c) \/ Cancel(c)
                                 \/ LoseCall(c) \/ Insert(c, "error")
      PROVE  ChanInv'
  <2>1. CASE Enqueue(c)
    BY <2>1, EnqueueMoves, OneCallMoves
  <2>2. CASE ~Enqueue(c)
    <3>1. OnlyCall(c) /\ OrdersSettle(c) /\ Distinct' /\ CallInv(c)' /\ TypeOK'
      BY <1>3, <2>2, HandlerMoves DEF HandlerStep
    <3> QED
      BY <3>1, OneCallMoves
  <2> QED
    BY <2>1, <2>2
<1> QED
  BY <1>1, <1>2, <1>3, ServerMoves DEF Next

\* Every variable keeps its type, the channel never holds more than it has room for, and
\* no caller leaves more than one order.
THEOREM ChanTypeCorrect == Spec => []TypeOK
<1>1. ChanInv => TypeOK
  BY DEF ChanInv
<1> QED
  BY <1>1, ChanInit, ChanStep, PTL DEF Spec

-----------------------------------------------------------------------------
(* go_chan implements Sale                                                  *)

USE DEF Contract!Undecided, Contract!Answer

\* What the contract sees of buyer b stays the same, ...
Unseen(b) ==
  /\ BuyerAnswers'[b] = BuyerAnswers[b]
  /\ BuyersHolding'[b] = BuyersHolding[b]
  /\ BuyersShort'[b] = BuyersShort[b]

\* ... or its call ends with units, without them, or for want of them.
Ends(b, a, had, short) ==
  /\ BuyerAnswers[b] = None
  /\ BuyerAnswers'[b] = a
  /\ BuyersHolding[b] = had
  /\ BuyersHolding'[b] = FALSE
  /\ BuyersShort'[b] = short
  /\ had \/ short => BuyersShort[b] = short

BuyerEnds(b) ==
  \/ \E a \in {"ok", "error"} : Ends(b, a, TRUE, FALSE)
  \/ \E a \in {"error", "not_found"} : Ends(b, a, FALSE, FALSE)
  \/ Ends(b, "out_of_stock", FALSE, TRUE)

LEMMA ContractInit == Init => Contract!Init
<1> SUFFICES ASSUME Init PROVE Contract!Init
  OBVIOUS
<1>1. ChanInv
  BY ChanInit
<1>2. stock \in Nat /\ taken = 0 /\ seeded = stock
  BY <1>1 DEF Init, ChanInv, TypeOK
<1>3. BuyersQty \in [Buyers -> Nat \ {0}]
  BY <1>1 DEF ChanInv, TypeOK, BuyerInv, BuyersQty
<1>4. BuyerAnswers = [b \in Buyers |-> None]
  BY DEF Init, BuyerAnswers, Answers
<1>5. BuyersHolding = [b \in Buyers |-> FALSE] /\ BuyersShort = [b \in Buyers |-> FALSE]
  BY DEF Init, BuyersHolding, BuyersShort, Answers
<1> QED
  BY <1>2, <1>3, <1>4, <1>5 DEF Contract!Init

\* The calls a step does not concern look the same to the contract.
LEMMA OthersUnseen ==
  ASSUME NEW c \in Clients, OnlyCall(c), NEW b \in Buyers, b # c
  PROVE  Unseen(b)
BY DEF OnlyCall, Unseen, BuyerAnswers, BuyersHolding, BuyersShort

LEMMA ViewsMove ==
  ASSUME NEW b \in Buyers, \A o \in Buyers \ {b} : Unseen(o)
  PROVE  /\ BuyerAnswers' = [BuyerAnswers EXCEPT ![b] = BuyerAnswers'[b]]
         /\ BuyersHolding' = [BuyersHolding EXCEPT ![b] = BuyersHolding'[b]]
         /\ BuyersShort' = [BuyersShort EXCEPT ![b] = BuyersShort'[b]]
<1>1. BuyerAnswers' = [BuyerAnswers EXCEPT ![b] = BuyerAnswers'[b]]
  BY DEF Unseen, BuyerAnswers
<1>2. BuyersHolding' = [BuyersHolding EXCEPT ![b] = BuyersHolding'[b]]
  BY DEF Unseen, BuyersHolding
<1>3. BuyersShort' = [BuyersShort EXCEPT ![b] = BuyersShort'[b]]
  BY DEF Unseen, BuyersShort
<1> QED
  BY <1>1, <1>2, <1>3

\* When it looks the same for every buyer, the contract sees nothing.
LEMMA NothingSeen ==
  ASSUME amount' = amount, \A b \in Buyers : Unseen(b)
  PROVE  UNCHANGED <<BuyersQty, BuyerAnswers, BuyersHolding, BuyersShort>>
<1>1. BuyerAnswers' = BuyerAnswers
  BY DEF Unseen, BuyerAnswers
<1>2. BuyersHolding' = BuyersHolding
  BY DEF Unseen, BuyersHolding
<1>3. BuyersShort' = BuyersShort
  BY DEF Unseen, BuyersShort
<1>4. BuyersQty' = BuyersQty
  BY DEF BuyersQty
<1> QED
  BY <1>1, <1>2, <1>3, <1>4

LEMMA EndsRefine ==
  ASSUME NEW b \in Buyers, \A o \in Buyers \ {b} : Unseen(o), BuyerEnds(b),
         UNCHANGED <<stock, taken, seeded, amount>>
  PROVE  Contract!Next
<1>1. BuyersQty' = BuyersQty
  BY DEF BuyersQty
<1>2. DOMAIN BuyersShort = Buyers /\ DOMAIN BuyersHolding = Buyers
  BY DEF BuyersShort, BuyersHolding
<1>3. ASSUME BuyersShort'[b] = BuyersShort[b] PROVE BuyersShort' = BuyersShort
  BY <1>3 DEF Unseen, BuyersShort
<1>4. ASSUME BuyersHolding'[b] = BuyersHolding[b] PROVE BuyersHolding' = BuyersHolding
  BY <1>4 DEF Unseen, BuyersHolding
<1>5. ASSUME NEW a \in {"ok", "error"}, Ends(b, a, TRUE, FALSE)
      PROVE  Contract!Deliver(b)
  BY <1>1, <1>3, <1>5, ViewsMove DEF Ends, Contract!Deliver
<1>6. ASSUME NEW a \in {"error", "not_found"}, Ends(b, a, FALSE, FALSE)
      PROVE  Contract!GiveUp(b)
  BY <1>1, <1>4, <1>6, ViewsMove DEF Ends, Contract!GiveUp, Contract!Answers
<1>7. ASSUME Ends(b, "out_of_stock", FALSE, TRUE)
      PROVE  Contract!Refuse(b)
  BY <1>1, <1>3, <1>4, <1>7, ViewsMove DEF Ends, Contract!Refuse
<1> QED
  BY <1>5, <1>6, <1>7 DEF BuyerEnds, Contract!Next

LEMMA Views ==
  ASSUME NEW b \in Buyers
  PROVE  /\ BuyerAnswers[b] = IF Queued(b) THEN None
                             ELSE IF answer[b] = "cut" THEN "error" ELSE answer[b]
         /\ BuyersHolding[b] = (pc[b] = "insert" \/ (pc[b] = "await" /\ reply[b] = "granted"))
         /\ BuyersShort[b] = (answer[b] = "out_of_stock"
                                 \/ (pc[b] = "await" /\ reply[b] = "out_of_stock"))
         /\ BuyerAnswers'[b] = IF Queued(b)' THEN None
                              ELSE IF answer'[b] = "cut" THEN "error" ELSE answer'[b]
         /\ BuyersHolding'[b] = (pc'[b] = "insert" \/ (pc'[b] = "await" /\ reply'[b] = "granted"))
         /\ BuyersShort'[b] = (answer'[b] = "out_of_stock"
                                  \/ (pc'[b] = "await" /\ reply'[b] = "out_of_stock"))
<1>1. BuyerAnswers[b] = IF Queued(b) THEN None
                        ELSE IF answer[b] = "cut" THEN "error" ELSE answer[b]
  BY DEF BuyerAnswers
<1>2. BuyersHolding[b] = (pc[b] = "insert" \/ (pc[b] = "await" /\ reply[b] = "granted"))
  BY Zenon DEF BuyersHolding
<1>3. BuyersShort[b] = (answer[b] = "out_of_stock"
                          \/ (pc[b] = "await" /\ reply[b] = "out_of_stock"))
  BY Zenon DEF BuyersShort
<1>4. BuyerAnswers'[b] = IF Queued(b)' THEN None
                         ELSE IF answer'[b] = "cut" THEN "error" ELSE answer'[b]
  BY DEF BuyerAnswers
<1>5. BuyersHolding'[b] = (pc'[b] = "insert" \/ (pc'[b] = "await" /\ reply'[b] = "granted"))
  BY Zenon DEF BuyersHolding
<1>6. BuyersShort'[b] = (answer'[b] = "out_of_stock"
                           \/ (pc'[b] = "await" /\ reply'[b] = "out_of_stock"))
  BY Zenon DEF BuyersShort
<1> QED
  BY <1>1, <1>2, <1>3, <1>4, <1>5, <1>6

\* What the contract sees of a buyer's own step.
LEMMA HandlerSeen ==
  ASSUME ChanInv, NEW b \in Buyers, reqs' = reqs,
         \/ Arrive(b) \/ Cancel(b) \/ LoseCall(b) \/ Fail(b)
         \/ SeedPostgres(b) \/ Await(b) \/ Abandon(b)
         \/ \E a \in {"ok", "error"} : Insert(b, a)
  PROVE  Unseen(b) \/ BuyerEnds(b)
<1>0. /\ pc \in [Clients -> Locations] /\ answer \in [Clients -> Answers \cup {None}]
      /\ reply \in [Clients -> Verdicts \cup {None}] /\ CallInv(b)
      /\ Queued(b)' <=> Queued(b)
      /\ None # "cut" /\ None # "out_of_stock" /\ None # "granted"
  BY ChannelStays DEF ChanInv, TypeOK, Answers, Verdicts
<1> USE Views
<1>3. CASE /\ pc[b] \in {"idle", "sql"} /\ pc'[b] \in {"enqueue", "sql"} /\ answer'[b] = answer[b]
           /\ reply'[b] = reply[b]
  BY <1>0, <1>3 DEF Unseen
<1>4. CASE pc'[b] = pc[b] /\ answer'[b] = answer[b] /\ reply'[b] = reply[b]
  BY <1>0, <1>4 DEF Unseen
<1>5. CASE /\ pc[b] \in Locations \ {"done"} /\ pc'[b] = "done"
           /\ answer'[b] \in {"error", "cut"} /\ reply'[b] = reply[b]
  <2>1. CASE Queued(b)
    BY <1>0, <1>5, <2>1 DEF Unseen, CallInv
  <2>2. CASE ~Queued(b) /\ BuyersHolding[b]
    BY <1>0, <1>5, <2>2 DEF CallInv, BuyerEnds, Ends
  <2>3. CASE ~Queued(b) /\ ~BuyersHolding[b]
    BY <1>0, <1>5, <2>3 DEF CallInv, BuyerEnds, Ends
  <2> QED
    BY <2>1, <2>2, <2>3
<1>6. CASE /\ pc[b] = "insert" /\ pc'[b] = "done" /\ answer'[b] = "ok" /\ reply'[b] = reply[b]
  BY <1>0, <1>6 DEF CallInv, BuyerEnds, Ends
<1>7. CASE /\ pc[b] = "await" /\ reply[b] = "granted" /\ pc'[b] = "insert"
           /\ answer'[b] = answer[b] /\ reply'[b] = reply[b]
  BY <1>0, <1>7 DEF Unseen
<1>8. CASE /\ pc[b] = "await" /\ reply[b] \in {"not_found", "out_of_stock"} /\ pc'[b] = "done"
           /\ answer'[b] = reply[b] /\ reply'[b] = reply[b]
  BY <1>0, <1>8 DEF CallInv, BuyerEnds, Ends, Verdicts
<1>9. CASE Await(b)
  <2>1. /\ pc[b] = "await" /\ reply[b] \in {"granted", "out_of_stock", "not_found"}
        /\ reply'[b] = reply[b]
    BY <1>0, <1>9 DEF Await, CallInv, Verdicts
  <2>2. IF reply[b] = "granted" THEN pc'[b] = "insert" /\ answer'[b] = answer[b]
                                ELSE pc'[b] = "done" /\ answer'[b] = reply[b]
    BY <1>0, <1>9, <2>1 DEF Await, Goto, Return
  <2> QED
    BY <1>7, <1>8, <2>1, <2>2
<1> QED
  BY <1>0, <1>3, <1>4, <1>5, <1>6, <1>7, <1>8, <1>9
  DEF Arrive, Cancel, LoseCall, Hangup, InFlight, Fail, SeedPostgres, Abandon, Insert, Goto,
      Return, Locations

\* A request is served at the instant the contract asks for, whether its caller still
\* waits or has left with an error.
LEMMA ServeRefines ==
  ASSUME ChanInv, Serve
  PROVE  [Contract!Next]_(Contract!vars)
<1>1. PICK c : c = Head(reqs)
  OBVIOUS
<1>2. /\ c \in Clients /\ OnlyCall(c) /\ Apply(c) /\ Queued(c) /\ ~Queued(c)'
      /\ amount' = amount /\ UNCHANGED <<pc, answer>> /\ TypeOK'
  BY <1>1, ServeMoves DEF Serve, clientVars, OrdersSettle
<1>3. \A b \in Buyers : b # c => Unseen(b)
  BY <1>2, OthersUnseen
<1>4. BuyersQty' = BuyersQty
  BY <1>2 DEF BuyersQty
<1>5. CASE c \in Seeders
  <2>1. \A b \in Buyers : Unseen(b)
    BY <1>3, <1>5
  <2>2. stock' = amount[c] /\ seeded' = amount[c] /\ taken' = 0
    BY <1>2, <1>5 DEF Apply, Set
  <2>3. stock' \in Nat
    BY <1>2 DEF TypeOK
  <2> QED
    BY <1>2, <2>1, <2>2, <2>3, NothingSeen DEF Contract!Next, Contract!Reseed
<1>6. CASE c \in Buyers
  <2>1. /\ reply[c] = None /\ answer[c] \in {None, "error", "cut"}
        /\ (pc[c] = "await" /\ answer[c] = None) \/ (pc[c] = "done" /\ answer[c] # None)
    BY <1>2 DEF ChanInv, CallInv
  <2>2. /\ BuyerAnswers[c] = None /\ BuyersHolding[c] = FALSE /\ BuyersShort[c] = FALSE
        /\ None \notin Answers \cup Verdicts
    BY <1>2, <1>6, <2>1, Views DEF Answers, Verdicts
  <2>3. reply \in [Clients -> Verdicts \cup {None}] /\ BuyersQty[c] = amount[c]
    BY <1>6 DEF ChanInv, TypeOK, BuyersQty
  <2>4. \A v \in Verdicts : reply' = [reply EXCEPT ![c] = v] =>
          /\ BuyerAnswers'[c] = IF pc[c] = "await" THEN None ELSE "error"
          /\ BuyersHolding'[c] = (pc[c] = "await" /\ v = "granted")
          /\ BuyersShort'[c] = (pc[c] = "await" /\ v = "out_of_stock")
    BY <1>2, <1>6, <2>1, <2>2, <2>3, Views DEF Answers
  <2>5. \A o \in Buyers \ {c} : Unseen(o)
    BY <1>3
  <2>6. ASSUME Deny(c, "not_found") PROVE [Contract!Next]_(Contract!vars)
    <3>1. UNCHANGED <<stock, taken, seeded>> /\ reply' = [reply EXCEPT ![c] = "not_found"]
      BY <2>6 DEF Deny
    <3>2. Unseen(c) \/ BuyerEnds(c)
      BY <2>1, <2>2, <2>4, <3>1 DEF Verdicts, Unseen, BuyerEnds, Ends
    <3>3. CASE Unseen(c)
      BY <1>2, <1>3, <3>1, <3>3, NothingSeen DEF Contract!vars
    <3> QED
      BY <1>2, <1>6, <2>5, <3>1, <3>2, <3>3, EndsRefine
  <2>7. ASSUME stock < amount[c], Deny(c, "out_of_stock")
        PROVE  [Contract!Next]_(Contract!vars)
    <3>1. UNCHANGED <<stock, taken, seeded>> /\ reply' = [reply EXCEPT ![c] = "out_of_stock"]
      BY <2>7 DEF Deny
    <3>2. CASE pc[c] = "await"
      <4>1. /\ BuyerAnswers'[c] = None /\ BuyersHolding'[c] = FALSE /\ BuyersShort'[c] = TRUE
        BY <2>4, <3>1, <3>2 DEF Verdicts
      <4>2. BuyersHolding' = BuyersHolding
        BY <2>2, <2>5, <4>1 DEF Unseen, BuyersHolding
      <4> QED
        BY <1>4, <1>6, <2>2, <2>3, <2>5, <2>7, <3>1, <4>1, <4>2, ViewsMove
        DEF Contract!Next, Contract!Shortage
    <3>3. CASE pc[c] = "done"
      <4>1. BuyerEnds(c)
        BY <2>2, <2>4, <3>1, <3>3 DEF Verdicts, BuyerEnds, Ends
      <4> QED
        BY <1>2, <1>6, <2>5, <3>1, <4>1, EndsRefine
    <3> QED
      BY <2>1, <3>2, <3>3
  <2>8. ASSUME stock >= amount[c], Claim(c)
        PROVE  Contract!Buy(c)
    <3>1. /\ stock' = stock - amount[c] /\ taken' = taken + amount[c] /\ seeded' = seeded
          /\ reply' = [reply EXCEPT ![c] = "granted"]
      BY <2>8 DEF Claim
    <3>2. BuyersShort'[c] = FALSE
      BY <2>4, <3>1 DEF Verdicts
    <3>3. BuyersShort' = BuyersShort
      BY <2>2, <2>5, <3>2 DEF Unseen, BuyersShort
    <3>4. amount[c] <= stock
      BY <1>2, <2>8 DEF ChanInv, TypeOK
    <3>5. \/ BuyerAnswers'[c] = None /\ BuyersHolding'[c] = TRUE
          \/ BuyerAnswers'[c] = "error" /\ BuyersHolding'[c] = FALSE
      BY <2>1, <2>4, <3>1 DEF Verdicts
    <3>6. BuyerAnswers'[c] = None => BuyerAnswers' = BuyerAnswers
      BY <2>2, <2>5 DEF Unseen, BuyerAnswers
    <3>7. BuyersHolding'[c] = FALSE => BuyersHolding' = BuyersHolding
      BY <2>2, <2>5 DEF Unseen, BuyersHolding
    <3> QED
      BY <1>4, <1>6, <2>2, <2>3, <2>5, <3>1, <3>3, <3>4, <3>5, <3>6, <3>7, ViewsMove
      DEF Contract!Buy
  <2> QED
    BY <1>2, <1>6, <2>6, <2>7, <2>8 DEF Apply, Contract!Next
<1> QED
  BY <1>2, <1>5, <1>6

LEMMA LoseRequestRefines ==
  ASSUME ChanInv, LoseRequest
  PROVE  [Contract!Next]_(Contract!vars)
<1>1. PICK c : c = Head(reqs)
  OBVIOUS
<1>2. /\ c \in Clients /\ OnlyCall(c) /\ Queued(c) /\ ~Queued(c)'
      /\ UNCHANGED <<stock, taken, seeded, amount, reply>>
      /\ pc'[c] = "done" /\ answer'[c] \in {"error", "cut"}
  BY <1>1, LoseRequestMoves DEF LoseRequest, ownerVars
<1>3. \A b \in Buyers : b # c => Unseen(b)
  BY <1>2, OthersUnseen
<1>4. CASE c \in Seeders
  BY <1>2, <1>3, <1>4, NothingSeen DEF Contract!vars
<1>5. CASE c \in Buyers
  <2>1. /\ reply[c] = None /\ answer[c] \in {None, "error", "cut"} /\ pc[c] \in {"await", "done"}
        /\ None \notin Answers \cup Verdicts
    BY <1>2 DEF ChanInv, CallInv
  <2>2. /\ BuyerAnswers[c] = None /\ BuyerAnswers'[c] = "error"
        /\ BuyersHolding[c] = FALSE /\ BuyersHolding'[c] = FALSE /\ BuyersShort'[c] = FALSE
    BY <1>2, <1>5, <2>1, Views DEF Answers, Verdicts
  <2>3. BuyerEnds(c)
    BY <2>2 DEF BuyerEnds, Ends
  <2> QED
    BY <1>2, <1>3, <1>5, <2>3, EndsRefine
<1> QED
  BY <1>2, <1>4, <1>5

LEMMA CallRefines ==
  ASSUME ChanInv, NEW c \in Clients,
         \/ Arrive(c) \/ Cancel(c) \/ LoseCall(c) \/ Fail(c) \/ HandlerStep(c)
         \/ Insert(c, "error")
  PROVE  [Contract!Next]_(Contract!vars)
<1>1. UNCHANGED <<stock, taken, seeded, amount>>
  BY DEF Arrive, Cancel, LoseCall, Fail, HandlerStep, SeedPostgres, Enqueue, Await, Abandon,
         Insert, ownerVars
<1>2. CASE Enqueue(c)
  <2>1. OnlyCall(c) /\ Queued(c)' /\ ~Queued(c) /\ answer[c] = None /\ reply[c] = None
    BY <1>2, EnqueueMoves DEF ChanInv, CallInv, Enqueue
  <2>2. /\ pc[c] = "enqueue" /\ pc'[c] \in {"await"} /\ answer' = answer /\ reply' = reply
        /\ None \notin Answers \cup Verdicts
    BY <1>2 DEF Enqueue, Goto, ChanInv, TypeOK
  <2>3. c \in Buyers => Unseen(c)
    BY <2>1, <2>2, Views DEF Unseen, Answers, Verdicts
  <2>4. \A b \in Buyers : Unseen(b)
    BY <2>1, <2>3, OthersUnseen
  <2> QED
    BY <1>1, <2>4, NothingSeen DEF Contract!vars
<1>3. CASE ~Enqueue(c)
  <2>1. /\ OnlyCall(c) /\ reqs' = reqs
        /\ \/ Arrive(c) \/ Cancel(c) \/ LoseCall(c) \/ Fail(c)
           \/ SeedPostgres(c) \/ Await(c) \/ Abandon(c)
           \/ \E a \in {"ok", "error"} : Insert(c, a)
    <3>1. \/ Arrive(c) \/ Cancel(c) \/ LoseCall(c) \/ Fail(c)
          \/ SeedPostgres(c) \/ Await(c) \/ Abandon(c)
          \/ \E a \in {"ok", "error"} : Insert(c, a)
      BY <1>3 DEF HandlerStep
    <3>2. OnlyCall(c)
      BY <3>1, HandlerMoves
    <3> QED
      BY <3>1, <3>2
      DEF Arrive, Cancel, LoseCall, Fail, SeedPostgres, Await, Abandon, Insert
  <2>2. \A b \in Buyers \ {c} : Unseen(b)
    BY <2>1, OthersUnseen
  <2>3. CASE c \in Buyers /\ BuyerEnds(c)
    BY <1>1, <2>2, <2>3, EndsRefine
  <2>4. CASE \A b \in Buyers : Unseen(b)
    BY <1>1, <2>4, NothingSeen DEF Contract!vars
  <2>5. c \in Buyers => Unseen(c) \/ BuyerEnds(c)
    BY <2>1, HandlerSeen
  <2> QED
    BY <2>2, <2>3, <2>4, <2>5
<1> QED
  BY <1>2, <1>3

\* The end of a process changes nothing of the sale, a restart is a seed of nothing.
LEMMA ServerRefines ==
  ASSUME ChanInv,
         \/ OwnerStop \/ Signal \/ Drained \/ ShutdownTimeout \/ Kill \/ Restart
         \/ UNCHANGED vars
  PROVE  [Contract!Next]_(Contract!vars)
<1>1. UNCHANGED <<reqs, reply, pc, answer, amount>>
  BY ServerMoves
<1>2. \A x \in Clients : Queued(x)' <=> Queued(x)
  BY <1>1 DEF Queued
<1>3. \A b \in Buyers : Unseen(b)
  BY <1>1, <1>2 DEF Unseen, BuyerAnswers, BuyersHolding, BuyersShort
<1>4. UNCHANGED <<BuyersQty, BuyerAnswers, BuyersHolding, BuyersShort>>
  BY <1>1, <1>3, NothingSeen
<1>5. CASE Restart
  BY <1>4, <1>5 DEF Restart, Contract!Next, Contract!Reseed
<1>6. CASE UNCHANGED <<stock, taken, seeded>>
  BY <1>4, <1>6 DEF Contract!vars
<1> QED
  BY <1>5, <1>6
  DEF OwnerStop, Signal, Drained, ShutdownTimeout, Kill, BecomeServer, vars, ownerVars

LEMMA ChanStepRefines == ChanInv /\ [Next]_vars => [Contract!Next]_(Contract!vars)
<1> SUFFICES ASSUME ChanInv, [Next]_vars PROVE [Contract!Next]_(Contract!vars)
  OBVIOUS
<1>1. ASSUME NEW c \in Clients, Arrive(c) \/ Cancel(c) \/ LoseCall(c) \/ Fail(c)
                                 \/ HandlerStep(c) \/ Insert(c, "error")
      PROVE  [Contract!Next]_(Contract!vars)
  BY <1>1, CallRefines
<1> QED
  BY <1>1, ServeRefines, LoseRequestRefines, ServerRefines DEF Next

\* go_chan keeps the contract of Inventory through callers that leave, a shutdown, a kill
\* and a restart: the units of a request leave the stock when the owner serves it, once,
\* and a caller who left is told an error that stays true.
THEOREM ChannelKeepsContract == Spec => RefinesSale
<1>1. ChanInv /\ [Next]_vars => [Contract!Next]_(Contract!vars)
  BY ChanStepRefines
<1> QED
  BY <1>1, ContractInit, ChanInit, ChanStep, PTL DEF Spec, RefinesSale, Contract!Spec

\* The theorems about Sale, for the state it is mapped to.
Inherited == INSTANCE SaleProofs WITH
  left <- stock, qty <- BuyersQty, answer <- BuyerAnswers, holding <- BuyersHolding,
  seenShort <- BuyersShort

\* So the owner never grants more than was seeded, since the last seed or the last start.
THEOREM ChannelNeverOversells == Spec => [](taken <= seeded)
<1>1. Contract!Init => Inherited!Init
  BY DEF Contract!Init, Inherited!Init
<1>2. [Contract!Next]_(Contract!vars) => [Inherited!Next]_(Inherited!vars)
  BY DEF Contract!Next, Contract!Buy, Contract!Deliver, Contract!Shortage, Contract!Refuse,
         Contract!GiveUp, Contract!Reseed, Contract!Answers, Contract!vars,
         Inherited!Next, Inherited!Buy, Inherited!Deliver, Inherited!Shortage,
         Inherited!Refuse, Inherited!GiveUp, Inherited!Reseed, Inherited!Answers,
         Inherited!vars, Inherited!Undecided, Inherited!Answer
<1>3. RefinesSale => Inherited!Spec
  BY <1>1, <1>2, PTL DEF RefinesSale, Contract!Spec, Inherited!Spec
<1>4. Inherited!Spec => []Inherited!NoOversell
  BY Inherited!ContractNeverOversells
<1> QED
  BY <1>3, <1>4, ChannelKeepsContract, PTL DEF Inherited!NoOversell

=============================================================================
