------------------------- MODULE RedisCounterProofs -------------------------
(***************************************************************************)
(* Theorems about the Redis adapters: types, the account of the units and   *)
(* the cause of every refusal for any mix of the two, and the contract of   *)
(* Inventory for redis_lua, with any number of buyers and seeds.            *)
(***************************************************************************)
EXTENDS RedisCounter, TotalsProofs

LEMMA FreshStart ==
  \A n \in Nat : n + 0 = n /\ n + 0 + 0 = n + 0 /\ 0 <= n + 0
OBVIOUS

USE RedisClientsAssumption DEF Clients

\* A call that is running has no answer and, if it buys, no order yet.
Unanswered ==
  /\ \A c \in Clients : pc[c] # "done" => answer[c] = None
  /\ \A b \in Buyers : pc[b] # "done" => orders[b] = 0

IInv == TypeOK /\ Unanswered

-----------------------------------------------------------------------------

LEMMA RedisInit == Init => IInv
<1> SUFFICES ASSUME Init PROVE IInv
  OBVIOUS
<1>1. counter \in Nat
  BY RedisQuantitiesAssumption DEF Init
<1>2. PICK d \in Deployments : kind \in [Clients -> d]
  BY DEF Init
<1>3. kind \in [Clients -> RedisKinds]
  BY <1>2, RedisDeploymentsAssumption
<1>4. ASSUME NEW c \in Clients
      PROVE  FirstStep(c) \in Locations \ {"done"}
  BY <1>3, <1>4 DEF FirstStep, Locations, RedisKinds
<1>5. pc \in [Clients -> Locations] /\ \A c \in Clients : pc[c] = FirstStep(c)
  BY <1>4 DEF Init
<1>6. TypeOK
  BY <1>1, <1>3, <1>5, RedisQuantitiesAssumption DEF Init, TypeOK
<1>7. Unanswered
  BY <1>4, <1>5 DEF Init, Unanswered
<1> QED
  BY <1>6, <1>7 DEF IInv

\* Return and Refuse are the ends of every call.
LEMMA RefuseStep ==
  ASSUME IInv, NEW c \in Clients, NEW a \in Answers, Refuse(c, a)
  PROVE  IInv'
BY DEF IInv, TypeOK, Unanswered, Refuse, Return, Goto, Locations, ledger

LEMMA GrantStep ==
  ASSUME IInv, NEW b \in Buyers, pc[b] # "done", Grant(b)
  PROVE  IInv'
<1>1. qty[b] \in Nat
  BY RedisQuantitiesAssumption DEF IInv, TypeOK
<1>2. counter' \in Int /\ taken' \in Nat
  BY <1>1 DEF Grant, IInv, TypeOK
<1> QED
  BY <1>2 DEF IInv, TypeOK, Unanswered, Grant, Goto, Locations

LEMMA CounterStep ==
  ASSUME IInv, NEW b \in Buyers, NEW a \in Answers,
         pc[b] # "done", Overshoot(b) \/ Compensate(b, a)
  PROVE  IInv'
<1>1. qty[b] \in Nat
  BY RedisQuantitiesAssumption DEF IInv, TypeOK
<1>2. counter' \in Int /\ stray' \in Nat
  BY <1>1 DEF Overshoot, Compensate, IInv, TypeOK
<1>3. CASE Overshoot(b)
  BY <1>2, <1>3 DEF IInv, TypeOK, Unanswered, Overshoot, Goto, Locations
<1>4. CASE Compensate(b, a)
  BY <1>2, <1>4 DEF IInv, TypeOK, Unanswered, Compensate, Return, Goto, Locations
<1> QED
  BY <1>3, <1>4

LEMMA InsertStep ==
  ASSUME IInv, NEW b \in Buyers, NEW a \in Answers, Insert(b, a)
  PROVE  IInv'
BY DEF IInv, TypeOK, Unanswered, Insert, Return, Goto, Locations, ledger

LEMMA ResentStep ==
  ASSUME IInv, NEW b \in Buyers, Resent(b)
  PROVE  IInv'
<1>1. qty[b] \in Nat
  BY RedisQuantitiesAssumption DEF IInv, TypeOK
<1>2. counter' \in Int /\ leaked' \in Nat /\ stray' \in Nat
  BY <1>1 DEF Resent, ResentTake, ResentIncrBy, IInv, TypeOK
<1>3. resends' \in 0 .. MaxResends
  BY RedisQuantitiesAssumption DEF Resent, IInv, TypeOK
<1> QED
  BY <1>2, <1>3 DEF Resent, IInv, TypeOK, Unanswered

LEMMA BuyerStepKeepsIInv ==
  ASSUME IInv, NEW b \in Buyers,
         RedisLuaDecrement(b) \/ RedisAtomicDecrement(b) \/ Unacknowledged(b)
  PROVE  IInv'
<1>1. b \in Clients /\ {"ok", "out_of_stock", "not_found", "error"} \subseteq Answers
  BY DEF Answers
<1>2. CASE Eval(b) \/ DecrBy(b)
  BY <1>1, <1>2, RefuseStep, GrantStep, CounterStep DEF Eval, DecrBy
<1>3. CASE Exists(b)
  <2>1. CASE Refuse(b, "not_found")
    BY <1>1, <2>1, RefuseStep
  <2>2. CASE key /\ Goto(b, "decrby")
    BY <1>3, <2>2 DEF Exists, Refuse, Goto, IInv, TypeOK, Unanswered, Locations, ledger
  <2> QED
    BY <1>3, <2>1, <2>2 DEF Exists
<1>4. ASSUME NEW a \in Answers, Compensate(b, a)
      PROVE  IInv'
  BY <1>4, CounterStep DEF Compensate
<1>5. ASSUME NEW a \in Answers, Insert(b, a)
      PROVE  IInv'
  BY <1>5, InsertStep
<1> QED
  BY <1>1, <1>2, <1>3, <1>4, <1>5
  DEF RedisLuaDecrement, RedisAtomicDecrement, Unacknowledged

LEMMA SeederStepKeepsIInv ==
  ASSUME IInv, NEW s \in Seeders, SeedUpsert(s) \/ SeedDelete(s) \/ SeedSet(s)
  PROVE  IInv'
<1>1. CASE SeedUpsert(s)
  BY <1>1 DEF SeedUpsert, IInv, TypeOK, Unanswered, Goto, Locations, ledger
<1>2. CASE SeedDelete(s)
  BY <1>2 DEF SeedDelete, IInv, TypeOK, Unanswered, Goto, Return,
              Locations, Answers, ledger
<1>3. CASE SeedSet(s)
  <2>1. counter' \in Nat /\ seeded' = counter'
    BY <1>3, RedisQuantitiesAssumption DEF SeedSet
  <2> QED
    BY <1>3, <2>1 DEF SeedSet, IInv, TypeOK, Unanswered, Goto, Return,
                      Locations, Answers
<1> QED
  BY <1>1, <1>2, <1>3

LEMMA RedisStep == IInv /\ [Next]_vars => IInv'
<1> SUFFICES ASSUME IInv, [Next]_vars PROVE IInv'
  OBVIOUS
<1>1. ASSUME NEW c \in Clients, Fail(c)
      PROVE  IInv'
  BY <1>1 DEF Fail, IInv, TypeOK, Unanswered, Goto, Return, Locations,
              Answers, ledger
<1>2. CASE UNCHANGED vars
  BY <1>2 DEF vars, ledger, IInv, TypeOK, Unanswered
<1> QED
  BY <1>1, <1>2, ResentStep, BuyerStepKeepsIInv, SeederStepKeepsIInv DEF Next, Finished

\* Every variable keeps its type, and no call leaves more than one order, for any
\* mix of the two adapters.
THEOREM RedisTypeCorrect == Spec => []TypeOK
<1>1. IInv => TypeOK
  BY DEF IInv
<1> QED
  BY RedisInit, RedisStep, <1>1, PTL DEF Spec

-----------------------------------------------------------------------------
(* Where the units go, for any mix of the two adapters                      *)

LEMMA ClientsAreFixed == [Next]_vars => kind' = kind /\ qty' = qty
BY DEF Next, Finished, vars, RedisLuaDecrement, RedisAtomicDecrement, Unacknowledged,
       Eval, Exists, DecrBy, Overshoot, Grant, Refuse, Compensate, Insert, Fail, Resent,
       SeedUpsert, SeedDelete, SeedSet

\* Only a DECRBY that went too far leaves a mark, and its call goes nowhere but to
\* the compensation.
Away == \A b \in Buyers : overshot[b] => pc[b] \in {"incrby", "done"}

Over == {b \in Buyers : overshot[b]}

LEMMA OvershotType ==
  ASSUME TypeOK
  PROVE  /\ IsFiniteSet(Over) /\ Overshot = Total(qty, Over) /\ Overshot \in Nat
         /\ \A b \in Buyers : qty[b] \in Nat \ {0}
<1>1. \A b \in Buyers : qty[b] \in Nat \ {0}
  BY RedisQuantitiesAssumption DEF TypeOK
<1>2. IsFiniteSet(Over)
  BY FS_Subset DEF Over
<1>3. Total(qty, Over) \in Nat
  BY <1>1, <1>2, TotalType DEF Over
<1> QED
  BY <1>1, <1>2, <1>3 DEF Over, Overshot

LEMMA OvershotGrows ==
  ASSUME TypeOK, NEW b \in Buyers, ~overshot[b], qty' = qty,
         overshot' = [overshot EXCEPT ![b] = TRUE]
  PROVE  Overshot' = Overshot + qty[b]
<1>1. Overshot' = Total(qty, {x \in Buyers : overshot'[x]})
  BY DEF Overshot
<1>2. {x \in Buyers : overshot'[x]} = Over \cup {b} /\ b \notin Over
  BY DEF TypeOK, Over
<1>3. Total(qty, Over \cup {b}) = Total(qty, Over) + qty[b]
  BY <1>2, OvershotType, TotalAdd DEF Over
<1> QED
  BY <1>1, <1>2, <1>3, OvershotType

LEMMA OvershotShrinks ==
  ASSUME TypeOK, NEW b \in Buyers, overshot[b], qty' = qty,
         overshot' = [overshot EXCEPT ![b] = FALSE]
  PROVE  Overshot' = Overshot - qty[b]
<1>1. Overshot' = Total(qty, {x \in Buyers : overshot'[x]})
  BY DEF Overshot
<1>2. {x \in Buyers : overshot'[x]} = Over \ {b} /\ b \in Over
  BY DEF TypeOK, Over
<1>3. Total(qty, Over) = Total(qty, Over \ {b}) + qty[b]
  BY <1>2, OvershotType, TotalRemove DEF Over
<1>4. Total(qty, Over \ {b}) \in Nat
  BY OvershotType, FS_Subset, TotalType DEF Over
<1> QED
  BY <1>1, <1>2, <1>3, <1>4, OvershotType

LEMMA OvershotStays ==
  ASSUME qty' = qty, \A b \in Buyers : overshot'[b] = overshot[b]
  PROVE  Overshot' = Overshot
<1>1. {b \in Buyers : overshot'[b]} = {b \in Buyers : overshot[b]}
  OBVIOUS
<1> QED
  BY <1>1 DEF Overshot

\* What a step can do to the account.
Still == UNCHANGED <<Left, taken, leaked, seeded, stray>>

Sold(b) ==
  /\ Left' = Left - qty[b] /\ Left' >= 0
  /\ taken' = taken + qty[b]
  /\ UNCHANGED <<leaked, seeded, stray>>

Lost(b) ==
  /\ Left' = Left - qty[b]
  /\ leaked' = leaked + qty[b]
  /\ UNCHANGED <<taken, seeded, stray>>

CameBack(b) ==
  /\ Left' = Left + qty[b]
  /\ stray' = stray + qty[b]
  /\ UNCHANGED <<taken, leaked, seeded>>

Reseeded ==
  /\ Left' = seeded'
  /\ taken' = 0 /\ leaked' = 0 /\ stray' = 0
  /\ \E s \in Seeders : SeedSet(s)

Moves ==
  \/ Still
  \/ \E b \in Buyers : Sold(b) \/ Lost(b) \/ CameBack(b)
  \/ Reseeded

LEMMA StoreStands ==
  ASSUME UNCHANGED <<counter, qty, ledger>>
  PROVE  Still
BY OvershotStays DEF ledger, Left, Still

LEMMA GrantMoves ==
  ASSUME TypeOK, NEW b \in Buyers, counter - qty[b] >= 0, Grant(b)
  PROVE  Sold(b)
<1>1. Overshot' = Overshot
  BY OvershotStays DEF Grant
<1> QED
  BY <1>1, OvershotType DEF Grant, TypeOK, Left, Sold

LEMMA OvershootMoves ==
  ASSUME TypeOK, NEW b \in Buyers, ~overshot[b], Overshoot(b)
  PROVE  Still
<1>1. Overshot' = Overshot + qty[b]
  BY OvershotGrows DEF Overshoot
<1> QED
  BY <1>1, OvershotType DEF Overshoot, TypeOK, Left, Still

LEMMA CompensateMoves ==
  ASSUME TypeOK, NEW b \in Buyers, NEW a, Compensate(b, a)
  PROVE  (overshot[b] /\ Still) \/ (~overshot[b] /\ CameBack(b))
<1>1. CASE overshot[b]
  <2>1. Overshot' = Overshot - qty[b]
    BY <1>1, OvershotShrinks DEF Compensate
  <2> QED
    BY <1>1, <2>1, OvershotType DEF Compensate, TypeOK, Left, Still
<1>2. CASE ~overshot[b]
  <2>1. \A x \in Buyers : overshot'[x] = overshot[x]
    BY <1>2 DEF Compensate, TypeOK
  <2>2. Overshot' = Overshot
    BY <2>1, OvershotStays DEF Compensate
  <2> QED
    BY <1>2, <2>2, OvershotType DEF Compensate, TypeOK, Left, CameBack
<1> QED
  BY <1>1, <1>2

LEMMA ResentMoves ==
  ASSUME TypeOK, NEW b \in Buyers, Resent(b)
  PROVE  Lost(b) \/ CameBack(b)
<1>1. Overshot' = Overshot
  BY OvershotStays DEF Resent
<1> QED
  BY <1>1, OvershotType
  DEF Resent, ResentTake, ResentIncrBy, TypeOK, Left, Lost, CameBack

LEMMA SetMoves ==
  ASSUME TypeOK, NEW s \in Seeders, SeedSet(s)
  PROVE  Reseeded
<1>1. counter' \in Nat /\ seeded' = counter'
  BY RedisQuantitiesAssumption DEF SeedSet
<1>2. {b \in Buyers : overshot'[b]} = {}
  BY DEF SeedSet
<1>3. Overshot' = 0
  BY <1>2, TotalEmpty DEF Overshot
<1>4. Left' = seeded'
  <2>1. Left' = counter' + Overshot'
    BY DEF Left
  <2> QED
    BY <1>1, <1>3, <2>1, FreshStart, Zenon
<1>5. taken' = 0 /\ leaked' = 0 /\ stray' = 0
  BY DEF SeedSet
<1> QED
  BY <1>4, <1>5 DEF Reseeded

LEMMA UnitsMove ==
  ASSUME TypeOK, Away, [Next]_vars
  PROVE  Moves
<1>1. ASSUME NEW b \in Buyers, Eval(b)
      PROVE  Moves
  <2>1. CASE \E a \in Answers : Refuse(b, a)
    BY <2>1, StoreStands DEF Refuse, Moves
  <2>2. CASE counter >= qty[b] /\ Grant(b)
    <3>1. counter - qty[b] >= 0
      BY <2>2, OvershotType DEF TypeOK
    <3> QED
      BY <2>2, <3>1, GrantMoves DEF Moves
  <2> QED
    BY <1>1, <2>1, <2>2 DEF Eval, Answers
<1>2. ASSUME NEW b \in Buyers, Exists(b)
      PROVE  Moves
  BY <1>2, StoreStands DEF Exists, Refuse, Moves
<1>3. ASSUME NEW b \in Buyers, DecrBy(b)
      PROVE  Moves
  <2>1. ~overshot[b]
    BY <1>3 DEF DecrBy, Away
  <2> QED
    BY <1>3, <2>1, OvershootMoves, GrantMoves DEF DecrBy, Moves
<1>4. ASSUME NEW b \in Buyers, NEW a, Compensate(b, a)
      PROVE  Moves
  BY <1>4, CompensateMoves DEF Moves
<1>5. ASSUME NEW b \in Buyers, NEW a, Insert(b, a)
      PROVE  Moves
  BY <1>5, StoreStands DEF Insert, Moves
<1>6. ASSUME NEW c \in Clients, Fail(c)
      PROVE  Moves
  BY <1>6, StoreStands DEF Fail, Moves
<1>7. ASSUME NEW s \in Seeders, SeedUpsert(s) \/ SeedDelete(s)
      PROVE  Moves
  BY <1>7, StoreStands DEF SeedUpsert, SeedDelete, Moves
<1>8. CASE UNCHANGED vars
  BY <1>8, StoreStands DEF vars, Moves
<1>9. ASSUME NEW b \in Buyers, Resent(b)
      PROVE  Moves
  BY <1>9, ResentMoves DEF Moves
<1>10. ASSUME NEW s \in Seeders, SeedSet(s)
       PROVE  Moves
  BY <1>10, SetMoves DEF Moves
<1> QED
  BY <1>1, <1>2, <1>3, <1>4, <1>5, <1>6, <1>7, <1>8, <1>9, <1>10
  DEF Next, Finished, RedisLuaDecrement, RedisAtomicDecrement, Unacknowledged

LEMMA AwayStep ==
  ASSUME TypeOK, Away, [Next]_vars
  PROVE  Away'
<1> SUFFICES ASSUME NEW b \in Buyers, overshot'[b]
             PROVE  pc'[b] \in {"incrby", "done"}
  BY DEF Away
<1> USE DEF Away, TypeOK
<1>1. ASSUME NEW o \in Buyers, Eval(o) \/ Exists(o)
      PROVE  pc'[b] \in {"incrby", "done"}
  BY <1>1 DEF Eval, Exists, Refuse, Grant, Return, Goto, ledger
<1>2. ASSUME NEW o \in Buyers, DecrBy(o)
      PROVE  pc'[b] \in {"incrby", "done"}
  BY <1>2 DEF DecrBy, Overshoot, Grant, Goto
<1>3. ASSUME NEW o \in Buyers, NEW a, Compensate(o, a) \/ Insert(o, a)
      PROVE  pc'[b] \in {"incrby", "done"}
  BY <1>3 DEF Compensate, Insert, Return, Goto, ledger
<1>4. ASSUME NEW c \in Clients, Fail(c)
      PROVE  pc'[b] \in {"incrby", "done"}
  BY <1>4 DEF Fail, Return, Goto, ledger
<1>5. ASSUME NEW s \in Seeders, SeedUpsert(s) \/ SeedDelete(s) \/ SeedSet(s)
      PROVE  pc'[b] \in {"incrby", "done"}
  BY <1>5 DEF SeedUpsert, SeedDelete, SeedSet, Return, Goto, ledger
<1>6. CASE UNCHANGED vars \/ \E o \in Buyers : Resent(o)
  BY <1>6 DEF vars, Resent, ledger
<1> QED
  BY <1>1, <1>2, <1>3, <1>4, <1>5, <1>6
  DEF Next, Finished, RedisLuaDecrement, RedisAtomicDecrement, Unacknowledged

Account == IInv /\ Away /\ Ledger /\ OversellsOnlyStrays

LEMMA AccountInit == Init => Account
<1> SUFFICES ASSUME Init PROVE Account
  OBVIOUS
<1>1. IInv
  BY RedisInit
<1>2. {b \in Buyers : overshot[b]} = {}
  BY DEF Init
<1>3. Overshot = 0
  BY <1>2, TotalEmpty DEF Overshot
<1>4. counter \in Nat
  BY RedisQuantitiesAssumption DEF Init
<1> QED
  BY <1>1, <1>2, <1>3, <1>4 DEF Init, Account, Away, Ledger, Left, OversellsOnlyStrays

LEMMA AccountStep == Account /\ [Next]_vars => Account'
<1> SUFFICES ASSUME Account, [Next]_vars PROVE Account'
  OBVIOUS
<1>1. IInv' /\ Away' /\ Moves
  BY RedisStep, AwayStep, UnitsMove DEF Account, IInv
<1>2. /\ taken \in Nat /\ leaked \in Nat /\ seeded \in Nat /\ stray \in Nat
      /\ Left \in Int /\ \A b \in Buyers : qty[b] \in Nat
  BY OvershotType DEF Account, IInv, TypeOK, Left
<1>3. /\ taken' \in Nat /\ leaked' \in Nat /\ seeded' \in Nat /\ stray' \in Nat
  BY <1>1 DEF IInv, TypeOK
<1>4. Left + taken + leaked = seeded + stray /\ taken <= seeded + stray
  BY DEF Account, Ledger, OversellsOnlyStrays
<1>5. /\ Left' + taken' + leaked' = seeded' + stray'
      /\ taken' <= seeded' + stray'
  <2>1. CASE Still
    BY <1>2, <1>4, <2>1 DEF Still
  <2>2. ASSUME NEW b \in Buyers, Sold(b) \/ Lost(b) \/ CameBack(b)
        PROVE  /\ Left' + taken' + leaked' = seeded' + stray'
               /\ taken' <= seeded' + stray'
    <3>1. qty[b] \in Nat
      BY <1>2
    <3>2. CASE Sold(b)
      BY <1>2, <1>3, <1>4, <3>1, <3>2 DEF Sold
    <3>3. CASE Lost(b)
      BY <1>2, <1>3, <1>4, <3>1, <3>3 DEF Lost
    <3>4. CASE CameBack(b)
      BY <1>2, <1>3, <1>4, <3>1, <3>4 DEF CameBack
    <3> QED
      BY <2>2, <3>2, <3>3, <3>4
  <2>3. CASE Reseeded
    <3>1. Left' = seeded' /\ taken' = 0 /\ leaked' = 0 /\ stray' = 0
      BY <2>3 DEF Reseeded
    <3>2. Left' + taken' + leaked' = seeded' + stray'
      BY <1>3, <3>1, FreshStart, Zenon
    <3>3. taken' <= seeded' + stray'
      BY <1>3, <3>1, FreshStart, Zenon
    <3> QED
      BY <3>2, <3>3
  <2> QED
    BY <1>1, <2>1, <2>2, <2>3 DEF Moves
<1> QED
  BY <1>1, <1>5 DEF Account, Ledger, OversellsOnlyStrays

\* Every unit is for sale, sold, on its way back or leaked, and none comes from
\* nowhere but what came back from before the seed or came back twice.
THEOREM UnitsAccounted == Spec => []Ledger
<1>1. Account => Ledger
  BY DEF Account
<1> QED
  BY <1>1, AccountInit, AccountStep, PTL DEF Spec

\* What is granted beyond the seed is bounded by what INCRBY gave back that was not
\* out: commands that take units may be sent twice, and every call may stop half-way.
THEOREM OversellIsStray == Spec => []OversellsOnlyStrays
<1>1. Account => OversellsOnlyStrays
  BY DEF Account
<1> QED
  BY <1>1, AccountInit, AccountStep, PTL DEF Spec

-----------------------------------------------------------------------------
(* Why a buyer is refused                                                   *)

Cause(o) ==
  /\ pc[o] \in {"incrby", "done"}
  /\ answer[o] # "ok"
  /\ Left < qty[o]

\* A sign that somebody asked for too much: an answer, or a DECRBY not yet undone.
Sign(b) == overshot[b] \/ answer[b] = "out_of_stock"

Caused ==
  NoSeedYet /\ stray = 0 /\ (\E b \in Buyers : Sign(b)) => \E o \in Buyers : Cause(o)

\* As long as no seed has begun none takes a step.
LEMMA BeforeTheSeed ==
  ASSUME TypeOK, [Next]_vars, NoSeedYet'
  PROVE  /\ NoSeedYet
         /\ ~\E s \in Seeders : SeedUpsert(s) \/ SeedDelete(s) \/ SeedSet(s) \/ Fail(s)
<1> DEFINE First(s) == IF kind[s] = "redis_lua" THEN "upsert" ELSE "set"
<1>1. ASSUME NEW s \in Seeders
      PROVE  FirstStep(s) = First(s) /\ pc'[s] = First(s)
  <2>1. kind' = kind /\ kind[s] \in RedisKinds
    BY ClientsAreFixed DEF TypeOK
  <2>2. FirstStep(s) = First(s) /\ (FirstStep(s))' = First(s)
    BY <2>1 DEF FirstStep, RedisKinds
  <2> QED
    BY <2>2 DEF NoSeedYet
<1>2. ASSUME NEW s \in Seeders, SeedUpsert(s) \/ SeedDelete(s) \/ SeedSet(s) \/ Fail(s)
      PROVE  FALSE
  BY <1>1, <1>2 DEF SeedUpsert, SeedDelete, SeedSet, Fail, Return, Goto, TypeOK
<1>3. ASSUME NEW s \in Seeders
      PROVE  pc'[s] = pc[s]
  <2> USE DEF TypeOK
  <2>1. ASSUME NEW o \in Buyers, Eval(o) \/ Exists(o) \/ DecrBy(o)
        PROVE  pc'[s] = pc[s]
    BY <2>1 DEF Eval, Exists, DecrBy, Overshoot, Refuse, Grant, Return, Goto
  <2>2. ASSUME NEW o \in Buyers, NEW a, Compensate(o, a) \/ Insert(o, a)
        PROVE  pc'[s] = pc[s]
    BY <2>2 DEF Compensate, Insert, Return, Goto
  <2>3. ASSUME NEW o \in Buyers, Fail(o) \/ Resent(o)
        PROVE  pc'[s] = pc[s]
    BY <2>3 DEF Fail, Resent, Return, Goto
  <2>4. CASE UNCHANGED vars
    BY <2>4 DEF vars
  <2> QED
    BY <1>2, <2>1, <2>2, <2>3, <2>4
    DEF Next, Finished, RedisLuaDecrement, RedisAtomicDecrement, Unacknowledged
<1>4. NoSeedYet
  BY <1>1, <1>3 DEF NoSeedYet
<1> QED
  BY <1>2, <1>4

\* What is left never rises while nothing comes back that was not out.
LEMMA LeftFalls ==
  ASSUME Account, [Next]_vars, NoSeedYet', stray' = 0
  PROVE  Left' <= Left /\ stray = 0 /\ Left \in Int /\ Left' \in Int
<1>1. Moves /\ ~Reseeded
  BY UnitsMove, BeforeTheSeed DEF Account, IInv, Reseeded
<1>2. /\ stray \in Nat /\ Left \in Int /\ \A b \in Buyers : qty[b] \in Nat \ {0}
  BY OvershotType DEF Account, IInv, TypeOK, Left
<1>3. CASE Still
  BY <1>2, <1>3 DEF Still
<1>4. ASSUME NEW b \in Buyers, Sold(b) \/ Lost(b) \/ CameBack(b)
      PROVE  Left' <= Left /\ stray = 0 /\ Left' \in Int
  <2>1. qty[b] \in Nat \ {0}
    BY <1>2
  <2> QED
    BY <1>2, <1>4, <2>1 DEF Sold, Lost, CameBack
<1> QED
  BY <1>1, <1>2, <1>3, <1>4 DEF Moves

\* A buyer that is past its DECRBY without a grant stays a cause.
LEMMA CallSettles ==
  ASSUME TypeOK, [Next]_vars, NEW o \in Buyers,
         pc[o] \in {"incrby", "done"}, answer[o] # "ok"
  PROVE  pc'[o] \in {"incrby", "done"} /\ answer'[o] # "ok"
<1> DEFINE Goal == pc'[o] \in {"incrby", "done"} /\ answer'[o] # "ok"
<1> USE DEF TypeOK
<1>1. ASSUME NEW b \in Buyers, Eval(b) \/ Exists(b) \/ DecrBy(b)
      PROVE  Goal
  BY <1>1 DEF Eval, Exists, DecrBy, Overshoot, Refuse, Grant, Return, Goto
<1>2. ASSUME NEW b \in Buyers, NEW a \in {"out_of_stock", "error"}, Compensate(b, a)
      PROVE  Goal
  BY <1>2 DEF Compensate, Return, Goto
<1>3. ASSUME NEW b \in Buyers, NEW a, Insert(b, a)
      PROVE  Goal
  BY <1>3 DEF Insert, Return, Goto
<1>4. ASSUME NEW c \in Clients, Fail(c)
      PROVE  Goal
  BY <1>4 DEF Fail, Return, Goto
<1>5. ASSUME NEW s \in Seeders, SeedUpsert(s) \/ SeedDelete(s) \/ SeedSet(s)
      PROVE  Goal
  BY <1>5 DEF SeedUpsert, SeedDelete, SeedSet, Return, Goto
<1>6. CASE UNCHANGED vars \/ \E b \in Buyers : Resent(b)
  BY <1>6 DEF vars, Resent
<1> QED
  BY <1>1, <1>2, <1>3, <1>4, <1>5, <1>6
  DEF Next, Finished, RedisLuaDecrement, RedisAtomicDecrement, Unacknowledged

\* Where a sign comes from.
LEMMA SignAppears ==
  ASSUME TypeOK, [Next]_vars, NoSeedYet', NEW b \in Buyers, Sign(b)', ~Sign(b)
  PROVE  \/ pc[b] = "eval" /\ counter < qty[b] /\ Refuse(b, "out_of_stock")
         \/ pc[b] = "decrby" /\ counter - qty[b] < 0 /\ Overshoot(b)
         \/ Compensate(b, "out_of_stock")
<1> DEFINE Goal ==
      \/ pc[b] = "eval" /\ counter < qty[b] /\ Refuse(b, "out_of_stock")
      \/ pc[b] = "decrby" /\ counter - qty[b] < 0 /\ Overshoot(b)
      \/ Compensate(b, "out_of_stock")
<1> USE DEF TypeOK, Sign
<1>1. ASSUME NEW o \in Buyers, Eval(o) \/ Exists(o)
      PROVE  Goal
  BY <1>1 DEF Eval, Exists, Refuse, Grant, Return, Goto, ledger
<1>2. ASSUME NEW o \in Buyers, DecrBy(o)
      PROVE  Goal
  BY <1>2 DEF DecrBy, Overshoot, Grant, Goto
<1>3. ASSUME NEW o \in Buyers, NEW a \in {"out_of_stock", "error"}, Compensate(o, a)
      PROVE  Goal
  BY <1>3 DEF Compensate, Return, Goto
<1>4. ASSUME NEW o \in Buyers, NEW a \in {"ok", "error"}, Insert(o, a)
      PROVE  FALSE
  BY <1>4 DEF Insert, Return, Goto, ledger
<1>5. ASSUME NEW o \in Clients, Fail(o)
      PROVE  FALSE
  BY <1>5 DEF Fail, Return, Goto, ledger
<1>6. CASE UNCHANGED vars \/ \E o \in Buyers : Resent(o)
  BY <1>6 DEF vars, Resent, ledger
<1>7. ~\E s \in Seeders : SeedUpsert(s) \/ SeedDelete(s) \/ SeedSet(s)
  BY BeforeTheSeed
<1> QED
  BY <1>1, <1>2, <1>3, <1>4, <1>5, <1>6, <1>7
  DEF Next, Finished, RedisLuaDecrement, RedisAtomicDecrement, Unacknowledged

\* With nothing on its way back, what is left is what the counter shows.
LEMMA NothingOut ==
  ASSUME TypeOK, \A b \in Buyers : ~overshot[b]
  PROVE  Left = counter
<1>1. {b \in Buyers : overshot[b]} = {}
  OBVIOUS
<1> QED
  BY <1>1, TotalEmpty DEF Overshot, Left, TypeOK

LEMMA CausedStep ==
  ASSUME Account, Caused, [Next]_vars
  PROVE  Caused'
<1> SUFFICES ASSUME NoSeedYet', stray' = 0, NEW b \in Buyers, Sign(b)'
             PROVE  \E o \in Buyers : Cause(o)'
  BY DEF Caused
<1>1. /\ NoSeedYet /\ stray = 0 /\ Left' <= Left /\ Left \in Int /\ Left' \in Int
      /\ qty' = qty /\ \A o \in Buyers : qty[o] \in Nat \ {0}
  BY BeforeTheSeed, LeftFalls, ClientsAreFixed, OvershotType DEF Account, IInv
<1>2. CASE \E o \in Buyers : Sign(o)
  <2>1. PICK o \in Buyers : Cause(o)
    BY <1>1, <1>2 DEF Caused
  <2>2. pc'[o] \in {"incrby", "done"} /\ answer'[o] # "ok"
    BY <2>1, CallSettles DEF Cause, Account, IInv
  <2>3. Left' < qty'[o]
    <3>1. Left < qty[o] /\ qty[o] \in Nat
      BY <1>1, <2>1 DEF Cause
    <3> QED
      BY <1>1, <3>1
  <2> QED
    BY <2>2, <2>3 DEF Cause
<1>3. CASE ~\E o \in Buyers : Sign(o)
  <2>1. Left = counter
    BY <1>3, NothingOut DEF Sign, Account, IInv
  <2>2. ~overshot[b] /\ pc[b] # "done" => answer[b] = None
    BY DEF Account, IInv, Unanswered
  <2>3. /\ counter \in Int /\ pc \in [Clients -> Locations]
        /\ answer \in [Clients -> Answers \cup {None}]
    BY DEF Account, IInv, TypeOK
  <2>4. ~Compensate(b, "out_of_stock")
    BY <1>1, <1>3 DEF Compensate, Sign
  <2>5. pc'[b] \in {"incrby", "done"} /\ answer'[b] # "ok" /\ counter < qty[b]
    <3>1. CASE pc[b] = "eval" /\ counter < qty[b] /\ Refuse(b, "out_of_stock")
      BY <2>3, <3>1 DEF Refuse, Return, Goto
    <3>2. CASE pc[b] = "decrby" /\ counter - qty[b] < 0 /\ Overshoot(b)
      <4>1. answer'[b] # "ok" /\ pc'[b] = "incrby"
        BY <2>3, <3>2 DEF Overshoot, Goto, Account, IInv, Unanswered, Answers
      <4>2. counter < qty[b]
        BY <1>1, <2>3, <3>2
      <4> QED
        BY <4>1, <4>2
    <3> QED
      BY <1>3, <2>4, <3>1, <3>2, SignAppears DEF Account, IInv
  <2>6. Left' < qty'[b]
    BY <1>1, <2>1, <2>5
  <2> QED
    BY <2>5, <2>6 DEF Cause
<1> QED
  BY <1>2, <1>3

\* Before any seed and without INCRBYs sent twice nobody is refused unless somebody
\* asked for more than was left: the shortage that a compensation under way makes up
\* always has a real one behind it.
THEOREM RefusalsHaveCauses == Spec => []RefusalsHaveACause
<1>1. Init => Caused
  BY RedisInit DEF Init, Caused, Sign, Answers
<1>2. Account /\ Caused => RefusalsHaveACause
  BY DEF Caused, Cause, Sign, RefusalsHaveACause
<1> QED
  BY <1>1, <1>2, AccountInit, AccountStep, CausedStep, PTL DEF Spec

-----------------------------------------------------------------------------
(* redis_lua by itself implements the contract                              *)

\* redis_lua never gets to the commands of redis_atomic.
LuaPlaces ==
  /\ LuaOnly
  /\ \A b \in Buyers : pc[b] \in {"eval", "insert", "done"}

LuaInv == IInv /\ LuaPlaces

\* The abstract state stays as it is.
Stutter ==
  UNCHANGED <<Seen(counter), Seen(taken + leaked), Seen(seeded), qty, BuyerAnswers,
              BuyersHolding, BuyersShort>>

\* Where redis_lua is by itself the contract sees everything.
LEMMA LuaView ==
  ASSUME LuaOnly, kind' = kind
  PROVE  /\ Seen(counter) = counter /\ (Seen(counter))' = counter'
         /\ Seen(taken + leaked) = taken + leaked
         /\ (Seen(taken + leaked))' = taken' + leaked'
         /\ Seen(seeded) = seeded /\ (Seen(seeded))' = seeded'
         /\ BuyerAnswers = [b \in Buyers |-> answer[b]]
         /\ BuyerAnswers' = [b \in Buyers |-> answer'[b]]
         /\ BuyersHolding = [b \in Buyers |-> pc[b] = "insert"]
         /\ BuyersHolding' = [b \in Buyers |-> pc'[b] = "insert"]
         /\ BuyersShort = [b \in Buyers |-> answer[b] = "out_of_stock"]
         /\ BuyersShort' = [b \in Buyers |-> answer'[b] = "out_of_stock"]
<1>1. LuaOnly'
  BY DEF LuaOnly
<1> QED
  BY <1>1 DEF Seen, BuyerAnswers, BuyersHolding, BuyersShort

\* Elsewhere it sees nothing.
LEMMA NoView ==
  ASSUME ~LuaOnly, kind' = kind, qty' = qty
  PROVE  Stutter
<1>1. ~LuaOnly'
  BY DEF LuaOnly
<1> QED
  BY <1>1 DEF Seen, BuyerAnswers, BuyersHolding, BuyersShort, Stutter

LEMMA LuaInit ==
  ASSUME Init
  PROVE  IInv /\ (LuaOnly => LuaPlaces) /\ Contract!Init
<1>1. IInv
  BY RedisInit
<1>2. counter \in Nat
  BY RedisQuantitiesAssumption DEF Init
<1>3. Seen(counter) \in Nat /\ Seen(taken + leaked) = 0 /\ Seen(seeded) = Seen(counter)
  BY <1>2 DEF Seen, Init
<1>4. qty \in [Buyers -> Nat \ {0}]
  BY RedisQuantitiesAssumption DEF Init
<1>5. \A b \in Buyers : answer[b] = None /\ pc[b] # "insert"
  BY RedisInit DEF Init, FirstStep, IInv, TypeOK, RedisKinds
<1>6. /\ BuyerAnswers = [b \in Buyers |-> None]
      /\ BuyersHolding = [b \in Buyers |-> FALSE]
      /\ BuyersShort = [b \in Buyers |-> FALSE]
  BY <1>5 DEF BuyerAnswers, BuyersHolding, BuyersShort, Answers
<1>7. ASSUME LuaOnly PROVE LuaPlaces
  BY <1>7 DEF Init, FirstStep, LuaOnly, LuaPlaces
<1> QED
  BY <1>1, <1>3, <1>4, <1>6, <1>7 DEF Contract!Init

\* How the abstract variables of a buyer follow its return: from the script ...
LEMMA ReturnFromEval ==
  ASSUME LuaInv, kind' = kind, NEW b \in Buyers, NEW a \in Answers, pc[b] = "eval",
         Return(b, a)
  PROVE  /\ BuyerAnswers' = [BuyerAnswers EXCEPT ![b] = a]
         /\ BuyersHolding' = BuyersHolding
         /\ BuyersShort' = [BuyersShort EXCEPT ![b] = (a = "out_of_stock")]
<1>1. pc \in [Clients -> Locations] /\ answer \in [Clients -> Answers \cup {None}]
  BY DEF LuaInv, IInv, TypeOK
<1>2. \A o \in Buyers : pc'[o] = (IF o = b THEN "done" ELSE pc[o])
  BY <1>1 DEF Return, Goto
<1>3. \A o \in Buyers : answer'[o] = (IF o = b THEN a ELSE answer[o])
  BY <1>1 DEF Return
<1>4. BuyersHolding' = BuyersHolding
  BY <1>2, LuaView DEF LuaInv, LuaPlaces
<1>5. BuyerAnswers' = [BuyerAnswers EXCEPT ![b] = a]
  BY <1>3, LuaView DEF LuaInv, LuaPlaces
<1>6. BuyersShort' = [BuyersShort EXCEPT ![b] = (a = "out_of_stock")]
  BY <1>3, LuaView DEF LuaInv, LuaPlaces
<1> QED
  BY <1>4, <1>5, <1>6

\* ... and from the order.
LEMMA ReturnFromInsert ==
  ASSUME LuaInv, kind' = kind, NEW b \in Buyers, NEW a \in {"ok", "error"},
         pc[b] = "insert", Return(b, a)
  PROVE  /\ BuyerAnswers' = [BuyerAnswers EXCEPT ![b] = a]
         /\ BuyersHolding' = [BuyersHolding EXCEPT ![b] = FALSE]
         /\ BuyersShort' = BuyersShort
<1>1. /\ pc \in [Clients -> Locations] /\ answer \in [Clients -> Answers \cup {None}]
      /\ answer[b] = None
  BY DEF LuaInv, IInv, TypeOK, Unanswered
<1>2. \A o \in Buyers : pc'[o] = (IF o = b THEN "done" ELSE pc[o])
  BY <1>1 DEF Return, Goto
<1>3. \A o \in Buyers : answer'[o] = (IF o = b THEN a ELSE answer[o])
  BY <1>1 DEF Return
<1>4. BuyersHolding' = [BuyersHolding EXCEPT ![b] = FALSE]
  <2>1. /\ BuyersHolding = [o \in Buyers |-> pc[o] = "insert"]
        /\ BuyersHolding' = [o \in Buyers |-> pc'[o] = "insert"]
    BY LuaView DEF LuaInv, LuaPlaces
  <2>2. \A o \in Buyers : pc'[o] = "insert" <=> (o # b /\ pc[o] = "insert")
    BY <1>2
  <2> QED
    BY <2>1, <2>2
<1>5. BuyerAnswers' = [BuyerAnswers EXCEPT ![b] = a]
  BY <1>3, LuaView DEF LuaInv, LuaPlaces
<1>6. \A o \in Buyers : (answer'[o] = "out_of_stock") <=> (answer[o] = "out_of_stock")
  BY <1>1, <1>3 DEF Answers
<1>7. BuyersShort' = BuyersShort
  BY <1>6, LuaView DEF LuaInv, LuaPlaces
<1> QED
  BY <1>4, <1>5, <1>7

LEMMA LuaEval ==
  ASSUME LuaInv, NEW b \in Buyers, Eval(b)
  PROVE  LuaPlaces' /\ Contract!Next
<1>0. LuaOnly /\ kind' = kind /\ pc[b] = "eval" /\ LuaOnly'
  BY DEF LuaInv, LuaPlaces, LuaOnly, Eval, Refuse, Grant
<1>1. /\ BuyerAnswers[b] = None /\ ~BuyersHolding[b] /\ ~BuyersShort[b]
      /\ pc \in [Clients -> Locations] /\ qty[b] \in Nat /\ counter \in Int
      /\ taken \in Nat /\ leaked \in Nat
  <2>1. answer[b] = None /\ None # "out_of_stock"
    BY <1>0 DEF LuaInv, IInv, Unanswered, Answers
  <2>2. BuyerAnswers[b] = None /\ ~BuyersHolding[b] /\ ~BuyersShort[b]
    BY <1>0, <2>1 DEF BuyerAnswers, BuyersHolding, BuyersShort
  <2> QED
    BY <2>2, RedisQuantitiesAssumption DEF LuaInv, IInv, TypeOK
<1>2. CASE Refuse(b, "not_found")
  <2>1. /\ BuyerAnswers' = [BuyerAnswers EXCEPT ![b] = "not_found"]
        /\ BuyersHolding' = BuyersHolding
        /\ BuyersShort' = [BuyersShort EXCEPT ![b] = FALSE]
    BY <1>0, <1>2, ReturnFromEval DEF Refuse, Answers
  <2>2. Contract!GiveUp(b)
    BY <1>0, <1>1, <1>2, <2>1, LuaView
    DEF Refuse, ledger, Contract!GiveUp, Contract!Undecided, Contract!Answer,
        Contract!Answers
  <2> QED
    BY <1>0, <1>1, <1>2, <2>2 DEF Refuse, Return, Goto, LuaInv, LuaPlaces, Contract!Next
<1>3. CASE counter < qty[b] /\ Refuse(b, "out_of_stock")
  <2>1. /\ BuyerAnswers' = [BuyerAnswers EXCEPT ![b] = "out_of_stock"]
        /\ BuyersHolding' = BuyersHolding
        /\ BuyersShort' = [BuyersShort EXCEPT ![b] = TRUE]
    BY <1>0, <1>3, ReturnFromEval DEF Refuse, Answers
  <2>2. Contract!Shortage(b)
    BY <1>0, <1>1, <1>3, <2>1, LuaView
    DEF Refuse, ledger, Contract!Shortage, Contract!Undecided, Contract!Answer
  <2> QED
    BY <1>0, <1>1, <1>3, <2>2 DEF Refuse, Return, Goto, LuaInv, LuaPlaces, Contract!Next
<1>4. CASE counter >= qty[b] /\ Grant(b)
  <2>1. /\ BuyerAnswers' = BuyerAnswers
        /\ BuyersHolding' = [BuyersHolding EXCEPT ![b] = TRUE]
        /\ BuyersShort' = BuyersShort
    <3>1. answer' = answer /\ \A o \in Buyers : pc'[o] = IF o = b THEN "insert" ELSE pc[o]
      BY <1>1, <1>4 DEF Grant, Goto
    <3>2. BuyersHolding' = [BuyersHolding EXCEPT ![b] = TRUE]
      BY <1>0, <3>1 DEF BuyersHolding
    <3>3. BuyerAnswers' = BuyerAnswers /\ BuyersShort' = BuyersShort
      BY <1>0, <3>1 DEF BuyerAnswers, BuyersShort
    <3> QED
      BY <3>2, <3>3
  <2>2. /\ qty[b] <= counter /\ counter' = counter - qty[b]
        /\ taken' + leaked' = (taken + leaked) + qty[b]
        /\ seeded' = seeded /\ qty' = qty
    BY <1>1, <1>4 DEF Grant
  <2>3. Contract!Buy(b)
    BY <1>0, <1>1, <2>1, <2>2, LuaView
    DEF Contract!Buy, Contract!Undecided, Contract!Answer
  <2> QED
    BY <1>0, <1>1, <1>4, <2>3 DEF Grant, Goto, LuaInv, LuaPlaces, Contract!Next
<1> QED
  BY <1>2, <1>3, <1>4 DEF Eval

\* Everything after the script tells the buyer about units that are gone.
LEMMA LuaDelivers ==
  ASSUME LuaInv, NEW b \in Buyers, NEW a \in {"ok", "error"}, pc[b] = "insert",
         Return(b, a), UNCHANGED <<counter, qty, kind, ledger>>
  PROVE  LuaPlaces' /\ Contract!Next
<1>0. LuaOnly /\ kind' = kind /\ LuaOnly'
  BY DEF LuaInv, LuaPlaces, LuaOnly
<1>1. BuyersHolding[b] /\ pc \in [Clients -> Locations]
  BY <1>0, LuaView DEF LuaInv, IInv, TypeOK
<1>2. /\ BuyerAnswers' = [BuyerAnswers EXCEPT ![b] = a]
      /\ BuyersHolding' = [BuyersHolding EXCEPT ![b] = FALSE]
      /\ BuyersShort' = BuyersShort
  BY <1>0, ReturnFromInsert
<1>3. Contract!Deliver(b)
  BY <1>0, <1>1, <1>2, LuaView DEF ledger, Contract!Deliver, Contract!Answer
<1> QED
  BY <1>0, <1>1, <1>3 DEF Return, Goto, LuaInv, LuaPlaces, Contract!Next

LEMMA LuaFail ==
  ASSUME LuaInv, NEW c \in Clients, Fail(c)
  PROVE  LuaPlaces' /\ (Contract!Next \/ Stutter)
<1>0. LuaOnly /\ kind' = kind /\ LuaOnly'
  BY DEF LuaInv, LuaPlaces, LuaOnly, Fail
<1>1. pc \in [Clients -> Locations] /\ answer \in [Clients -> Answers \cup {None}]
  BY DEF LuaInv, IInv, TypeOK
<1>2. CASE c \in Seeders
  <2>1. \A b \in Buyers : pc'[b] = pc[b] /\ answer'[b] = answer[b]
    BY <1>1, <1>2 DEF Fail, Return, Goto
  <2>2. Stutter
    BY <1>0, <2>1, LuaView DEF Fail, ledger, Stutter
  <2> QED
    BY <1>0, <2>1, <2>2 DEF LuaInv, LuaPlaces
<1>3. CASE c \in Buyers /\ pc[c] = "insert"
  BY <1>3, LuaDelivers DEF Fail
<1>4. CASE c \in Buyers /\ pc[c] = "eval"
  <2>1. BuyerAnswers[c] = None /\ ~BuyersHolding[c]
    BY <1>0, <1>4, LuaView DEF LuaInv, IInv, Unanswered
  <2>2. /\ BuyerAnswers' = [BuyerAnswers EXCEPT ![c] = "error"]
        /\ BuyersHolding' = BuyersHolding
        /\ BuyersShort' = [BuyersShort EXCEPT ![c] = FALSE]
    BY <1>0, <1>4, ReturnFromEval DEF Fail, Answers
  <2>3. Contract!GiveUp(c)
    BY <1>0, <1>4, <2>1, <2>2, LuaView
    DEF Fail, ledger, Contract!GiveUp, Contract!Undecided, Contract!Answer,
        Contract!Answers
  <2> QED
    BY <1>0, <1>1, <1>4, <2>3 DEF Fail, Return, Goto, LuaInv, LuaPlaces, Contract!Next
<1> QED
  BY <1>2, <1>3, <1>4 DEF Fail, LuaInv, LuaPlaces

\* A script that runs twice takes the units twice and tells the buyer once.
LEMMA LuaResent ==
  ASSUME LuaInv, NEW b \in Buyers, Resent(b)
  PROVE  LuaPlaces' /\ Contract!Leak
<1>0. LuaOnly /\ kind' = kind /\ LuaOnly'
  BY DEF LuaInv, LuaPlaces, LuaOnly, Resent
<1>1. pc[b] = "eval" /\ counter >= qty[b] /\ ResentTake(b)
  BY DEF LuaInv, LuaPlaces, Resent, ResentTake, ResentIncrBy
<1>2. /\ qty[b] \in Nat \ {0} /\ counter \in Int /\ taken \in Nat /\ leaked \in Nat
      /\ pc' = pc /\ answer' = answer /\ taken' = taken /\ seeded' = seeded /\ qty' = qty
  BY RedisQuantitiesAssumption DEF LuaInv, IInv, TypeOK, Resent
<1>3. /\ qty[b] \in 1 .. counter /\ counter' = counter - qty[b]
      /\ taken' + leaked' = (taken + leaked) + qty[b]
  BY <1>1, <1>2 DEF ResentTake
<1>4. Contract!Leak
  BY <1>0, <1>2, <1>3, LuaView DEF Contract!Leak
<1> QED
  BY <1>0, <1>2, <1>4 DEF LuaInv, LuaPlaces

LEMMA LuaSeeder ==
  ASSUME LuaInv, NEW s \in Seeders, SeedUpsert(s) \/ SeedDelete(s) \/ SeedSet(s)
  PROVE  LuaPlaces' /\ (Contract!Next \/ Stutter)
<1>0. LuaOnly /\ kind' = kind /\ LuaOnly' /\ qty' = qty
  BY DEF LuaInv, LuaPlaces, LuaOnly, SeedUpsert, SeedDelete, SeedSet
<1>1. \A b \in Buyers : pc'[b] = pc[b] /\ answer'[b] = answer[b]
  BY DEF SeedUpsert, SeedDelete, SeedSet, Goto, Return, LuaInv, IInv, TypeOK
<1>2. LuaPlaces'
  BY <1>0, <1>1 DEF LuaInv, LuaPlaces
<1>3. BuyerAnswers' = BuyerAnswers /\ BuyersHolding' = BuyersHolding
      /\ BuyersShort' = BuyersShort
  BY <1>0, <1>1, LuaView
<1>4. CASE SeedUpsert(s) \/ SeedDelete(s)
  BY <1>0, <1>2, <1>3, <1>4, LuaView DEF SeedUpsert, SeedDelete, ledger, Stutter
<1>5. CASE SeedSet(s)
  <2>1. counter' \in Nat /\ seeded' = counter' /\ taken' + leaked' = 0
    BY <1>5, RedisQuantitiesAssumption DEF SeedSet
  <2> QED
    BY <1>0, <1>2, <1>3, <2>1, LuaView DEF Contract!Next, Contract!Reseed
<1> QED
  BY <1>4, <1>5

LEMMA LuaStep ==
  ASSUME LuaInv, [Next]_vars
  PROVE  LuaInv' /\ (Contract!Next \/ Contract!Leak \/ Stutter)
<1>1. IInv'
  BY RedisStep DEF LuaInv
<1>2. ASSUME NEW b \in Buyers,
             RedisLuaDecrement(b) \/ RedisAtomicDecrement(b) \/ Unacknowledged(b)
      PROVE  LuaPlaces' /\ Contract!Next
  <2>1. CASE Eval(b)
    BY <2>1, LuaEval
  <2>2. ASSUME NEW a \in {"ok", "error"}, Insert(b, a)
        PROVE  LuaPlaces' /\ Contract!Next
    BY <2>2, LuaDelivers DEF Insert
  <2>3. ~RedisAtomicDecrement(b) /\ ~Compensate(b, "error")
    BY DEF RedisAtomicDecrement, Compensate, LuaInv, LuaPlaces, LuaOnly
  <2> QED
    BY <1>2, <2>1, <2>2, <2>3 DEF RedisLuaDecrement, Unacknowledged
<1>3. ASSUME UNCHANGED vars
      PROVE  LuaPlaces' /\ Stutter
  BY <1>3, LuaView DEF vars, ledger, LuaInv, LuaPlaces, LuaOnly, Stutter
<1> QED
  BY <1>1, <1>2, <1>3, LuaFail, LuaResent, LuaSeeder DEF Next, Finished, LuaInv

\* redis_lua keeps the contract of Inventory whatever fails, whatever is sent twice and
\* whenever it is seeded: units can be lost, but never sold twice.
THEOREM LuaKeepsContract == Spec => RefinesSale
<1> DEFINE SInv == IInv /\ (LuaOnly => LuaPlaces)
<1>1. Init => SInv /\ Contract!Init
  BY LuaInit
<1>2. SInv /\ [Next]_vars => SInv' /\ [Contract!Next \/ Contract!Leak]_(Contract!vars)
  <2> SUFFICES ASSUME SInv, [Next]_vars
               PROVE  SInv' /\ (Contract!Next \/ Contract!Leak \/ Stutter)
    BY DEF Stutter, Contract!vars
  <2>1. CASE LuaOnly
    BY <2>1, LuaStep DEF LuaInv
  <2>2. CASE ~LuaOnly
    <3>1. Stutter /\ ~LuaOnly'
      BY <2>2, NoView, ClientsAreFixed DEF LuaOnly
    <3> QED
      BY <3>1, RedisStep
  <2> QED
    BY <2>1, <2>2
<1> QED
  BY <1>1, <1>2, PTL DEF Spec, RefinesSale, Contract!LossySpec

\* The theorems about Sale, for the state it is mapped to.
Inherited == INSTANCE SaleProofs WITH
  left <- Seen(counter), taken <- Seen(taken + leaked), seeded <- Seen(seeded),
  answer <- BuyerAnswers, holding <- BuyersHolding, seenShort <- BuyersShort

\* So redis_lua by itself never oversells, which redis_atomic does (NeverOversells).
THEOREM LuaNeverOversells == Spec => [](LuaOnly => NeverOversells)
<1>1. Contract!Init => Inherited!Init
  BY DEF Contract!Init, Inherited!Init
<1>2. [Contract!Next \/ Contract!Leak]_(Contract!vars)
      => [Inherited!Next \/ Inherited!Leak]_(Inherited!vars)
  BY DEF Contract!Next, Contract!Buy, Contract!Deliver, Contract!Shortage, Contract!Refuse,
         Contract!GiveUp, Contract!Reseed, Contract!Answers, Contract!vars,
         Contract!Undecided, Contract!Answer,
         Inherited!Next, Inherited!Buy, Inherited!Deliver, Inherited!Shortage,
         Inherited!Refuse, Inherited!GiveUp, Inherited!Reseed, Inherited!Answers,
         Inherited!vars, Inherited!Undecided, Inherited!Answer, Contract!Leak, Inherited!Leak
<1>3. RefinesSale => Inherited!LossySpec
  BY <1>1, <1>2, PTL DEF RefinesSale, Contract!LossySpec, Inherited!LossySpec
<1>4. Inherited!LossySpec => []Inherited!NoOversell
  BY Inherited!LossyNeverOversells
<1>5. TypeOK /\ Inherited!NoOversell => (LuaOnly => NeverOversells)
  BY DEF TypeOK, Inherited!NoOversell, Seen, NeverOversells
<1> QED
  BY <1>3, <1>4, <1>5, LuaKeepsContract, RedisTypeCorrect, PTL

=============================================================================
