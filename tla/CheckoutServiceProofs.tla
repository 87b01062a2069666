------------------------ MODULE CheckoutServiceProofs ------------------------
(***************************************************************************)
(* Theorems about what a server keeps of its sales, for any number of       *)
(* requests and seeds, any set of adapters, any number of restarts and of   *)
(* commands that outlive their call or come twice.                          *)
(***************************************************************************)
EXTENDS CheckoutService, TotalsProofs

USE ServiceClientsAssumption DEF Clients

\* Where a request stands, and what its goroutine and its last command have in hand.
Hand(b) ==
  /\ pc[b] \in Locations \ {"seed"}
  /\ InFlight(b) \/ underway[b] # None \/ b \in resent => KindOf(b) \in adapters
  /\ pc[b] = "write" \/ underway[b] = "write" =>
       KindOf(b) \in ReadFirst /\ read[b] \in Nat /\ amount[b] <= read[b]
  /\ pc[b] = "incrby" \/ underway[b] = "incrby" =>
       KindOf(b) = "redis_atomic" /\ stock["key"] # None
  /\ pc[b] = "produce" =>
       KindOf(b) = "token_queue" /\ stock["quota"] # None /\ remaining[b] \in Nat
  /\ pc[b] = "classify" => outcome[b] # None
  /\ pc[b] = "record" => outcome[b] = "ok"
  /\ pc[b] \in {"classify", "record"} /\ outcome[b] = "ok" => remaining[b] # None
  /\ pc[b] # "done" => answer[b] = None
  /\ underway[b] # None => \/ pc[b] = "classify" /\ outcome[b] = "error"
                           \/ pc[b] = "done" /\ answer[b] \in {400, None}
  /\ b \in resent => StoreFor(b) = "key" /\ stock["key"] # None

\* Only DECRBY goes below zero.
Handlers ==
  /\ \A s \in Seeders : pc[s] \in {"idle", "seed", "done"}
  /\ \A st \in Stores \ {"key"} : stock[st] # None => stock[st] \in Nat
  /\ \A b \in Buyers : Hand(b)

TypeInv == TypeOK /\ Handlers

-----------------------------------------------------------------------------
(* Types                                                                    *)

LEMMA ServiceTypeInit == Init => TypeInv
<1> SUFFICES ASSUME Init PROVE TypeInv
  OBVIOUS
<1>1. amount \in [Clients -> Nat] /\ adapters \in Deployments
  BY ServiceQuantitiesAssumption DEF Init
<1>2. /\ stock \in [Stores -> Maybe(Int)] /\ initialStock \in [Kinds -> Maybe(Nat)]
      /\ orderCount \in [Kinds -> Nat] /\ oversell \in [Kinds -> Nat]
      /\ gauge \in [Kinds -> Maybe(Nat \cup {-1})] /\ sold \in [Kinds -> Nat]
      /\ back \in [Stores -> Nat] /\ out \subseteq Buyers /\ strayed \subseteq Stores
  BY DEF Init, Maybe
<1>3. /\ pc \in [Clients -> Locations] /\ path \in [Buyers -> Kinds \cup Paths]
      /\ read \in [Buyers -> Maybe(Nat)] /\ outcome \in [Buyers -> Maybe(Outcomes)]
      /\ remaining \in [Buyers -> Maybe(Nat \cup {-1})] /\ todo \in [Seeders -> SUBSET Kinds]
      /\ answer \in [Clients -> Maybe(Statuses)]
      /\ underway \in [Buyers -> Maybe(Commands)]
      /\ resent \subseteq Buyers
  BY DEF Init, Maybe, Locations
<1>4. /\ restarts \in 0 .. MaxRestarts /\ astray \in 0 .. MaxAstray
      /\ took \subseteq Buyers /\ disturbed \in BOOLEAN
  <2>1. restarts = 0 /\ astray = 0 /\ took = {} /\ disturbed = FALSE
    BY DEF Init
  <2>2. MaxRestarts \in Nat /\ MaxAstray \in Nat
    BY ServiceQuantitiesAssumption
  <2>3. 0 \in 0 .. MaxRestarts /\ 0 \in 0 .. MaxAstray
    BY <2>2
  <2> QED
    BY <2>1, <2>3
<1>5. TypeOK
  BY <1>1, <1>2, <1>3, <1>4 DEF TypeOK
<1>6. Handlers
  BY ServiceQuantitiesAssumption DEF Init, Handlers, Hand, InFlight, Locations, Commands
<1> QED
  BY <1>5, <1>6 DEF TypeInv

LEMMA KindsStay == UNCHANGED path => \A b : KindOf(b)' = KindOf(b) /\ StoreFor(b)' = StoreFor(b)
BY DEF KindOf, StoreFor

\* The stores that the adapters of a server use are there.
LEMMA StoreValues ==
  ASSUME TypeInv, NEW b \in Buyers, KindOf(b) \in adapters
  PROVE  /\ KindOf(b) \in Kinds /\ StoreFor(b) \in Stores /\ amount[b] \in Nat
         /\ stock[StoreFor(b)] # None => stock[StoreFor(b)] \in Int
<1>1. KindOf(b) \in Kinds
  BY ServiceKindsAssumption DEF TypeInv, TypeOK
<1>2. StoreFor(b) \in Stores
  BY <1>1 DEF StoreFor, Stores
<1>3. amount[b] \in Nat /\ stock[StoreFor(b)] \in Int \cup {None}
  BY <1>2 DEF TypeInv, TypeOK, Maybe
<1> QED
  BY <1>1, <1>2, <1>3

\* A step that empties no store and leaves no debt, except of the key.
StoresHold ==
  /\ \A st \in Stores : stock[st] # None => stock'[st] # None
  /\ \A st \in Stores \ {"key"} : stock'[st] # None => stock'[st] \in Nat

\* A step in which the hand of x is not touched.
HandKept(x) ==
  /\ pc'[x] = pc[x] /\ answer'[x] = answer[x]
  /\ read'[x] = read[x] /\ outcome'[x] = outcome[x] /\ remaining'[x] = remaining[x]
  /\ underway'[x] = underway[x] /\ (x \in resent' <=> x \in resent)

LEMMA SameStores == TypeInv /\ stock' = stock => StoresHold
BY DEF StoresHold, TypeInv, Handlers

LEMMA HandStays ==
  ASSUME TypeInv, UNCHANGED request, StoresHold, NEW x \in Buyers, HandKept(x)
  PROVE  Hand(x)'
<1>1. Hand(x) /\ UNCHANGED <<adapters, path, amount>>
  BY DEF TypeInv, Handlers, request
<1>2. KindOf(x)' = KindOf(x) /\ StoreFor(x)' = StoreFor(x)
  BY <1>1, KindsStay
<1>3. InFlight(x) \/ underway[x] # None \/ x \in resent => StoreFor(x) \in Stores
  BY <1>1, StoreValues DEF Hand
<1>4. /\ KindOf(x) = "redis_atomic" => StoreFor(x) = "key"
      /\ KindOf(x) = "token_queue" => StoreFor(x) = "quota"
  BY DEF StoreFor, StoreOf
<1>5. /\ pc[x] = "incrby" \/ underway[x] = "incrby" \/ x \in resent => stock'["key"] # None
      /\ pc[x] = "produce" => stock'["quota"] # None
  BY <1>1, <1>3, <1>4, ServiceQuantitiesAssumption DEF Hand, InFlight, Commands, StoresHold
<1> QED
  BY <1>1, <1>2, <1>5 DEF Hand, HandKept, InFlight

\* A step of one client.
LEMMA OneHand ==
  ASSUME TypeInv, UNCHANGED request, StoresHold, NEW c \in Clients,
         \A s \in Seeders \ {c} : pc'[s] = pc[s], \A x \in Buyers \ {c} : HandKept(x),
         IF c \in Buyers THEN Hand(c)' ELSE pc'[c] \in {"idle", "seed", "done"}
  PROVE  Handlers'
<1>1. \A x \in Buyers : Hand(x)'
  BY HandStays
<1>2. \A s \in Seeders : pc'[s] \in {"idle", "seed", "done"}
  BY DEF TypeInv, Handlers
<1> QED
  BY <1>1, <1>2 DEF Handlers, StoresHold

\* The end of a request.
LEMMA RespondValues ==
  ASSUME TypeInv, NEW c \in Clients, NEW status \in Statuses, Respond(c, status)
  PROVE  /\ pc' \in [Clients -> Locations] /\ pc'[c] = "done"
         /\ answer' \in [Clients -> Maybe(Statuses)] /\ answer'[c] = status
         /\ outcome' \in [Buyers -> Maybe(Outcomes)]
         /\ remaining' \in [Buyers -> Maybe(Nat \cup {-1})]
         /\ todo' \in [Seeders -> SUBSET Kinds]
         /\ \A o \in Clients \ {c} : pc'[o] = pc[o] /\ answer'[o] = answer[o]
         /\ \A b \in Buyers \ {c} : outcome'[b] = outcome[b] /\ remaining'[b] = remaining[b]
         /\ \A s \in Seeders \ {c} : todo'[s] = todo[s]
<1>1. pc' \in [Clients -> Locations] /\ pc'[c] = "done" /\ \A o \in Clients \ {c} : pc'[o] = pc[o]
  BY DEF Respond, Goto, TypeInv, TypeOK, Locations
<1>2. /\ answer' \in [Clients -> Maybe(Statuses)] /\ answer'[c] = status
      /\ \A o \in Clients \ {c} : answer'[o] = answer[o]
  BY DEF Respond, TypeInv, TypeOK, Maybe
<1>3. /\ outcome' \in [Buyers -> Maybe(Outcomes)]
      /\ remaining' \in [Buyers -> Maybe(Nat \cup {-1})]
      /\ \A b \in Buyers \ {c} : outcome'[b] = outcome[b] /\ remaining'[b] = remaining[b]
  BY DEF Respond, Forget, TypeInv, TypeOK, Maybe
<1>4. todo' \in [Seeders -> SUBSET Kinds] /\ \A s \in Seeders \ {c} : todo'[s] = todo[s]
  BY DEF Respond, Forget, TypeInv, TypeOK
<1> QED
  BY <1>1, <1>2, <1>3, <1>4

LEMMA RespondHandlers ==
  ASSUME TypeInv, NEW c \in Clients, NEW status \in Statuses, Respond(c, status),
         UNCHANGED <<request, read, underway, resent>>, StoresHold,
         c \in Buyers /\ underway[c] # None => status = 400
  PROVE  Handlers'
<1>1. \A x \in Buyers \ {c} : HandKept(x)
  BY RespondValues DEF HandKept
<1>2. ASSUME c \in Buyers PROVE Hand(c)'
  <2>1. Hand(c) /\ UNCHANGED <<adapters, path, amount>>
    BY <1>2 DEF TypeInv, Handlers, request
  <2>2. KindOf(c)' = KindOf(c) /\ StoreFor(c)' = StoreFor(c)
    BY <2>1, KindsStay
  <2>3. underway[c] # None \/ c \in resent => StoreFor(c) \in Stores
    BY <1>2, <2>1, StoreValues DEF Hand
  <2>4. KindOf(c) = "redis_atomic" => StoreFor(c) = "key"
    BY DEF StoreFor, StoreOf
  <2>5. underway[c] = "incrby" \/ c \in resent => stock'["key"] # None
    BY <2>1, <2>3, <2>4, ServiceQuantitiesAssumption DEF Hand, Commands, StoresHold
  <2>6. pc'[c] = "done" /\ answer'[c] = status
    BY RespondValues
  <2> QED
    BY <1>2, <2>1, <2>2, <2>5, <2>6 DEF Hand, InFlight, Locations
<1>3. pc'[c] = "done" /\ \A s \in Seeders \ {c} : pc'[s] = pc[s]
  BY RespondValues
<1> QED
  BY <1>1, <1>2, <1>3, OneHand

\* The end of Decrement, by whatever step.
LEMMA ReturnedValues ==
  ASSUME TypeInv, NEW b \in Buyers, NEW o \in Outcomes, NEW n, Returned(b, o, n),
         n \in Nat \cup {-1, None}, o = "ok" => n # None,
         pc[b] \in {"decrement", "write", "incrby", "produce"},
         UNCHANGED <<request, answer, resent>>, StoresHold,
         \A x \in Buyers \ {b} : read'[x] = read[x] /\ underway'[x] = underway[x],
         \/ underway'[b] = underway[b]
         \/ /\ underway'[b] = pc[b] /\ read'[b] = read[b]
            /\ pc[b] \in Commands /\ o = "error"
  PROVE  /\ outcome' \in [Buyers -> Maybe(Outcomes)] /\ outcome'[b] = o
         /\ remaining' \in [Buyers -> Maybe(Nat \cup {-1})] /\ remaining'[b] = n
         /\ sold' \in [Kinds -> Nat]
         /\ pc' \in [Clients -> Locations] /\ pc'[b] = "classify"
         /\ Handlers'
<1>1. KindOf(b) \in Kinds /\ amount[b] \in Nat /\ Hand(b)
  BY StoreValues DEF TypeInv, Handlers, Hand, InFlight
<1>2. /\ outcome' \in [Buyers -> Maybe(Outcomes)] /\ outcome'[b] = o
      /\ remaining' \in [Buyers -> Maybe(Nat \cup {-1})] /\ remaining'[b] = n
      /\ \A x \in Buyers \ {b} : outcome'[x] = outcome[x] /\ remaining'[x] = remaining[x]
  BY DEF Returned, TypeInv, TypeOK, Maybe
<1>3. sold' \in [Kinds -> Nat]
  BY <1>1 DEF Returned, TypeInv, TypeOK
<1>4. /\ pc' \in [Clients -> Locations] /\ pc'[b] = "classify"
      /\ \A c \in Clients \ {b} : pc'[c] = pc[c]
  BY DEF Returned, Goto, TypeInv, TypeOK, Locations
<1>5. \A x \in Buyers \ {b} : HandKept(x)
  BY <1>2, <1>4 DEF HandKept
<1>6. Hand(b)'
  <2>1. UNCHANGED <<adapters, path, amount>> /\ underway[b] = None
    BY <1>1 DEF request, Hand
  <2>2. KindOf(b)' = KindOf(b) /\ StoreFor(b)' = StoreFor(b)
    BY <2>1, KindsStay
  <2>3. KindOf(b) \in adapters /\ StoreFor(b) \in Stores
    BY <1>1, StoreValues DEF Hand, InFlight
  <2>4. KindOf(b) = "redis_atomic" => StoreFor(b) = "key"
    BY DEF StoreFor, StoreOf
  <2>5. pc[b] = "incrby" \/ b \in resent => stock'["key"] # None
    BY <1>1, <2>3, <2>4 DEF Hand, StoresHold
  <2>6. /\ underway'[b] # None => o = "error"
        /\ underway'[b] = "write" => pc[b] = "write" /\ read'[b] = read[b]
        /\ underway'[b] = "incrby" => pc[b] = "incrby"
    BY <2>1, ServiceQuantitiesAssumption DEF Commands
  <2>7. o # None
    BY ServiceQuantitiesAssumption
  <2> QED
    BY <1>1, <1>2, <1>4, <2>1, <2>2, <2>3, <2>5, <2>6, <2>7 DEF Hand, InFlight, Locations
<1> QED
  BY <1>2, <1>3, <1>4, <1>5, <1>6, OneHand

\* Units leave a store, and come back to one.
LEMMA TakeValues ==
  ASSUME TypeInv, NEW b \in Buyers, KindOf(b) \in adapters, CanTake(b), Take(b)
  PROVE  /\ stock' \in [Stores -> Maybe(Int)] /\ took' \subseteq Buyers /\ StoresHold
         /\ StoreFor(b) \in Stores /\ amount[b] \in Nat /\ stock[StoreFor(b)] \in Int
         /\ stock'[StoreFor(b)] = stock[StoreFor(b)] - amount[b]
         /\ \A st \in Stores \ {StoreFor(b)} : stock'[st] = stock[st]
<1>1. /\ StoreFor(b) \in Stores /\ amount[b] \in Nat /\ stock[StoreFor(b)] \in Int
      /\ stock \in [Stores -> Maybe(Int)] /\ took \subseteq Buyers
  BY StoreValues DEF CanTake, TypeInv, TypeOK
<1>2. /\ stock' \in [Stores -> Maybe(Int)] /\ took' \subseteq Buyers
      /\ stock'[StoreFor(b)] = stock[StoreFor(b)] - amount[b]
      /\ \A st \in Stores \ {StoreFor(b)} : stock'[st] = stock[st]
  BY <1>1 DEF Take, Maybe
<1>3. StoreFor(b) # "key" => stock'[StoreFor(b)] \in Nat
  <2>1. KindOf(b) = "redis_atomic" => StoreFor(b) = "key"
    BY DEF StoreFor, StoreOf
  <2> QED
    BY <1>1, <1>2, <2>1 DEF CanTake
<1>4. stock[StoreFor(b)] - amount[b] # None
  BY <1>1, ServiceQuantitiesAssumption
<1>5. StoresHold
  BY <1>1, <1>2, <1>3, <1>4 DEF StoresHold, TypeInv, Handlers
<1> QED
  BY <1>1, <1>2, <1>5

LEMMA GiveBackValues ==
  ASSUME TypeInv, NEW b \in Buyers, KindOf(b) \in adapters, stock[StoreFor(b)] # None,
         GiveBack(b)
  PROVE  /\ stock' \in [Stores -> Maybe(Int)] /\ back' \in [Stores -> Nat]
         /\ strayed' \subseteq Stores /\ out' \subseteq Buyers /\ StoresHold
         /\ StoreFor(b) \in Stores /\ amount[b] \in Nat /\ stock[StoreFor(b)] \in Int
         /\ stock'[StoreFor(b)] = stock[StoreFor(b)] + amount[b]
         /\ back'[StoreFor(b)] = back[StoreFor(b)] + amount[b]
         /\ \A st \in Stores \ {StoreFor(b)} : stock'[st] = stock[st] /\ back'[st] = back[st]
<1>1. /\ StoreFor(b) \in Stores /\ amount[b] \in Nat /\ stock[StoreFor(b)] \in Int
      /\ stock \in [Stores -> Maybe(Int)] /\ back \in [Stores -> Nat]
      /\ strayed \subseteq Stores /\ out \subseteq Buyers
  BY StoreValues DEF TypeInv, TypeOK
<1>2. /\ stock' \in [Stores -> Maybe(Int)]
      /\ stock'[StoreFor(b)] = stock[StoreFor(b)] + amount[b]
      /\ \A st \in Stores \ {StoreFor(b)} : stock'[st] = stock[st]
  BY <1>1 DEF GiveBack, Maybe
<1>3. /\ back' \in [Stores -> Nat] /\ back'[StoreFor(b)] = back[StoreFor(b)] + amount[b]
      /\ \A st \in Stores \ {StoreFor(b)} : back'[st] = back[st]
  BY <1>1 DEF GiveBack
<1>4. strayed' \subseteq Stores /\ out' \subseteq Buyers
  BY <1>1 DEF GiveBack
<1>5. stock[StoreFor(b)] + amount[b] # None
  BY <1>1, ServiceQuantitiesAssumption
<1>6. StoresHold
  BY <1>1, <1>2, <1>5 DEF StoresHold, TypeInv, Handlers
<1> QED
  BY <1>1, <1>2, <1>3, <1>4, <1>6

LEMMA OverwriteValues ==
  ASSUME TypeInv, NEW b \in Buyers, pc[b] = "write" \/ underway[b] = "write", Overwrite(b)
  PROVE  /\ stock' \in [Stores -> Maybe(Int)] /\ took' \subseteq Buyers /\ StoresHold
         /\ read' \in [Buyers -> Maybe(Nat)] /\ \A x \in Buyers \ {b} : read'[x] = read[x]
         /\ read[b] - amount[b] \in Nat /\ KindOf(b) \in ReadFirst
         /\ \A st \in Stores \ {"row"} : stock'[st] = stock[st]
<1>1. KindOf(b) \in ReadFirst /\ read[b] \in Nat /\ amount[b] \in Nat /\ amount[b] <= read[b]
  BY DEF TypeInv, TypeOK, Handlers, Hand
<1>2. PICK n \in Nat : n = read[b] - amount[b]
  BY <1>1
<1>3. /\ stock' \in [Stores -> Maybe(Int)] /\ took' \subseteq Buyers
      /\ \A st \in Stores : stock'[st] = IF st = "row" THEN n ELSE stock[st]
  <2>1. stock' = [stock EXCEPT !["row"] = n] /\ took' = took \cup {b}
    BY <1>2 DEF Overwrite
  <2>2. stock \in [Stores -> Maybe(Int)] /\ took \subseteq Buyers /\ n \in Maybe(Int)
    BY DEF TypeInv, TypeOK, Maybe
  <2> QED
    BY <2>1, <2>2
<1>4. read' \in [Buyers -> Maybe(Nat)] /\ \A x \in Buyers \ {b} : read'[x] = read[x]
  BY DEF Overwrite, TypeInv, TypeOK, Maybe
<1>5. n # None
  BY ServiceQuantitiesAssumption
<1>6. StoresHold
  BY <1>3, <1>5 DEF StoresHold, TypeInv, Handlers
<1> QED
  BY <1>1, <1>2, <1>3, <1>4, <1>6

LEMMA ReturnedType ==
  ASSUME TypeInv, NEW b \in Buyers, NEW o \in Outcomes, NEW n, Returned(b, o, n),
         n \in Nat \cup {-1, None}, o = "ok" => n # None,
         pc[b] \in {"decrement", "write", "incrby", "produce"},
         UNCHANGED <<request, tracker, gauge, answer, todo, resent, restarts, disturbed>>,
         StoresHold, stock' \in [Stores -> Maybe(Int)],
         read' \in [Buyers -> Maybe(Nat)], \A x \in Buyers \ {b} : read'[x] = read[x],
         UNCHANGED <<underway, astray>>, took' \subseteq Buyers, out' \subseteq Buyers,
         back' \in [Stores -> Nat], strayed' \subseteq Stores
  PROVE  TypeInv'
<1>1. /\ outcome' \in [Buyers -> Maybe(Outcomes)]
      /\ remaining' \in [Buyers -> Maybe(Nat \cup {-1})]
      /\ sold' \in [Kinds -> Nat] /\ pc' \in [Clients -> Locations] /\ Handlers'
  BY ReturnedValues
<1> QED
  BY <1>1 DEF request, tracker, TypeInv, TypeOK

LEMMA ResolveType ==
  ASSUME TypeInv, NEW b \in Buyers, Resolve(b)
  PROVE  TypeInv'
<1>1. /\ UNCHANGED <<request, stock, tracker, gauge, read, lost, restarts, sold, took, returns>>
      /\ UNCHANGED <<adapters, path, amount>>
      /\ pc[b] = "idle" /\ StoresHold
  BY SameStores DEF Resolve, request
<1>2. CASE KindOf(b) \in adapters
  <2>1. Goto(b, "decrement") /\ disturbed' \in BOOLEAN /\ UNCHANGED handlerVars
    BY <1>2 DEF Resolve, TypeInv, TypeOK
  <2>2. /\ pc' \in [Clients -> Locations] /\ pc'[b] = "decrement"
        /\ \A c \in Clients \ {b} : pc'[c] = pc[c]
    BY <2>1 DEF Goto, TypeInv, TypeOK, Locations
  <2>3. \A x \in Buyers \ {b} : HandKept(x)
    BY <1>1, <2>1, <2>2 DEF HandKept, handlerVars, lost
  <2>4. Hand(b)'
    <3>1. Hand(b) /\ underway[b] = None
      BY <1>1 DEF TypeInv, Handlers, Hand
    <3>2. KindOf(b)' = KindOf(b) /\ StoreFor(b)' = StoreFor(b)
      BY <1>1, KindsStay
    <3>3. b \in resent => stock'["key"] # None
      BY <1>1, <3>1 DEF Hand
    <3> QED
      BY <1>1, <1>2, <2>1, <2>2, <3>1, <3>2, <3>3, ServiceQuantitiesAssumption
      DEF Hand, InFlight, Locations, Commands, handlerVars, lost
  <2>5. Handlers'
    BY <1>1, <2>2, <2>3, <2>4, OneHand
  <2> QED
    BY <1>1, <2>1, <2>2, <2>5 DEF request, tracker, handlerVars, lost, returns, TypeInv, TypeOK
<1>3. CASE KindOf(b) \notin adapters
  <2>1. Respond(b, 400) /\ 400 \in Statuses /\ UNCHANGED disturbed
    BY <1>3 DEF Resolve, Statuses
  <2>2. Handlers'
    BY <1>1, <2>1, RespondHandlers DEF lost
  <2> QED
    BY <1>1, <2>1, <2>2, RespondValues DEF request, tracker, lost, returns, TypeInv, TypeOK
<1> QED
  BY <1>2, <1>3

\* The steps inside Decrement.
LEMMA DecrementType ==
  ASSUME TypeInv, NEW b \in Buyers,
         \/ Sell(b) \/ Refuse(b) \/ ReadRow(b) \/ WriteRow(b) \/ Retry(b)
         \/ DecrBy(b) \/ IncrBy(b) \/ Grant(b) \/ Produce(b) \/ Refund(b)
  PROVE  TypeInv'
<1>0. /\ took \subseteq Buyers /\ out \subseteq Buyers /\ back \in [Stores -> Nat]
      /\ strayed \subseteq Stores /\ read \in [Buyers -> Maybe(Nat)]
      /\ stock \in [Stores -> Maybe(Int)] /\ Hand(b)
  BY DEF TypeInv, TypeOK, Handlers
<1>1. pc[b] \in {"decrement", "write", "incrby", "produce"} /\ KindOf(b) \in adapters
  BY <1>0 DEF Sell, Refuse, ReadRow, WriteRow, Retry, DecrBy, IncrBy, Grant, Produce, Refund,
              Hand, InFlight
<1>2. /\ KindOf(b) = "redis_atomic" => StoreFor(b) = "key"
      /\ KindOf(b) = "token_queue" => StoreFor(b) = "quota"
      /\ KindOf(b) \in ReadFirst => StoreFor(b) = "row"
  BY DEF StoreFor, StoreOf, ReadFirst, RowKinds
<1>3. CASE Sell(b)
  <2>1. CanTake(b) /\ Take(b) /\ Returned(b, "ok", Reported(b, stock[StoreFor(b)] - amount[b]))
    BY <1>3 DEF Sell
  <2>2. stock[StoreFor(b)] - amount[b] \in Nat
    BY <1>1, <1>3, <2>1, TakeValues DEF Sell, OneStep, CanTake
  <2>3. PICK n \in Nat \cup {-1} : n = Reported(b, stock[StoreFor(b)] - amount[b])
    BY <2>2 DEF Reported
  <2>4. n # None /\ "ok" \in Outcomes
    BY ServiceQuantitiesAssumption DEF Outcomes
  <2>5. UNCHANGED <<request, tracker, gauge, read, todo, answer, underway, resent, astray,
                    restarts, out, back, strayed, disturbed>>
    BY <1>3 DEF Sell, lost, returns
  <2> QED
    BY <1>0, <1>1, <2>1, <2>3, <2>4, <2>5, TakeValues, ReturnedType
<1>4. CASE Refuse(b)
  <2>1. PICK o \in {"not_found", "out_of_stock"} : Returned(b, o, None)
    BY <1>4 DEF Refuse
  <2>2. o \in Outcomes /\ o # "ok"
    BY DEF Outcomes, Errors
  <2>3. UNCHANGED <<request, stock, tracker, gauge, read, todo, answer, underway, resent, astray,
                    restarts, took, out, back, strayed, disturbed>>
    BY <1>4 DEF Refuse, lost, returns
  <2> QED
    BY <1>0, <1>1, <2>1, <2>2, <2>3, SameStores, ReturnedType
<1>5. CASE WriteRow(b)
  <2>1. /\ pc[b] = "write" /\ Overwrite(b) /\ Returned(b, "ok", read[b] - amount[b])
        /\ UNCHANGED <<request, tracker, gauge, todo, answer, underway, resent, astray,
                       restarts, out, back, strayed, disturbed>>
    BY <1>5 DEF WriteRow, lost, returns
  <2>2. PICK n \in Nat : n = read[b] - amount[b]
    BY <2>1, OverwriteValues
  <2>3. n # None /\ "ok" \in Outcomes
    BY ServiceQuantitiesAssumption DEF Outcomes
  <2> QED
    BY <1>0, <1>1, <2>1, <2>2, <2>3, OverwriteValues, ReturnedType
<1>6. CASE IncrBy(b)
  <2>1. /\ pc[b] = "incrby" /\ GiveBack(b) /\ Returned(b, "out_of_stock", None)
        /\ Compensated(b)
        /\ UNCHANGED <<request, tracker, gauge, read, todo, answer, underway, resent, astray,
                       restarts, disturbed>>
    BY <1>6 DEF IncrBy, lost
  <2>2. stock[StoreFor(b)] # None
    BY <1>0, <1>2, <2>1 DEF Hand
  <2>3. took' \subseteq Buyers
    BY <1>0, <2>1 DEF Compensated
  <2>4. "out_of_stock" \in Outcomes
    BY DEF Outcomes, Errors
  <2> QED
    BY <1>0, <1>1, <2>1, <2>2, <2>3, <2>4, GiveBackValues, ReturnedType
<1>7. CASE Refund(b)
  <2>1. /\ pc[b] = "produce" /\ GiveBack(b)
        /\ UNCHANGED <<request, tracker, gauge, read, todo, answer, underway, resent, astray,
                       restarts, disturbed>>
    BY <1>7 DEF Refund, lost
  <2>2. PICK o \in {"error", "unavailable"} : Returned(b, o, None)
    BY <1>7 DEF Refund
  <2>3. stock[StoreFor(b)] # None
    BY <1>0, <1>2, <2>1 DEF Hand
  <2>4. took' \subseteq Buyers
    BY <1>0, <1>7 DEF Refund
  <2>5. o \in Outcomes /\ o # "ok"
    BY DEF Outcomes, Errors
  <2> QED
    BY <1>0, <1>1, <2>1, <2>2, <2>3, <2>4, <2>5, GiveBackValues, ReturnedType
<1>8. CASE Produce(b)
  <2>1. /\ pc[b] = "produce" /\ Returned(b, "ok", remaining[b]) /\ out' = out \ {b}
        /\ UNCHANGED <<request, stock, tracker, gauge, read, todo, answer, underway, resent,
                       astray, restarts, took, back, strayed, disturbed>>
    BY <1>8 DEF Produce, lost
  <2>2. PICK n \in Nat : n = remaining[b]
    BY <1>0, <2>1 DEF Hand
  <2>3. n # None /\ "ok" \in Outcomes
    BY ServiceQuantitiesAssumption DEF Outcomes
  <2> QED
    BY <1>0, <1>1, <2>1, <2>2, <2>3, SameStores, ReturnedType
<1>9. CASE DecrBy(b)
  <2>1. /\ pc[b] = "decrement" /\ KindOf(b) = "redis_atomic" /\ CanTake(b) /\ Take(b)
        /\ UNCHANGED <<request, tracker, gauge, read, todo, answer, underway, resent, astray,
                       restarts, back, strayed, disturbed>>
    BY <1>9 DEF DecrBy, lost
  <2>2. stock["key"] \in Int /\ amount[b] \in Nat /\ stock'["key"] = stock["key"] - amount[b]
    BY <1>1, <1>2, <2>1, TakeValues
  <2>3. CASE stock["key"] < amount[b]
    <3>1. Goto(b, "incrby") /\ out' = out \cup {b} /\ UNCHANGED <<outcome, remaining, sold>>
      BY <1>9, <2>3 DEF DecrBy
    <3>2. /\ pc' \in [Clients -> Locations] /\ pc'[b] = "incrby"
          /\ \A c \in Clients \ {b} : pc'[c] = pc[c]
      BY <3>1 DEF Goto, TypeInv, TypeOK, Locations
    <3>3. \A x \in Buyers \ {b} : HandKept(x)
      BY <2>1, <3>1, <3>2 DEF HandKept
    <3>4. Hand(b)'
      <4>1. UNCHANGED <<adapters, path, amount>> /\ stock'["key"] # None
        BY <2>1, <2>2, ServiceQuantitiesAssumption DEF request
      <4>2. KindOf(b)' = KindOf(b) /\ StoreFor(b)' = StoreFor(b) /\ underway[b] = None
        BY <1>0, <2>1, <4>1, KindsStay DEF Hand
      <4> QED
        BY <1>0, <1>1, <1>2, <2>1, <3>1, <3>2, <4>1, <4>2, ServiceQuantitiesAssumption
        DEF Hand, InFlight, Locations, Commands
    <3>5. Handlers'
      BY <1>1, <2>1, <3>2, <3>3, <3>4, TakeValues, OneHand
    <3>6. out' \subseteq Buyers
      BY <1>0, <3>1
    <3> QED
      BY <1>1, <2>1, <3>1, <3>2, <3>5, <3>6, TakeValues DEF request, tracker, TypeInv, TypeOK
  <2>4. CASE ~(stock["key"] < amount[b])
    <3>1. Returned(b, "ok", stock["key"] - amount[b]) /\ UNCHANGED out
      BY <1>9, <2>4 DEF DecrBy
    <3>2. PICK n \in Nat : n = stock["key"] - amount[b]
      BY <2>2, <2>4
    <3>3. n # None /\ "ok" \in Outcomes
      BY ServiceQuantitiesAssumption DEF Outcomes
    <3> QED
      BY <1>0, <1>1, <2>1, <3>1, <3>2, <3>3, TakeValues, ReturnedType
  <2> QED
    BY <2>3, <2>4
<1>10. CASE Grant(b)
  <2>1. /\ pc[b] = "decrement" /\ KindOf(b) = "token_queue" /\ CanTake(b) /\ Take(b)
        /\ remaining' = [remaining EXCEPT ![b] = stock["quota"] - amount[b]]
        /\ out' = out \cup {b} /\ Goto(b, "produce")
        /\ UNCHANGED <<request, tracker, gauge, read, outcome, todo, answer, underway, resent,
                       astray, restarts, sold, back, strayed, disturbed>>
    BY <1>10 DEF Grant, lost
  <2>2. PICK n \in Nat : n = stock["quota"] - amount[b] /\ n = stock'["quota"]
    BY <1>1, <1>2, <2>1, TakeValues DEF CanTake
  <2>3. /\ remaining' \in [Buyers -> Maybe(Nat \cup {-1})] /\ remaining'[b] = n
        /\ \A x \in Buyers \ {b} : remaining'[x] = remaining[x]
    BY <2>1, <2>2 DEF TypeInv, TypeOK, Maybe
  <2>4. /\ pc' \in [Clients -> Locations] /\ pc'[b] = "produce"
        /\ \A c \in Clients \ {b} : pc'[c] = pc[c]
    BY <2>1 DEF Goto, TypeInv, TypeOK, Locations
  <2>5. \A x \in Buyers \ {b} : HandKept(x)
    BY <2>1, <2>3, <2>4 DEF HandKept
  <2>6. Hand(b)'
    <3>1. UNCHANGED <<adapters, path, amount>> /\ n # None
      BY <2>1, ServiceQuantitiesAssumption DEF request
    <3>2. KindOf(b)' = KindOf(b) /\ StoreFor(b)' = StoreFor(b) /\ underway[b] = None
      BY <1>0, <2>1, <3>1, KindsStay DEF Hand
    <3>3. b \notin resent
      BY <1>0, <1>2, <2>1 DEF Hand
    <3> QED
      BY <1>0, <1>1, <2>1, <2>2, <2>3, <2>4, <3>1, <3>2, <3>3, ServiceQuantitiesAssumption
      DEF Hand, InFlight, Locations, Commands
  <2>7. Handlers'
    BY <1>1, <2>1, <2>4, <2>5, <2>6, TakeValues, OneHand
  <2>8. out' \subseteq Buyers
    BY <1>0, <2>1
  <2> QED
    BY <1>1, <2>1, <2>3, <2>4, <2>7, <2>8, TakeValues DEF request, tracker, TypeInv, TypeOK
<1>11. CASE ReadRow(b)
  <2>1. /\ pc[b] = "decrement" /\ KindOf(b) \in ReadFirst /\ CanTake(b) /\ Goto(b, "write")
        /\ read' = [read EXCEPT ![b] = stock["row"]]
        /\ UNCHANGED <<request, stock, tracker, gauge, outcome, remaining, todo, answer,
                       underway, resent, astray, restarts, sold, took, out, back, strayed,
                       disturbed>>
    BY <1>11 DEF ReadRow, handlerVars, lost, returns
  <2>2. stock["row"] \in Nat /\ amount[b] <= stock["row"]
    BY <1>1, <1>2, <2>1, StoreValues DEF CanTake, TypeInv, Handlers
  <2>3. /\ read' \in [Buyers -> Maybe(Nat)] /\ read'[b] = stock["row"]
        /\ \A x \in Buyers \ {b} : read'[x] = read[x]
    BY <2>1, <2>2 DEF TypeInv, TypeOK, Maybe
  <2>4. /\ pc' \in [Clients -> Locations] /\ pc'[b] = "write"
        /\ \A c \in Clients \ {b} : pc'[c] = pc[c]
    BY <2>1 DEF Goto, TypeInv, TypeOK, Locations
  <2>5. \A x \in Buyers \ {b} : HandKept(x)
    BY <2>1, <2>3, <2>4 DEF HandKept
  <2>6. Hand(b)'
    <3>1. UNCHANGED <<adapters, path, amount>>
      BY <2>1 DEF request
    <3>2. KindOf(b)' = KindOf(b) /\ StoreFor(b)' = StoreFor(b) /\ underway[b] = None
      BY <1>0, <2>1, <3>1, KindsStay DEF Hand
    <3> QED
      BY <1>0, <1>1, <2>1, <2>2, <2>3, <2>4, <3>1, <3>2, ServiceQuantitiesAssumption
      DEF Hand, InFlight, Locations, Commands
  <2>7. Handlers'
    BY <2>1, <2>4, <2>5, <2>6, SameStores, OneHand
  <2> QED
    BY <2>1, <2>3, <2>4, <2>7 DEF request, tracker, TypeInv, TypeOK
<1>12. CASE Retry(b)
  <2>1. /\ pc[b] = "write" /\ Goto(b, "decrement") /\ read' = [read EXCEPT ![b] = None]
        /\ UNCHANGED <<request, stock, tracker, gauge, outcome, remaining, todo, answer,
                       underway, resent, astray, restarts, sold, took, out, back, strayed,
                       disturbed>>
    BY <1>12 DEF Retry, handlerVars, lost, returns
  <2>2. read' \in [Buyers -> Maybe(Nat)] /\ \A x \in Buyers \ {b} : read'[x] = read[x]
    BY <2>1 DEF TypeInv, TypeOK, Maybe
  <2>3. /\ pc' \in [Clients -> Locations] /\ pc'[b] = "decrement"
        /\ \A c \in Clients \ {b} : pc'[c] = pc[c]
    BY <2>1 DEF Goto, TypeInv, TypeOK, Locations
  <2>4. \A x \in Buyers \ {b} : HandKept(x)
    BY <2>1, <2>2, <2>3 DEF HandKept
  <2>5. Hand(b)'
    <3>1. UNCHANGED <<adapters, path, amount>>
      BY <2>1 DEF request
    <3>2. KindOf(b)' = KindOf(b) /\ StoreFor(b)' = StoreFor(b) /\ underway[b] = None
      BY <1>0, <2>1, <3>1, KindsStay DEF Hand
    <3> QED
      BY <1>0, <1>1, <2>1, <2>3, <3>1, <3>2, ServiceQuantitiesAssumption
      DEF Hand, InFlight, Locations, Commands
  <2>6. Handlers'
    BY <2>1, <2>3, <2>4, <2>5, SameStores, OneHand
  <2> QED
    BY <2>1, <2>2, <2>3, <2>6 DEF request, tracker, TypeInv, TypeOK
<1> QED
  BY <1>3, <1>4, <1>5, <1>6, <1>7, <1>8, <1>9, <1>10, <1>11, <1>12

\* What goes wrong in it, or takes effect behind its back.
LEMMA FaultType ==
  ASSUME TypeInv, NEW b \in Buyers, Fail(b) \/ GiveUp(b) \/ RunLate(b) \/ Resent(b)
  PROVE  TypeInv'
<1>0. /\ took \subseteq Buyers /\ out \subseteq Buyers /\ back \in [Stores -> Nat]
      /\ strayed \subseteq Stores /\ read \in [Buyers -> Maybe(Nat)] /\ resent \subseteq Buyers
      /\ stock \in [Stores -> Maybe(Int)] /\ Hand(b)
      /\ underway \in [Buyers -> Maybe(Commands)]
  BY DEF TypeInv, TypeOK, Handlers
<1>1. /\ KindOf(b) = "redis_atomic" => StoreFor(b) = "key"
      /\ KindOf(b) \in ReadFirst => StoreFor(b) = "row"
  BY DEF StoreFor, StoreOf, ReadFirst, RowKinds
<1>2. "error" \in Outcomes /\ "retry_exhausted" \in Outcomes
  BY DEF Outcomes, Errors
<1>3. astray < MaxAstray => astray + 1 \in 0 .. MaxAstray
  BY ServiceQuantitiesAssumption DEF TypeInv, TypeOK
<1>4. CASE Fail(b)
  <2>1. /\ pc[b] \in {"decrement", "write", "incrby"}
        /\ UNCHANGED <<request, stock, tracker, gauge, read, todo, answer, underway, resent,
                       astray, restarts, took, out, back, strayed, disturbed>>
    BY <1>4 DEF Fail, lost, returns
  <2>2. PICK o \in {"error", "retry_exhausted"} : Returned(b, o, None)
    BY <1>4 DEF Fail
  <2> QED
    BY <1>0, <1>2, <2>1, <2>2, SameStores, ReturnedType
<1>5. CASE GiveUp(b)
  <2>1. /\ pc[b] \in Commands /\ Returned(b, "error", None)
        /\ underway' = [underway EXCEPT ![b] = pc[b]] /\ astray' = astray + 1
        /\ astray < MaxAstray
        /\ UNCHANGED <<request, stock, tracker, gauge, read, todo, answer, resent, restarts,
                       took, out, back, strayed, disturbed>>
    BY <1>5 DEF GiveUp, returns, Commands
  <2>2. /\ underway' \in [Buyers -> Maybe(Commands)] /\ underway'[b] = pc[b]
        /\ \A x \in Buyers \ {b} : underway'[x] = underway[x]
    BY <1>0, <2>1 DEF Maybe
  <2>3. pc[b] \in {"decrement", "write", "incrby", "produce"}
    BY <2>1 DEF Commands
  <2>4. /\ outcome' \in [Buyers -> Maybe(Outcomes)]
        /\ remaining' \in [Buyers -> Maybe(Nat \cup {-1})]
        /\ sold' \in [Kinds -> Nat] /\ pc' \in [Clients -> Locations] /\ Handlers'
    BY <1>2, <2>1, <2>2, <2>3, SameStores, ReturnedValues
  <2> QED
    BY <1>3, <2>1, <2>2, <2>4 DEF request, tracker, TypeInv, TypeOK
<1>6. CASE RunLate(b)
  <2>1. /\ underway' = [underway EXCEPT ![b] = None] /\ underway[b] \in Commands
        /\ UNCHANGED <<request, tracker, gauge, pc, outcome, remaining, todo, answer, resent,
                       astray, restarts, sold, disturbed>>
    BY <1>6 DEF RunLate, handlerVars, Commands
  <2>2. underway[b] # None /\ KindOf(b) \in adapters
    BY <1>0, <2>1, ServiceQuantitiesAssumption DEF Hand
  <2>3. /\ stock' \in [Stores -> Maybe(Int)] /\ took' \subseteq Buyers /\ StoresHold
        /\ read' \in [Buyers -> Maybe(Nat)] /\ \A x \in Buyers \ {b} : read'[x] = read[x]
        /\ out' \subseteq Buyers /\ back' \in [Stores -> Nat] /\ strayed' \subseteq Stores
    <3>1. CASE underway[b] = "decrement" /\ CanTake(b) /\ Take(b) /\ UNCHANGED <<read, returns>>
      BY <1>0, <2>2, <3>1, TakeValues DEF returns
    <3>2. CASE underway[b] = "write" /\ Overwrite(b) /\ UNCHANGED returns
      BY <1>0, <3>2, OverwriteValues DEF returns
    <3>3. CASE underway[b] = "incrby" /\ GiveBack(b) /\ Compensated(b) /\ UNCHANGED read
      <4>1. stock[StoreFor(b)] # None
        BY <1>0, <1>1, <3>3 DEF Hand
      <4>2. took' \subseteq Buyers
        BY <1>0, <3>3 DEF Compensated
      <4> QED
        BY <1>0, <2>2, <3>3, <4>1, <4>2, GiveBackValues
    <3> QED
      BY <1>6, <3>1, <3>2, <3>3 DEF RunLate
  <2>4. /\ underway' \in [Buyers -> Maybe(Commands)] /\ underway'[b] = None
        /\ \A x \in Buyers \ {b} : underway'[x] = underway[x]
    BY <1>0, <2>1 DEF Maybe
  <2>5. \A x \in Buyers \ {b} : HandKept(x)
    BY <2>1, <2>3, <2>4 DEF HandKept
  <2>6. Hand(b)'
    <3>1. UNCHANGED <<adapters, path, amount>>
      BY <2>1 DEF request
    <3>2. KindOf(b)' = KindOf(b) /\ StoreFor(b)' = StoreFor(b)
      BY <3>1, KindsStay
    <3>3. /\ pc[b] \notin {"write", "incrby", "produce"}
          /\ b \in resent => stock'["key"] # None
      <4>1. b \in resent => StoreFor(b) \in Stores
        BY <2>2, StoreValues
      <4> QED
        BY <1>0, <2>2, <2>3, <4>1 DEF Hand, StoresHold
    <3> QED
      BY <1>0, <2>1, <2>2, <2>4, <3>1, <3>2, <3>3, ServiceQuantitiesAssumption
      DEF Hand, InFlight, Commands
  <2>7. Handlers'
    BY <2>1, <2>3, <2>5, <2>6, OneHand
  <2> QED
    BY <2>1, <2>3, <2>4, <2>7 DEF request, tracker, TypeInv, TypeOK
<1>7. CASE Resent(b)
  <2>1. /\ resent' = resent \cup {b} /\ astray' = astray + 1 /\ astray < MaxAstray
        /\ StoreFor(b) = "key" /\ pc[b] \in {"decrement", "incrby"}
        /\ UNCHANGED <<request, tracker, gauge, pc, read, outcome, remaining, todo, answer,
                       underway, restarts, sold, disturbed>>
    BY <1>7 DEF Resent, clientVars, handlerVars
  <2>2. KindOf(b) \in adapters
    BY <1>0, <2>1 DEF Hand, InFlight
  <2>3. /\ stock' \in [Stores -> Maybe(Int)] /\ took' \subseteq Buyers /\ StoresHold
        /\ stock[StoreFor(b)] # None /\ StoreFor(b) \in Stores
        /\ out' \subseteq Buyers /\ back' \in [Stores -> Nat] /\ strayed' \subseteq Stores
    <3>1. CASE pc[b] = "decrement" /\ CanTake(b) /\ Take(b) /\ UNCHANGED returns
      BY <1>0, <2>2, <3>1, TakeValues DEF returns, CanTake
    <3>2. CASE pc[b] = "incrby" /\ GiveBack(b) /\ UNCHANGED took
      <4>1. stock[StoreFor(b)] # None
        BY <1>0, <1>1, <3>2 DEF Hand
      <4> QED
        BY <1>0, <2>2, <3>2, <4>1, GiveBackValues
    <3> QED
      BY <1>7, <3>1, <3>2 DEF Resent
  <2>4. \A x \in Buyers \ {b} : HandKept(x)
    BY <2>1 DEF HandKept
  <2>5. Hand(b)'
    <3>1. UNCHANGED <<adapters, path, amount>> /\ stock'["key"] # None
      BY <2>1, <2>3 DEF request, StoresHold
    <3>2. KindOf(b)' = KindOf(b) /\ StoreFor(b)' = StoreFor(b)
      BY <3>1, KindsStay
    <3> QED
      BY <1>0, <2>1, <2>2, <3>1, <3>2 DEF Hand, InFlight
  <2>6. Handlers'
    BY <2>1, <2>3, <2>4, <2>5, OneHand
  <2>7. resent' \subseteq Buyers
    BY <1>0, <2>1
  <2> QED
    BY <1>3, <2>1, <2>3, <2>6, <2>7 DEF request, tracker, TypeInv, TypeOK
<1> QED
  BY <1>4, <1>5, <1>6, <1>7

\* The steps after it.
LEMMA AnswerType ==
  ASSUME TypeInv, NEW b \in Buyers, Refused(b) \/ SetGauge(b) \/ RecordOversell(b)
  PROVE  TypeInv'
<1>0. Hand(b) /\ KindOf(b) \in Kinds
  BY StoreValues
  DEF Refused, SetGauge, RecordOversell, TypeInv, Handlers, Hand, InFlight
<1>1. CASE Refused(b)
  <2>1. outcome[b] \in Outcomes \ {"ok"}
    BY <1>0, <1>1 DEF Refused, TypeInv, TypeOK, Hand, Maybe
  <2>2. Status(outcome[b]) \in Statuses
    BY <2>1 DEF Outcomes, Errors, Status, Statuses
  <2>3. /\ Respond(b, Status(outcome[b]))
        /\ UNCHANGED <<request, stock, tracker, gauge, read, underway, resent, astray, restarts,
                       sold, took, out, back, strayed, disturbed>>
    BY <1>1 DEF Refused, lost, returns
  <2>4. underway[b] # None => Status(outcome[b]) = 400
    BY <1>0, <1>1 DEF Refused, Hand, Status
  <2>5. Handlers'
    BY <2>2, <2>3, <2>4, SameStores, RespondHandlers
  <2> QED
    BY <2>2, <2>3, <2>5, RespondValues DEF request, tracker, TypeInv, TypeOK
<1>2. CASE SetGauge(b)
  <2>1. /\ pc[b] = "classify" /\ outcome[b] = "ok" /\ Goto(b, "record")
        /\ gauge' = [gauge EXCEPT ![KindOf(b)] = remaining[b]]
        /\ UNCHANGED <<request, stock, tracker, read, outcome, remaining, todo, answer,
                       underway, resent, astray, restarts, sold, took, out, back, strayed,
                       disturbed>>
    BY <1>2 DEF SetGauge, handlerVars, lost, returns
  <2>2. gauge' \in [Kinds -> Maybe(Nat \cup {-1})]
    BY <2>1 DEF TypeInv, TypeOK
  <2>3. /\ pc' \in [Clients -> Locations] /\ pc'[b] = "record"
        /\ \A c \in Clients \ {b} : pc'[c] = pc[c]
    BY <2>1 DEF Goto, TypeInv, TypeOK, Locations
  <2>4. \A x \in Buyers \ {b} : HandKept(x)
    BY <2>1, <2>3 DEF HandKept
  <2>5. Hand(b)'
    <3>1. UNCHANGED <<adapters, path, amount>>
      BY <2>1 DEF request
    <3>2. KindOf(b)' = KindOf(b) /\ StoreFor(b)' = StoreFor(b) /\ underway[b] = None
      BY <1>0, <2>1, <3>1, KindsStay DEF Hand
    <3> QED
      BY <1>0, <2>1, <2>3, <3>1, <3>2, ServiceQuantitiesAssumption
      DEF Hand, InFlight, Locations, Commands
  <2>6. Handlers'
    BY <2>1, <2>3, <2>4, <2>5, SameStores, OneHand
  <2> QED
    BY <2>1, <2>2, <2>3, <2>6 DEF request, tracker, TypeInv, TypeOK
<1>3. CASE RecordOversell(b)
  <2>1. amount[b] \in Nat /\ orderCount[KindOf(b)] \in Nat /\ oversell[KindOf(b)] \in Nat
    BY <1>0 DEF TypeInv, TypeOK
  <2>2. orderCount' \in [Kinds -> Nat] /\ oversell' \in [Kinds -> Nat]
    BY <1>0, <1>3, <2>1 DEF RecordOversell, TypeInv, TypeOK
  <2>3. /\ pc[b] = "record" /\ Respond(b, 200) /\ 200 \in Statuses
        /\ UNCHANGED <<request, stock, initialStock, gauge, read, underway, resent, astray,
                       restarts, sold, took, out, back, strayed, disturbed>>
    BY <1>3 DEF RecordOversell, Statuses, lost, returns
  <2>4. underway[b] = None
    BY <1>0, <2>3 DEF Hand
  <2>5. Handlers'
    BY <2>3, <2>4, SameStores, RespondHandlers
  <2> QED
    BY <2>2, <2>3, <2>5, RespondValues DEF request, TypeInv, TypeOK
<1> QED
  BY <1>1, <1>2, <1>3

\* A new sale.
LEMMA RefillValues ==
  ASSUME TypeInv, NEW new, DOMAIN new \subseteq Stores, \A st \in DOMAIN new : new[st] \in Nat,
         Refill(new)
  PROVE  /\ stock' \in [Stores -> Maybe(Int)] /\ sold' \in [Kinds -> Nat]
         /\ out' \subseteq Buyers /\ back' \in [Stores -> Nat] /\ strayed' \subseteq Stores
         /\ StoresHold
<1>1. stock' \in [Stores -> Maybe(Int)] /\ sold' \in [Kinds -> Nat]
  BY DEF Refill, TypeInv, TypeOK, Maybe
<1>2. out' \subseteq Buyers /\ back' \in [Stores -> Nat] /\ strayed' \subseteq Stores
  BY DEF Refill, TypeInv, TypeOK
<1>3. StoresHold
  BY ServiceQuantitiesAssumption DEF Refill, StoresHold, TypeInv, Handlers
<1> QED
  BY <1>1, <1>2, <1>3

LEMMA SeederType ==
  ASSUME TypeInv, NEW s \in Seeders, SeederStep(s)
  PROVE  TypeInv'
<1>0. /\ s \in Clients /\ s \notin Buyers /\ amount[s] \in Nat /\ todo[s] \subseteq Kinds
      /\ "row" \in Stores /\ adapters \subseteq Kinds
  BY ServiceKindsAssumption DEF TypeInv, TypeOK, Stores
<1>1. CASE BeginSeed(s)
  <2>1. /\ pc' \in [Clients -> Locations] /\ pc'[s] = "seed"
        /\ \A o \in Clients \ {s} : pc'[o] = pc[o]
    BY <1>0, <1>1 DEF BeginSeed, Goto, TypeInv, TypeOK, Locations
  <2>2. todo' \in [Seeders -> SUBSET Kinds] /\ disturbed' \in BOOLEAN
    BY <1>0, <1>1 DEF BeginSeed, TypeInv, TypeOK
  <2>3. UNCHANGED <<request, stock, tracker, gauge, read, outcome, remaining, answer, underway,
                    resent, astray, restarts, sold, took, out, back, strayed>>
    BY <1>1 DEF BeginSeed, lost, returns
  <2>4. \A x \in Buyers : HandKept(x)
    BY <1>0, <2>1, <2>3 DEF HandKept
  <2>5. Handlers'
    BY <1>0, <2>1, <2>3, <2>4, SameStores, OneHand
  <2> QED
    BY <2>1, <2>2, <2>3, <2>5 DEF request, tracker, TypeInv, TypeOK
<1>2. ASSUME NEW k \in todo[s], SeedAdapter(s, k) PROVE TypeInv'
  <2>1. /\ UNCHANGED <<request, tracker, gauge, pc, read, outcome, remaining, answer, underway,
                       resent, astray, restarts, took, disturbed>>
        /\ pc[s] = "seed" /\ todo' \in [Seeders -> SUBSET Kinds]
    BY <1>2 DEF SeedAdapter, lost, TypeInv, TypeOK
  <2>2. PICK new : new = [st \in {"row", StoreOf(k)} |-> amount[s]]
    OBVIOUS
  <2>3. Refill(new) /\ DOMAIN new \subseteq Stores /\ \A st \in DOMAIN new : new[st] \in Nat
    BY <1>0, <1>2, <2>2 DEF SeedAdapter, Stores
  <2>4. \A x \in Buyers : HandKept(x)
    BY <2>1 DEF HandKept
  <2>5. Handlers'
    BY <1>0, <2>1, <2>3, <2>4, RefillValues, OneHand
  <2> QED
    BY <2>1, <2>3, <2>5, RefillValues DEF request, tracker, TypeInv, TypeOK
<1>3. ASSUME NEW k \in todo[s], SeedFails(s, k) PROVE TypeInv'
  <2>1. /\ disturbed' = TRUE
        /\ UNCHANGED <<request, tracker, gauge, read, underway, resent, astray, restarts, took>>
    BY <1>3 DEF SeedFails, lost
  <2>2. s \in Clients /\ Respond(s, 500) /\ 500 \in Statuses
    BY <1>3 DEF SeedFails, Statuses
  <2>3. /\ pc' \in [Clients -> Locations] /\ answer' \in [Clients -> Maybe(Statuses)]
        /\ outcome' \in [Buyers -> Maybe(Outcomes)]
        /\ remaining' \in [Buyers -> Maybe(Nat \cup {-1})]
        /\ todo' \in [Seeders -> SUBSET Kinds]
    <3>1. ASSUME NEW c \in Clients, NEW status \in Statuses, Respond(c, status)
          PROVE  /\ pc' \in [Clients -> Locations] /\ answer' \in [Clients -> Maybe(Statuses)]
                 /\ outcome' \in [Buyers -> Maybe(Outcomes)]
                 /\ remaining' \in [Buyers -> Maybe(Nat \cup {-1})]
                 /\ todo' \in [Seeders -> SUBSET Kinds]
      BY <3>1, RespondValues
    <3> QED
      BY <2>2, <3>1
  <2>4. PICK W \in SUBSET {"row", StoreOf(k)} : \E new \in [W -> {0, amount[s]}] : Refill(new)
    BY <1>3 DEF SeedFails
  <2>5. PICK new \in [W -> {0, amount[s]}] : Refill(new)
    BY <2>4
  <2>6. DOMAIN new \subseteq Stores /\ \A st \in DOMAIN new : new[st] \in Nat
    BY <1>0, <2>4, <2>5 DEF Stores
  <2>7. /\ stock' \in [Stores -> Maybe(Int)] /\ sold' \in [Kinds -> Nat]
        /\ out' \subseteq Buyers /\ back' \in [Stores -> Nat] /\ strayed' \subseteq Stores
        /\ StoresHold
    BY <2>5, <2>6, RefillValues
  <2>8. Handlers'
    BY <1>0, <2>1, <2>2, <2>7, RespondHandlers
  <2> QED
    BY <2>1, <2>3, <2>7, <2>8 DEF request, tracker, TypeInv, TypeOK
<1>4. CASE ResetTracker(s)
  <2>1. /\ Respond(s, 200) /\ 200 \in Statuses
        /\ UNCHANGED <<request, stock, oversell, read, underway, resent, astray, restarts, sold,
                       took, out, back, strayed, disturbed>>
    BY <1>4 DEF ResetTracker, lost, returns, Statuses
  <2>2. /\ initialStock' \in [Kinds -> Maybe(Nat)] /\ orderCount' \in [Kinds -> Nat]
        /\ gauge' \in [Kinds -> Maybe(Nat \cup {-1})]
    BY <1>0, <1>4 DEF ResetTracker, Maybe
  <2>3. Handlers'
    BY <1>0, <2>1, SameStores, RespondHandlers
  <2> QED
    BY <1>0, <2>1, <2>2, <2>3, RespondValues DEF request, TypeInv, TypeOK
<1> QED
  BY <1>1, <1>2, <1>3, <1>4 DEF SeederStep

LEMMA RestartType ==
  ASSUME TypeInv, Restart
  PROVE  TypeInv'
<1>1. restarts' \in 0 .. MaxRestarts
  BY ServiceQuantitiesAssumption DEF Restart, TypeInv, TypeOK
<1>2. /\ stock' \in [Stores -> Maybe(Int)] /\ initialStock' \in [Kinds -> Maybe(Nat)]
      /\ orderCount' \in [Kinds -> Nat] /\ oversell' \in [Kinds -> Nat]
      /\ gauge' \in [Kinds -> Maybe(Nat \cup {-1})]
  BY DEF Restart, TypeInv, TypeOK, Maybe
<1>3. /\ pc' \in [Clients -> Locations] /\ todo' \in [Seeders -> SUBSET Kinds]
      /\ \A c \in Clients : \/ pc'[c] = "done"
                            \/ pc'[c] = "idle" /\ pc[c] = "idle"
  BY DEF Restart, InFlight, Forget, TypeInv, TypeOK, Locations
<1>4. /\ outcome' \in [Buyers -> Maybe(Outcomes)]
      /\ remaining' \in [Buyers -> Maybe(Nat \cup {-1})]
  BY DEF Restart, Forget, TypeInv, TypeOK, Maybe
<1>5. /\ underway' \in [Buyers -> Maybe(Commands)]
      /\ \A b \in Buyers : underway'[b] = underway[b] \/ underway'[b] = None
  BY DEF Restart, TypeInv, TypeOK, Maybe
<1>6. /\ disturbed' \in BOOLEAN
      /\ UNCHANGED <<adapters, path, amount, read, answer, resent, astray, sold, took, out, back,
                     strayed>>
  BY DEF Restart, returns, request, TypeInv, TypeOK
<1>7. TypeOK'
  BY <1>1, <1>2, <1>3, <1>4, <1>5, <1>6 DEF TypeInv, TypeOK
<1>8. ASSUME NEW b \in Buyers PROVE Hand(b)'
  <2>1. Hand(b)
    BY DEF TypeInv, Handlers
  <2>2. KindOf(b)' = KindOf(b) /\ StoreFor(b)' = StoreFor(b)
    BY <1>6, KindsStay
  <2>3. underway[b] = "incrby" \/ b \in resent => stock'["key"] # None
    <3>1. underway[b] = "incrby" \/ b \in resent => StoreFor(b) \in Stores /\ stock["key"] # None
      BY <2>1, StoreValues, ServiceQuantitiesAssumption DEF Hand, Commands
    <3>2. underway[b] = "incrby" \/ b \in resent => StoreFor(b) = "key"
      BY <2>1 DEF Hand, StoreFor, StoreOf, RowKinds
    <3> QED
      BY <3>1, <3>2 DEF Restart, InProcess
  <2>4. underway[b] # None => pc'[b] = "done" /\ answer[b] \in {400, None}
    BY <1>3, <2>1 DEF Hand
  <2>5. pc'[b] # "done" => answer[b] = None
    BY <1>3, <2>1 DEF Hand
  <2> QED
    BY <1>3, <1>5, <1>6, <2>1, <2>2, <2>3, <2>4, <2>5, ServiceQuantitiesAssumption
    DEF Hand, InFlight, Locations, Commands
<1>9. Handlers'
  <2>1. \A st \in Stores \ {"key"} : stock'[st] # None => stock'[st] \in Nat
    BY DEF Restart, TypeInv, Handlers
  <2> QED
    BY <1>3, <1>8, <2>1 DEF Handlers
<1> QED
  BY <1>7, <1>9 DEF TypeInv

\* All that may happen to a request.
BuyerAct(b) == BuyerStep(b) \/ Fail(b) \/ GiveUp(b) \/ RunLate(b) \/ Resent(b)

LEMMA BuyerType ==
  ASSUME TypeInv, NEW b \in Buyers, BuyerAct(b)
  PROVE  TypeInv'
BY ResolveType, DecrementType, FaultType, AnswerType DEF BuyerAct, BuyerStep

LEMMA ServiceTypeStep == TypeInv /\ [Next]_vars => TypeInv'
<1> SUFFICES ASSUME TypeInv, [Next]_vars PROVE TypeInv'
  OBVIOUS
<1>1. CASE UNCHANGED vars
  <2>1. TypeOK'
    BY <1>1 DEF vars, tracker, handlerVars, clientVars, request, lost, returns, TypeInv, TypeOK
  <2>2. Handlers'
    BY <1>1 DEF vars, tracker, handlerVars, clientVars, request, lost, returns, TypeInv,
                Handlers, Hand, InFlight, KindOf, StoreFor
  <2> QED
    BY <2>1, <2>2 DEF TypeInv
<1> QED
  BY <1>1, BuyerType, SeederType, RestartType DEF Next, Finished, BuyerAct

\* Every variable has its type, and no request is sent on to an adapter this server
\* does not have.
THEOREM ServiceTypeCorrect == Spec => []TypeOK
<1>1. TypeInv => TypeOK
  BY DEF TypeInv
<1> QED
  BY <1>1, ServiceTypeInit, ServiceTypeStep, PTL DEF Spec

-----------------------------------------------------------------------------
(* Refusals                                                                 *)

\* A step of one request leaves the others where they are.
LEMMA OtherBuyers ==
  ASSUME TypeInv, NEW b \in Buyers, BuyerAct(b)
  PROVE  /\ \A c \in Clients \ {b} : pc'[c] = pc[c] /\ answer'[c] = answer[c]
         /\ \A x \in Buyers \ {b} : outcome'[x] = outcome[x] /\ remaining'[x] = remaining[x]
         /\ \A s \in Seeders : todo'[s] = todo[s]
         /\ UNCHANGED <<adapters, path, amount>>
         /\ took' \subseteq took \cup {b} /\ resent \subseteq resent'
<1>0. /\ pc \in [Clients -> Locations] /\ answer \in [Clients -> Maybe(Statuses)]
      /\ outcome \in [Buyers -> Maybe(Outcomes)]
      /\ remaining \in [Buyers -> Maybe(Nat \cup {-1})]
      /\ b \in Clients /\ Hand(b)
  BY DEF TypeInv, TypeOK, Handlers
<1>1. ASSUME NEW status \in Statuses, Respond(b, status)
      PROVE  /\ \A c \in Clients \ {b} : pc'[c] = pc[c] /\ answer'[c] = answer[c]
             /\ \A x \in Buyers \ {b} : outcome'[x] = outcome[x] /\ remaining'[x] = remaining[x]
             /\ \A s \in Seeders : todo'[s] = todo[s]
  BY <1>0, <1>1, RespondValues
<1>2. ASSUME NEW o, NEW n, Returned(b, o, n)
      PROVE  /\ \A c \in Clients \ {b} : pc'[c] = pc[c]
             /\ \A x \in Buyers \ {b} : outcome'[x] = outcome[x] /\ remaining'[x] = remaining[x]
  BY <1>0, <1>2 DEF Returned, Goto
<1>3. UNCHANGED <<adapters, path, amount>>
  BY DEF BuyerAct, BuyerStep, Resolve, Sell, Refuse, ReadRow, WriteRow, Retry, DecrBy, IncrBy,
         Grant, Produce, Refund, Fail, GiveUp, RunLate, Resent, Refused, SetGauge,
         RecordOversell, request
<1>4. resent \subseteq resent'
  BY DEF BuyerAct, BuyerStep, Resolve, Sell, Refuse, ReadRow, WriteRow, Retry, DecrBy, IncrBy,
         Grant, Produce, Refund, Fail, GiveUp, RunLate, Resent, Refused, SetGauge,
         RecordOversell, lost
<1>5. took' \subseteq took \cup {b}
  BY DEF BuyerAct, BuyerStep, Resolve, Sell, Refuse, ReadRow, WriteRow, Retry, DecrBy, IncrBy,
         Grant, Produce, Refund, Fail, GiveUp, RunLate, Resent, Refused, SetGauge,
         RecordOversell, Take, Overwrite, Compensated
<1>6. /\ \A c \in Clients \ {b} : pc'[c] = pc[c] /\ answer'[c] = answer[c]
      /\ \A x \in Buyers \ {b} : outcome'[x] = outcome[x] /\ remaining'[x] = remaining[x]
      /\ \A s \in Seeders : todo'[s] = todo[s]
  <2>1. CASE Resolve(b)
    BY <1>0, <1>1, <2>1 DEF Resolve, Goto, handlerVars, Statuses
  <2>2. CASE Sell(b)
    BY <1>2, <2>2 DEF Sell
  <2>3. CASE Refuse(b)
    BY <1>2, <2>3 DEF Refuse
  <2>4. CASE ReadRow(b) \/ Retry(b)
    BY <1>0, <2>4 DEF ReadRow, Retry, Goto, handlerVars
  <2>5. CASE WriteRow(b)
    BY <1>2, <2>5 DEF WriteRow
  <2>6. CASE DecrBy(b)
    BY <1>0, <1>2, <2>6 DEF DecrBy, Goto
  <2>7. CASE IncrBy(b)
    BY <1>2, <2>7 DEF IncrBy
  <2>8. CASE Grant(b)
    BY <1>0, <2>8 DEF Grant, Goto
  <2>9. CASE Produce(b)
    BY <1>2, <2>9 DEF Produce
  <2>10. CASE Refund(b)
    BY <1>2, <2>10 DEF Refund
  <2>11. CASE Fail(b)
    BY <1>2, <2>11 DEF Fail
  <2>12. CASE GiveUp(b)
    BY <1>2, <2>12 DEF GiveUp
  <2>13. CASE RunLate(b) \/ Resent(b)
    BY <2>13 DEF RunLate, Resent, clientVars, handlerVars
  <2>14. CASE Refused(b)
    <3>1. outcome[b] \in Outcomes \ {"ok"}
      BY <1>0, <2>14 DEF Refused, Hand, Maybe
    <3>2. Status(outcome[b]) \in Statuses
      BY <3>1 DEF Outcomes, Errors, Status, Statuses
    <3> QED
      BY <1>1, <2>14, <3>2 DEF Refused
  <2>15. CASE SetGauge(b)
    BY <1>0, <2>15 DEF SetGauge, Goto, handlerVars
  <2>16. CASE RecordOversell(b)
    BY <1>1, <2>16 DEF RecordOversell, Statuses
  <2> QED
    BY <2>1, <2>2, <2>3, <2>4, <2>5, <2>6, <2>7, <2>8, <2>9, <2>10, <2>11, <2>12, <2>13,
       <2>14, <2>15, <2>16 DEF BuyerAct, BuyerStep
<1> QED
  BY <1>3, <1>4, <1>5, <1>6

\* A step of a seed leaves every request where it is.
LEMMA SeedLeavesBuyers ==
  ASSUME TypeInv, NEW s \in Seeders, SeederStep(s)
  PROVE  /\ \A c \in Clients \ {s} : pc'[c] = pc[c] /\ answer'[c] = answer[c]
         /\ \A x \in Buyers : outcome'[x] = outcome[x] /\ remaining'[x] = remaining[x]
         /\ UNCHANGED <<adapters, path, amount, took, resent, underway>>
<1>0. s \in Clients /\ s \notin Buyers /\ pc \in [Clients -> Locations]
  BY DEF TypeInv, TypeOK
<1>1. ASSUME NEW status \in Statuses, Respond(s, status)
      PROVE  /\ \A c \in Clients \ {s} : pc'[c] = pc[c] /\ answer'[c] = answer[c]
             /\ \A x \in Buyers : outcome'[x] = outcome[x] /\ remaining'[x] = remaining[x]
  BY <1>0, <1>1, RespondValues
<1>2. UNCHANGED <<adapters, path, amount, took, resent, underway>>
  BY DEF SeederStep, BeginSeed, SeedAdapter, SeedFails, ResetTracker, request, lost
<1>3. CASE BeginSeed(s)
  BY <1>0, <1>2, <1>3 DEF BeginSeed, Goto
<1>4. ASSUME NEW k \in todo[s], SeedAdapter(s, k)
      PROVE  UNCHANGED <<pc, answer, outcome, remaining>>
  BY <1>4 DEF SeedAdapter
<1>5. ASSUME NEW k \in todo[s], SeedFails(s, k) PROVE Respond(s, 500) /\ 500 \in Statuses
  BY <1>5 DEF SeedFails, Statuses
<1>6. CASE ResetTracker(s)
  BY <1>1, <1>2, <1>6 DEF ResetTracker, Statuses
<1> QED
  BY <1>1, <1>2, <1>3, <1>4, <1>5, <1>6 DEF SeederStep

\* A request that has units, or an order, is past Decrement, or sent its command to Redis
\* twice; if it was refused, then after a second command or by token_queue, which does not
\* know whether its record was kept; or it failed.
TakenBy(b) ==
  b \in took =>
    /\ pc[b] \notin {"idle", "write"}
    /\ pc[b] = "decrement" => b \in resent
    /\ pc[b] = "classify" => \/ outcome[b] \in {"ok", "error"}
                             \/ outcome[b] = "unavailable" /\ KindOf(b) = "token_queue"
                             \/ outcome[b] = "out_of_stock" /\ b \in resent
    /\ answer[b] # 404
    /\ answer[b] = 409 => b \in resent
    /\ answer[b] = 503 => KindOf(b) = "token_queue"

Taken == \A b \in Buyers : TakenBy(b)

LEMMA TakenStays ==
  ASSUME NEW x \in Buyers, TakenBy(x), UNCHANGED path, pc'[x] = pc[x],
         outcome'[x] = outcome[x], answer'[x] = answer[x], x \in took' => x \in took,
         x \in resent => x \in resent'
  PROVE  TakenBy(x)'
BY KindsStay DEF TakenBy

LEMMA TakenBuyer ==
  ASSUME TypeInv, Taken, NEW b \in Buyers, BuyerAct(b)
  PROVE  TakenBy(b)'
<1>0. /\ Hand(b) /\ TakenBy(b) /\ took \subseteq Buyers
      /\ outcome \in [Buyers -> Maybe(Outcomes)] /\ pc \in [Clients -> Locations]
  BY DEF TypeInv, TypeOK, Handlers, Taken
<1>1. KindOf(b)' = KindOf(b)
  BY OtherBuyers, KindsStay
<1>2. None \notin {200, 400, 404, 409, 503}
  BY ServiceQuantitiesAssumption
<1>3. /\ KindOf(b) = "token_queue" => StoreFor(b) = "quota"
      /\ KindOf(b) \in ReadFirst => StoreFor(b) = "row"
      /\ KindOf(b) \in {"pg_optimistic", "pg_serializable"} => StoreFor(b) = "row"
      /\ KindOf(b) = "pg_skip_locked" => StoreFor(b) = "pile"
  BY DEF StoreFor, StoreOf, ReadFirst, RowKinds
<1>4. ASSUME NEW o, NEW n, Returned(b, o, n), answer' = answer, pc[b] # "done",
             b \in took' => \/ o \in {"ok", "error"}
                            \/ o = "unavailable" /\ KindOf(b) = "token_queue"
                            \/ o = "out_of_stock" /\ b \in resent'
      PROVE  TakenBy(b)'
  <2>1. pc'[b] = "classify" /\ outcome'[b] = o /\ answer'[b] = None
    BY <1>0, <1>4 DEF Returned, Goto, Hand
  <2> QED
    BY <1>1, <1>2, <1>4, <2>1 DEF TakenBy
<1>5. ASSUME NEW loc \in {"decrement", "write", "incrby", "produce", "record"}, Goto(b, loc),
             answer' = answer, pc[b] # "done", loc \in {"decrement", "write"} => b \notin took'
      PROVE  TakenBy(b)'
  <2>1. pc'[b] = loc /\ answer'[b] = None
    BY <1>0, <1>5 DEF Goto, Hand
  <2> QED
    BY <1>2, <1>5, <2>1 DEF TakenBy
<1>6. CASE Resolve(b)
  BY <1>0, <1>6 DEF Resolve, TakenBy
<1>7. CASE Sell(b)
  BY <1>4, <1>7 DEF Sell
<1>8. CASE Refuse(b)
  <2>1. b \in took => b \in resent /\ Known(b)
    BY <1>0, <1>3, <1>8 DEF Refuse, TakenBy, Hand, Known
  <2> QED
    BY <1>4, <1>8, <2>1 DEF Refuse, lost
<1>9. CASE ReadRow(b) \/ Retry(b)
  <2>1. b \notin took
    BY <1>0, <1>3, <1>9 DEF ReadRow, Retry, TakenBy, Hand
  <2> QED
    BY <1>5, <1>9, <2>1 DEF ReadRow, Retry, handlerVars
<1>10. CASE WriteRow(b)
  BY <1>4, <1>10 DEF WriteRow
<1>11. CASE DecrBy(b)
  BY <1>4, <1>5, <1>11 DEF DecrBy
<1>12. CASE IncrBy(b)
  BY <1>4, <1>12 DEF IncrBy, Compensated, lost
<1>13. CASE Grant(b)
  BY <1>5, <1>13 DEF Grant
<1>14. CASE Produce(b)
  BY <1>4, <1>14 DEF Produce
<1>15. CASE Refund(b)
  BY <1>0, <1>4, <1>15 DEF Refund, Hand
<1>16. CASE Fail(b)
  <2>1. PICK o \in {"error", "retry_exhausted"} :
          /\ Returned(b, o, None)
          /\ o = "retry_exhausted" =>
               pc[b] = "decrement" /\ KindOf(b) \in {"pg_optimistic", "pg_serializable"}
    BY <1>16 DEF Fail
  <2>2. answer' = answer /\ pc[b] # "done" /\ took' = took
    BY <1>16 DEF Fail
  <2>3. b \in took => o = "error"
    BY <1>0, <1>3, <2>1 DEF TakenBy, Hand
  <2> QED
    BY <1>4, <2>1, <2>2, <2>3
<1>17. CASE GiveUp(b)
  BY <1>4, <1>17 DEF GiveUp
<1>18. CASE RunLate(b)
  <2>1. underway[b] # None
    BY <1>18, ServiceQuantitiesAssumption DEF RunLate, Commands
  <2>2. UNCHANGED <<pc, answer, outcome>>
    BY <1>18 DEF RunLate, handlerVars
  <2> QED
    BY <1>0, <1>2, <2>1, <2>2 DEF TakenBy, Hand
<1>19. CASE Resent(b)
  <2>1. b \in resent' /\ pc[b] \in {"decrement", "incrby"} /\ UNCHANGED <<pc, answer>>
    BY <1>19 DEF Resent, clientVars, handlerVars
  <2> QED
    BY <1>0, <1>2, <2>1 DEF TakenBy, Hand
<1>20. CASE Refused(b)
  <2>1. /\ outcome[b] \in Outcomes \ {"ok"} /\ pc[b] = "classify" /\ took' = took
        /\ resent' = resent
    BY <1>0, <1>20 DEF Refused, Hand, Maybe, lost
  <2>2. Status(outcome[b]) \in Statuses
    BY <2>1 DEF Outcomes, Errors, Status, Statuses
  <2>3. pc'[b] = "done" /\ answer'[b] = Status(outcome[b])
    BY <1>20, <2>2, RespondValues DEF Refused
  <2>4. b \in took => \/ Status(outcome[b]) = 400
                      \/ Status(outcome[b]) = 503 /\ KindOf(b) = "token_queue"
                      \/ Status(outcome[b]) = 409 /\ b \in resent
    BY <1>0, <2>1 DEF TakenBy, Status
  <2> QED
    BY <1>1, <2>1, <2>3, <2>4 DEF TakenBy
<1>21. CASE SetGauge(b)
  BY <1>5, <1>21 DEF SetGauge, handlerVars
<1>22. CASE RecordOversell(b)
  <2>1. pc'[b] = "done" /\ answer'[b] = 200
    BY <1>22, RespondValues DEF RecordOversell, Statuses
  <2> QED
    BY <2>1 DEF TakenBy
<1> QED
  BY <1>6, <1>7, <1>8, <1>9, <1>10, <1>11, <1>12, <1>13, <1>14, <1>15, <1>16, <1>17, <1>18,
     <1>19, <1>20, <1>21, <1>22 DEF BuyerAct, BuyerStep

LEMMA TakenStep == TypeInv /\ Taken /\ [Next]_vars => Taken'
<1> SUFFICES ASSUME TypeInv, Taken, [Next]_vars, NEW x \in Buyers PROVE TakenBy(x)'
  BY DEF Taken
<1>0. TakenBy(x)
  BY DEF Taken
<1>1. ASSUME NEW b \in Buyers, BuyerAct(b) PROVE TakenBy(x)'
  <2>1. CASE x = b
    BY <1>1, <2>1, TakenBuyer
  <2>2. CASE x # b
    BY <1>0, <1>1, <2>2, OtherBuyers, TakenStays
  <2> QED
    BY <2>1, <2>2
<1>2. ASSUME NEW s \in Seeders, SeederStep(s) PROVE TakenBy(x)'
  BY <1>0, <1>2, SeedLeavesBuyers, TakenStays
<1>3. CASE Restart
  <2>1. x \in took => pc'[x] = "done"
    BY <1>0, <1>3 DEF Restart, InFlight, TakenBy
  <2>2. UNCHANGED <<path, answer, took, resent>>
    BY <1>3 DEF Restart, request
  <2> QED
    BY <1>0, <2>1, <2>2, KindsStay DEF TakenBy
<1>4. CASE UNCHANGED vars
  BY <1>0, <1>4, TakenStays DEF vars, request, lost, clientVars, handlerVars
<1> QED
  BY <1>1, <1>2, <1>3, <1>4 DEF Next, Finished, BuyerAct

\* A buyer who is told that the product is unknown, sold out or not to be had now has no
\* units and no order, whatever failed, came late or came twice; but for a command that
\* Redis got twice and for token_queue's 503.
THEOREM RefusalsTouchNothing == Spec => []RefusedMeansUntouched
<1>1. Init => Taken
  BY DEF Init, Taken, TakenBy
<1>2. TypeInv /\ Taken => RefusedMeansUntouched
  BY DEF Taken, TakenBy, RefusedMeansUntouched, TypeInv, TypeOK
<1> QED
  BY <1>1, <1>2, ServiceTypeInit, ServiceTypeStep, TakenStep, PTL DEF Spec

-----------------------------------------------------------------------------
(* What a request does to a store                                           *)

\* Those with units of a store's sale that may be given back.
Out(st) == {b \in out : StoreFor(b) = st}

\* A step of b leaves k's store as it is, takes units out of it, gives some back, or keeps
\* for good those it had.
Rests(k) ==
  LET st == StoreOf(k)
  IN /\ stock'[st] = stock[st] /\ back'[st] = back[st] /\ (st \in strayed' <=> st \in strayed)
     /\ Out(st)' = Out(st) /\ sold'[k] = sold[k]

Takes(b, k) ==
  LET st == StoreOf(k)
  IN /\ StoreFor(b) = st /\ stock[st] \in Int /\ stock'[st] = stock[st] - amount[b]
     /\ back'[st] = back[st] /\ (st \in strayed' <=> st \in strayed)
     /\ \/ Out(st)' = Out(st) /\ sold'[k] = sold[k]
        \/ Out(st)' = Out(st) \cup {b} /\ sold'[k] = sold[k]
        \/ /\ Out(st)' = Out(st) /\ sold'[k] = sold[k] + amount[b]
           /\ amount[b] <= stock[st]

Gives(b, k) ==
  LET st == StoreOf(k)
  IN /\ StoreFor(b) = st /\ stock[st] \in Int /\ stock'[st] = stock[st] + amount[b]
     /\ back'[st] = back[st] + amount[b] /\ (st \in strayed => st \in strayed')
     /\ b \in Out(st) \/ st \in strayed'
     /\ Out(st)' = Out(st) \ {b} /\ sold'[k] = sold[k]

Queues(b, k) ==
  LET st == StoreOf(k)
  IN /\ StoreFor(b) = st /\ stock[st] \in Nat /\ stock'[st] = stock[st]
     /\ back'[st] = back[st] /\ (st \in strayed' <=> st \in strayed)
     /\ Out(st)' = Out(st) \ {b} /\ sold'[k] \in {sold[k], sold[k] + amount[b]}
     /\ pc[b] = "produce"

LEMMA OutStays ==
  ASSUME path' = path, NEW st, NEW b \in Buyers
  PROVE  /\ out' = out => Out(st)' = Out(st)
         /\ out' = out \cup {b} =>
              Out(st)' = IF StoreFor(b) = st THEN Out(st) \cup {b} ELSE Out(st)
         /\ out' = out \ {b} =>
              Out(st)' = IF StoreFor(b) = st THEN Out(st) \ {b} ELSE Out(st)
<1>1. \A x : StoreFor(x)' = StoreFor(x)
  BY KindsStay
<1>2. Out(st)' = {x \in out' : StoreFor(x) = st}
  BY <1>1 DEF Out
<1> QED
  BY <1>2 DEF Out

\* A step that only sells nothing.
LEMMA EffectNone ==
  ASSUME UNCHANGED <<path, stock, back, strayed, out>>, NEW b \in Buyers, NEW k, sold'[k] = sold[k]
  PROVE  Rests(k)
BY OutStays DEF Rests

LEMMA EffectTake ==
  ASSUME TypeInv, NEW b \in Buyers, KindOf(b) \in adapters, CanTake(b), Take(b), NEW k \in Kinds,
         UNCHANGED <<path, back, strayed>>,
         \/ out' = out /\ sold' = sold
         \/ out' = out \cup {b} /\ sold' = sold
         \/ /\ out' = out /\ amount[b] <= stock[StoreFor(b)]
            /\ sold' = [sold EXCEPT ![KindOf(b)] = @ + amount[b]]
  PROVE  Takes(b, k) \/ Rests(k)
<1>0. StoreOf(k) \in Stores /\ sold \in [Kinds -> Nat] /\ KindOf(b) \in Kinds
  BY StoreValues DEF Stores, TypeInv, TypeOK
<1>1. CASE StoreFor(b) = StoreOf(k)
  <2>1. stock[StoreOf(k)] \in Int /\ stock'[StoreOf(k)] = stock[StoreOf(k)] - amount[b]
    BY <1>1, TakeValues
  <2>2. CASE sold' = sold /\ out' = out
    BY <1>1, <2>1, <2>2, OutStays DEF Takes
  <2>3. CASE sold' = sold /\ out' = out \cup {b}
    BY <1>1, <2>1, <2>3, OutStays DEF Takes
  <2>4. CASE /\ out' = out /\ amount[b] <= stock[StoreFor(b)]
             /\ sold' = [sold EXCEPT ![KindOf(b)] = @ + amount[b]]
    <3>1. Out(StoreOf(k))' = Out(StoreOf(k))
      BY <2>4, OutStays
    <3>2. sold'[k] = sold[k] \/ sold'[k] = sold[k] + amount[b]
      BY <1>0, <2>4
    <3> QED
      BY <1>1, <2>1, <2>4, <3>1, <3>2 DEF Takes
  <2> QED
    BY <2>2, <2>3, <2>4
<1>2. CASE StoreFor(b) # StoreOf(k)
  <2>1. stock'[StoreOf(k)] = stock[StoreOf(k)]
    BY <1>0, <1>2, TakeValues
  <2>2. Out(StoreOf(k))' = Out(StoreOf(k))
    BY <1>2, OutStays
  <2>3. KindOf(b) # k
    BY <1>2 DEF StoreFor
  <2>4. sold'[k] = sold[k]
    BY <1>0, <2>3
  <2> QED
    BY <2>1, <2>2, <2>4 DEF Rests
<1> QED
  BY <1>1, <1>2

\* Whose row is as it was read takes units as any other adapter does.
TakesFromRow(b) == Take(b) /\ CanTake(b) /\ amount[b] <= stock[StoreFor(b)]

LEMMA OverwriteTakes ==
  ASSUME TypeInv, ~disturbed, NEW b \in Buyers, pc[b] = "write" \/ underway[b] = "write",
         Overwrite(b), ~Uncoordinated(b), StoreFor(b) = "row"
  PROVE  TakesFromRow(b)
<1>1. read[b] = stock["row"] /\ took' = took \cup {b}
  BY DEF Overwrite
<1>2. read[b] \in Nat /\ amount[b] <= read[b]
  BY DEF TypeInv, Handlers, Hand
<1>3. stock["row"] # None
  BY <1>1, <1>2, ServiceQuantitiesAssumption
<1>4. stock' = [stock EXCEPT !["row"] = stock["row"] - amount[b]]
  BY <1>1 DEF Overwrite
<1> QED
  BY <1>1, <1>2, <1>3, <1>4 DEF TakesFromRow, Take, CanTake

LEMMA EffectGive ==
  ASSUME TypeInv, NEW b \in Buyers, KindOf(b) \in adapters, stock[StoreFor(b)] # None,
         GiveBack(b), NEW k \in Kinds, path' = path, sold'[k] = sold[k]
  PROVE  Gives(b, k) \/ Rests(k)
<1>0. StoreOf(k) \in Stores
  BY DEF Stores
<1>1. /\ out' = out \ {b}
      /\ strayed' = IF b \in out THEN strayed ELSE strayed \cup {StoreFor(b)}
  BY DEF GiveBack
<1>2. CASE StoreFor(b) = StoreOf(k)
  <2>1. /\ stock[StoreOf(k)] \in Int /\ stock'[StoreOf(k)] = stock[StoreOf(k)] + amount[b]
        /\ back'[StoreOf(k)] = back[StoreOf(k)] + amount[b]
    BY <1>2, GiveBackValues
  <2>2. Out(StoreOf(k))' = Out(StoreOf(k)) \ {b}
    BY <1>1, <1>2, OutStays
  <2>3. b \in Out(StoreOf(k)) \/ StoreOf(k) \in strayed'
    BY <1>1, <1>2 DEF Out
  <2> QED
    BY <1>1, <1>2, <2>1, <2>2, <2>3 DEF Gives
<1>3. CASE StoreFor(b) # StoreOf(k)
  <2>1. stock'[StoreOf(k)] = stock[StoreOf(k)] /\ back'[StoreOf(k)] = back[StoreOf(k)]
    BY <1>0, <1>3, GiveBackValues
  <2>2. Out(StoreOf(k))' = Out(StoreOf(k))
    BY <1>1, <1>3, OutStays
  <2> QED
    BY <1>1, <1>3, <2>1, <2>2 DEF Rests
<1> QED
  BY <1>2, <1>3

\* Who writes over the row, and nowhere else, races, or takes its units from what is there.
LEMMA EffectOverwrite ==
  ASSUME TypeInv, ~disturbed, NEW b \in Buyers, pc[b] = "write" \/ underway[b] = "write",
         Overwrite(b), NEW k \in Kinds, UNCHANGED <<path, out, back, strayed>>,
         \A o \in Buyers : pc[o] # "idle" => pc'[o] # "idle",
         sold' = sold \/ sold' = [sold EXCEPT ![KindOf(b)] = @ + amount[b]]
  PROVE  Racing(StoreOf(k))' \/ Rests(k) \/ Takes(b, k)
<1>0. KindOf(b) \in ReadFirst /\ StoreFor(b) = "row"
  BY OverwriteValues DEF StoreFor, StoreOf, ReadFirst, RowKinds
<1>1. Hand(b) /\ KindOf(b) \in adapters /\ pc[b] # "idle"
  <2>1. Hand(b)
    BY DEF TypeInv, Handlers
  <2>2. underway[b] = "write" => underway[b] # None
    BY ServiceQuantitiesAssumption DEF Commands
  <2> QED
    BY <2>1, <2>2 DEF Hand, InFlight
<1>2. CASE Uncoordinated(b) /\ StoreOf(k) = "row"
  <2>1. \A o \in Buyers : KindOf(o)' = KindOf(o)
    BY KindsStay
  <2>2. Uncoordinated(b)'
    BY <1>2, <2>1 DEF Uncoordinated
  <2> QED
    BY <1>1, <1>2, <2>2 DEF Racing, Uncoordinated
<1>3. CASE StoreOf(k) # "row"
  <2>1. StoreOf(k) \in Stores /\ k # KindOf(b)
    BY <1>0, <1>3 DEF Stores, StoreFor
  <2>2. stock'[StoreOf(k)] = stock[StoreOf(k)]
    BY <1>3, <2>1, OverwriteValues
  <2>3. sold'[k] = sold[k]
    BY <2>1 DEF TypeInv, TypeOK
  <2> QED
    BY <2>2, <2>3, OutStays DEF Rests
<1>4. CASE ~Uncoordinated(b)
  <2>1. TakesFromRow(b)
    BY <1>0, <1>1, <1>4, OverwriteTakes
  <2> QED
    BY <1>0, <1>1, <2>1, EffectTake DEF TakesFromRow
<1> QED
  BY <1>2, <1>3, <1>4

\* A step of a request is one of its handler, or its first, or all there is of a request
\* for an adapter that is not here, or its last command takes effect.
TurnedAway(b) == Resolve(b) /\ Respond(b, 400) /\ UNCHANGED disturbed

LEMMA BuyerFlight ==
  ASSUME TypeInv, NEW b \in Buyers, BuyerAct(b)
  PROVE  /\ pc'[b] # "idle"
         /\ \/ InFlight(b) /\ disturbed' = disturbed
            \/ Resolve(b) /\ (disturbed' <=> disturbed \/ Seeding)
            \/ TurnedAway(b)
            \/ RunLate(b) /\ disturbed' = disturbed
<1>0. Hand(b) /\ pc \in [Clients -> Locations] /\ b \in Clients
  BY DEF TypeInv, TypeOK, Handlers
<1>1. CASE Resolve(b)
  <2>1. CASE KindOf(b) \in adapters
    <3>1. disturbed' = (disturbed \/ Seeding) /\ Goto(b, "decrement")
      BY <1>1, <2>1 DEF Resolve
    <3>2. disturbed' <=> disturbed \/ Seeding
      BY <3>1
    <3>3. pc'[b] = "decrement"
      BY <1>0, <3>1 DEF Goto
    <3> QED
      BY <1>1, <3>2, <3>3
  <2>2. CASE KindOf(b) \notin adapters
    BY <1>0, <1>1, <2>2 DEF Resolve, TurnedAway, Respond, Goto
  <2> QED
    BY <2>1, <2>2
<1>2. CASE RunLate(b)
  <2>1. underway[b] # None /\ pc' = pc
    BY <1>2, ServiceQuantitiesAssumption DEF RunLate, Commands
  <2>2. pc[b] # "idle"
    BY <1>0, <2>1 DEF Hand
  <2> QED
    BY <1>2, <2>1, <2>2 DEF RunLate
<1>3. CASE Resent(b)
  BY <1>3 DEF Resent, clientVars, InFlight
<1>4. CASE ~Resolve(b) /\ ~RunLate(b) /\ ~Resent(b)
  <2>1. InFlight(b) /\ disturbed' = disturbed
    BY <1>4 DEF BuyerAct, BuyerStep, Sell, Refuse, ReadRow, WriteRow, Retry, DecrBy, IncrBy, Grant,
                Produce, Refund, Fail, GiveUp, Refused, SetGauge, RecordOversell, InFlight
  <2>2. \E loc \in Locations \ {"idle"} : Goto(b, loc)
    BY <1>4 DEF BuyerAct, BuyerStep, Sell, Refuse, ReadRow, WriteRow, Retry, DecrBy, IncrBy, Grant,
                Produce, Refund, Fail, GiveUp, Refused, SetGauge, RecordOversell, Returned,
                Respond, Locations
  <2> QED
    BY <1>0, <2>1, <2>2 DEF Goto
<1> QED
  BY <1>1, <1>2, <1>3, <1>4

\* Who raced stays under suspicion.
LEMMA RacingStays ==
  ASSUME TypeInv, NEW b \in Buyers, BuyerAct(b), NEW st, Racing(st)
  PROVE  Racing(st)'
<1>1. path' = path /\ \A o \in Buyers : pc[o] # "idle" => pc'[o] # "idle"
  BY BuyerFlight, OtherBuyers
<1>2. \A o \in Buyers : KindOf(o)' = KindOf(o)
  BY <1>1, KindsStay
<1> QED
  BY <1>1, <1>2 DEF Racing, Uncoordinated

\* What any step of a request does to the store of k.
LEMMA BuyerEffect ==
  ASSUME TypeInv, ~disturbed, NEW b \in Buyers, BuyerAct(b), NEW k \in Kinds
  PROVE  Racing(StoreOf(k))' \/ Rests(k) \/ Takes(b, k) \/ Gives(b, k) \/ Queues(b, k)
<1>0. Hand(b) /\ sold \in [Kinds -> Nat]
  BY DEF TypeInv, TypeOK, Handlers
<1>1. path' = path /\ \A o \in Buyers : pc[o] # "idle" => pc'[o] # "idle"
  BY OtherBuyers, BuyerFlight
<1>2. /\ KindOf(b) = "redis_atomic" => StoreFor(b) = "key"
      /\ KindOf(b) = "token_queue" => StoreFor(b) = "quota"
  BY DEF StoreFor, StoreOf
<1>3. CASE Sell(b)
  <2>1. KindOf(b) \in adapters /\ amount[b] <= stock[StoreFor(b)]
    BY <1>0, <1>3 DEF Sell, Hand, InFlight, OneStep, CanTake
  <2>2. sold' = [sold EXCEPT ![KindOf(b)] = @ + amount[b]]
    BY <1>3 DEF Sell, Returned
  <2>3. CanTake(b) /\ Take(b) /\ UNCHANGED <<path, out, back, strayed>>
    BY <1>1, <1>3 DEF Sell, returns
  <2> QED
    BY <2>1, <2>2, <2>3, EffectTake
<1>4. CASE DecrBy(b)
  <2>1. KindOf(b) \in adapters /\ StoreFor(b) = "key"
    BY <1>0, <1>2, <1>4 DEF DecrBy, Hand, InFlight
  <2>2. CanTake(b) /\ Take(b) /\ UNCHANGED <<path, back, strayed>>
    BY <1>1, <1>4 DEF DecrBy
  <2>3. stock["key"] \in Int /\ amount[b] \in Nat
    BY <2>1, <2>2, TakeValues
  <2>4. CASE stock["key"] < amount[b]
    BY <1>4, <2>1, <2>2, <2>4, EffectTake DEF DecrBy
  <2>5. CASE ~(stock["key"] < amount[b])
    <3>1. amount[b] <= stock[StoreFor(b)]
      BY <2>1, <2>3, <2>5
    <3>2. out' = out /\ sold' = [sold EXCEPT ![KindOf(b)] = @ + amount[b]]
      BY <1>4, <2>5 DEF DecrBy, Returned
    <3> QED
      BY <2>1, <2>2, <3>1, <3>2, EffectTake
  <2> QED
    BY <2>4, <2>5
<1>5. CASE Grant(b)
  <2>1. KindOf(b) \in adapters
    BY <1>0, <1>5 DEF Grant, Hand, InFlight
  <2>2. CanTake(b) /\ Take(b) /\ UNCHANGED <<path, back, strayed, sold>> /\ out' = out \cup {b}
    BY <1>1, <1>5 DEF Grant
  <2> QED
    BY <2>1, <2>2, EffectTake
<1>6. CASE IncrBy(b) \/ Refund(b)
  <2>1. KindOf(b) \in adapters /\ stock[StoreFor(b)] # None
    BY <1>0, <1>2, <1>6 DEF IncrBy, Refund, Hand, InFlight
  <2>2. GiveBack(b) /\ sold' = sold
    BY <1>6 DEF IncrBy, Refund, Returned
  <2> QED
    BY <1>1, <2>1, <2>2, EffectGive
<1>7. CASE Produce(b)
  <2>1. /\ pc[b] = "produce" /\ out' = out \ {b} /\ UNCHANGED <<stock, back, strayed>>
        /\ sold' = [sold EXCEPT ![KindOf(b)] = @ + amount[b]]
    BY <1>7 DEF Produce, Returned
  <2>2. StoreFor(b) = "quota" /\ stock["quota"] # None
    BY <1>0, <1>2, <2>1 DEF Hand
  <2>3. CASE StoreOf(k) = "quota"
    <3>1. "quota" \in Stores
      BY <2>3 DEF Stores
    <3>2. stock["quota"] \in Nat
      BY <2>2, <3>1 DEF TypeInv, Handlers
    <3>3. sold'[k] \in {sold[k], sold[k] + amount[b]}
      BY <1>0, <2>1
    <3> QED
      BY <1>1, <2>1, <2>2, <2>3, <3>2, <3>3, OutStays DEF Queues
  <2>4. CASE StoreOf(k) # "quota"
    <3>1. KindOf(b) # k
      BY <2>2, <2>4 DEF StoreFor
    <3>2. sold'[k] = sold[k]
      BY <1>0, <2>1, <3>1
    <3> QED
      BY <1>1, <2>1, <2>2, <2>4, <3>2, OutStays DEF Rests
  <2> QED
    BY <2>3, <2>4
<1>8. CASE WriteRow(b)
  <2>1. sold' = [sold EXCEPT ![KindOf(b)] = @ + amount[b]]
    BY <1>8 DEF WriteRow, Returned
  <2>2. pc[b] = "write" /\ Overwrite(b) /\ UNCHANGED <<out, back, strayed>>
    BY <1>8 DEF WriteRow, returns
  <2> QED
    BY <1>1, <2>1, <2>2, EffectOverwrite
<1>9. CASE Refuse(b) \/ Fail(b) \/ GiveUp(b)
  <2>1. UNCHANGED <<stock, back, strayed, out>>
    BY <1>9 DEF Refuse, Fail, GiveUp, returns
  <2>2. PICK o \in Errors : Returned(b, o, None)
    BY <1>9 DEF Refuse, Fail, GiveUp, Errors
  <2>3. sold' = sold
    BY <2>2 DEF Returned, Errors
  <2> QED
    BY <1>1, <2>1, <2>3, EffectNone
<1>10. CASE \/ Resolve(b) \/ ReadRow(b) \/ Retry(b) \/ Refused(b) \/ SetGauge(b)
            \/ RecordOversell(b)
  <2>1. UNCHANGED <<stock, back, strayed, out, sold>>
    BY <1>10 DEF Resolve, ReadRow, Retry, Refused, SetGauge, RecordOversell, returns
  <2> QED
    BY <1>1, <2>1, EffectNone
<1>11. CASE RunLate(b)
  <2>1. underway[b] \in Commands /\ sold' = sold
    BY <1>11 DEF RunLate, Commands
  <2>2. KindOf(b) \in adapters
    BY <1>0, <2>1, ServiceQuantitiesAssumption DEF Hand
  <2>3. CASE underway[b] = "decrement" /\ CanTake(b) /\ Take(b) /\ UNCHANGED <<read, returns>>
    BY <1>1, <2>1, <2>2, <2>3, EffectTake DEF returns
  <2>4. CASE underway[b] = "write" /\ Overwrite(b) /\ UNCHANGED returns
    BY <1>1, <2>1, <2>4, EffectOverwrite DEF returns
  <2>5. CASE underway[b] = "incrby" /\ GiveBack(b) /\ Compensated(b) /\ UNCHANGED read
    <3>1. stock[StoreFor(b)] # None
      BY <1>0, <1>2, <2>5 DEF Hand
    <3> QED
      BY <1>1, <2>1, <2>2, <2>5, <3>1, EffectGive
  <2> QED
    BY <1>11, <2>3, <2>4, <2>5 DEF RunLate
<1>12. CASE Resent(b)
  <2>1. sold' = sold /\ KindOf(b) \in adapters
    BY <1>0, <1>12 DEF Resent, Hand, InFlight
  <2>2. CASE pc[b] = "decrement" /\ CanTake(b) /\ Take(b) /\ UNCHANGED returns
    BY <1>1, <2>1, <2>2, EffectTake DEF returns
  <2>3. CASE pc[b] = "incrby" /\ GiveBack(b) /\ UNCHANGED took
    <3>1. stock[StoreFor(b)] # None
      BY <1>0, <1>2, <2>3 DEF Hand
    <3> QED
      BY <1>1, <2>1, <2>3, <3>1, EffectGive
  <2> QED
    BY <1>12, <2>2, <2>3 DEF Resent
<1> QED
  BY <1>3, <1>4, <1>5, <1>6, <1>7, <1>8, <1>9, <1>10, <1>11, <1>12 DEF BuyerAct, BuyerStep

\* No step of a request empties a store.
LEMMA BuyerStores ==
  ASSUME TypeInv, NEW b \in Buyers, BuyerAct(b), NEW k \in Kinds, stock[StoreOf(k)] # None
  PROVE  stock'[StoreOf(k)] # None
<1>0. Hand(b) /\ StoreOf(k) \in Stores
  BY DEF TypeInv, Handlers, Stores
<1>1. /\ KindOf(b) = "redis_atomic" => StoreFor(b) = "key"
      /\ KindOf(b) = "token_queue" => StoreFor(b) = "quota"
  BY DEF StoreFor, StoreOf
<1>2. InFlight(b) \/ underway[b] # None => KindOf(b) \in adapters
  BY <1>0 DEF Hand
<1>3. CASE UNCHANGED stock
  BY <1>3
<1>4. ASSUME CanTake(b), Take(b), KindOf(b) \in adapters PROVE stock'[StoreOf(k)] # None
  BY <1>0, <1>4, TakeValues DEF StoresHold
<1>5. ASSUME GiveBack(b), KindOf(b) \in adapters, stock[StoreFor(b)] # None
      PROVE  stock'[StoreOf(k)] # None
  BY <1>0, <1>5, GiveBackValues DEF StoresHold
<1>6. ASSUME Overwrite(b), pc[b] = "write" \/ underway[b] = "write"
      PROVE  stock'[StoreOf(k)] # None
  BY <1>0, <1>6, OverwriteValues DEF StoresHold
<1>7. CASE Sell(b) \/ DecrBy(b) \/ Grant(b)
  BY <1>2, <1>4, <1>7 DEF Sell, DecrBy, Grant, InFlight
<1>8. CASE IncrBy(b) \/ Refund(b)
  <2>1. InFlight(b) /\ GiveBack(b) /\ stock[StoreFor(b)] # None
    BY <1>0, <1>1, <1>8 DEF IncrBy, Refund, InFlight, Hand
  <2> QED
    BY <1>2, <1>5, <2>1
<1>9. CASE WriteRow(b)
  BY <1>6, <1>9 DEF WriteRow
<1>10. CASE RunLate(b)
  <2>1. underway[b] # None
    BY <1>10, ServiceQuantitiesAssumption DEF RunLate, Commands
  <2>2. underway[b] = "incrby" => stock[StoreFor(b)] # None
    BY <1>0, <1>1 DEF Hand
  <2> QED
    BY <1>2, <1>4, <1>5, <1>6, <1>10, <2>1, <2>2 DEF RunLate
<1>11. CASE Resent(b)
  <2>1. InFlight(b) /\ (pc[b] = "incrby" => stock[StoreFor(b)] # None)
    BY <1>0, <1>1, <1>11 DEF Resent, InFlight, Hand
  <2> QED
    BY <1>2, <1>4, <1>5, <1>11, <2>1 DEF Resent
<1> QED
  BY <1>3, <1>7, <1>8, <1>9, <1>10, <1>11
  DEF BuyerAct, BuyerStep, Resolve, Refuse, ReadRow, Retry, Produce, Fail, GiveUp, Refused,
      SetGauge, RecordOversell

-----------------------------------------------------------------------------
(* Seeds that nothing disturbs                                              *)

\* What s has seeded for k is there, but for commands of calls that ended before the seed.
Primed(s, k) ==
  LET st == StoreOf(k)
  IN /\ sold[k] = 0 /\ Out(st) = {} /\ stock[st] # None
     /\ ~Racing(st) => /\ stock[st] <= amount[s] + back[st]
                       /\ st \notin strayed => stock[st] <= amount[s]

Alone(s) == \A c \in Clients \ {s} : ~InFlight(c)

\* Until a seed overlaps a call or fails, the one that runs is alone; and a request that
\* has yet to queue its order has units to give back.
SeedInv ==
  ~disturbed =>
    /\ \A b \in Buyers : pc[b] = "produce" => b \in out
    /\ \A s \in Seeders :
         InFlight(s) => Alone(s) /\ \A k \in adapters \ todo[s] : Primed(s, k)

LEMMA OutKept ==
  ASSUME TypeInv, NEW b \in Buyers, BuyerAct(b)
  PROVE  /\ \A x \in Buyers \ {b} : x \in out => x \in out'
         /\ pc'[b] = "produce" => b \in out'
<1>0. Hand(b) /\ pc \in [Clients -> Locations] /\ b \in Clients
  BY DEF TypeInv, TypeOK, Handlers
<1>1. \A x \in Buyers \ {b} : x \in out => x \in out'
  BY DEF BuyerAct, BuyerStep, Resolve, Sell, Refuse, ReadRow, WriteRow, Retry, DecrBy, IncrBy,
         Grant, Produce, Refund, Fail, GiveUp, RunLate, Resent, Refused, SetGauge,
         RecordOversell, GiveBack, returns
<1>2. CASE Grant(b)
  BY <1>2 DEF Grant
<1>3. CASE RunLate(b)
  <2>1. underway[b] # None /\ pc' = pc
    BY <1>3, ServiceQuantitiesAssumption DEF RunLate, Commands
  <2> QED
    BY <1>0, <1>1, <2>1 DEF Hand
<1>4. CASE Resent(b)
  BY <1>1, <1>4 DEF Resent, clientVars
<1>5. CASE ~Grant(b) /\ ~RunLate(b) /\ ~Resent(b)
  <2>1. \E loc \in Locations \ {"produce"} : Goto(b, loc)
    BY <1>5 DEF BuyerAct, BuyerStep, Resolve, Sell, Refuse, ReadRow, WriteRow, Retry, DecrBy,
                IncrBy, Produce, Refund, Fail, GiveUp, Refused, SetGauge, RecordOversell,
                Returned, Respond, Locations
  <2> QED
    BY <1>0, <1>1, <2>1 DEF Goto
<1> QED
  BY <1>1, <1>2, <1>3, <1>4, <1>5

\* While no seed is disturbed, a request does nothing to a store as one runs, but for a
\* command it left behind.
LEMMA SeedBuyer ==
  ASSUME TypeInv, SeedInv, NEW b \in Buyers, BuyerAct(b), ~disturbed'
  PROVE  /\ ~disturbed /\ (Seeding' <=> Seeding)
         /\ TurnedAway(b) \/ RunLate(b) \/ ~Seeding
<1>1. \A s \in Seeders : InFlight(s)' <=> InFlight(s)
  BY OtherBuyers DEF InFlight
<1>2. Seeding' <=> Seeding
  BY <1>1 DEF Seeding, InFlight
<1>3. CASE InFlight(b) /\ disturbed' = disturbed
  <2>1. ASSUME NEW s \in Seeders, InFlight(s) PROVE FALSE
    BY <1>3, <2>1 DEF SeedInv, Alone
  <2> QED
    BY <1>2, <1>3, <2>1 DEF Seeding
<1>4. CASE ~(InFlight(b) /\ disturbed' = disturbed)
  <2>1. \/ disturbed' <=> disturbed \/ Seeding
        \/ TurnedAway(b)
        \/ RunLate(b) /\ disturbed' = disturbed
    BY <1>4, BuyerFlight
  <2>2. TurnedAway(b) => disturbed' = disturbed
    BY DEF TurnedAway
  <2> QED
    BY <1>2, <2>1, <2>2
<1> QED
  BY <1>3, <1>4

\* A late command leaves no more in a store than was seeded there and given back since.
LEMMA PrimedBuyer ==
  ASSUME TypeInv, ~disturbed, NEW b \in Buyers, BuyerAct(b), TurnedAway(b) \/ RunLate(b),
         NEW s \in Seeders, NEW k \in Kinds, Primed(s, k)
  PROVE  Primed(s, k)'
<1>0. /\ sold[k] = 0 /\ Out(StoreOf(k)) = {} /\ stock[StoreOf(k)] # None
      /\ amount[s] \in Nat /\ amount[b] \in Nat /\ StoreOf(k) \in Stores
      /\ back[StoreOf(k)] \in Nat
  BY DEF Primed, TypeInv, TypeOK, Stores
<1>1. UNCHANGED <<path, amount, sold>> /\ out' \subseteq out
  BY DEF TurnedAway, Resolve, RunLate, GiveBack, request, returns
<1>2. Out(StoreOf(k))' = {}
  <2>1. \A x \in out' : StoreFor(x)' = StoreFor(x) /\ x \in out
    BY <1>1, KindsStay
  <2> QED
    BY <1>0, <2>1 DEF Out
<1>3. sold'[k] = 0 /\ stock'[StoreOf(k)] # None
  BY <1>0, <1>1, BuyerStores
<1>4. ASSUME ~Racing(StoreOf(k))'
      PROVE  /\ stock'[StoreOf(k)] <= amount[s] + back'[StoreOf(k)]
             /\ StoreOf(k) \notin strayed' => stock'[StoreOf(k)] <= amount[s]
  <2>1. ~Racing(StoreOf(k))
    BY <1>4, RacingStays
  <2>2. /\ stock[StoreOf(k)] <= amount[s] + back[StoreOf(k)]
        /\ StoreOf(k) \notin strayed => stock[StoreOf(k)] <= amount[s]
    BY <2>1 DEF Primed
  <2>3. CASE Rests(k) \/ Queues(b, k)
    BY <2>2, <2>3 DEF Rests, Queues
  <2>4. CASE Takes(b, k)
    BY <1>0, <2>2, <2>4 DEF Takes
  <2>5. CASE Gives(b, k)
    BY <1>0, <2>2, <2>5 DEF Gives
  <2> QED
    BY <1>4, <2>3, <2>4, <2>5, BuyerEffect
<1> QED
  BY <1>1, <1>2, <1>3, <1>4 DEF Primed

LEMMA PrimedSeed ==
  ASSUME TypeInv, NEW s \in Seeders, NEW k \in todo[s], SeedAdapter(s, k),
         NEW h \in Kinds, h # k => Primed(s, h)
  PROVE  Primed(s, h)'
<1>0. /\ StoreOf(h) \in Stores /\ amount[s] \in Nat /\ amount[s] # None
      /\ UNCHANGED <<amount, path, pc>>
  BY ServiceQuantitiesAssumption DEF SeedAdapter, request, TypeInv, TypeOK, Stores
<1>1. \A x : StoreFor(x)' = StoreFor(x) /\ KindOf(x)' = KindOf(x)
  BY <1>0, KindsStay
<1>2. PICK new : /\ new = [st \in {"row", StoreOf(k)} |-> amount[s]]
                 /\ Refill(new)
  BY DEF SeedAdapter
<1>3. CASE StoreOf(h) \in {"row", StoreOf(k)}
  <2>1. stock'[StoreOf(h)] = amount[s] /\ back'[StoreOf(h)] = 0 /\ StoreOf(h) \notin strayed'
    BY <1>0, <1>2, <1>3 DEF Refill
  <2>2. sold'[h] = 0
    BY <1>2, <1>3 DEF Refill
  <2>3. Out(StoreOf(h))' = {}
    BY <1>1, <1>2, <1>3 DEF Refill, Out
  <2> QED
    BY <1>0, <2>1, <2>2, <2>3 DEF Primed
<1>4. CASE StoreOf(h) \notin {"row", StoreOf(k)}
  <2>1. /\ stock'[StoreOf(h)] = stock[StoreOf(h)] /\ back'[StoreOf(h)] = back[StoreOf(h)]
        /\ StoreOf(h) \in strayed' <=> StoreOf(h) \in strayed
    BY <1>0, <1>2, <1>4 DEF Refill
  <2>2. sold'[h] = sold[h]
    BY <1>2, <1>4 DEF Refill
  <2>3. Out(StoreOf(h))' = Out(StoreOf(h))
    BY <1>1, <1>2, <1>4 DEF Refill, Out
  <2>4. Racing(StoreOf(h))' <=> Racing(StoreOf(h))
    BY <1>0, <1>1 DEF Racing, Uncoordinated
  <2>5. Primed(s, h)
    BY <1>4
  <2> QED
    BY <1>0, <2>1, <2>2, <2>3, <2>4, <2>5 DEF Primed
<1> QED
  BY <1>3, <1>4

LEMMA SeedInvStep == TypeInv /\ SeedInv /\ [Next]_vars => SeedInv'
<1> SUFFICES ASSUME TypeInv, SeedInv, [Next]_vars, ~disturbed'
             PROVE  /\ \A b \in Buyers : pc'[b] = "produce" => b \in out'
                    /\ \A s \in Seeders :
                         InFlight(s)' => /\ Alone(s)'
                                         /\ \A k \in adapters' \ todo'[s] : Primed(s, k)'
  BY DEF SeedInv
<1>0. \A s \in Seeders : s \in Clients /\ s \notin Buyers
  OBVIOUS
<1>1. ASSUME NEW b \in Buyers, BuyerAct(b)
      PROVE  /\ \A x \in Buyers : pc'[x] = "produce" => x \in out'
             /\ \A s \in Seeders :
                  InFlight(s)' => Alone(s)' /\ \A k \in adapters' \ todo'[s] : Primed(s, k)'
  <2>1. ~disturbed /\ (Seeding' <=> Seeding) /\ (TurnedAway(b) \/ RunLate(b) \/ ~Seeding)
    BY <1>1, SeedBuyer
  <2>2. \A x \in Buyers : pc'[x] = "produce" => x \in out'
    BY <1>1, <2>1, OtherBuyers, OutKept DEF SeedInv
  <2>3. ASSUME NEW s \in Seeders, InFlight(s)'
        PROVE  Alone(s)' /\ \A k \in adapters' \ todo'[s] : Primed(s, k)'
    <3>1. InFlight(s) /\ Seeding
      BY <1>0, <1>1, <2>3, OtherBuyers DEF InFlight, Seeding
    <3>2. Alone(s) /\ \A k \in adapters \ todo[s] : Primed(s, k)
      BY <2>1, <3>1 DEF SeedInv
    <3>3. TurnedAway(b) \/ RunLate(b)
      BY <2>1, <3>1
    <3>4. ~InFlight(b)'
      <4>1. TurnedAway(b) => pc'[b] = "done"
        BY RespondValues DEF TurnedAway, Statuses
      <4>2. RunLate(b) => pc' = pc
        BY DEF RunLate
      <4> QED
        BY <1>0, <3>2, <3>3, <4>1, <4>2 DEF Alone, InFlight
    <3>5. Alone(s)'
      BY <1>1, <3>2, <3>4, OtherBuyers DEF Alone, InFlight
    <3>6. adapters' = adapters /\ todo'[s] = todo[s] /\ adapters \subseteq Kinds
      BY <1>1, OtherBuyers, ServiceKindsAssumption DEF TypeInv, TypeOK
    <3>7. \A k \in adapters' \ todo'[s] : Primed(s, k)'
      BY <1>1, <2>1, <3>2, <3>3, <3>6, PrimedBuyer
    <3> QED
      BY <3>5, <3>7
  <2> QED
    BY <2>2, <2>3
<1>2. ASSUME NEW o \in Seeders, BeginSeed(o)
      PROVE  /\ \A x \in Buyers : pc'[x] = "produce" => x \in out'
             /\ \A s \in Seeders :
                  InFlight(s)' => Alone(s)' /\ \A k \in adapters' \ todo'[s] : Primed(s, k)'
  <2>1. Quiet
    BY <1>2, Zenon DEF BeginSeed
  <2>2. /\ \A c \in Clients \ {o} : pc'[c] = pc[c]
        /\ todo'[o] = adapters /\ adapters' = adapters
    BY <1>2 DEF BeginSeed, Goto, request, TypeInv, TypeOK
  <2>3. \A c \in Clients \ {o} : ~InFlight(c)'
    BY <2>1, <2>2 DEF Quiet, InFlight
  <2>4. \A x \in Buyers : pc'[x] # "produce"
    BY <2>3 DEF InFlight
  <2>5. \A s \in Seeders : InFlight(s)' => s = o
    BY <2>3
  <2>6. Alone(o)'
    BY <2>3 DEF Alone
  <2> QED
    BY <2>2, <2>4, <2>5, <2>6
<1>3. ASSUME NEW o \in Seeders, NEW k \in todo[o], SeedAdapter(o, k)
      PROVE  /\ \A x \in Buyers : pc'[x] = "produce" => x \in out'
             /\ \A s \in Seeders :
                  InFlight(s)' => Alone(s)' /\ \A h \in adapters' \ todo'[s] : Primed(s, h)'
  <2>1. /\ ~disturbed /\ UNCHANGED <<pc, adapters>> /\ InFlight(o)
        /\ todo' = [todo EXCEPT ![o] = @ \ {k}]
    BY <1>3 DEF SeedAdapter, InFlight, request
  <2>2. Alone(o) /\ \A h \in adapters \ todo[o] : Primed(o, h)
    BY <2>1 DEF SeedInv
  <2>3. \A x \in Buyers : pc'[x] # "produce"
    BY <2>1, <2>2 DEF Alone, InFlight
  <2>4. \A s \in Seeders : InFlight(s)' => s = o
    BY <2>1, <2>2 DEF Alone, InFlight
  <2>5. Alone(o)'
    BY <2>1, <2>2 DEF Alone, InFlight
  <2>6. todo'[o] = todo[o] \ {k} /\ adapters \subseteq Kinds
    BY <2>1, ServiceKindsAssumption DEF TypeInv, TypeOK
  <2>7. ASSUME NEW h \in adapters' \ todo'[o] PROVE Primed(o, h)'
    <3>1. h \in Kinds /\ (h # k => Primed(o, h))
      BY <2>1, <2>2, <2>6
    <3> QED
      BY <1>3, <3>1, PrimedSeed
  <2> QED
    BY <2>3, <2>4, <2>5, <2>7
<1>4. ASSUME NEW o \in Seeders, NEW k \in todo[o], SeedFails(o, k) PROVE FALSE
  BY <1>4 DEF SeedFails
<1>5. ASSUME NEW o \in Seeders, ResetTracker(o)
      PROVE  /\ \A x \in Buyers : pc'[x] = "produce" => x \in out'
             /\ \A s \in Seeders :
                  InFlight(s)' => Alone(s)' /\ \A h \in adapters' \ todo'[s] : Primed(s, h)'
  <2>1. Respond(o, 200) /\ 200 \in Statuses /\ ~disturbed /\ InFlight(o)
    BY <1>5 DEF ResetTracker, InFlight, Statuses
  <2>2. Alone(o)
    BY <2>1 DEF SeedInv
  <2>3. \A c \in Clients : ~InFlight(c)'
    BY <2>1, <2>2, RespondValues DEF Alone, InFlight
  <2> QED
    BY <2>3 DEF InFlight
<1>6. CASE Restart
  BY <1>6 DEF Restart, InFlight
<1>7. CASE UNCHANGED vars
  <2>1. UNCHANGED <<pc, out, adapters, todo, path, stock, sold, amount, back, strayed, disturbed>>
    BY <1>7 DEF vars, clientVars, handlerVars, request, returns
  <2>2. \A x : StoreFor(x)' = StoreFor(x) /\ KindOf(x)' = KindOf(x)
    BY <2>1, KindsStay
  <2>3. ASSUME NEW s, NEW k PROVE Primed(s, k)' <=> Primed(s, k)
    BY <2>1, <2>2 DEF Primed, Out, Racing, Uncoordinated
  <2> QED
    BY <2>1, <2>3 DEF SeedInv, Alone, InFlight
<1> QED
  BY <1>1, <1>2, <1>3, <1>4, <1>5, <1>6, <1>7 DEF Next, Finished, SeederStep, BuyerAct

-----------------------------------------------------------------------------
(* The account of an adapter                                                *)

\* The sales of k that the tracker has still to be told.
Owing(k) ==
  {b \in Buyers : pc[b] \in {"classify", "record"} /\ outcome[b] = "ok" /\ KindOf(b) = k}

\* The tracker's count and the sales on their way to it are all that k has sold.
Counted(k) ==
  initialStock[k] # None => orderCount[k] + Total(amount, Owing(k)) = sold[k]

\* What is left, what may come back and what was sold are no more than there was.
Kept(k) ==
  LET st == StoreOf(k)
  IN ~Racing(st) /\ st \notin strayed /\ initialStock[k] # None =>
       /\ stock[st] # None
       /\ stock[st] + Total(amount, Out(st)) + sold[k] <= initialStock[k]
       /\ sold[k] <= initialStock[k]

\* Who has a number to show for k.
Telling(k) == Owing(k) \cup {b \in Buyers : pc[b] = "produce" /\ KindOf(b) = k}

\* Nobody knows of less than is left, but for what was given back.
Shown(k) ==
  LET st == StoreOf(k)
  IN k # "pg_skip_locked" /\ ~Racing(st) =>
       /\ gauge[k] # None => stock[st] # None /\ gauge[k] + back[st] >= stock[st]
       /\ \A b \in Telling(k) : stock[st] # None /\ remaining[b] + back[st] >= stock[st]

Account(k) == ~disturbed /\ ~Seeding => Counted(k) /\ Kept(k) /\ Shown(k)

LEMMA AccountValues ==
  ASSUME TypeInv, NEW k \in Kinds
  PROVE  /\ orderCount[k] \in Nat /\ oversell[k] \in Nat /\ sold[k] \in Nat
         /\ initialStock[k] # None => initialStock[k] \in Nat
         /\ StoreOf(k) \in Stores /\ back[StoreOf(k)] \in Nat
         /\ stock[StoreOf(k)] # None => stock[StoreOf(k)] \in Int
         /\ gauge[k] # None => gauge[k] \in Int
         /\ \A b \in Buyers : amount[b] \in Nat
         /\ \A b \in Telling(k) : remaining[b] \in Int
         /\ Owing(k) \subseteq Telling(k) /\ Telling(k) \subseteq Buyers
         /\ IsFiniteSet(Owing(k)) /\ Total(amount, Owing(k)) \in Nat
<1>1. orderCount[k] \in Nat /\ oversell[k] \in Nat /\ sold[k] \in Nat
  BY DEF TypeInv, TypeOK
<1>2. initialStock[k] \in Maybe(Nat) /\ gauge[k] \in Maybe(Nat \cup {-1})
  BY DEF TypeInv, TypeOK
<1>3. StoreOf(k) \in Stores
  BY DEF Stores
<1>4. stock[StoreOf(k)] \in Maybe(Int) /\ back[StoreOf(k)] \in Nat
  BY <1>3 DEF TypeInv, TypeOK
<1>5. Owing(k) \subseteq Buyers /\ Owing(k) \subseteq Telling(k) /\ Telling(k) \subseteq Buyers
  BY DEF Owing, Telling
<1>6. IsFiniteSet(Owing(k))
  BY <1>5, FS_Subset
<1>7. \A b \in Buyers : amount[b] \in Nat
  BY DEF TypeInv, TypeOK
<1>8. \A b \in Telling(k) : remaining[b] \in Int
  <2> SUFFICES ASSUME NEW b \in Telling(k) PROVE remaining[b] \in Int
    OBVIOUS
  <2>1. Hand(b) /\ remaining[b] \in Maybe(Nat \cup {-1})
    BY <1>5 DEF TypeInv, TypeOK, Handlers
  <2>2. b \in Owing(k) => remaining[b] # None
    BY <2>1 DEF Hand, Owing
  <2>3. b \notin Owing(k) => remaining[b] \in Nat
    BY <2>1 DEF Hand, Telling
  <2> QED
    BY <2>1, <2>2, <2>3 DEF Maybe
<1>9. Total(amount, Owing(k)) \in Nat
  BY <1>5, <1>6, <1>7, TotalType
<1> QED
  BY <1>1, <1>2, <1>3, <1>4, <1>5, <1>6, <1>7, <1>8, <1>9 DEF Maybe

\* What is out, as the buyers in Out come and go.
LEMMA OutTotals ==
  ASSUME TypeInv, NEW st, NEW b \in Buyers
  PROVE  /\ Total(amount, Out(st)) \in Nat /\ amount[b] \in Nat
         /\ Total(amount, Out(st) \cup {b}) \in Nat
         /\ Total(amount, Out(st) \cup {b}) <= Total(amount, Out(st)) + amount[b]
         /\ b \in Out(st) =>
              /\ Total(amount, Out(st) \ {b}) \in Nat
              /\ Total(amount, Out(st)) = Total(amount, Out(st) \ {b}) + amount[b]
<1>1. Out(st) \subseteq Buyers /\ \A x \in Buyers : amount[x] \in Nat
  BY DEF Out, TypeInv, TypeOK
<1>2. IsFiniteSet(Out(st)) /\ IsFiniteSet(Out(st) \ {b})
  BY <1>1, FS_Subset
<1>3. Total(amount, Out(st)) \in Nat /\ Total(amount, Out(st) \ {b}) \in Nat
  BY <1>1, <1>2, TotalType
<1>4. b \in Out(st) => Total(amount, Out(st)) = Total(amount, Out(st) \ {b}) + amount[b]
  BY <1>1, <1>2, TotalRemove
<1>5. CASE b \in Out(st)
  <2>1. Out(st) \cup {b} = Out(st)
    BY <1>5
  <2>2. /\ Total(amount, Out(st) \cup {b}) \in Nat
        /\ Total(amount, Out(st) \cup {b}) <= Total(amount, Out(st)) + amount[b]
    BY <1>1, <1>3, <2>1
  <2> QED
    BY <1>1, <1>3, <1>4, <2>2
<1>6. CASE b \notin Out(st)
  <2>1. Total(amount, Out(st) \cup {b}) = Total(amount, Out(st)) + amount[b]
    BY <1>1, <1>2, <1>6, TotalAdd
  <2> QED
    BY <1>1, <1>3, <1>6, <2>1
<1> QED
  BY <1>5, <1>6

\* A call returns to b: if with units, a sale is owed to the tracker.
LEMMA OwingReturned ==
  ASSUME TypeInv, NEW b \in Buyers, pc[b] \notin {"classify", "record"}, path' = path,
         NEW o, NEW n, Returned(b, o, n), NEW k \in Kinds
  PROVE  /\ b \notin Owing(k)
         /\ IF o = "ok" /\ KindOf(b) = k
            THEN Owing(k)' = Owing(k) \cup {b} /\ sold'[k] = sold[k] + amount[b]
            ELSE Owing(k)' = Owing(k) /\ sold'[k] = sold[k]
<1>1. /\ pc'[b] = "classify" /\ outcome'[b] = o
      /\ \A x \in Buyers \ {b} : pc'[x] = pc[x] /\ outcome'[x] = outcome[x]
  BY DEF Returned, Goto, TypeInv, TypeOK
<1>2. \A x \in Buyers : KindOf(x)' = KindOf(x)
  BY KindsStay
<1>3. b \notin Owing(k)
  BY DEF Owing
<1>4. CASE o = "ok" /\ KindOf(b) = k
  <2>1. Owing(k)' = Owing(k) \cup {b}
    BY <1>1, <1>2, <1>4 DEF Owing
  <2>2. sold'[k] = sold[k] + amount[b]
    BY <1>4 DEF Returned, TypeInv, TypeOK
  <2> QED
    BY <1>3, <1>4, <2>1, <2>2
<1>5. CASE ~(o = "ok" /\ KindOf(b) = k)
  <2>1. Owing(k)' = Owing(k)
    BY <1>1, <1>2, <1>3, <1>5 DEF Owing
  <2>2. sold'[k] = sold[k]
    BY <1>5 DEF Returned, TypeInv, TypeOK
  <2> QED
    BY <1>3, <1>5, <2>1, <2>2
<1> QED
  BY <1>4, <1>5

LEMMA CountedReturned ==
  ASSUME TypeInv, NEW b \in Buyers, pc[b] \notin {"classify", "record"},
         UNCHANGED <<path, amount, initialStock, orderCount>>,
         NEW o, NEW n, Returned(b, o, n), NEW k \in Kinds, Counted(k)
  PROVE  Counted(k)'
<1>1. CASE o = "ok" /\ KindOf(b) = k
  <2>1. Owing(k)' = Owing(k) \cup {b} /\ b \notin Owing(k) /\ sold'[k] = sold[k] + amount[b]
    BY <1>1, OwingReturned
  <2>2. IsFiniteSet(Owing(k)) /\ \A x \in Owing(k) \cup {b} : amount[x] \in Nat
    BY AccountValues
  <2>3. Total(amount, Owing(k) \cup {b}) = Total(amount, Owing(k)) + amount[b]
    BY <2>1, <2>2, TotalAdd
  <2>4. Total(amount, Owing(k))' = Total(amount, Owing(k)) + amount[b]
    BY <2>1, <2>3
  <2> QED
    BY <2>1, <2>4, AccountValues DEF Counted
<1>2. CASE ~(o = "ok" /\ KindOf(b) = k)
  <2>1. Owing(k)' = Owing(k) /\ sold'[k] = sold[k]
    BY <1>2, OwingReturned
  <2> QED
    BY <2>1 DEF Counted
<1> QED
  BY <1>1, <1>2

LEMMA CountedRecord ==
  ASSUME TypeInv, NEW b \in Buyers, RecordOversell(b), NEW k \in Kinds, Counted(k)
  PROVE  Counted(k)'
<1>1. /\ pc[b] = "record" /\ Respond(b, 200) /\ 200 \in Statuses
      /\ UNCHANGED <<initialStock, path, amount, sold>>
      /\ orderCount' = [orderCount EXCEPT ![KindOf(b)] = orderCount[KindOf(b)] + amount[b]]
  BY DEF RecordOversell, request, Statuses
<1>2. /\ pc'[b] = "done"
      /\ \A x \in Buyers \ {b} : pc'[x] = pc[x] /\ outcome'[x] = outcome[x]
  BY <1>1, RespondValues
<1>3. Owing(k)' = Owing(k) \ {b}
  BY <1>1, <1>2, KindsStay DEF Owing
<1>4. CASE KindOf(b) = k
  <2>1. b \in Owing(k)
    BY <1>1, <1>4 DEF Owing, TypeInv, Handlers, Hand
  <2>2. Total(amount, Owing(k)) = Total(amount, Owing(k) \ {b}) + amount[b]
    BY <2>1, AccountValues, TotalRemove
  <2>3. Total(amount, Owing(k) \ {b}) \in Nat
    BY AccountValues, FS_RemoveElement, TotalType
  <2>4. Total(amount, Owing(k))' = Total(amount, Owing(k) \ {b})
    BY <1>1, <1>3
  <2>5. orderCount'[k] = orderCount[k] + amount[b]
    BY <1>1, <1>4 DEF TypeInv, TypeOK
  <2> QED
    BY <1>1, <2>2, <2>3, <2>4, <2>5, AccountValues DEF Counted
<1>5. CASE KindOf(b) # k
  <2>1. b \notin Owing(k)
    BY <1>5 DEF Owing
  <2>2. Owing(k)' = Owing(k)
    BY <1>3, <2>1
  <2>3. orderCount'[k] = orderCount[k]
    BY <1>1, <1>5 DEF TypeInv, TypeOK
  <2> QED
    BY <1>1, <2>2, <2>3 DEF Counted
<1> QED
  BY <1>4, <1>5

\* A step of a request that returns nothing to it and tells the tracker nothing.
LEMMA CountedFrame ==
  ASSUME TypeInv, NEW b \in Buyers, NEW k \in Kinds, Counted(k),
         UNCHANGED <<path, amount, initialStock, orderCount, sold>>,
         \A x \in Buyers \ {b} : pc'[x] = pc[x] /\ outcome'[x] = outcome[x],
         b \in Owing(k)' <=> b \in Owing(k)
  PROVE  Counted(k)'
<1>1. Owing(k)' = Owing(k)
  BY KindsStay DEF Owing
<1> QED
  BY <1>1 DEF Counted

\* No step of a request changes what the tracker knows of the stock, and only the one that
\* tells it changes its counters.
LEMMA BuyerTracker ==
  ASSUME NEW b \in Buyers, BuyerAct(b)
  PROVE  initialStock' = initialStock /\ (~RecordOversell(b) => UNCHANGED tracker)
BY DEF BuyerAct, BuyerStep, Resolve, Sell, Refuse, ReadRow, WriteRow, Retry, DecrBy, IncrBy,
       Grant, Produce, Refund, Fail, GiveUp, RunLate, Resent, Refused, SetGauge,
       RecordOversell, tracker

LEMMA CountedBuyer ==
  ASSUME TypeInv, NEW b \in Buyers, BuyerAct(b), NEW k \in Kinds, Counted(k)
  PROVE  Counted(k)'
<1>0. /\ \A x \in Buyers \ {b} : pc'[x] = pc[x] /\ outcome'[x] = outcome[x]
      /\ UNCHANGED <<path, amount>> /\ Hand(b) /\ pc \in [Clients -> Locations]
  BY OtherBuyers DEF TypeInv, TypeOK, Handlers
<1>1. CASE RecordOversell(b)
  BY <1>1, CountedRecord
<1>2. ~RecordOversell(b) => UNCHANGED <<initialStock, orderCount>>
  BY BuyerTracker DEF tracker
<1>3. ASSUME \E o, n : Returned(b, o, n), pc[b] \notin {"classify", "record"} PROVE Counted(k)'
  BY <1>0, <1>1, <1>2, <1>3, CountedReturned
<1>4. ASSUME UNCHANGED sold, \/ pc'[b] = pc[b] /\ outcome'[b] = outcome[b]
                             \/ /\ pc[b] \notin {"classify", "record"}
                                /\ pc'[b] \notin {"classify", "record"}
                             \/ outcome[b] # "ok" /\ pc'[b] = "done"
                             \/ /\ pc[b] = "classify" /\ pc'[b] = "record"
                                /\ outcome'[b] = outcome[b]
      PROVE  Counted(k)'
  <2>1. KindOf(b)' = KindOf(b)
    BY <1>0, KindsStay
  <2>2. b \in Owing(k)' <=> b \in Owing(k)
    BY <1>4, <2>1 DEF Owing
  <2> QED
    BY <1>0, <1>1, <1>2, <1>4, <2>2, CountedFrame
<1>5. CASE \/ Sell(b) \/ Refuse(b) \/ WriteRow(b) \/ IncrBy(b) \/ Produce(b) \/ Refund(b)
           \/ Fail(b) \/ GiveUp(b)
  <2>1. \E o, n : Returned(b, o, n)
    BY <1>5 DEF Sell, Refuse, WriteRow, IncrBy, Produce, Refund, Fail, GiveUp
  <2>2. pc[b] \notin {"classify", "record"}
    BY <1>5 DEF Sell, Refuse, WriteRow, IncrBy, Produce, Refund, Fail, GiveUp
  <2> QED
    BY <1>3, <2>1, <2>2
<1>6. CASE DecrBy(b)
  <2>1. CASE stock["key"] < amount[b]
    BY <1>0, <1>4, <1>6, <2>1 DEF DecrBy, Goto
  <2>2. CASE ~(stock["key"] < amount[b])
    BY <1>3, <1>6, <2>2 DEF DecrBy
  <2> QED
    BY <2>1, <2>2
<1>7. CASE Resolve(b) \/ ReadRow(b) \/ Retry(b) \/ Grant(b) \/ Refused(b) \/ SetGauge(b)
  BY <1>0, <1>4, <1>7
  DEF Resolve, ReadRow, Retry, Grant, Refused, SetGauge, Respond, Goto, handlerVars
<1>8. CASE RunLate(b) \/ Resent(b)
  BY <1>4, <1>8 DEF RunLate, Resent, clientVars, handlerVars
<1> QED
  BY <1>1, <1>5, <1>6, <1>7, <1>8 DEF BuyerAct, BuyerStep

\* Units leave a store and come back to it, or are sold: no more of them than there were.
LEMMA KeptBuyer ==
  ASSUME TypeInv, ~disturbed, NEW b \in Buyers, BuyerAct(b), pc[b] = "produce" => b \in out,
         NEW k \in Kinds, Kept(k)
  PROVE  Kept(k)'
<1> DEFINE st == StoreOf(k)
<1> SUFFICES ASSUME ~Racing(st)', st \notin strayed', initialStock'[k] # None
             PROVE  /\ stock'[st] # None
                    /\ stock'[st] + Total(amount, Out(st))' + sold'[k] <= initialStock'[k]
                    /\ sold'[k] <= initialStock'[k]
  BY DEF Kept
<1>1. ~Racing(st) /\ UNCHANGED <<amount, initialStock>>
  BY RacingStays, OtherBuyers, BuyerTracker
<1>2. CASE st \in strayed
  BY <1>2, BuyerEffect DEF Rests, Takes, Gives, Queues
<1>3. CASE st \notin strayed
  <2>1. /\ stock[st] # None
        /\ stock[st] + Total(amount, Out(st)) + sold[k] <= initialStock[k]
        /\ sold[k] <= initialStock[k]
    BY <1>1, <1>3 DEF Kept
  <2>2. stock[st] \in Int /\ sold[k] \in Nat /\ initialStock[k] \in Nat
    BY <1>1, <2>1, AccountValues
  <2>3. stock'[st] # None
    BY <2>1, BuyerStores
  <2>4. /\ Total(amount, Out(st)) \in Nat /\ amount[b] \in Nat
        /\ Total(amount, Out(st) \cup {b}) \in Nat
        /\ Total(amount, Out(st) \cup {b}) <= Total(amount, Out(st)) + amount[b]
        /\ b \in Out(st) =>
             /\ Total(amount, Out(st) \ {b}) \in Nat
             /\ Total(amount, Out(st)) = Total(amount, Out(st) \ {b}) + amount[b]
    BY OutTotals
  <2>5. /\ Out(st)' = Out(st) => Total(amount, Out(st))' = Total(amount, Out(st))
        /\ Out(st)' = Out(st) \cup {b} => Total(amount, Out(st))' = Total(amount, Out(st) \cup {b})
        /\ Out(st)' = Out(st) \ {b} => Total(amount, Out(st))' = Total(amount, Out(st) \ {b})
    BY <1>1
  <2>6. CASE Rests(k)
    <3>1. Out(st)' = Out(st) /\ sold'[k] = sold[k] /\ stock'[st] = stock[st]
      BY <2>6 DEF Rests
    <3> QED
      BY <1>1, <2>1, <2>3, <2>5, <3>1
  <2>7. CASE Takes(b, k)
    <3>1. stock'[st] = stock[st] - amount[b]
      BY <2>7 DEF Takes
    <3>2. CASE Out(st)' = Out(st) /\ sold'[k] = sold[k]
      BY <1>1, <2>1, <2>2, <2>3, <2>4, <2>5, <3>1, <3>2
    <3>3. CASE Out(st)' = Out(st) \cup {b} /\ sold'[k] = sold[k]
      BY <1>1, <2>1, <2>2, <2>3, <2>4, <2>5, <3>1, <3>3
    <3>4. CASE /\ Out(st)' = Out(st) /\ sold'[k] = sold[k] + amount[b]
               /\ amount[b] <= stock[st]
      BY <1>1, <2>1, <2>2, <2>3, <2>4, <2>5, <3>1, <3>4
    <3> QED
      BY <2>7, <3>2, <3>3, <3>4 DEF Takes
  <2>8. CASE Gives(b, k)
    <3>1. /\ stock'[st] = stock[st] + amount[b] /\ b \in Out(st)
          /\ Out(st)' = Out(st) \ {b} /\ sold'[k] = sold[k]
      BY <2>8 DEF Gives
    <3> QED
      BY <1>1, <2>1, <2>2, <2>3, <2>4, <2>5, <3>1
  <2>9. CASE Queues(b, k)
    <3>1. /\ stock'[st] = stock[st] /\ b \in Out(st) /\ stock[st] \in Nat
          /\ Out(st)' = Out(st) \ {b} /\ sold'[k] \in {sold[k], sold[k] + amount[b]}
      BY <2>9 DEF Queues, Out
    <3> QED
      BY <1>1, <2>1, <2>2, <2>3, <2>4, <2>5, <3>1
  <2> QED
    BY <2>6, <2>7, <2>8, <2>9, BuyerEffect
<1> QED
  BY <1>2, <1>3

\* A request knows what others know, or what it just left.
LEMMA BuyerTells ==
  ASSUME TypeInv, ~disturbed, NEW b \in Buyers, BuyerAct(b), NEW k \in Kinds, k # "pg_skip_locked",
         ~Racing(StoreOf(k))'
  PROVE  /\ \A x \in Telling(k)' :
              \/ x \in Telling(k) /\ remaining'[x] = remaining[x]
              \/ stock'[StoreOf(k)] \in Int /\ remaining'[x] = stock'[StoreOf(k)]
         /\ gauge'[k] = gauge[k] \/ \E x \in Telling(k) : gauge'[k] = remaining[x]
<1>0. /\ \A x \in Buyers \ {b} : /\ pc'[x] = pc[x] /\ outcome'[x] = outcome[x]
                                 /\ remaining'[x] = remaining[x]
      /\ UNCHANGED path /\ Hand(b) /\ pc \in [Clients -> Locations]
      /\ outcome \in [Buyers -> Maybe(Outcomes)]
      /\ remaining \in [Buyers -> Maybe(Nat \cup {-1})]
  BY OtherBuyers DEF TypeInv, TypeOK, Handlers
<1>1. \A x \in Buyers : KindOf(x)' = KindOf(x)
  BY <1>0, KindsStay
<1>2. \A x \in Telling(k)' :
        x \in Buyers /\ (x # b => x \in Telling(k) /\ remaining'[x] = remaining[x])
  BY <1>0, <1>1 DEF Telling, Owing
<1>3. gauge'[k] = gauge[k] \/ \E x \in Telling(k) : gauge'[k] = remaining[x]
  <2>1. CASE SetGauge(b)
    <3>1. KindOf(b) = k => b \in Telling(k) /\ gauge'[k] = remaining[b]
      BY <1>0, <2>1 DEF SetGauge, Telling, Owing, TypeInv, TypeOK
    <3>2. KindOf(b) # k => gauge'[k] = gauge[k]
      BY <2>1 DEF SetGauge, TypeInv, TypeOK
    <3> QED
      BY <3>1, <3>2
  <2>2. CASE ~SetGauge(b)
    BY <2>2 DEF BuyerAct, BuyerStep, Resolve, Sell, Refuse, ReadRow, WriteRow, Retry, DecrBy,
                IncrBy, Grant, Produce, Refund, Fail, GiveUp, RunLate, Resent, Refused,
                RecordOversell
  <2> QED
    BY <2>1, <2>2
<1>4. ASSUME b \notin Telling(k)' \/ KindOf(b) # k
      PROVE  \A x \in Telling(k)' : x \in Telling(k) /\ remaining'[x] = remaining[x]
  BY <1>1, <1>2, <1>4 DEF Telling, Owing
<1>5. ASSUME NEW n, Returned(b, "ok", n), Take(b), CanTake(b), InFlight(b),
             n = stock[StoreFor(b)] - amount[b], KindOf(b) = k
      PROVE  stock'[StoreOf(k)] \in Int /\ remaining'[b] = stock'[StoreOf(k)]
  <2>1. /\ stock'[StoreOf(k)] = stock[StoreFor(b)] - amount[b]
        /\ stock[StoreFor(b)] \in Int /\ amount[b] \in Nat
    BY <1>0, <1>5, TakeValues DEF Hand, StoreFor
  <2>2. remaining'[b] = n
    BY <1>0, <1>5 DEF Returned
  <2> QED
    BY <1>5, <2>1, <2>2
<1>6. ASSUME NEW o, NEW n, o # "ok", Returned(b, o, n)
      PROVE  \A x \in Telling(k)' : x \in Telling(k) /\ remaining'[x] = remaining[x]
  <2>1. pc'[b] = "classify" /\ outcome'[b] = o
    BY <1>0, <1>6 DEF Returned, Goto
  <2>2. b \notin Telling(k)'
    BY <1>6, <2>1 DEF Telling, Owing
  <2> QED
    BY <1>4, <2>2
<1>7. CASE Sell(b) /\ KindOf(b) = k
  <2>1. /\ Returned(b, "ok", stock[StoreFor(b)] - amount[b])
        /\ Take(b) /\ CanTake(b) /\ InFlight(b)
    BY <1>7 DEF Sell, Reported, InFlight
  <2>2. stock'[StoreOf(k)] \in Int /\ remaining'[b] = stock'[StoreOf(k)]
    BY <1>5, <1>7, <2>1
  <2> QED
    BY <1>2, <1>3, <2>2
<1>8. CASE DecrBy(b) /\ KindOf(b) = k
  <2>1. Take(b) /\ CanTake(b) /\ InFlight(b) /\ StoreFor(b) = "key"
    BY <1>8 DEF DecrBy, InFlight, StoreFor, StoreOf
  <2>2. CASE stock["key"] < amount[b]
    <3>1. pc'[b] = "incrby"
      BY <1>0, <1>8, <2>2 DEF DecrBy, Goto
    <3>2. b \notin Telling(k)'
      BY <3>1 DEF Telling, Owing
    <3> QED
      BY <1>3, <1>4, <3>2
  <2>3. CASE ~(stock["key"] < amount[b])
    <3>1. Returned(b, "ok", stock[StoreFor(b)] - amount[b])
      BY <1>8, <2>1, <2>3 DEF DecrBy
    <3>2. stock'[StoreOf(k)] \in Int /\ remaining'[b] = stock'[StoreOf(k)]
      BY <1>5, <1>8, <2>1, <3>1
    <3> QED
      BY <1>2, <1>3, <3>2
  <2> QED
    BY <2>2, <2>3
<1>9. CASE Grant(b) /\ KindOf(b) = k
  <2>1. /\ Take(b) /\ CanTake(b) /\ InFlight(b) /\ StoreFor(b) = "quota" /\ StoreOf(k) = "quota"
        /\ remaining'[b] = stock["quota"] - amount[b]
    BY <1>0, <1>9 DEF Grant, InFlight, StoreFor, StoreOf
  <2>2. /\ stock'[StoreOf(k)] = stock["quota"] - amount[b]
        /\ stock["quota"] \in Int /\ amount[b] \in Nat
    BY <1>0, <2>1, TakeValues DEF Hand
  <2>3. stock'[StoreOf(k)] \in Int /\ remaining'[b] = stock'[StoreOf(k)]
    BY <2>1, <2>2
  <2> QED
    BY <1>2, <1>3, <2>3
<1>10. CASE Produce(b) /\ KindOf(b) = k
  <2>1. b \in Telling(k) /\ remaining'[b] = remaining[b]
    BY <1>0, <1>10 DEF Produce, Returned, Telling
  <2> QED
    BY <1>2, <1>3, <2>1
<1>11. CASE WriteRow(b) /\ KindOf(b) = k
  <2>1. /\ pc[b] = "write" /\ Overwrite(b) /\ Returned(b, "ok", read[b] - amount[b])
        /\ KindOf(b) \in ReadFirst
    BY <1>0, <1>11 DEF WriteRow, Hand
  <2>2. StoreFor(b) = "row" /\ StoreOf(k) = "row" /\ KindOf(b) \in adapters
    BY <1>0, <1>11, <2>1 DEF StoreFor, StoreOf, ReadFirst, RowKinds, Hand, InFlight
  <2>3. ~Uncoordinated(b)
    <3>1. Uncoordinated(b) => Racing("row")
      BY <2>1 DEF Racing
    <3> QED
      BY <2>2, <3>1, RacingStays
  <2>4. TakesFromRow(b) /\ read[b] = stock["row"]
    BY <2>1, <2>2, <2>3, OverwriteTakes DEF Overwrite
  <2>5. InFlight(b) /\ Take(b) /\ CanTake(b) /\ Returned(b, "ok", stock[StoreFor(b)] - amount[b])
    BY <2>1, <2>2, <2>4 DEF InFlight, TakesFromRow
  <2>6. stock'[StoreOf(k)] \in Int /\ remaining'[b] = stock'[StoreOf(k)]
    BY <1>5, <1>11, <2>5
  <2> QED
    BY <1>2, <1>3, <2>6
<1>12. CASE Refuse(b) \/ IncrBy(b) \/ Refund(b) \/ Fail(b) \/ GiveUp(b)
  <2>1. PICK o \in Errors : Returned(b, o, None)
    BY <1>12 DEF Refuse, IncrBy, Refund, Fail, GiveUp, Errors
  <2> QED
    BY <1>3, <1>6, <2>1 DEF Errors
<1>13. CASE Resolve(b) \/ ReadRow(b) \/ Retry(b) \/ Refused(b) \/ RecordOversell(b)
  <2>1. pc'[b] \in {"decrement", "write", "done"}
    BY <1>0, <1>13 DEF Resolve, ReadRow, Retry, Refused, RecordOversell, Respond, Goto
  <2>2. b \notin Telling(k)'
    BY <2>1 DEF Telling, Owing
  <2> QED
    BY <1>3, <1>4, <2>2
<1>14. CASE SetGauge(b)
  <2>1. /\ pc[b] = "classify" /\ outcome[b] = "ok" /\ remaining' = remaining
        /\ KindOf(b)' = KindOf(b)
    BY <1>1, <1>14 DEF SetGauge, handlerVars
  <2>2. b \in Telling(k)' => b \in Telling(k)
    BY <1>1, <2>1 DEF Telling, Owing
  <2> QED
    BY <1>2, <1>3, <2>1, <2>2
<1>15. CASE RunLate(b) \/ Resent(b)
  <2>1. UNCHANGED <<pc, outcome, remaining>>
    BY <1>15 DEF RunLate, Resent, clientVars, handlerVars
  <2>2. Telling(k)' = Telling(k)
    BY <1>1, <2>1 DEF Telling, Owing
  <2> QED
    BY <1>3, <2>1, <2>2
<1> QED
  BY <1>3, <1>4, <1>7, <1>8, <1>9, <1>10, <1>11, <1>12, <1>13, <1>14, <1>15
  DEF BuyerAct, BuyerStep

LEMMA ShownBuyer ==
  ASSUME TypeInv, ~disturbed, NEW b \in Buyers, BuyerAct(b), NEW k \in Kinds, Shown(k)
  PROVE  Shown(k)'
<1> DEFINE st == StoreOf(k)
<1> SUFFICES ASSUME k # "pg_skip_locked", ~Racing(st)'
             PROVE  /\ gauge'[k] # None => /\ stock'[st] # None
                                           /\ gauge'[k] + back'[st] >= stock'[st]
                    /\ \A x \in Telling(k)' : /\ stock'[st] # None
                                              /\ remaining'[x] + back'[st] >= stock'[st]
  BY DEF Shown
<1>1. /\ gauge[k] # None => stock[st] # None /\ gauge[k] + back[st] >= stock[st]
      /\ \A x \in Telling(k) : stock[st] # None /\ remaining[x] + back[st] >= stock[st]
  BY RacingStays DEF Shown
<1>2. /\ back[st] \in Nat /\ amount[b] \in Nat
      /\ stock[st] # None => stock[st] \in Int
  BY AccountValues
<1>3. stock[st] # None => /\ stock'[st] # None /\ stock'[st] \in Int /\ back'[st] \in Nat
                          /\ stock'[st] - back'[st] <= stock[st] - back[st]
  <2>1. CASE Rests(k) \/ Queues(b, k)
    BY <1>2, <2>1 DEF Rests, Queues
  <2>2. CASE Takes(b, k)
    BY <1>2, <2>2, ServiceQuantitiesAssumption DEF Takes
  <2>3. CASE Gives(b, k)
    BY <1>2, <2>3, ServiceQuantitiesAssumption DEF Gives
  <2> QED
    BY <2>1, <2>2, <2>3, BuyerEffect
<1>4. ASSUME NEW n \in Int, stock[st] # None, n + back[st] >= stock[st]
      PROVE  stock'[st] # None /\ n + back'[st] >= stock'[st]
  BY <1>2, <1>3, <1>4
<1>5. back'[st] \in Nat
  BY BuyerType, AccountValues DEF TypeInv, TypeOK, Stores
<1>6. ASSUME NEW x \in Telling(k)'
      PROVE  stock'[st] # None /\ remaining'[x] + back'[st] >= stock'[st]
  <2>1. CASE x \in Telling(k) /\ remaining'[x] = remaining[x]
    BY <1>1, <1>4, <2>1, AccountValues
  <2>2. CASE stock'[st] \in Int /\ remaining'[x] = stock'[st]
    <3>1. stock'[st] # None
      BY <2>2, ServiceQuantitiesAssumption
    <3> QED
      BY <1>5, <2>2, <3>1
  <2> QED
    BY <2>1, <2>2, BuyerTells
<1>7. ASSUME gauge'[k] # None
      PROVE  stock'[st] # None /\ gauge'[k] + back'[st] >= stock'[st]
  <2>1. CASE gauge'[k] = gauge[k]
    BY <1>1, <1>4, <1>7, <2>1, AccountValues
  <2>2. CASE \E x \in Telling(k) : gauge'[k] = remaining[x]
    BY <1>1, <1>4, <2>2, AccountValues
  <2> QED
    BY <2>1, <2>2, BuyerTells
<1> QED
  BY <1>6, <1>7

LEMMA AccountBuyer ==
  ASSUME TypeInv, SeedInv, NEW b \in Buyers, BuyerAct(b), NEW k \in Kinds, Account(k)
  PROVE  Account(k)'
<1> SUFFICES ASSUME ~disturbed', ~Seeding' PROVE Counted(k)' /\ Kept(k)' /\ Shown(k)'
  BY DEF Account
<1>1. ~disturbed /\ ~Seeding
  BY SeedBuyer
<1>2. Counted(k) /\ Kept(k) /\ Shown(k)
  BY <1>1 DEF Account
<1>3. pc[b] = "produce" => b \in out
  BY <1>1 DEF SeedInv
<1> QED
  BY <1>1, <1>2, <1>3, CountedBuyer, KeptBuyer, ShownBuyer

LEMMA AccountSeeder ==
  ASSUME TypeInv, SeedInv, NEW s \in Seeders, SeederStep(s), NEW k \in Kinds, Account(k)
  PROVE  Account(k)'
<1> DEFINE st == StoreOf(k)
<1> SUFFICES ASSUME ~disturbed', ~Seeding' PROVE Counted(k)' /\ Kept(k)' /\ Shown(k)'
  BY DEF Account
<1>1. ResetTracker(s)
  <2>1. ASSUME BeginSeed(s) \/ \E h \in todo[s] : SeedAdapter(s, h) PROVE FALSE
    <3>1. pc'[s] = "seed"
      BY <2>1 DEF BeginSeed, SeedAdapter, Goto, TypeInv, TypeOK
    <3> QED
      BY <3>1 DEF Seeding, InFlight
  <2> QED
    BY <2>1 DEF SeederStep, SeedFails
<1>2. /\ Respond(s, 200) /\ 200 \in Statuses /\ pc[s] = "seed" /\ todo[s] = {}
      /\ initialStock'[k] = (IF k \in adapters THEN amount[s] ELSE None)
      /\ gauge'[k] = (IF k \in adapters THEN amount[s] ELSE None) /\ orderCount'[k] = 0
      /\ UNCHANGED <<stock, path, amount, sold, out, back, strayed, disturbed>>
  BY <1>1 DEF ResetTracker, Statuses, request, returns
<1>3. Alone(s) /\ (k \in adapters => Primed(s, k)) /\ amount[s] \in Nat /\ amount[s] # None
  BY <1>2, ServiceQuantitiesAssumption DEF SeedInv, InFlight, TypeInv, TypeOK
<1>4. \A b \in Buyers : pc'[b] \in {"idle", "done"}
  BY <1>2, <1>3, RespondValues DEF Alone, InFlight
<1>5. Owing(k)' = {} /\ Telling(k)' = {}
  BY <1>4 DEF Owing, Telling
<1>6. Total(amount, Owing(k))' = 0
  BY <1>5, TotalEmpty
<1>7. CASE k \notin adapters
  BY <1>2, <1>5, <1>7 DEF Counted, Kept, Shown
<1>8. CASE k \in adapters
  <2>1. sold[k] = 0 /\ Out(st) = {} /\ stock[st] # None
    BY <1>3, <1>8 DEF Primed
  <2>2. Out(st)' = {}
    BY <1>2, <2>1, KindsStay DEF Out
  <2>3. Total(amount, Out(st))' = 0
    BY <2>2, TotalEmpty
  <2>4. Racing(st)' \/ ~Racing(st)
    <3>1. \A b \in Buyers : pc'[b] = pc[b] /\ KindOf(b)' = KindOf(b)
      BY <1>2, KindsStay, RespondValues
    <3> QED
      BY <3>1 DEF Racing, Uncoordinated
  <2>5. ~Racing(st)' => /\ stock[st] <= amount[s] + back[st]
                        /\ st \notin strayed => stock[st] <= amount[s]
    BY <1>3, <1>8, <2>4 DEF Primed
  <2>6. stock[st] \in Int /\ back[st] \in Nat
    BY <2>1, AccountValues
  <2>7. Counted(k)'
    BY <1>2, <1>3, <1>6, <1>8, <2>1 DEF Counted
  <2>8. Kept(k)'
    <3>1. /\ initialStock'[k] = amount[s] /\ sold'[k] = 0
          /\ stock'[st] = stock[st] /\ strayed' = strayed
      BY <1>2, <1>8, <2>1
    <3> QED
      BY <1>3, <2>1, <2>3, <2>5, <2>6, <3>1 DEF Kept
  <2>9. Shown(k)'
    <3>1. gauge'[k] = amount[s] /\ stock'[st] = stock[st] /\ back'[st] = back[st]
      BY <1>2, <1>8
    <3> QED
      BY <1>3, <1>5, <2>1, <2>5, <2>6, <3>1 DEF Shown
  <2> QED
    BY <2>7, <2>8, <2>9
<1> QED
  BY <1>7, <1>8

LEMMA AccountRestart ==
  ASSUME Restart, NEW k \in Kinds
  PROVE  Account(k)'
<1>1. initialStock'[k] = None /\ gauge'[k] = None
  BY DEF Restart
<1>2. Owing(k)' = {} /\ Telling(k)' = {}
  BY DEF Restart, InFlight, Owing, Telling
<1> QED
  BY <1>1, <1>2 DEF Account, Counted, Kept, Shown

LEMMA AccountStutter ==
  ASSUME UNCHANGED vars, NEW k \in Kinds, Account(k)
  PROVE  Account(k)'
<1>1. UNCHANGED <<pc, out, path, stock, sold, amount, back, strayed, disturbed, initialStock,
                  orderCount, gauge, outcome, remaining>>
  BY DEF vars, clientVars, handlerVars, request, returns, tracker
<1>2. \A x : StoreFor(x)' = StoreFor(x) /\ KindOf(x)' = KindOf(x)
  BY <1>1, KindsStay
<1>3. Owing(k)' = Owing(k) /\ Telling(k)' = Telling(k) /\ Out(StoreOf(k))' = Out(StoreOf(k))
  BY <1>1, <1>2 DEF Owing, Telling, Out
<1>4. Racing(StoreOf(k))' <=> Racing(StoreOf(k))
  BY <1>1, <1>2 DEF Racing, Uncoordinated
<1>5. Counted(k)' <=> Counted(k)
  BY <1>1, <1>3 DEF Counted
<1>6. Kept(k)' <=> Kept(k)
  BY <1>1, <1>3, <1>4 DEF Kept
<1>7. Shown(k)' <=> Shown(k)
  BY <1>1, <1>3, <1>4 DEF Shown
<1>8. (disturbed' <=> disturbed) /\ (Seeding' <=> Seeding)
  BY <1>1 DEF Seeding, InFlight
<1> QED
  BY <1>5, <1>6, <1>7, <1>8 DEF Account

\* No alarm is left out.
Alarm(k) == initialStock[k] # None /\ orderCount[k] > initialStock[k] => oversell[k] > 0

LEMMA AlarmRecord ==
  ASSUME TypeInv, NEW b \in Buyers, RecordOversell(b), NEW k \in Kinds, Alarm(k)
  PROVE  Alarm(k)'
<1>1. /\ initialStock' = initialStock
      /\ orderCount' = [orderCount EXCEPT ![KindOf(b)] = orderCount[KindOf(b)] + amount[b]]
      /\ oversell' = IF /\ initialStock[KindOf(b)] # None
                        /\ orderCount[KindOf(b)] + amount[b] > initialStock[KindOf(b)]
                     THEN [oversell EXCEPT ![KindOf(b)] = @ + 1] ELSE oversell
  BY DEF RecordOversell
<1>2. orderCount \in [Kinds -> Nat] /\ oversell \in [Kinds -> Nat] /\ amount[b] \in Nat
  BY DEF TypeInv, TypeOK
<1>3. CASE KindOf(b) # k
  <2>1. orderCount'[k] = orderCount[k] /\ oversell'[k] = oversell[k]
    BY <1>1, <1>2, <1>3
  <2> QED
    BY <1>1, <2>1 DEF Alarm
<1>4. CASE KindOf(b) = k
  <2>1. orderCount'[k] = orderCount[k] + amount[b]
    BY <1>1, <1>2, <1>4
  <2>2. CASE initialStock[k] # None /\ orderCount[k] + amount[b] > initialStock[k]
    <3>1. oversell'[k] = oversell[k] + 1 /\ oversell[k] \in Nat
      BY <1>1, <1>2, <1>4, <2>2
    <3> QED
      BY <3>1 DEF Alarm
  <2>3. CASE ~(initialStock[k] # None /\ orderCount[k] + amount[b] > initialStock[k])
    BY <1>1, <2>1, <2>3 DEF Alarm
  <2> QED
    BY <2>2, <2>3
<1> QED
  BY <1>3, <1>4

LEMMA AlarmStep ==
  ASSUME TypeInv, [Next]_vars, NEW k \in Kinds, Alarm(k)
  PROVE  Alarm(k)'
<1>1. ASSUME UNCHANGED tracker PROVE Alarm(k)'
  BY <1>1 DEF Alarm, tracker
<1>2. ASSUME NEW b \in Buyers, BuyerAct(b) PROVE Alarm(k)'
  BY <1>1, <1>2, AlarmRecord, BuyerTracker
<1>3. ASSUME NEW s \in Seeders, ResetTracker(s) PROVE Alarm(k)'
  <2>1. /\ initialStock'[k] # None => initialStock'[k] = amount[s]
        /\ orderCount'[k] = 0 /\ oversell' = oversell /\ amount[s] \in Nat
    BY <1>3 DEF ResetTracker, TypeInv, TypeOK
  <2> QED
    BY <2>1 DEF Alarm
<1>4. ASSUME NEW s \in Seeders, SeederStep(s), ~ResetTracker(s) PROVE Alarm(k)'
  BY <1>1, <1>4 DEF SeederStep, SeedFails, BeginSeed, SeedAdapter
<1>5. CASE Restart
  BY <1>5 DEF Restart, Alarm
<1>6. CASE UNCHANGED vars
  BY <1>1, <1>6 DEF vars
<1> QED
  BY <1>2, <1>3, <1>4, <1>5, <1>6 DEF Next, Finished, BuyerAct

-----------------------------------------------------------------------------
(* What the tracker and the gauge say                                       *)

TrackerInv == TypeInv /\ SeedInv /\ \A k \in Kinds : Account(k) /\ Alarm(k)

LEMMA TrackerInit == Init => TrackerInv
<1> SUFFICES ASSUME Init PROVE TrackerInv
  OBVIOUS
<1>1. SeedInv
  BY DEF Init, SeedInv, InFlight
<1>2. ASSUME NEW k \in Kinds PROVE Account(k) /\ Alarm(k)
  <2>1. initialStock[k] = None /\ gauge[k] = None
    BY <1>2 DEF Init
  <2>2. Owing(k) = {} /\ Telling(k) = {}
    BY DEF Init, Owing, Telling
  <2> QED
    BY <2>1, <2>2 DEF Account, Counted, Kept, Shown, Alarm
<1> QED
  BY <1>1, <1>2, ServiceTypeInit DEF TrackerInv

LEMMA TrackerStep == TrackerInv /\ [Next]_vars => TrackerInv'
<1> SUFFICES ASSUME TrackerInv, [Next]_vars PROVE TrackerInv'
  OBVIOUS
<1>1. TypeInv /\ SeedInv /\ TypeInv' /\ SeedInv'
  BY ServiceTypeStep, SeedInvStep DEF TrackerInv
<1>2. ASSUME NEW k \in Kinds PROVE Account(k)' /\ Alarm(k)'
  <2>1. Account(k) /\ Alarm(k)
    BY DEF TrackerInv
  <2>2. Account(k)'
    BY <1>1, <2>1, AccountBuyer, AccountSeeder, AccountRestart, AccountStutter
    DEF Next, Finished, BuyerAct
  <2>3. Alarm(k)'
    BY <1>1, <2>1, AlarmStep
  <2> QED
    BY <2>2, <2>3
<1> QED
  BY <1>1, <1>2 DEF TrackerInv

\* An alarm goes off only when an adapter sold more than was seeded; then somebody
\* raced at its store, a seed was disturbed, or the store got units that were not out.
LEMMA AlarmCause ==
  ASSUME TrackerInv, [Next]_vars, NEW k \in Kinds, oversell'[k] > oversell[k],
         ~disturbed, ~Racing(StoreOf(k)), StoreOf(k) \notin strayed
  PROVE  FALSE
<1>0. TypeInv /\ SeedInv /\ Account(k) /\ oversell \in [Kinds -> Nat]
  BY DEF TrackerInv, TypeInv, TypeOK
<1>1. oversell'[k] # oversell[k]
  BY <1>0
<1>2. PICK b \in Buyers : RecordOversell(b)
  <2>1. ASSUME NEW b \in Buyers, BuyerAct(b), ~RecordOversell(b) PROVE FALSE
    BY <1>1, <2>1, BuyerTracker DEF tracker
  <2>2. ASSUME NEW s \in Seeders, SeederStep(s) PROVE FALSE
    BY <1>1, <2>2 DEF SeederStep, BeginSeed, SeedAdapter, SeedFails, ResetTracker, tracker
  <2>3. CASE Restart
    BY <1>0, <2>3 DEF Restart
  <2>4. CASE UNCHANGED vars
    BY <1>1, <2>4 DEF vars, tracker
  <2> QED
    BY <2>1, <2>2, <2>3, <2>4 DEF Next, Finished, BuyerAct
<1>3. /\ KindOf(b) = k /\ pc[b] = "record" /\ initialStock[k] # None
      /\ orderCount[k] + amount[b] > initialStock[k]
  BY <1>0, <1>1, <1>2 DEF RecordOversell
<1>4. ~Seeding
  BY <1>0, <1>3 DEF SeedInv, Seeding, Alone, InFlight
<1>5. orderCount[k] + Total(amount, Owing(k)) = sold[k] /\ sold[k] <= initialStock[k]
  BY <1>0, <1>3, <1>4 DEF Account, Counted, Kept
<1>6. b \in Owing(k)
  BY <1>0, <1>3 DEF Owing, TypeInv, Handlers, Hand
<1>7. amount[b] <= Total(amount, Owing(k))
  BY <1>0, <1>6, AccountValues, TotalAtLeast
<1> QED
  BY <1>0, <1>3, <1>5, <1>7, AccountValues

\* The counter of an adapter goes up only with requests on the same row that may write over
\* each other, after a seed that overlapped a call or failed, or after units came to the
\* store that were not out.
THEOREM AlarmsHaveACause == Spec => NoFalseAlarm
<1>1. TrackerInv /\ [Next]_vars =>
        [\A k \in Kinds : oversell'[k] > oversell[k] =>
           disturbed \/ Racing(StoreOf(k)) \/ StoreOf(k) \in strayed]_vars
  BY AlarmCause
<1> QED
  BY <1>1, TrackerInit, TrackerStep, PTL DEF Spec, NoFalseAlarm

\* Once all calls have returned, more sold than seeded has raised the alarm.
THEOREM OversellsAreCounted == Spec => []NoMissedOversell
<1>1. TrackerInv => NoMissedOversell
  <2> SUFFICES ASSUME TrackerInv, Quiet, ~disturbed, NEW k \in Kinds,
                      initialStock[k] # None, sold[k] > initialStock[k]
               PROVE  oversell[k] > 0
    BY DEF NoMissedOversell
  <2>1. ~Seeding
    BY DEF Quiet, Seeding
  <2>2. Owing(k) = {}
    BY DEF Owing, Quiet, InFlight
  <2>3. Total(amount, Owing(k)) = 0
    BY <2>2, TotalEmpty
  <2>4. orderCount[k] + Total(amount, Owing(k)) = sold[k] /\ Alarm(k)
    BY <2>1 DEF TrackerInv, Account, Counted
  <2>5. orderCount[k] = sold[k]
    BY <2>3, <2>4, AccountValues DEF TrackerInv
  <2> QED
    BY <2>4, <2>5 DEF Alarm
<1> QED
  BY <1>1, TrackerInit, TrackerStep, PTL DEF Spec

\* The gauge of a row, a key, an owner or a quota shows no less than is left there, but
\* for the units that calls gave back since the seed.
THEOREM GaugesNeverUnderstate == Spec => []GaugeNeverUnderstates
<1>1. TrackerInv => GaugeNeverUnderstates
  BY DEF TrackerInv, Account, Shown, GaugeNeverUnderstates
<1> QED
  BY <1>1, TrackerInit, TrackerStep, PTL DEF Spec

=============================================================================
