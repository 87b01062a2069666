------------------------- MODULE PgSkipLockedProofs -------------------------
(***************************************************************************)
(* Theorems about pg_skip_locked, for any number of buyers and seeds, any   *)
(* size of the pile and any order in which a claim visits it.               *)
(***************************************************************************)
EXTENDS PgSkipLocked, FiniteSetTheorems, TLAPS

USE TicketClientsAssumption DEF Clients

\* A call that runs has no answer and no tickets of its own yet.
CallsInOrder ==
  /\ \A c \in Clients : pc[c] # "done" => answer[c] = None
  /\ \A b \in Buyers :
       /\ pc[b] \in BuyerLocations
       /\ amount[b] \in Nat \ {0}
       /\ got[b] # {} => pc[b] = "done"
  /\ \A s \in Seeders : pc[s] \in SeederLocations

\* Row locks: a ticket has one owner at most, buyers own tickets that are for sale, and
\* a transaction that has ended owns nothing.
Locks ==
  /\ \A c, o \in Clients : c # o => held[c] \cap held[o] = {}
  /\ \A b \in Buyers :
       /\ held[b] \subseteq Unclaimed
       /\ pc[b] \in {"idle", "exists", "done"} => held[b] = {}
       /\ pc[b] = "claim" => Cardinality(held[b]) <= amount[b]
       /\ pc[b] \in {"insert", "commit"} => Cardinality(held[b]) = amount[b]
  /\ \A s \in Seeders :
       /\ held[s] \subseteq pile
       /\ pc[s] # "clear" => held[s] = {}

TypeInv == TypeOK /\ CallsInOrder
LockInv == TypeInv /\ Locks

-----------------------------------------------------------------------------
(* Types                                                                    *)

LEMMA TicketTypeInit == Init => LockInv
<1> SUFFICES ASSUME Init PROVE LockInv
  OBVIOUS
<1>1. PICK n \in StartStocks : lastId = IF n = None THEN 0 ELSE n
  BY DEF Init
<1>2. lastId \in Nat
  BY <1>1, TicketQuantitiesAssumption
<1>3. /\ amount \in [Clients -> Nat]
      /\ \A b \in Buyers : amount[b] \in Nat \ {0}
  BY TicketQuantitiesAssumption DEF Init
<1>4. /\ pile = 1 .. lastId /\ claimed = {} /\ seeded = lastId /\ sold = 0 /\ product \in BOOLEAN
      /\ undone = {} /\ overlap = FALSE
      /\ pc \in [Clients -> BuyerLocations \cup SeederLocations]
      /\ visit \in [Clients -> SUBSET (1 .. lastId)] /\ held \in [Clients -> SUBSET (1 .. lastId)]
      /\ answer \in [Clients -> Answers \cup {None}]
      /\ got \in [Buyers -> SUBSET (1 .. lastId)] /\ orders \in [Buyers -> {0, 1}]
  BY DEF Init, BuyerLocations
<1>5. TypeOK
  BY <1>2, <1>3, <1>4 DEF TypeOK
<1>6. CallsInOrder
  BY <1>3 DEF Init, CallsInOrder, BuyerLocations, SeederLocations
<1>7. Locks
  BY DEF Init, Locks
<1> QED
  BY <1>5, <1>6, <1>7 DEF LockInv, TypeInv

\* All sets of tickets are finite.
LEMMA TicketsFinite ==
  ASSUME TypeInv, NEW T, T \subseteq 1 .. lastId
  PROVE  IsFiniteSet(T) /\ Cardinality(T) \in Nat
<1>1. lastId \in Nat
  BY DEF TypeInv, TypeOK
<1>2. IsFiniteSet(1 .. lastId)
  BY <1>1, FS_Interval
<1> QED
  BY <1>2, FS_Subset, FS_CardinalityType

\* The end of a call.
LEMMA ReturnType ==
  ASSUME TypeInv, NEW c \in Clients, NEW a \in Answers, Return(c, a)
  PROVE  /\ pc' \in [Clients -> BuyerLocations \cup SeederLocations]
         /\ answer' \in [Clients -> Answers \cup {None}]
         /\ visit' \in [Clients -> SUBSET (1 .. lastId)]
         /\ held' \in [Clients -> SUBSET (1 .. lastId)]
         /\ amount' = amount
         /\ pc'[c] = "done" /\ answer'[c] = a /\ held'[c] = {} /\ visit'[c] = {}
         /\ \A o \in Clients \ {c} :
              /\ pc'[o] = pc[o] /\ answer'[o] = answer[o]
              /\ held'[o] = held[o] /\ visit'[o] = visit[o]
BY DEF Return, Goto, TypeInv, TypeOK, BuyerLocations, SeederLocations

LEMMA MoveType ==
  ASSUME TypeInv, NEW c \in Clients, NEW loc, Goto(c, loc),
         loc \in IF c \in Buyers THEN BuyerLocations \ {"done"} ELSE SeederLocations \ {"done"},
         pc[c] # "done", UNCHANGED <<answer, amount, got>>
  PROVE  pc' \in [Clients -> BuyerLocations \cup SeederLocations] /\ CallsInOrder'
<1>1. pc' \in [Clients -> BuyerLocations \cup SeederLocations]
  BY DEF Goto, TypeInv, TypeOK
<1>2. CallsInOrder'
  BY DEF Goto, TypeInv, TypeOK, CallsInOrder
<1> QED
  BY <1>1, <1>2

LEMMA RollBackType ==
  ASSUME TypeInv, NEW b \in Buyers, NEW a \in Answers, pc[b] # "done", RollBack(b, a)
  PROVE  TypeInv'
<1>1. Return(b, a) /\ UNCHANGED <<tables, got, seeded, sold, overlap>>
  BY DEF RollBack
<1>2. undone' \subseteq Buyers
  BY DEF RollBack, TypeInv, TypeOK
<1>3. TypeOK'
  BY <1>1, <1>2, ReturnType DEF tables, TypeInv, TypeOK
<1>4. CallsInOrder'
  BY <1>1, ReturnType DEF TypeInv, CallsInOrder, BuyerLocations
<1> QED
  BY <1>3, <1>4 DEF TypeInv

LEMMA BuyerType ==
  ASSUME LockInv, NEW b \in Buyers, BuyerStep(b) \/ Commit(b, "error") \/ BuyerFail(b)
  PROVE  TypeInv'
<1> USE DEF LockInv
<1>1. CASE BeginClaim(b)
  <2>1. UNCHANGED <<tables, held, amount, answer, history>> /\ pc[b] = "idle" /\ Goto(b, "claim")
    BY <1>1 DEF BeginClaim
  <2>2. visit' \in [Clients -> SUBSET (1 .. lastId)]
    BY <1>1 DEF BeginClaim, Unclaimed, TypeInv, TypeOK
  <2>3. pc' \in [Clients -> BuyerLocations \cup SeederLocations] /\ CallsInOrder'
    BY <2>1, MoveType DEF history, BuyerLocations
  <2> QED
    BY <2>1, <2>2, <2>3 DEF tables, history, TypeInv, TypeOK
<1>2. ASSUME NEW t \in visit[b], Visit(b, t) PROVE TypeInv'
  <2>1. UNCHANGED <<tables, pc, amount, answer, history>>
    BY <1>2 DEF Visit
  <2>2. t \in 1 .. lastId
    BY <1>2 DEF TypeInv, TypeOK
  <2>3. visit' \in [Clients -> SUBSET (1 .. lastId)] /\ held' \in [Clients -> SUBSET (1 .. lastId)]
    BY <1>2, <2>2 DEF Visit, Visited, Lock, TypeInv, TypeOK
  <2> QED
    BY <2>1, <2>3 DEF tables, history, TypeInv, TypeOK, CallsInOrder
<1>3. ASSUME NEW loc \in {"insert", "exists", "commit"}, pc[b] # "done", Goto(b, loc),
             UNCHANGED <<tables, visit, held, amount, answer, history>>
      PROVE  TypeInv'
  <2>1. pc' \in [Clients -> BuyerLocations \cup SeederLocations] /\ CallsInOrder'
    BY <1>3, MoveType DEF history, BuyerLocations
  <2> QED
    BY <1>3, <2>1 DEF tables, history, TypeInv, TypeOK
<1>4. CASE Claimed(b) \/ ClassifyEmpty(b) \/ InsertOrder(b)
  BY <1>3, <1>4, RollBackType DEF Claimed, ClassifyEmpty, InsertOrder, Answers
<1>5. ASSUME NEW a \in {"ok", "error"}, Commit(b, a) PROVE TypeInv'
  <2>1. Return(b, a) /\ a \in Answers /\ UNCHANGED <<product, pile, lastId, seeded, undone, overlap>>
    BY <1>5 DEF Commit, Answers
  <2>2. held[b] \subseteq pile /\ held[b] \subseteq 1 .. lastId
    BY DEF Locks, Unclaimed, TypeInv, TypeOK
  <2>3. /\ claimed' = claimed \cup held[b] /\ sold' = sold + Cardinality(held[b])
        /\ got' = [got EXCEPT ![b] = held[b]] /\ orders' = [orders EXCEPT ![b] = 1]
    BY <1>5 DEF Commit
  <2>4. claimed' \subseteq pile /\ sold' \in Nat
    <3>1. Cardinality(held[b]) \in Nat
      BY <2>2, TicketsFinite
    <3>2. claimed \subseteq pile /\ sold \in Nat
      BY DEF TypeInv, TypeOK
    <3> QED
      BY <2>2, <2>3, <3>1, <3>2
  <2>5. got' \in [Buyers -> SUBSET (1 .. lastId)] /\ orders' \in [Buyers -> {0, 1}]
    BY <2>2, <2>3 DEF TypeInv, TypeOK
  <2>6. TypeOK'
    BY <2>1, <2>4, <2>5, ReturnType DEF TypeInv, TypeOK
  <2>7. \A o \in Buyers \ {b} : got'[o] = got[o]
    BY <2>3 DEF TypeInv, TypeOK
  <2>8. CallsInOrder'
    BY <2>1, <2>7, ReturnType DEF TypeInv, CallsInOrder, BuyerLocations
  <2> QED
    BY <2>6, <2>8 DEF TypeInv
<1>6. CASE BuyerFail(b)
  BY <1>6, RollBackType DEF BuyerFail, InFlight, Answers
<1> QED
  BY <1>1, <1>2, <1>4, <1>5, <1>6 DEF BuyerStep

LEMMA SeederType ==
  ASSUME LockInv, NEW s \in Seeders, SeederStep(s) \/ SeedFail(s)
  PROVE  TypeInv'
<1> USE DEF LockInv
<1>0. s \in Clients /\ s \notin Buyers
  OBVIOUS
<1>1. CASE SeedUpsert(s)
  <2>1. pc' \in [Clients -> BuyerLocations \cup SeederLocations] /\ CallsInOrder'
    BY <1>0, <1>1, MoveType DEF SeedUpsert, SeederLocations
  <2> QED
    BY <1>1, <2>1 DEF SeedUpsert, TypeInv, TypeOK
<1>2. CASE BeginDelete(s)
  <2>1. pc' \in [Clients -> BuyerLocations \cup SeederLocations] /\ CallsInOrder'
    BY <1>0, <1>2, MoveType DEF BeginDelete, history, SeederLocations
  <2>2. visit' \in [Clients -> SUBSET (1 .. lastId)]
    BY <1>2 DEF BeginDelete, TypeInv, TypeOK
  <2> QED
    BY <1>2, <2>1, <2>2 DEF BeginDelete, tables, history, TypeInv, TypeOK
<1>3. ASSUME NEW t \in visit[s], DeleteTicket(s, t) PROVE TypeInv'
  <2>1. UNCHANGED <<tables, pc, amount, answer, history>>
    BY <1>3 DEF DeleteTicket
  <2>2. t \in 1 .. lastId
    BY <1>0, <1>3 DEF TypeInv, TypeOK
  <2>3. visit' \in [Clients -> SUBSET (1 .. lastId)] /\ held' \in [Clients -> SUBSET (1 .. lastId)]
    BY <1>3, <2>2 DEF DeleteTicket, Visited, Lock, TypeInv, TypeOK
  <2> QED
    BY <2>1, <2>3 DEF tables, history, TypeInv, TypeOK, CallsInOrder
<1>4. CASE CommitDelete(s)
  <2>1. pc' \in [Clients -> BuyerLocations \cup SeederLocations] /\ CallsInOrder'
    BY <1>0, <1>4, MoveType DEF CommitDelete, SeederLocations
  <2>2. pile' \subseteq 1 .. lastId /\ claimed' \subseteq pile' /\ sold' = 0
    BY <1>4 DEF CommitDelete, Restock, TypeInv, TypeOK
  <2>3. seeded' \in Nat
    BY <1>4, TicketsFinite DEF CommitDelete, Restock, TypeInv, TypeOK
  <2>4. held' \in [Clients -> SUBSET (1 .. lastId)]
    BY <1>4 DEF CommitDelete, TypeInv, TypeOK
  <2> QED
    BY <1>4, <2>1, <2>2, <2>3, <2>4 DEF CommitDelete, TypeInv, TypeOK
<1>5. CASE InsertTickets(s)
  <2>1. pc' \in [Clients -> BuyerLocations \cup SeederLocations] /\ CallsInOrder'
    BY <1>0, <1>5, MoveType DEF InsertTickets, SeederLocations
  <2>2. lastId \in Nat /\ amount[s] \in Nat /\ lastId' = lastId + amount[s]
    BY <1>0, <1>5 DEF InsertTickets, TypeInv, TypeOK
  <2>3. 1 .. lastId \subseteq 1 .. lastId' /\ (lastId + 1) .. (lastId + amount[s]) \subseteq 1 .. lastId'
    BY <2>2
  <2>4. pile' \subseteq 1 .. lastId' /\ claimed' \subseteq pile' /\ sold' = 0
    BY <1>5, <2>3 DEF InsertTickets, Restock, TypeInv, TypeOK
  <2>5. IsFiniteSet(1 .. lastId')
    BY <2>2, FS_Interval
  <2>6. seeded' \in Nat
    BY <1>5, <2>4, <2>5, FS_Subset, FS_CardinalityType DEF InsertTickets, Restock
  <2>7. /\ visit' \in [Clients -> SUBSET (1 .. lastId')] /\ held' \in [Clients -> SUBSET (1 .. lastId')]
        /\ got' \in [Buyers -> SUBSET (1 .. lastId')]
    BY <1>5, <2>3 DEF InsertTickets, TypeInv, TypeOK
  <2> QED
    BY <1>5, <2>1, <2>2, <2>4, <2>6, <2>7 DEF InsertTickets, TypeInv, TypeOK
<1>6. ASSUME NEW a \in Answers, Return(s, a), pc[s] # "done",
             UNCHANGED <<product, pile, claimed, lastId, got, seeded, sold, undone>>,
             orders' \in [Buyers -> {0, 1}], overlap' \in BOOLEAN
      PROVE  TypeInv'
  <2>1. TypeOK'
    BY <1>0, <1>6, ReturnType DEF TypeInv, TypeOK
  <2>2. CallsInOrder'
    BY <1>0, <1>6, ReturnType DEF TypeInv, CallsInOrder, SeederLocations
  <2> QED
    BY <2>1, <2>2 DEF TypeInv
<1>7. CASE DeleteOrders(s)
  BY <1>6, <1>7 DEF DeleteOrders, Answers, history, TypeInv, TypeOK
<1>8. CASE SeedFail(s)
  BY <1>6, <1>8 DEF SeedFail, InFlight, Answers, tables, TypeInv, TypeOK
<1> QED
  BY <1>1, <1>2, <1>3, <1>4, <1>5, <1>7, <1>8 DEF SeederStep

-----------------------------------------------------------------------------
(* Locks                                                                    *)

\* A step of one client leaves the locks of the others as they are, if it takes no
\* ticket of theirs out of the sale.
LEMMA OthersKeepLocks ==
  ASSUME LockInv, NEW c \in Clients, amount' = amount,
         \A o \in Clients \ {c} : pc'[o] = pc[o] /\ held'[o] = held[o],
         \A o \in Clients \ {c} : held'[c] \cap held[o] = {},
         \A o \in Clients \ {c} : held[o] \subseteq pile => held[o] \subseteq pile',
         \A o \in Clients \ {c} : held[o] \subseteq Unclaimed => held[o] \subseteq Unclaimed',
         c \in Buyers =>
           /\ held'[c] \subseteq Unclaimed'
           /\ pc'[c] \in {"idle", "exists", "done"} => held'[c] = {}
           /\ pc'[c] = "claim" => Cardinality(held'[c]) <= amount[c]
           /\ pc'[c] \in {"insert", "commit"} => Cardinality(held'[c]) = amount[c],
         c \in Seeders => held'[c] \subseteq pile' /\ (pc'[c] # "clear" => held'[c] = {})
  PROVE  Locks'
<1>1. ASSUME NEW x \in Clients, NEW y \in Clients, x # y PROVE held'[x] \cap held'[y] = {}
  <2>1. CASE x = c
    BY <1>1, <2>1
  <2>2. CASE y = c
    BY <1>1, <2>2
  <2>3. CASE x # c /\ y # c
    BY <1>1, <2>3 DEF LockInv, Locks
  <2> QED
    BY <2>1, <2>2, <2>3
<1>2. ASSUME NEW b \in Buyers
      PROVE  /\ held'[b] \subseteq Unclaimed'
             /\ pc'[b] \in {"idle", "exists", "done"} => held'[b] = {}
             /\ pc'[b] = "claim" => Cardinality(held'[b]) <= amount'[b]
             /\ pc'[b] \in {"insert", "commit"} => Cardinality(held'[b]) = amount'[b]
  <2>1. CASE b = c
    BY <2>1
  <2>2. CASE b # c
    BY <2>2 DEF LockInv, Locks
  <2> QED
    BY <2>1, <2>2
<1>3. ASSUME NEW s \in Seeders
      PROVE  held'[s] \subseteq pile' /\ (pc'[s] # "clear" => held'[s] = {})
  <2>1. CASE s = c
    BY <2>1
  <2>2. CASE s # c
    BY <2>2 DEF LockInv, Locks
  <2> QED
    BY <2>1, <2>2
<1> QED
  BY <1>1, <1>2, <1>3 DEF Locks

\* A client that takes no lock and drops all of them, or keeps them.
LEMMA ReleaseLocks ==
  ASSUME LockInv, NEW c \in Clients, NEW a \in Answers, Return(c, a), UNCHANGED <<pile, claimed>>
  PROVE  Locks'
<1>1. TypeInv
  BY DEF LockInv
<1> QED
  BY <1>1, ReturnType, OthersKeepLocks DEF Unclaimed

LEMMA BuyerMoves ==
  ASSUME LockInv, NEW b \in Buyers, NEW loc, Goto(b, loc),
         loc \in {"claim", "exists", "insert", "commit"},
         UNCHANGED <<pile, claimed, held, amount>>,
         loc = "exists" => held[b] = {},
         loc = "claim" => Cardinality(held[b]) <= amount[b],
         loc \in {"insert", "commit"} => Cardinality(held[b]) = amount[b]
  PROVE  Locks'
BY OthersKeepLocks DEF Goto, Unclaimed, LockInv, Locks, TypeInv, TypeOK

LEMMA BuyerLocks ==
  ASSUME LockInv, NEW b \in Buyers, BuyerStep(b) \/ Commit(b, "error") \/ BuyerFail(b)
  PROVE  Locks'
<1>1. TypeInv /\ amount[b] \in Nat \ {0}
  BY DEF LockInv, TypeInv, CallsInOrder
<1>2. held[b] \subseteq 1 .. lastId /\ held[b] \subseteq Unclaimed
  BY <1>1 DEF LockInv, Locks, TypeInv, TypeOK
<1>3. IsFiniteSet(held[b]) /\ Cardinality(held[b]) \in Nat
  BY <1>1, <1>2, TicketsFinite
<1>4. CASE BeginClaim(b)
  <2>1. held[b] = {}
    BY <1>4 DEF BeginClaim, LockInv, Locks
  <2>2. Cardinality(held[b]) <= amount[b]
    BY <1>1, <2>1, FS_EmptySet
  <2> QED
    BY <1>4, <2>2, BuyerMoves DEF BeginClaim, tables
<1>5. ASSUME NEW t \in visit[b], Visit(b, t) PROVE Locks'
  <2>1. UNCHANGED <<pile, claimed, pc, amount>> /\ pc[b] = "claim"
    BY <1>5 DEF Visit, Claiming, tables
  <2>2. CASE Passed(b, t)
    <3>1. held' = held
      BY <1>5, <2>2 DEF Visit
    <3> QED
      BY <2>1, <3>1 DEF LockInv, Locks, Unclaimed
  <2>3. CASE ~Passed(b, t)
    <3>1. /\ held' = [held EXCEPT ![b] = @ \cup {t}]
          /\ Cardinality(held[b]) < amount[b]
          /\ t \in Unclaimed /\ \A o \in Clients \ {b} : t \notin held[o]
      BY <1>5, <2>3 DEF Visit, Lock, Claiming, Passed, LockedByOther
    <3>2. /\ held'[b] = held[b] \cup {t}
          /\ \A o \in Clients \ {b} : held'[o] = held[o]
      BY <1>1, <3>1 DEF TypeInv, TypeOK
    <3>3. PICK n \in Nat : n = Cardinality(held[b])
      BY <1>3
    <3>4. Cardinality(held[b] \cup {t}) = IF t \in held[b] THEN n ELSE n + 1
      BY <1>3, <3>3, FS_AddElement
    <3>5. Cardinality(held'[b]) <= amount[b]
      <4>1. n < amount[b] /\ Cardinality(held'[b]) \in {n, n + 1}
        BY <3>1, <3>2, <3>3, <3>4
      <4> QED
        BY <1>1, <4>1
    <3>6. held'[b] \subseteq Unclaimed'
      BY <1>2, <2>1, <3>1, <3>2 DEF Unclaimed
    <3>7. \A o \in Clients \ {b} : held'[b] \cap held[o] = {}
      BY <3>1, <3>2 DEF LockInv, Locks
    <3> QED
      BY <2>1, <3>2, <3>5, <3>6, <3>7, OthersKeepLocks DEF Unclaimed
  <2> QED
    BY <2>2, <2>3
<1>6. ASSUME NEW a \in Answers, RollBack(b, a) PROVE Locks'
  BY <1>6, ReleaseLocks DEF RollBack, tables
<1>7. CASE Claimed(b)
  BY <1>6, <1>7, BuyerMoves DEF Claimed, tables, Answers
<1>8. CASE ClassifyEmpty(b) \/ BuyerFail(b)
  BY <1>6, <1>8 DEF ClassifyEmpty, BuyerFail, Answers
<1>9. CASE InsertOrder(b)
  BY <1>9, BuyerMoves DEF InsertOrder, tables, LockInv, Locks
<1>10. ASSUME NEW a \in Answers, Commit(b, a) PROVE Locks'
  <2>1. Return(b, a) /\ pile' = pile /\ claimed' = claimed \cup held[b] /\ amount' = amount
    BY <1>10 DEF Commit, Return
  <2>2. \A o \in Clients \ {b} : held[o] \cap held[b] = {}
    BY DEF LockInv, Locks
  <2>3. \A o \in Clients \ {b} : held[o] \subseteq Unclaimed => held[o] \subseteq Unclaimed'
    BY <2>1, <2>2 DEF Unclaimed
  <2> QED
    BY <1>1, <2>1, <2>3, ReturnType, OthersKeepLocks
<1> QED
  BY <1>4, <1>5, <1>7, <1>8, <1>9, <1>10 DEF BuyerStep, Answers

LEMMA SeederLocks ==
  ASSUME LockInv, NEW s \in Seeders, SeederStep(s) \/ SeedFail(s)
  PROVE  Locks'
<1>1. TypeInv /\ s \in Clients /\ s \notin Buyers
  BY DEF LockInv
<1>2. \A o \in Clients \ {s} : held[o] \cap held[s] = {}
  BY <1>1 DEF LockInv, Locks
<1>3. CASE SeedUpsert(s) \/ BeginDelete(s)
  <2>1. UNCHANGED <<pile, claimed, held, amount>> /\ held[s] = {}
    BY <1>3 DEF SeedUpsert, BeginDelete, tables, LockInv, Locks
  <2>2. \A o \in Clients \ {s} : pc'[o] = pc[o]
    BY <1>1, <1>3 DEF SeedUpsert, BeginDelete, Goto, TypeInv, TypeOK
  <2> QED
    BY <1>1, <2>1, <2>2, OthersKeepLocks DEF Unclaimed
<1>4. ASSUME NEW t \in visit[s], DeleteTicket(s, t) PROVE Locks'
  <2>1. UNCHANGED <<pile, claimed, pc, amount>> /\ pc[s] = "clear"
    BY <1>4 DEF DeleteTicket, tables
  <2>2. CASE t \notin pile
    <3>1. held' = held
      BY <1>4, <2>2 DEF DeleteTicket
    <3> QED
      BY <2>1, <3>1 DEF LockInv, Locks, Unclaimed
  <2>3. CASE t \in pile
    <3>1. /\ held' = [held EXCEPT ![s] = @ \cup {t}]
          /\ \A o \in Clients \ {s} : t \notin held[o]
      BY <1>4, <2>3 DEF DeleteTicket, Lock, LockedByOther
    <3>2. /\ held'[s] = held[s] \cup {t}
          /\ \A o \in Clients \ {s} : held'[o] = held[o]
      BY <1>1, <3>1 DEF TypeInv, TypeOK
    <3>3. held'[s] \subseteq pile'
      BY <2>1, <2>3, <3>2 DEF LockInv, Locks
    <3>4. \A o \in Clients \ {s} : held'[s] \cap held[o] = {}
      BY <1>2, <3>1, <3>2
    <3> QED
      BY <1>1, <2>1, <3>2, <3>3, <3>4, OthersKeepLocks DEF Unclaimed
  <2> QED
    BY <2>2, <2>3
<1>5. CASE CommitDelete(s)
  <2>1. /\ pile' = pile \ held[s] /\ claimed' = claimed \cap pile' /\ amount' = amount
        /\ held' = [held EXCEPT ![s] = {}] /\ pc' = [pc EXCEPT ![s] = "insert"]
    BY <1>5 DEF CommitDelete, Restock, Goto
  <2>2. /\ held'[s] = {} /\ pc'[s] = "insert"
        /\ \A o \in Clients \ {s} : pc'[o] = pc[o] /\ held'[o] = held[o]
    BY <1>1, <2>1 DEF TypeInv, TypeOK
  <2>3. \A o \in Clients \ {s} :
          /\ held[o] \subseteq pile => held[o] \subseteq pile'
          /\ held[o] \subseteq Unclaimed => held[o] \subseteq Unclaimed'
    BY <1>2, <2>1 DEF Unclaimed
  <2> QED
    BY <1>1, <2>1, <2>2, <2>3, OthersKeepLocks
<1>6. CASE InsertTickets(s)
  <2>1. /\ pile \subseteq pile' /\ claimed' = claimed \cap pile' /\ UNCHANGED <<held, amount>>
        /\ pc' = [pc EXCEPT ![s] = "orders"] /\ held[s] = {}
    BY <1>6 DEF InsertTickets, Restock, Goto, LockInv, Locks
  <2>2. /\ pc'[s] = "orders"
        /\ \A o \in Clients \ {s} : pc'[o] = pc[o]
    BY <1>1, <2>1 DEF TypeInv, TypeOK
  <2>3. Unclaimed \subseteq Unclaimed'
    BY <2>1 DEF Unclaimed
  <2> QED
    BY <1>1, <2>1, <2>2, <2>3, OthersKeepLocks
<1>7. CASE DeleteOrders(s) \/ SeedFail(s)
  BY <1>1, <1>7, ReleaseLocks DEF DeleteOrders, SeedFail, tables, Answers
<1> QED
  BY <1>3, <1>4, <1>5, <1>6, <1>7 DEF SeederStep

LEMMA LockStep == LockInv /\ [Next]_vars => LockInv'
<1> SUFFICES ASSUME LockInv, [Next]_vars PROVE LockInv'
  OBVIOUS
<1>1. CASE UNCHANGED vars
  BY <1>1
  DEF vars, tables, history, LockInv, TypeInv, TypeOK, CallsInOrder, Locks, Unclaimed
<1> QED
  BY <1>1, BuyerType, SeederType, BuyerLocks, SeederLocks DEF Next, Finished, LockInv

\* Every variable has its type; the pile, the snapshots and the locks name tickets
\* that were numbered.
THEOREM TicketTypeCorrect == Spec => []TypeOK
<1>1. LockInv => TypeOK
  BY DEF LockInv, TypeInv
<1> QED
  BY <1>1, TicketTypeInit, LockStep, PTL DEF Spec

-----------------------------------------------------------------------------
(* The ledger of tickets                                                    *)

\* What a step of a buyer can do to anything but its locks: nothing, roll back, commit.
LEMMA BuyerCases ==
  ASSUME NEW b \in Buyers, BuyerStep(b) \/ Commit(b, "error") \/ BuyerFail(b)
  PROVE  \/ UNCHANGED <<tables, amount, answer, history>>
         \/ \E a \in Answers \ {"ok"} : pc[b] # "done" /\ RollBack(b, a)
         \/ \E a \in {"ok", "error"} : Commit(b, a)
BY DEF BuyerStep, BeginClaim, Visit, Claimed, ClassifyEmpty, InsertOrder, BuyerFail, InFlight,
       Answers

LEMMA LedgerCommit ==
  ASSUME LockInv, TicketLedger, NEW b \in Buyers, NEW a \in {"ok", "error"}, Commit(b, a)
  PROVE  TicketLedger'
<1>1. /\ TypeInv /\ a \in Answers /\ Return(b, a) /\ pc[b] = "commit"
      /\ pile' = pile /\ claimed' = claimed \cup held[b] /\ amount' = amount
      /\ got' = [got EXCEPT ![b] = held[b]]
  BY DEF Commit, Return, LockInv, Answers
<1>2. /\ got'[b] = held[b]
      /\ \A o \in Buyers \ {b} : got'[o] = got[o] /\ answer'[o] = answer[o]
      /\ answer'[b] = a
  BY <1>1, ReturnType DEF TypeInv, TypeOK
<1>3. got[b] = {} /\ amount[b] \in Nat \ {0}
  BY <1>1 DEF TypeInv, CallsInOrder
<1>4. held[b] \subseteq pile /\ held[b] \cap claimed = {} /\ Cardinality(held[b]) = amount[b]
  BY <1>1 DEF LockInv, Locks, Unclaimed
<1>5. held[b] # {}
  BY <1>3, <1>4, FS_EmptySet
<1>6. \A o \in Buyers : held[b] \cap got[o] = {}
  BY <1>4 DEF TicketLedger
<1>7. \A x, y \in Buyers : x # y => got'[x] \cap got'[y] = {}
  <2>1. \A x \in Buyers : x # b => got'[b] \cap got'[x] = {}
    BY <1>2, <1>6
  <2>2. \A x, y \in Buyers : x # y /\ x # b /\ y # b => got'[x] \cap got'[y] = {}
    BY <1>2 DEF TicketLedger
  <2> QED
    BY <2>1, <2>2
<1>8. claimed' = pile' \cap UNION {got'[o] : o \in Buyers}
  <2>1. UNION {got'[o] : o \in Buyers} = held[b] \cup UNION {got[o] : o \in Buyers}
    BY <1>2, <1>3
  <2> QED
    BY <1>1, <1>4, <2>1 DEF TicketLedger
<1>9. \A o \in Buyers :
        /\ got'[o] # {} => Cardinality(got'[o]) = amount'[o] /\ answer'[o] \in {"ok", "error"}
        /\ answer'[o] = "ok" => got'[o] # {}
  BY <1>1, <1>2, <1>4, <1>5 DEF TicketLedger
<1> QED
  BY <1>7, <1>8, <1>9 DEF TicketLedger

LEMMA LedgerRollBack ==
  ASSUME LockInv, TicketLedger, NEW b \in Buyers, NEW a \in Answers \ {"ok"},
         pc[b] # "done", RollBack(b, a)
  PROVE  TicketLedger'
<1>1. TypeInv /\ Return(b, a) /\ UNCHANGED <<pile, claimed, amount, got>>
  BY DEF RollBack, Return, LockInv, tables
<1>2. got[b] = {} /\ answer'[b] = a /\ \A o \in Buyers \ {b} : answer'[o] = answer[o]
  BY <1>1, ReturnType DEF TypeInv, CallsInOrder
<1> QED
  BY <1>1, <1>2 DEF TicketLedger

LEMMA LedgerSeeder ==
  ASSUME LockInv, TicketLedger, NEW s \in Seeders, SeederStep(s) \/ SeedFail(s)
  PROVE  TicketLedger'
<1>1. TypeInv /\ s \notin Buyers
  BY DEF LockInv
<1>2. \A b \in Buyers : answer'[b] = answer[b]
  BY <1>1
  DEF SeederStep, SeedFail, SeedUpsert, BeginDelete, DeleteTicket, CommitDelete, InsertTickets,
      DeleteOrders, Return, TypeInv, TypeOK
<1>3. UNCHANGED <<amount, got>>
  BY DEF SeederStep, SeedFail, SeedUpsert, BeginDelete, DeleteTicket, CommitDelete,
         InsertTickets, DeleteOrders, Return, history
<1>4. claimed' = pile' \cap UNION {got[b] : b \in Buyers}
  <2>1. CASE CommitDelete(s)
    BY <2>1 DEF CommitDelete, Restock, TicketLedger
  <2>2. CASE InsertTickets(s)
    <3>1. lastId \in Nat /\ \A b \in Buyers : got[b] \subseteq 1 .. lastId
      BY <1>1 DEF TypeInv, TypeOK
    <3>2. amount[s] \in Nat
      BY <1>1 DEF TypeInv, TypeOK
    <3>3. ((lastId + 1) .. (lastId + amount[s])) \cap UNION {got[b] : b \in Buyers} = {}
      <4>1. ASSUME NEW t \in (lastId + 1) .. (lastId + amount[s]), NEW b \in Buyers, t \in got[b]
            PROVE  FALSE
        <5>1. t \in 1 .. lastId
          BY <3>1, <4>1
        <5> QED
          BY <3>1, <3>2, <5>1
      <4> QED
        BY <4>1
    <3> QED
      BY <2>2, <3>3 DEF InsertTickets, Restock, TicketLedger
  <2>3. CASE UNCHANGED <<pile, claimed>>
    BY <2>3 DEF TicketLedger
  <2> QED
    BY <2>1, <2>2, <2>3
    DEF SeederStep, SeedFail, SeedUpsert, BeginDelete, DeleteTicket, DeleteOrders, tables
<1> QED
  BY <1>2, <1>3, <1>4 DEF TicketLedger

\* No ticket is sold twice, and a claim is committed as a whole or not at all, whatever is
\* skipped, rolled back or seeded in between.
THEOREM NoTicketSoldTwice == Spec => []TicketLedger
<1>1. Init => TicketLedger
  <2> SUFFICES ASSUME Init PROVE TicketLedger
    OBVIOUS
  <2>1. \A b \in Buyers : got[b] = {} /\ answer[b] = None
    BY DEF Init
  <2>2. UNION {got[b] : b \in Buyers} = {} /\ claimed = {}
    BY <2>1 DEF Init
  <2> QED
    BY <2>1, <2>2 DEF TicketLedger, Answers
<1>2. LockInv /\ TicketLedger /\ [Next]_vars => (LockInv /\ TicketLedger)'
  <2> SUFFICES ASSUME LockInv, TicketLedger, [Next]_vars PROVE TicketLedger'
    BY LockStep
  <2>1. ASSUME UNCHANGED <<tables, amount, answer, history>> PROVE TicketLedger'
    BY <2>1 DEF tables, history, TicketLedger
  <2>2. CASE UNCHANGED vars
    BY <2>1, <2>2 DEF vars
  <2>3. ASSUME NEW b \in Buyers, BuyerStep(b) \/ Commit(b, "error") \/ BuyerFail(b)
        PROVE  TicketLedger'
    BY <2>1, <2>3, BuyerCases, LedgerCommit, LedgerRollBack
  <2> QED
    BY <2>2, <2>3, LedgerSeeder DEF Next, Finished
<1> QED
  BY <1>1, <1>2, TicketTypeInit, PTL DEF Spec

-----------------------------------------------------------------------------
(* Orders and their tickets                                                 *)

LEMMA OrdersSeeder ==
  ASSUME LockInv, OrdersHaveTickets, NEW s \in Seeders, SeederStep(s) \/ SeedFail(s)
  PROVE  OrdersHaveTickets'
<1>0. TypeInv
  BY DEF LockInv
<1>1. CASE SeedUpsert(s) \/ BeginDelete(s)
  <2>1. /\ pc[s] \in {"idle", "delete"} /\ UNCHANGED <<claimed, orders, got, answer>>
        /\ \A o \in Seeders \ {s} : pc'[o] = pc[o]
    BY <1>0, <1>1 DEF SeedUpsert, BeginDelete, Goto, tables, history, TypeInv, TypeOK
  <2> QED
    BY <2>1 DEF OrdersHaveTickets
<1>2. ASSUME NEW t \in visit[s], DeleteTicket(s, t) PROVE OrdersHaveTickets'
  BY <1>2 DEF DeleteTicket, tables, history, OrdersHaveTickets
<1>3. ASSUME NEW loc \in {"insert", "orders"}, pc[s] # "done", Goto(s, loc), answer' = answer
      PROVE  OrdersHaveTickets'
  <2>1. pc'[s] = loc /\ answer'[s] = None
    BY <1>0, <1>3 DEF Goto, TypeInv, TypeOK, CallsInOrder
  <2> QED
    BY <2>1 DEF OrdersHaveTickets, Answers
<1>4. CASE CommitDelete(s) \/ InsertTickets(s)
  BY <1>3, <1>4 DEF CommitDelete, InsertTickets
<1>5. CASE DeleteOrders(s)
  <2>1. \A b \in Buyers : orders'[b] = 0
    BY <1>5 DEF DeleteOrders
  <2> QED
    BY <2>1 DEF OrdersHaveTickets
<1>6. CASE SeedFail(s)
  <2>1. pc'[s] = "done" /\ answer'[s] = "error"
    BY <1>0, <1>6, ReturnType DEF SeedFail, Answers
  <2> QED
    BY <2>1 DEF OrdersHaveTickets
<1> QED
  BY <1>1, <1>2, <1>4, <1>5, <1>6 DEF SeederStep

\* Between two seeds every order has its tickets.
THEOREM OrdersKeepTickets == Spec => []OrdersHaveTickets
<1>1. Init => OrdersHaveTickets
  BY DEF Init, OrdersHaveTickets
<1>2. LockInv /\ OrdersHaveTickets /\ [Next]_vars => (LockInv /\ OrdersHaveTickets)'
  <2> SUFFICES ASSUME LockInv, OrdersHaveTickets, [Next]_vars PROVE OrdersHaveTickets'
    BY LockStep
  <2>0. TypeInv
    BY DEF LockInv
  <2>1. ASSUME NEW b \in Buyers, BuyerStep(b) \/ Commit(b, "error") \/ BuyerFail(b)
        PROVE  OrdersHaveTickets'
    <3>1. \A s \in Seeders : pc'[s] = pc[s] /\ answer'[s] = answer[s]
      BY <2>0, <2>1
      DEF BuyerStep, BeginClaim, Visit, Claimed, ClassifyEmpty, InsertOrder, BuyerFail, Commit,
          RollBack, Return, Goto, TypeInv, TypeOK
    <3>2. CASE UNCHANGED <<claimed, orders, got>>
      BY <3>1, <3>2 DEF OrdersHaveTickets
    <3>3. ASSUME NEW a \in {"ok", "error"}, Commit(b, a) PROVE OrdersHaveTickets'
      <4>1. /\ claimed' = claimed \cup held[b] /\ got' = [got EXCEPT ![b] = held[b]]
            /\ orders' = [orders EXCEPT ![b] = 1]
        BY <3>3 DEF Commit
      <4>2. /\ got'[b] = held[b]
            /\ \A o \in Buyers \ {b} : got'[o] = got[o] /\ orders'[o] = orders[o]
        BY <2>0, <4>1 DEF TypeInv, TypeOK
      <4> QED
        BY <3>1, <4>1, <4>2 DEF OrdersHaveTickets
    <3> QED
      BY <2>1, <3>2, <3>3, BuyerCases DEF tables, history, RollBack
  <2>2. CASE UNCHANGED vars
    BY <2>2 DEF vars, tables, history, OrdersHaveTickets
  <2> QED
    BY <2>1, <2>2, OrdersSeeder DEF Next, Finished
<1> QED
  BY <1>1, <1>2, TicketTypeInit, PTL DEF Spec

-----------------------------------------------------------------------------
(* Refusals                                                                 *)

\* The tickets that nobody but b has or is about to have.
Free(b) == Unclaimed \ Promised(b)

\* While b searches, what is left for it is what it has or has still to visit; when it
\* has been refused, that is not enough.
Searched(b) ==
  undone \subseteq {b} /\ NoSeedYet =>
    /\ pc[b] = "claim" => Free(b) \subseteq visit[b] \cup held[b]
    /\ pc[b] = "exists" => Free(b) = {}
    /\ answer[b] = "out_of_stock" => Cardinality(Free(b)) < amount[b]

\* Nothing that another buyer does, but for a rollback, leaves more for b.
LEMMA OthersTake ==
  ASSUME LockInv, NEW b \in Buyers, NEW o \in Buyers \ {b},
         BuyerStep(o) \/ Commit(o, "error") \/ BuyerFail(o), undone' \subseteq {b}
  PROVE  Free(b)' \subseteq Free(b)
<1>0. TypeInv
  BY DEF LockInv
<1>1. CASE UNCHANGED <<pile, claimed>> /\ \A c \in Buyers : held[c] \subseteq held'[c]
  BY <1>1 DEF Free, Unclaimed, Promised
<1>2. ASSUME NEW a \in Answers, RollBack(o, a) PROVE Free(b)' \subseteq Free(b)
  <2>1. held[o] = {}
    BY <1>2 DEF RollBack
  <2>2. UNCHANGED <<pile, claimed>> /\ \A c \in Buyers : held[c] \subseteq held'[c]
    BY <1>0, <1>2, <2>1, ReturnType DEF RollBack, tables
  <2> QED
    BY <1>1, <2>2
<1>3. ASSUME NEW a \in Answers, Commit(o, a) PROVE Free(b)' \subseteq Free(b)
  <2>1. pile' = pile /\ claimed' = claimed \cup held[o]
    BY <1>3 DEF Commit
  <2>2. \A c \in Buyers \ {o} : held'[c] = held[c]
    BY <1>0, <1>3, ReturnType DEF Commit
  <2> QED
    BY <2>1, <2>2 DEF Free, Unclaimed, Promised
<1>4. ASSUME NEW t \in visit[o], Visit(o, t) PROVE Free(b)' \subseteq Free(b)
  BY <1>0, <1>1, <1>4 DEF Visit, Lock, tables, TypeInv, TypeOK
<1>5. CASE BeginClaim(o) \/ InsertOrder(o)
  BY <1>1, <1>5 DEF BeginClaim, InsertOrder, tables
<1>6. CASE Claimed(o)
  BY <1>1, <1>2, <1>6 DEF Claimed, tables, Answers
<1> QED
  BY <1>2, <1>3, <1>4, <1>5, <1>6 DEF BuyerStep, ClassifyEmpty, BuyerFail, Answers

\* The steps of b itself.
LEMMA SearchStep ==
  ASSUME LockInv, NEW b \in Buyers, Searched(b),
         BuyerStep(b) \/ Commit(b, "error") \/ BuyerFail(b)
  PROVE  Searched(b)'
<1> SUFFICES ASSUME undone' \subseteq {b}, NoSeedYet'
             PROVE  /\ pc'[b] = "claim" => Free(b)' \subseteq visit'[b] \cup held'[b]
                    /\ pc'[b] = "exists" => Free(b)' = {}
                    /\ answer'[b] = "out_of_stock" => Cardinality(Free(b)') < amount'[b]
  BY DEF Searched
<1>1. TypeInv /\ pc[b] # "done" /\ answer[b] = None /\ None # "out_of_stock"
  BY DEF LockInv, BuyerStep, BeginClaim, Visit, Claiming, Claimed, ClassifyEmpty, InsertOrder,
         Commit, BuyerFail, InFlight, TypeInv, CallsInOrder, Answers
<1>2. NoSeedYet /\ \A s \in Seeders : held[s] = {}
  <2>1. \A s \in Seeders : pc'[s] = pc[s]
    BY <1>1
    DEF BuyerStep, BeginClaim, Visit, Claimed, ClassifyEmpty, InsertOrder, BuyerFail, Commit,
        RollBack, Return, Goto, TypeInv, TypeOK
  <2>2. NoSeedYet
    BY <2>1 DEF NoSeedYet
  <2> QED
    BY <2>2 DEF NoSeedYet, LockInv, Locks
<1>3. undone \subseteq {b}
  BY DEF BuyerStep, BeginClaim, Visit, Claimed, ClassifyEmpty, InsertOrder, BuyerFail, Commit,
         RollBack, history
<1>4. /\ pc[b] = "claim" => Free(b) \subseteq visit[b] \cup held[b]
      /\ pc[b] = "exists" => Free(b) = {}
  BY <1>2, <1>3 DEF Searched
<1>5. \A o \in Buyers \ {b} : held'[o] = held[o]
  BY <1>1
  DEF BuyerStep, BeginClaim, Visit, Lock, Claimed, ClassifyEmpty, InsertOrder, BuyerFail, Commit,
      RollBack, Return, TypeInv, TypeOK
<1>6. Promised(b)' = Promised(b)
  BY <1>5 DEF Promised
<1>7. amount[b] \in Nat \ {0}
  BY <1>1 DEF TypeInv, CallsInOrder
<1>8. CASE BeginClaim(b)
  <2>1. visit'[b] = Unclaimed /\ Unclaimed' = Unclaimed /\ pc'[b] = "claim" /\ answer' = answer
    BY <1>1, <1>8 DEF BeginClaim, Goto, Unclaimed, tables, TypeInv, TypeOK
  <2> QED
    BY <1>1, <2>1 DEF Free
<1>9. ASSUME NEW t \in visit[b], Visit(b, t)
      PROVE  Free(b)' \subseteq visit'[b] \cup held'[b] /\ pc'[b] = "claim" /\ answer' = answer
  <2>1. /\ pc' = pc /\ pc[b] = "claim" /\ answer' = answer /\ Unclaimed' = Unclaimed
        /\ visit'[b] = visit[b] \ {t}
    BY <1>1, <1>9 DEF Visit, Visited, Claiming, tables, Unclaimed, TypeInv, TypeOK
  <2>2. Free(b)' = Free(b)
    BY <1>6, <2>1 DEF Free
  <2>3. CASE Passed(b, t)
    <3>1. held' = held
      BY <1>9, <2>3 DEF Visit
    <3>2. t \notin Free(b)
      BY <1>2, <2>3 DEF Passed, LockedByOther, Free, Promised
    <3> QED
      BY <1>4, <2>1, <2>2, <3>1, <3>2
  <2>4. CASE ~Passed(b, t)
    <3>1. held'[b] = held[b] \cup {t}
      BY <1>1, <1>9, <2>4 DEF Visit, Lock, TypeInv, TypeOK
    <3> QED
      BY <1>4, <2>1, <2>2, <3>1
  <2> QED
    BY <2>3, <2>4
<1>10. CASE Claimed(b)
  <2>1. IsFiniteSet(held[b]) /\ Cardinality(held[b]) \in Nat /\ Cardinality(held[b]) <= amount[b]
    BY <1>1, <1>10, TicketsFinite DEF Claimed, LockInv, Locks, TypeInv, TypeOK
  <2>2. UNCHANGED <<pile, claimed, amount>> /\ Free(b)' = Free(b)
    BY <1>6, <1>10 DEF Claimed, RollBack, Return, tables, Free, Unclaimed
  <2>3. CASE Cardinality(held[b]) = amount[b]
    <3>1. held[b] # {}
      BY <1>7, <2>3, FS_EmptySet
    <3>2. Goto(b, "insert") /\ answer' = answer
      BY <1>10, <2>3, <3>1 DEF Claimed
    <3>3. pc'[b] = "insert"
      BY <1>1, <3>2 DEF Goto, TypeInv, TypeOK
    <3> QED
      BY <1>1, <3>2, <3>3
  <2>4. CASE Cardinality(held[b]) # amount[b]
    <3>1. Cardinality(held[b]) < amount[b]
      BY <1>7, <2>1, <2>4
    <3>2. visit[b] = {}
      BY <1>10, <3>1 DEF Claimed, Claiming
    <3>3. Free(b) \subseteq held[b]
      BY <1>4, <1>10, <3>2 DEF Claimed
    <3>4. IsFiniteSet(Free(b)) /\ Cardinality(Free(b)) <= Cardinality(held[b])
      BY <2>1, <3>3, FS_Subset
    <3>5. Cardinality(Free(b)) \in Nat
      BY <3>4, FS_CardinalityType
    <3>6. Cardinality(Free(b)) < amount[b]
      BY <1>7, <2>1, <3>1, <3>4, <3>5
    <3>7. CASE held[b] = {}
      <4>1. pc'[b] = "exists" /\ answer' = answer
        BY <1>1, <1>10, <2>4, <3>7 DEF Claimed, Goto, TypeInv, TypeOK
      <4> QED
        BY <1>1, <2>2, <3>3, <3>7, <4>1
    <3>8. CASE held[b] # {}
      <4>1. RollBack(b, "out_of_stock")
        BY <1>10, <2>4, <3>8 DEF Claimed
      <4>2. pc'[b] = "done"
        BY <1>1, <4>1 DEF RollBack, Return, Goto, TypeInv, TypeOK
      <4> QED
        BY <2>2, <3>6, <4>2
    <3> QED
      BY <3>7, <3>8
  <2> QED
    BY <2>3, <2>4
<1>11. CASE ClassifyEmpty(b)
  <2>1. UNCHANGED <<pile, claimed, amount>> /\ Free(b)' = Free(b)
    BY <1>6, <1>11 DEF ClassifyEmpty, RollBack, Return, tables, Free, Unclaimed
  <2>2. pc'[b] = "done" /\ Free(b)' = {}
    BY <1>1, <1>4, <1>11, <2>1 DEF ClassifyEmpty, RollBack, Return, Goto, TypeInv, TypeOK
  <2> QED
    BY <1>7, <2>1, <2>2, FS_EmptySet
<1>12. CASE InsertOrder(b)
  BY <1>1, <1>12 DEF InsertOrder, Goto, TypeInv, TypeOK
<1>13. ASSUME NEW a \in {"ok", "error"}, Return(b, a)
       PROVE  pc'[b] = "done" /\ answer'[b] # "out_of_stock"
  BY <1>1, <1>13 DEF Return, Goto, TypeInv, TypeOK
<1> QED
  BY <1>1, <1>8, <1>9, <1>10, <1>11, <1>12, <1>13
  DEF BuyerStep, Commit, BuyerFail, RollBack

\* A seed ends the property's promise.
LEMMA SeedBegins ==
  ASSUME TypeInv, NEW s \in Seeders, SeederStep(s) \/ SeedFail(s)
  PROVE  ~NoSeedYet'
<1>1. pc'[s] # "idle"
  BY DEF SeederStep, SeedFail, InFlight, SeedUpsert, BeginDelete, DeleteTicket, CommitDelete,
         InsertTickets, DeleteOrders, Return, Goto, TypeInv, TypeOK
<1> QED
  BY <1>1 DEF NoSeedYet

\* Skipping locked tickets refuses no buyer wrongly, unless another one rolls back.
THEOREM RefusalsAreFair == Spec => []RefusalsHaveACause
<1> DEFINE AllSearched == \A b \in Buyers : Searched(b)
<1>1. Init => AllSearched
  BY DEF Init, Searched, Answers
<1>2. LockInv /\ AllSearched /\ [Next]_vars => (LockInv /\ AllSearched)'
  <2> SUFFICES ASSUME LockInv, AllSearched, [Next]_vars, NEW b \in Buyers
               PROVE  Searched(b)'
    BY LockStep
  <2>0. TypeInv
    BY DEF LockInv
  <2>1. CASE UNCHANGED vars
    BY <2>1
    DEF vars, tables, history, Searched, NoSeedYet, Free, Unclaimed, Promised
  <2>2. ASSUME NEW o \in Buyers, BuyerStep(o) \/ Commit(o, "error") \/ BuyerFail(o)
        PROVE  Searched(b)'
    <3>1. CASE o = b
      BY <2>2, <3>1, SearchStep
    <3>2. CASE o # b
      <4> SUFFICES ASSUME undone' \subseteq {b}, NoSeedYet'
                   PROVE  /\ pc'[b] = "claim" => Free(b)' \subseteq visit'[b] \cup held'[b]
                          /\ pc'[b] = "exists" => Free(b)' = {}
                          /\ answer'[b] = "out_of_stock" => Cardinality(Free(b)') < amount'[b]
        BY DEF Searched
      <4>1. /\ \A c \in Clients \ {o} : /\ pc'[c] = pc[c] /\ answer'[c] = answer[c]
                                        /\ visit'[c] = visit[c] /\ held'[c] = held[c]
            /\ amount' = amount /\ undone \subseteq undone'
        BY <2>0, <2>2
        DEF BuyerStep, BeginClaim, Visit, Visited, Lock, Claimed, ClassifyEmpty, InsertOrder,
            BuyerFail, Commit, RollBack, Return, Goto, history, TypeInv, TypeOK
      <4>2. NoSeedYet /\ undone \subseteq {b}
        BY <4>1 DEF NoSeedYet
      <4>3. Free(b)' \subseteq Free(b)
        BY <2>2, <3>2, OthersTake
      <4>4. IsFiniteSet(Free(b)) /\ Cardinality(Free(b)) \in Nat
        BY <2>0, TicketsFinite DEF Free, Unclaimed, TypeInv, TypeOK
      <4>5. Cardinality(Free(b)') <= Cardinality(Free(b)) /\ Cardinality(Free(b)') \in Nat
        BY <4>3, <4>4, FS_Subset, FS_CardinalityType
      <4>6. amount[b] \in Nat
        BY <2>0 DEF TypeInv, TypeOK
      <4>7. /\ pc[b] = "claim" => Free(b) \subseteq visit[b] \cup held[b]
            /\ pc[b] = "exists" => Free(b) = {}
            /\ answer[b] = "out_of_stock" => Cardinality(Free(b)) < amount[b]
        BY <4>2 DEF Searched
      <4>8. pc'[b] = pc[b] /\ answer'[b] = answer[b] /\ visit'[b] = visit[b] /\ held'[b] = held[b]
        BY <3>2, <4>1
      <4>9. answer'[b] = "out_of_stock" => Cardinality(Free(b)') < amount'[b]
        BY <4>1, <4>4, <4>5, <4>6, <4>7, <4>8
      <4> QED
        BY <4>3, <4>7, <4>8, <4>9
    <3> QED
      BY <3>1, <3>2
  <2>3. ASSUME NEW s \in Seeders, SeederStep(s) \/ SeedFail(s) PROVE Searched(b)'
    BY <2>0, <2>3, SeedBegins DEF Searched
  <2> QED
    BY <2>1, <2>2, <2>3 DEF Next, Finished
<1>3. AllSearched => RefusalsHaveACause
  BY DEF Searched, RefusalsHaveACause, Free
<1> QED
  BY <1>1, <1>2, <1>3, TicketTypeInit, PTL DEF Spec

-----------------------------------------------------------------------------
(* What a seed leaves                                                       *)

\* While seeds run one at a time, a DELETE has the whole pile in its snapshot or under its
\* locks, and the INSERT finds nothing.
Alone ==
  ~overlap =>
    /\ \A s, o \in Seeders : InFlight(s) /\ InFlight(o) => s = o
    /\ \A s \in Seeders :
         /\ pc[s] = "clear" => pile = visit[s] \cup held[s]
         /\ pc[s] = "insert" => pile = {}
         /\ pc[s] = "orders" => Cardinality(pile) = amount[s]
    /\ (\A s \in Seeders : ~InFlight(s)) /\ ~NoSeedYet =>
         \E s \in Seeders : answer[s] = "ok" /\ Cardinality(pile) = amount[s]

LEMMA AloneSeeder ==
  ASSUME LockInv, Alone, NEW s \in Seeders, SeederStep(s) \/ SeedFail(s)
  PROVE  Alone'
<1> SUFFICES ASSUME ~overlap' PROVE Alone'
  BY DEF Alone
<1>1. TypeInv /\ s \in Clients /\ s \notin Buyers
  BY DEF LockInv
<1>2. ~overlap /\ ~SeedFail(s)
  <2>1. ~SeedFail(s)
    BY DEF SeedFail
  <2>2. CASE SeedUpsert(s)
    BY <2>1, <2>2, Zenon DEF SeedUpsert
  <2>3. CASE ~SeedUpsert(s)
    <3>1. overlap' = overlap
      BY <2>1, <2>3
      DEF SeederStep, BeginDelete, DeleteTicket, CommitDelete, InsertTickets, DeleteOrders, history
    <3> QED
      BY <2>1, <3>1
  <2> QED
    BY <2>2, <2>3
<1>3. \A o \in Seeders \ {s} : ~InFlight(o) /\ pc'[o] = pc[o] /\ ~InFlight(o)'
  <2>1. CASE SeedUpsert(s)
    BY <1>1, <2>1 DEF SeedUpsert, InFlight, Goto, TypeInv, TypeOK
  <2>2. CASE ~SeedUpsert(s)
    <3>1. InFlight(s) /\ \A o \in Seeders \ {s} : pc'[o] = pc[o]
      BY <1>1, <1>2, <2>2
      DEF SeederStep, BeginDelete, DeleteTicket, CommitDelete, InsertTickets, DeleteOrders,
          InFlight, Return, Goto, TypeInv, TypeOK
    <3> QED
      BY <1>2, <3>1 DEF Alone, InFlight
  <2> QED
    BY <2>1, <2>2
<1>4. ASSUME NEW loc \in {"delete", "clear", "insert", "orders"}, pc'[s] = loc,
             loc = "clear" => pile' = visit'[s] \cup held'[s],
             loc = "insert" => pile' = {},
             loc = "orders" => Cardinality(pile') = amount'[s]
      PROVE  Alone'
  <2>1. InFlight(s)'
    BY <1>4 DEF InFlight
  <2> QED
    BY <1>3, <1>4, <2>1 DEF Alone, InFlight
<1>5. CASE SeedUpsert(s)
  BY <1>1, <1>4, <1>5 DEF SeedUpsert, Goto, TypeInv, TypeOK
<1>6. CASE BeginDelete(s)
  <2>1. held[s] = {} /\ held' = held /\ pile' = pile
    BY <1>6 DEF BeginDelete, tables, LockInv, Locks
  <2>2. pc'[s] = "clear" /\ visit'[s] = pile
    BY <1>1, <1>6 DEF BeginDelete, Goto, TypeInv, TypeOK
  <2> QED
    BY <1>4, <2>1, <2>2
<1>7. ASSUME NEW t \in visit[s], DeleteTicket(s, t) PROVE Alone'
  <2>1. pile = visit[s] \cup held[s] /\ pc[s] = "clear" /\ pile' = pile /\ pc' = pc
    BY <1>2, <1>7 DEF Alone, DeleteTicket, tables
  <2>2. t \in pile /\ visit'[s] = visit[s] \ {t} /\ held'[s] = held[s] \cup {t}
    BY <1>1, <1>7, <2>1 DEF DeleteTicket, Visited, Lock, TypeInv, TypeOK
  <2> QED
    BY <1>4, <2>1, <2>2
<1>8. CASE CommitDelete(s)
  <2>1. pile = held[s] /\ pile' = pile \ held[s]
    BY <1>2, <1>8 DEF Alone, CommitDelete, Restock
  <2>2. pc'[s] = "insert"
    BY <1>1, <1>8 DEF CommitDelete, Goto, TypeInv, TypeOK
  <2> QED
    BY <1>4, <2>1, <2>2
<1>9. CASE InsertTickets(s)
  <2>1. pile = {} /\ pile' = (lastId + 1) .. (lastId + amount[s]) /\ amount' = amount
    BY <1>2, <1>9 DEF Alone, InsertTickets, Restock
  <2>2. lastId \in Nat /\ amount[s] \in Nat
    BY <1>1 DEF TypeInv, TypeOK
  <2>3. Cardinality((lastId + 1) .. (lastId + amount[s])) =
          IF lastId + 1 > lastId + amount[s] THEN 0
          ELSE (lastId + amount[s]) - (lastId + 1) + 1
    <3>1. lastId + 1 \in Int /\ lastId + amount[s] \in Int
      BY <2>2
    <3> QED
      BY <3>1, FS_Interval
  <2>4. Cardinality(pile') = amount[s]
    BY <2>1, <2>2, <2>3
  <2>5. pc'[s] = "orders"
    BY <1>1, <1>9 DEF InsertTickets, Goto, TypeInv, TypeOK
  <2> QED
    BY <1>4, <2>1, <2>4, <2>5
<1>10. CASE DeleteOrders(s)
  <2>1. Cardinality(pile) = amount[s] /\ pile' = pile /\ amount' = amount
    BY <1>2, <1>10 DEF Alone, DeleteOrders, Return
  <2>2. pc'[s] = "done" /\ answer'[s] = "ok"
    BY <1>1, <1>10, ReturnType DEF DeleteOrders, Answers
  <2> QED
    BY <1>3, <2>1, <2>2 DEF Alone, InFlight
<1> QED
  BY <1>2, <1>5, <1>6, <1>7, <1>8, <1>9, <1>10 DEF SeederStep

\* A seed that ran alone left its own tickets and no others.
THEOREM SeedsReplaceThePile == Spec => []SeedReplacesThePile
<1>1. Init => Alone
  BY DEF Init, Alone, NoSeedYet, InFlight
<1>2. LockInv /\ Alone /\ [Next]_vars => (LockInv /\ Alone)'
  <2> SUFFICES ASSUME LockInv, Alone, [Next]_vars PROVE Alone'
    BY LockStep
  <2>1. ASSUME UNCHANGED <<pile, amount, overlap>>,
               \A s \in Seeders : /\ pc'[s] = pc[s] /\ answer'[s] = answer[s]
                                  /\ visit'[s] = visit[s] /\ held'[s] = held[s]
        PROVE  Alone'
    BY <2>1 DEF Alone, NoSeedYet, InFlight
  <2>2. ASSUME NEW b \in Buyers, BuyerStep(b) \/ Commit(b, "error") \/ BuyerFail(b)
        PROVE  Alone'
    <3>1. UNCHANGED <<pile, amount, overlap>>
      BY <2>2, BuyerCases DEF tables, history, RollBack, Return, Commit
    <3>2. \A s \in Seeders : /\ pc'[s] = pc[s] /\ answer'[s] = answer[s]
                             /\ visit'[s] = visit[s] /\ held'[s] = held[s]
      BY <2>2
      DEF BuyerStep, BeginClaim, Visit, Visited, Lock, Claimed, ClassifyEmpty, InsertOrder,
          BuyerFail, Commit, RollBack, Return, Goto, LockInv, TypeInv, TypeOK
    <3> QED
      BY <2>1, <3>1, <3>2
  <2>3. CASE UNCHANGED vars
    BY <2>1, <2>3 DEF vars, tables, history
  <2> QED
    BY <2>2, <2>3, AloneSeeder DEF Next, Finished
<1>3. Alone => SeedReplacesThePile
  BY DEF Alone, SeedReplacesThePile
<1> QED
  BY <1>1, <1>2, <1>3, TicketTypeInit, PTL DEF Spec

-----------------------------------------------------------------------------
(* pg_skip_locked implements Sale                                           *)

LEMMA ContractInit == Init => Contract!Init
<1> SUFFICES ASSUME Init PROVE Contract!Init
  OBVIOUS
<1>1. TypeInv
  BY TicketTypeInit DEF LockInv
<1>2. Unclaimed = 1 .. lastId /\ seeded = lastId /\ sold = 0 /\ lastId \in Nat
  BY <1>1 DEF Init, Unclaimed, TypeInv, TypeOK
<1>3. Cardinality(1 .. lastId) = lastId
  <2>1. Cardinality(1 .. lastId) = IF 1 > lastId THEN 0 ELSE lastId - 1 + 1
    BY <1>2, FS_Interval
  <2> QED
    BY <1>2, <2>1
<1>4. BuyersQty \in [Buyers -> Nat \ {0}]
  BY <1>1 DEF BuyersQty, TypeInv, CallsInOrder
<1>5. BuyerAnswers = [b \in Buyers |-> None]
  BY DEF Init, BuyerAnswers, Answers
<1> QED
  BY <1>2, <1>3, <1>4, <1>5 DEF Contract!Init, Nobody

Stutter == UNCHANGED <<Cardinality(Unclaimed), sold, seeded, BuyersQty, BuyerAnswers>>

LEMMA RollBackRefines ==
  ASSUME LockInv, NEW b \in Buyers, NEW a \in Answers \ {"ok"}, pc[b] # "done", RollBack(b, a)
  PROVE  Contract!GiveUp(b)
<1> DEFINE told == IF a = "out_of_stock" THEN "retry_exhausted" ELSE a
<1>1. TypeInv /\ answer[b] = None /\ None # "out_of_stock"
  BY DEF LockInv, TypeInv, CallsInOrder, Answers
<1>2. UNCHANGED <<pile, claimed, sold, seeded, amount>> /\ answer' = [answer EXCEPT ![b] = a]
  BY DEF RollBack, Return, tables
<1>3. BuyerAnswers[b] = None
  BY <1>1 DEF BuyerAnswers
<1>4. BuyerAnswers' = [BuyerAnswers EXCEPT ![b] = told]
  BY <1>1, <1>2 DEF BuyerAnswers, TypeInv, TypeOK
<1>5. told \in Contract!Answers \ {"ok", "out_of_stock"}
  BY DEF Answers, Contract!Answers
<1>6. UNCHANGED <<Cardinality(Unclaimed), sold, seeded, BuyersQty>>
  BY <1>2 DEF Unclaimed, BuyersQty
<1> HIDE DEF told
<1> QED
  BY <1>3, <1>4, <1>5, <1>6 DEF Contract!GiveUp, Contract!Undecided, Contract!Answer, Nobody

LEMMA CommitRefines ==
  ASSUME LockInv, NEW b \in Buyers, NEW a \in {"ok", "error"}, Commit(b, a)
  PROVE  Contract!Buy(b)
<1>1. TypeInv /\ answer[b] = None /\ None # "out_of_stock"
  BY DEF Commit, LockInv, TypeInv, CallsInOrder, Answers
<1>2. /\ UNCHANGED <<pile, seeded, amount>> /\ answer' = [answer EXCEPT ![b] = a]
      /\ claimed' = claimed \cup held[b] /\ sold' = sold + Cardinality(held[b])
  BY DEF Commit, Return
<1>3. held[b] \subseteq Unclaimed /\ Cardinality(held[b]) = amount[b]
  BY DEF Commit, LockInv, Locks
<1>4. IsFiniteSet(Unclaimed) /\ Cardinality(Unclaimed) \in Nat
  BY <1>1, TicketsFinite DEF Unclaimed, TypeInv, TypeOK
<1>5. Unclaimed' = Unclaimed \ held[b]
  BY <1>2 DEF Unclaimed
<1>6. IsFiniteSet(held[b]) /\ Cardinality(held[b]) <= Cardinality(Unclaimed)
  BY <1>3, <1>4, FS_Subset
<1>7. Unclaimed \cap held[b] = held[b]
  BY <1>3
<1>8. Cardinality(Unclaimed \ held[b]) = Cardinality(Unclaimed) - Cardinality(Unclaimed \cap held[b])
  BY <1>4, FS_Difference
<1>9. Cardinality(Unclaimed)' = Cardinality(Unclaimed) - BuyersQty[b]
  BY <1>3, <1>5, <1>7, <1>8 DEF BuyersQty
<1>10. BuyersQty[b] <= Cardinality(Unclaimed) /\ sold' = sold + BuyersQty[b]
  BY <1>2, <1>3, <1>6 DEF BuyersQty
<1>11. BuyerAnswers[b] = None /\ BuyerAnswers' = [BuyerAnswers EXCEPT ![b] = a]
  BY <1>1, <1>2 DEF BuyerAnswers, TypeInv, TypeOK
<1>12. UNCHANGED <<seeded, BuyersQty>>
  BY <1>2 DEF BuyersQty
<1> QED
  BY <1>9, <1>10, <1>11, <1>12
  DEF Contract!Buy, Contract!Undecided, Contract!Answer, Nobody

LEMMA SeederRefines ==
  ASSUME LockInv, NEW s \in Seeders, SeederStep(s) \/ SeedFail(s)
  PROVE  Contract!Reseed \/ Stutter
<1>1. TypeInv
  BY DEF LockInv
<1>2. UNCHANGED <<BuyersQty, BuyerAnswers>>
  <2>1. amount' = amount /\ \A b \in Buyers : answer'[b] = answer[b]
    BY <1>1
    DEF SeederStep, SeedFail, SeedUpsert, BeginDelete, DeleteTicket, CommitDelete,
        InsertTickets, DeleteOrders, Return, TypeInv, TypeOK
  <2> QED
    BY <2>1 DEF BuyersQty, BuyerAnswers
<1>3. CASE CommitDelete(s) \/ InsertTickets(s)
  <2>1. PICK tickets : Restock(tickets)
    BY <1>3 DEF CommitDelete, InsertTickets
  <2>2. Unclaimed' = tickets \ claimed /\ sold' = 0 /\ seeded' = Cardinality(tickets \ claimed)
    BY <2>1 DEF Restock, Unclaimed
  <2>3. seeded' \in Nat
    <3>1. TypeInv'
      BY SeederType
    <3> QED
      BY <3>1 DEF TypeInv, TypeOK
  <2>4. Cardinality(Unclaimed)' \in Nat /\ seeded' = Cardinality(Unclaimed)' /\ sold' = 0
    BY <2>2, <2>3
  <2> QED
    BY <1>2, <2>4 DEF Contract!Reseed, Nobody
<1>4. CASE UNCHANGED <<pile, claimed, sold, seeded>>
  BY <1>2, <1>4 DEF Stutter, Unclaimed
<1> QED
  BY <1>3, <1>4
  DEF SeederStep, SeedFail, SeedUpsert, BeginDelete, DeleteTicket, DeleteOrders, tables, history

LEMMA TicketStepRefines == LockInv /\ [Next]_vars => [Contract!Next]_(Contract!vars)
<1> SUFFICES ASSUME LockInv, [Next]_vars PROVE [Contract!Next]_(Contract!vars)
  OBVIOUS
<1>1. ASSUME Stutter PROVE [Contract!Next]_(Contract!vars)
  BY <1>1 DEF Stutter, Contract!vars, Nobody
<1>2. ASSUME UNCHANGED <<tables, amount, answer, history>> PROVE Stutter
  BY <1>2 DEF tables, history, Stutter, Unclaimed, BuyersQty, BuyerAnswers
<1>3. CASE UNCHANGED vars
  BY <1>1, <1>2, <1>3 DEF vars
<1>4. ASSUME NEW b \in Buyers, BuyerStep(b) \/ Commit(b, "error") \/ BuyerFail(b)
      PROVE  [Contract!Next]_(Contract!vars)
  BY <1>1, <1>2, <1>4, BuyerCases, RollBackRefines, CommitRefines DEF Contract!Next
<1>5. ASSUME NEW s \in Seeders, SeederStep(s) \/ SeedFail(s)
      PROVE  [Contract!Next]_(Contract!vars)
  BY <1>1, <1>5, SeederRefines DEF Contract!Next
<1> QED
  BY <1>3, <1>4, <1>5 DEF Next, Finished

\* pg_skip_locked keeps the contract of Inventory: a sale takes its tickets at COMMIT, out
\* of those nobody else has.
THEOREM TicketsImplementSale == Spec => RefinesSale
<1>1. LockInv /\ [Next]_vars => [Contract!Next]_(Contract!vars)
  BY TicketStepRefines
<1> QED
  BY <1>1, ContractInit, TicketTypeInit, LockStep, PTL
  DEF Spec, RefinesSale, Contract!Spec

\* The theorems about Sale, for the state it is mapped to.
Inherited == INSTANCE SaleProofs WITH
  left <- Cardinality(Unclaimed), taken <- sold, qty <- BuyersQty, answer <- BuyerAnswers,
  holding <- Nobody, seenShort <- Nobody

\* So it never sells more than was seeded last.
THEOREM TicketsNeverOversell == Spec => [](sold <= seeded)
<1>1. Contract!Init => Inherited!Init
  BY DEF Contract!Init, Inherited!Init
<1>2. [Contract!Next]_(Contract!vars) => [Inherited!Next]_(Inherited!vars)
  BY DEF Contract!Next, Contract!Buy, Contract!Deliver, Contract!Shortage, Contract!Refuse,
         Contract!GiveUp, Contract!Reseed, Contract!Answers, Contract!vars,
         Contract!Undecided, Contract!Answer,
         Inherited!Next, Inherited!Buy, Inherited!Deliver, Inherited!Shortage,
         Inherited!Refuse, Inherited!GiveUp, Inherited!Reseed, Inherited!Answers,
         Inherited!vars, Inherited!Undecided, Inherited!Answer
<1>3. RefinesSale => Inherited!Spec
  BY <1>1, <1>2, PTL DEF RefinesSale, Contract!Spec, Inherited!Spec
<1>4. Inherited!Spec => []Inherited!NoOversell
  BY Inherited!ContractNeverOversells
<1> QED
  BY <1>3, <1>4, TicketsImplementSale, PTL DEF Inherited!NoOversell

=============================================================================
