----------------------------- MODULE PgRowProofs -----------------------------
(* Theorems about PgRow, for every number of buyers and seeders.            *)
EXTENDS PgRow, TotalsProofs

USE ClientsAssumption DEF Clients

\* A call that goes on has attempts left.
AttemptsLeft == \A b \in Buyers : pc[b] # "done" => failures[b] < MaxAttempts

TypeInv == TypeOK /\ AttemptsLeft

LEMMA InitialRow == Init => row \in Rows /\ row.stock \in Nat
<1> SUFFICES ASSUME Init PROVE row \in Rows /\ row.stock \in Nat
  OBVIOUS
<1>1. PICK present \in RowAtStart, s \in Stocks :
        row = IF present THEN [NoRow EXCEPT !.exists = TRUE, !.stock = s] ELSE NoRow
  BY DEF Init
<1>2. s \in Nat
  BY QuantitiesAssumption
<1>3. CASE present
  <2>1. row = [exists |-> TRUE, stock |-> s, version |-> 0, xmin |-> 0]
    BY <1>1, <1>3 DEF NoRow
  <2> QED
    BY <1>2, <2>1 DEF Rows
<1>4. CASE ~present
  BY <1>1, <1>4 DEF Rows, NoRow
<1> QED
  BY <1>3, <1>4

LEMMA TypeInit == Init => TypeInv
<1> SUFFICES ASSUME Init PROVE TypeInv
  OBVIOUS
<1>1. row \in Rows /\ row.stock \in Nat
  BY InitialRow
<1>2. kind \in [Clients -> RowKinds]
  BY DeploymentsAssumption DEF Init
<1>3. NoRow \in Rows
  BY DEF NoRow, Rows
<1>4. TypeOK
  BY <1>1, <1>2, <1>3, LimitsAssumption DEF Init, TypeOK, Locations, InTransaction
<1>5. AttemptsLeft
  BY LimitsAssumption DEF Init, AttemptsLeft
<1> QED
  BY <1>4, <1>5 DEF TypeInv

-----------------------------------------------------------------------------
(* Types                                                                    *)

LEMMA ReleaseType ==
  ASSUME TypeInv, NEW b \in Buyers, Release(b)
  PROVE  /\ rowLock' \in Buyers \cup {None}
         /\ advLock' \in Buyers \cup {None}
         /\ read' \in [Buyers -> Rows]
         /\ write' \in [Buyers -> Rows]
<1>1. NoRow \in Rows
  BY DEF NoRow, Rows
<1> QED
  BY <1>1 DEF Release, TypeInv, TypeOK

LEMMA ReturnType ==
  ASSUME TypeInv, NEW b \in Buyers, NEW a \in Answers, Return(b, a)
  PROVE  TypeInv'
<1>1. Release(b)
  BY DEF Return
<1>2. TypeOK'
  BY <1>1, ReleaseType DEF Return, TypeInv, TypeOK, Goto, Locations
<1>3. AttemptsLeft'
  BY DEF Return, TypeInv, TypeOK, AttemptsLeft, Goto
<1> QED
  BY <1>2, <1>3 DEF TypeInv

LEMMA ConflictType ==
  ASSUME TypeInv, NEW b \in Buyers, pc[b] # "done", Conflict(b)
  PROVE  TypeInv'
<1>1. Release(b)
  BY DEF Conflict
<1>2. failures[b] + 1 \in 0 .. MaxAttempts
  BY LimitsAssumption DEF TypeInv, TypeOK, AttemptsLeft
<1>3. TypeOK'
  BY <1>1, <1>2, ReleaseType DEF Conflict, TypeInv, TypeOK, Goto, Locations, Answers
<1>4. AttemptsLeft'
  BY <1>2 DEF Conflict, TypeInv, TypeOK, AttemptsLeft, Goto
<1> QED
  BY <1>3, <1>4 DEF TypeInv

LEMMA PutType ==
  ASSUME TypeInv, NEW b \in Buyers, NEW v \in Rows, Put(b, v)
  PROVE  TypeInv'
<1>1. TypeOK'
  BY DEF Put, TypeInv, TypeOK, Goto, Locations, InTransaction
<1>2. AttemptsLeft'
  BY DEF Put, TypeInv, TypeOK, AttemptsLeft, Goto
<1> QED
  BY <1>1, <1>2 DEF TypeInv

LEMMA NextRowType ==
  ASSUME TypeInv, NEW n \in Int, NEW v \in Nat
  PROVE  NextRow(n, v) \in Rows
  BY DEF TypeInv, TypeOK, NextRow, Rows

LEMMA DifferenceType ==
  ASSUME TypeInv, NEW b \in Buyers
  PROVE  /\ qty[b] \in Nat \ {0}
         /\ row.stock \in Int /\ row.stock - qty[b] \in Int
         /\ read[b].stock \in Int /\ read[b].stock - qty[b] \in Int
         /\ row.version \in Nat /\ row.version + 1 \in Nat
<1>1. qty[b] \in Nat \ {0}
  BY QuantitiesAssumption DEF TypeInv, TypeOK
<1>2. row \in Rows /\ read[b] \in Rows
  BY DEF TypeInv, TypeOK
<1>3. row.stock \in Int /\ read[b].stock \in Int /\ row.version \in Nat
  BY <1>2 DEF Rows
<1> QED
  BY <1>1, <1>3

LEMMA CommitType ==
  ASSUME TypeInv, NEW b \in Buyers, NEW a \in Answers, CommitAs(b, a)
  PROVE  TypeInv'
<1>1. Release(b)
  BY DEF CommitAs
<1>2. TypeOK'
  BY <1>1, ReleaseType, DifferenceType DEF CommitAs, TypeInv, TypeOK, Goto, Locations
<1>3. AttemptsLeft'
  BY DEF CommitAs, TypeInv, TypeOK, AttemptsLeft, Goto
<1> QED
  BY <1>2, <1>3 DEF TypeInv

LEMMA BuyerType ==
  ASSUME TypeInv, NEW b \in Buyers, BuyerStep(b)
  PROVE  TypeInv'
<1>1. ASSUME NEW loc \in {"lock", "update", "select"}, Begin(b, loc) PROVE TypeInv'
  BY <1>1 DEF Begin, Goto, TypeInv, TypeOK, AttemptsLeft, Locations, InTransaction
<1>2. CASE LockAdvisory(b)
  BY <1>2 DEF LockAdvisory, Goto, TypeInv, TypeOK, AttemptsLeft, Locations, InTransaction
<1>3. ASSUME NEW forUpdate \in BOOLEAN, Select(b, forUpdate) PROVE TypeInv'
  <2>1. CASE Return(b, "not_found") \/ Return(b, "out_of_stock")
    BY <2>1, ReturnType DEF Answers
  <2>2. CASE /\ read' = [read EXCEPT ![b] = row]
             /\ rowLock' = IF forUpdate THEN b ELSE rowLock
             /\ Goto(b, "update")
             /\ UNCHANGED <<row, orders, advLock, kind, qty, failures, write, answer,
                            seeded, sinceSeed>>
    BY <1>3, <2>2
    DEF Select, Goto, TypeInv, TypeOK, AttemptsLeft, Locations, InTransaction
  <2> QED
    BY <1>3, <2>1, <2>2 DEF Select
<1>4. CASE UpdateLiteral(b)
  BY <1>4, PutType, NextRowType, DifferenceType DEF UpdateLiteral
<1>5. CASE UpdateSnapshot(b)
  BY <1>4, <1>5, ConflictType DEF UpdateSnapshot
<1>6. CASE UpdateVersioned(b)
  BY <1>6, PutType, ConflictType, NextRowType, DifferenceType DEF UpdateVersioned
<1>7. CASE UpdateConditional(b)
  <2>1. CASE Put(b, NextRow(row.stock - qty[b], row.version))
    BY <2>1, PutType, NextRowType, DifferenceType
  <2>2. CASE /\ pc[b] = "update"
             /\ Goto(b, "classify")
             /\ UNCHANGED <<row, orders, rowLock, advLock, kind, qty, failures, read,
                            write, answer, seeded, sinceSeed>>
    BY <2>2 DEF Goto, TypeInv, TypeOK, AttemptsLeft, Locations, InTransaction
  <2> QED
    BY <1>7, <2>1, <2>2 DEF UpdateConditional
<1>8. CASE Classify(b)
  BY <1>8, ReturnType DEF Classify, Answers
<1>9. CASE Insert(b)
  BY <1>9 DEF Insert, Goto, TypeInv, TypeOK, AttemptsLeft, Locations, InTransaction
<1>10. CASE Commit(b)
  BY <1>10, CommitType DEF Commit, Answers
<1> QED
  BY <1>1, <1>2, <1>3, <1>4, <1>5, <1>6, <1>7, <1>8, <1>9, <1>10
  DEF BuyerStep, NaiveDecrement, PgCondDecrement, PgForUpdateDecrement,
      PgAdvisoryDecrement, PgOptimisticDecrement, PgSerializableDecrement

LEMMA SeederType ==
  ASSUME TypeInv, NEW s \in Seeders, SeederStep(s) \/ SeedFail(s)
  PROVE  TypeInv'
<1>0. s \in Clients /\ s \notin Buyers
  OBVIOUS
<1>1. CASE SeedConnect(s)
  BY <1>0, <1>1 DEF SeedConnect, Goto, TypeInv, TypeOK, AttemptsLeft, Locations, InTransaction
<1>2. CASE SeedUpsert(s)
  <2>1. PICK n \in Stocks :
          /\ row' = NextRow(n, IF kind[s] = "pg_optimistic" THEN 0 ELSE row.version)
          /\ seeded' = n
    BY <1>2 DEF SeedUpsert
  <2>2. n \in Nat
    BY QuantitiesAssumption
  <2>3. row' \in Rows
    <3>1. (IF kind[s] = "pg_optimistic" THEN 0 ELSE row.version) \in Nat
      BY DEF TypeInv, TypeOK, Rows
    <3> QED
      BY <2>1, <2>2, <3>1, NextRowType
  <2> QED
    BY <1>0, <1>2, <2>1, <2>2, <2>3
    DEF SeedUpsert, Goto, TypeInv, TypeOK, AttemptsLeft, Locations
<1>3. CASE SeedDelete(s)
  BY <1>0, <1>3
  DEF SeedDelete, SeedReturn, Goto, TypeInv, TypeOK, AttemptsLeft, Locations, Answers
<1>4. CASE SeedFail(s)
  BY <1>0, <1>4
  DEF SeedFail, SeedReturn, Goto, TypeInv, TypeOK, AttemptsLeft, Locations, Answers
<1> QED
  BY <1>1, <1>2, <1>3, <1>4 DEF SeederStep

LEMMA TypeStep == TypeInv /\ [Next]_vars => TypeInv'
<1> SUFFICES ASSUME TypeInv, [Next]_vars PROVE TypeInv'
  OBVIOUS
<1>1. ASSUME NEW b \in Buyers, BuyerStep(b) PROVE TypeInv'
  BY <1>1, BuyerType
<1>2. ASSUME NEW b \in Buyers, BuyerFault(b) PROVE TypeInv'
  <2>1. CASE CommitUnacknowledged(b)
    BY <2>1, CommitType DEF CommitUnacknowledged, Answers
  <2>2. CASE SerializationFailure(b)
    BY <2>2, ConflictType DEF SerializationFailure
  <2>3. CASE Fail(b)
    BY <2>3, ReturnType DEF Fail, Answers
  <2> QED
    BY <1>2, <2>1, <2>2, <2>3 DEF BuyerFault
<1>3. ASSUME NEW s \in Seeders, SeederStep(s) \/ SeedFail(s) PROVE TypeInv'
  BY <1>3, SeederType
<1>4. CASE UNCHANGED vars
  BY <1>4 DEF vars, TypeInv, TypeOK, AttemptsLeft
<1> QED
  BY <1>1, <1>2, <1>3, <1>4 DEF Next, Finished

\* Every variable keeps its type, and no call makes more than MaxAttempts attempts.
THEOREM TypeCorrect == Spec => []TypeOK
<1>1. TypeInv => TypeOK
  BY DEF TypeInv
<1> QED
  BY <1>1, TypeInit, TypeStep, PTL DEF Spec

-----------------------------------------------------------------------------
(* No adapter writes a negative stock                                       *)

\* The check that precedes an UPDATE holds of what the UPDATE will write.
NonNegative ==
  /\ StockNeverNegative
  /\ \A b \in Buyers :
       /\ pc[b] = "update" /\ kind[b] # "pg_cond" => qty[b] <= read[b].stock
       /\ pc[b] \in {"insert", "commit"} => write[b].stock >= 0

\* A call that is over or begins again is in no state the invariants speak of.
LEMMA ReturnEnds ==
  ASSUME TypeInv, NEW b \in Buyers, NEW a, Return(b, a) \/ Conflict(b)
  PROVE  /\ pc'[b] \in {"idle", "done"}
         /\ \A c \in Buyers \ {b} : /\ pc'[c] = pc[c]
                                     /\ read'[c] = read[c]
                                     /\ write'[c] = write[c]
         /\ UNCHANGED <<row, kind, qty, seeded, sinceSeed>>
  BY DEF Return, Conflict, Release, Goto, TypeInv, TypeOK

LEMMA NonNegativePut ==
  ASSUME TypeInv, NonNegative, NEW b \in Buyers, NEW n \in Nat, NEW v \in Nat,
         Put(b, NextRow(n, v))
  PROVE  NonNegative'
<1>1. NextRow(n, v).stock = n
  BY DEF NextRow
<1> QED
  BY <1>1 DEF Put, Goto, NonNegative, StockNeverNegative, TypeInv, TypeOK

LEMMA NonNegativeBuyer ==
  ASSUME TypeInv, NonNegative, NEW b \in Buyers, BuyerStep(b) \/ BuyerFault(b)
  PROVE  NonNegative'
<1>0. /\ qty[b] \in Nat /\ row.stock \in Int /\ read[b].stock \in Int
      /\ row.version \in Nat /\ row.version + 1 \in Nat
  BY DifferenceType
<1>1. ASSUME NEW loc \in {"lock", "update", "select"}, Begin(b, loc),
             loc = "update" => kind[b] = "pg_cond"
      PROVE NonNegative'
  BY <1>1 DEF Begin, Goto, NonNegative, StockNeverNegative, TypeInv, TypeOK
<1>2. CASE LockAdvisory(b)
  BY <1>2 DEF LockAdvisory, Goto, NonNegative, StockNeverNegative, TypeInv, TypeOK
<1>3. ASSUME NEW a, Return(b, a) \/ Conflict(b) PROVE NonNegative'
  BY <1>3, ReturnEnds DEF NonNegative, StockNeverNegative
<1>4. ASSUME NEW forUpdate \in BOOLEAN, Select(b, forUpdate) PROVE NonNegative'
  BY <1>0, <1>3, <1>4
  DEF Select, Goto, NonNegative, StockNeverNegative, TypeInv, TypeOK
<1>5. ASSUME pc[b] = "update", kind[b] # "pg_cond" PROVE read[b].stock - qty[b] \in Nat
  BY <1>0, <1>5 DEF NonNegative
<1>6. CASE kind[b] # "pg_cond" /\ UpdateLiteral(b)
  BY <1>0, <1>5, <1>6, NonNegativePut DEF UpdateLiteral, Put
<1>7. CASE kind[b] # "pg_cond" /\ UpdateSnapshot(b)
  BY <1>3, <1>6, <1>7 DEF UpdateSnapshot
<1>8. CASE kind[b] # "pg_cond" /\ UpdateVersioned(b)
  BY <1>0, <1>3, <1>5, <1>8, NonNegativePut DEF UpdateVersioned, Put
<1>9. CASE UpdateConditional(b)
  <2>1. CASE Put(b, NextRow(row.stock - qty[b], row.version)) /\ row.stock >= qty[b]
    BY <1>0, <2>1, NonNegativePut
  <2>2. CASE /\ Goto(b, "classify")
             /\ UNCHANGED <<row, kind, qty, read, write>>
    BY <2>2 DEF Goto, NonNegative, StockNeverNegative, TypeInv, TypeOK
  <2> QED
    BY <1>9, <2>1, <2>2 DEF UpdateConditional
<1>10. CASE Classify(b)
  BY <1>3, <1>10 DEF Classify
<1>11. CASE Insert(b)
  BY <1>11 DEF Insert, Goto, NonNegative, StockNeverNegative, TypeInv, TypeOK
<1>12. ASSUME NEW a, CommitAs(b, a) PROVE NonNegative'
  BY <1>12 DEF CommitAs, Release, Goto, NonNegative, StockNeverNegative, TypeInv, TypeOK
<1> QED
  BY <1>1, <1>2, <1>3, <1>4, <1>6, <1>7, <1>8, <1>9, <1>10, <1>11, <1>12
  DEF BuyerStep, NaiveDecrement, PgCondDecrement, PgForUpdateDecrement,
      PgAdvisoryDecrement, PgOptimisticDecrement, PgSerializableDecrement,
      BuyerFault, Commit, CommitUnacknowledged, SerializationFailure, Fail

LEMMA NonNegativeSeeder ==
  ASSUME TypeInv, NonNegative, NEW s \in Seeders, SeederStep(s) \/ SeedFail(s)
  PROVE  NonNegative'
<1>1. CASE SeedUpsert(s)
  <2>1. PICK n \in Stocks :
      row' = NextRow(n, IF kind[s] = "pg_optimistic" THEN 0 ELSE row.version)
    BY <1>1 DEF SeedUpsert
  <2>2. row'.stock \in Nat
    BY <2>1, QuantitiesAssumption DEF NextRow
  <2> QED
    BY <1>1, <2>2 DEF SeedUpsert, Goto, NonNegative, StockNeverNegative, TypeInv, TypeOK
<1>2. CASE SeedConnect(s) \/ SeedDelete(s) \/ SeedFail(s)
  BY <1>2 DEF SeedConnect, SeedDelete, SeedFail, SeedReturn, Goto, NonNegative,
              StockNeverNegative, TypeInv, TypeOK
<1> QED
  BY <1>1, <1>2 DEF SeederStep

LEMMA NonNegativeInit == Init => NonNegative
<1> SUFFICES ASSUME Init PROVE NonNegative
  OBVIOUS
<1>1. row.stock >= 0
  BY InitialRow
<1> QED
  BY <1>1 DEF Init, NonNegative, StockNeverNegative

\* Whatever adapters run together, and however many updates the racy ones lose,
\* the stock in the row never falls below zero.
THEOREM NeverNegative == Spec => []StockNeverNegative
<1>1. Init => NonNegative
  BY NonNegativeInit
<1>2. TypeInv /\ NonNegative /\ [Next]_vars => NonNegative'
  <2> SUFFICES ASSUME TypeInv, NonNegative, [Next]_vars PROVE NonNegative'
    OBVIOUS
  <2>1. CASE UNCHANGED vars
    BY <2>1 DEF vars, NonNegative, StockNeverNegative
  <2> QED
    BY <2>1, NonNegativeBuyer, NonNegativeSeeder DEF Next, Finished
<1>3. NonNegative => StockNeverNegative
  BY DEF NonNegative
<1> QED
  BY <1>1, <1>2, <1>3, TypeInit, TypeStep, PTL DEF Spec

-----------------------------------------------------------------------------
(* Coordinated deployments lose no update                                   *)

\* What Coordinated says of each client.
OneDeployment ==
  \/ \A c \in Clients : kind[c] \in {"pg_cond", "pg_for_update", "pg_serializable"}
  \/ Seeders = {} /\ \A b \in Buyers : kind[b] = "pg_advisory"
  \/ Seeders = {} /\ \A b \in Buyers : kind[b] = "pg_optimistic"

Inv == TypeInv /\ OneDeployment /\ NothingOverwritten /\ Balance

LEMMA CoordinatedClients == Coordinated <=> OneDeployment
<1>1. Seeders = {} => Clients = Buyers
  OBVIOUS
<1> QED
  BY <1>1 DEF Coordinated, Coordinate, OneDeployment

LEMMA InvInit == ASSUME OneDeployment, Init PROVE Inv
<1>3. NothingOverwritten
  BY DEF Init, NothingOverwritten, LocksHeld, ReadsCurrent, WritesFresh
<1>4. Balance
  <2>1. seeded = row.stock /\ sinceSeed = 0
    BY DEF Init
  <2>2. row.stock \in Nat
    BY InitialRow
  <2> QED
    BY <2>1, <2>2 DEF Balance
<1> QED
  BY <1>3, <1>4, TypeInit DEF Inv

LEMMA Numbers ==
  ASSUME TypeInv, NEW b \in Buyers
  PROVE  /\ row.version \in Nat /\ row.xmin \in Nat
         /\ read[b].version \in Nat /\ read[b].xmin \in Nat
         /\ seeded \in Nat /\ sinceSeed \in Nat
<1>1. row \in Rows /\ read[b] \in Rows
  BY DEF TypeInv, TypeOK
<1> QED
  BY <1>1 DEF TypeInv, TypeOK, Rows

\* A call that returns or retries leaves the row and the others' locks alone.
LEMMA ReturnKeepsInv ==
  ASSUME Inv, TypeInv', NEW b \in Buyers, NEW a, Return(b, a) \/ Conflict(b)
  PROVE  Inv'
<1>1. OneDeployment' /\ Balance'
  BY ReturnEnds DEF Inv, OneDeployment, Balance
<1>2. LocksHeld'
  <2> SUFFICES ASSUME NEW c \in Buyers
               PROVE  /\ pc'[c] \in {"insert", "commit"} => rowLock' = c
                      /\ kind'[c] = "pg_for_update" /\ pc'[c] = "update" => rowLock' = c
                      /\ kind'[c] = "pg_advisory"
                           /\ pc'[c] \in {"select", "update", "insert", "commit"}
                         => advLock' = c
    BY DEF LocksHeld
  <2>1. CASE c = b
    BY <2>1, ReturnEnds DEF Inv
  <2>2. CASE c # b
    <3>1. /\ pc'[c] = pc[c] /\ kind'[c] = kind[c]
          /\ rowLock = c => rowLock' = c
          /\ advLock = c => advLock' = c
      BY <2>2 DEF Return, Conflict, Release, Goto, Inv, TypeInv, TypeOK
    <3> QED
      BY <3>1 DEF Inv, NothingOverwritten, LocksHeld
  <2> QED
    BY <2>1, <2>2
<1>3. ReadsCurrent'
  BY ReturnEnds DEF Inv, NothingOverwritten, ReadsCurrent
<1>4. WritesFresh'
  BY ReturnEnds DEF Inv, NothingOverwritten, WritesFresh
<1> QED
  BY <1>1, <1>2, <1>3, <1>4 DEF Inv, NothingOverwritten

\* An UPDATE that may go ahead writes the row as it is, less what b buys.
LEMMA PutKeepsInv ==
  ASSUME Inv, TypeInv', NEW b \in Buyers,
         Put(b, NextRow(row.stock - qty[b],
                        row.version + IF kind[b] = "pg_optimistic" THEN 1 ELSE 0))
  PROVE  Inv'
<1>0. UNCHANGED <<row, advLock, kind, qty, read, seeded, sinceSeed>>
  BY DEF Put
<1>1. OneDeployment' /\ Balance'
  BY <1>0 DEF Inv, OneDeployment, Balance
<1>2. LocksHeld'
  BY DEF Inv, TypeInv, TypeOK, NothingOverwritten, LocksHeld, Put, RowFreeFor, Goto
<1>3. ReadsCurrent'
  BY DEF Inv, TypeInv, TypeOK, NothingOverwritten, ReadsCurrent, Put, Goto
<1>4. WritesFresh'
  BY DEF Inv, TypeInv, TypeOK, NothingOverwritten, WritesFresh, Put, NextRow, Goto
<1> QED
  BY <1>1, <1>2, <1>3, <1>4 DEF Inv, NothingOverwritten

\* A literal computed in Go is the right one under a lock, a version or a snapshot.
LEMMA LiteralKeepsInv ==
  ASSUME Inv, TypeInv', NEW b \in Buyers, UpdateLiteral(b),
         \/ kind[b] \in {"pg_for_update", "pg_advisory"}
         \/ kind[b] = "pg_serializable" /\ row.xmin = read[b].xmin
  PROVE  Inv'
<1>1. read[b].stock = row.stock
  BY DEF UpdateLiteral, Put, Inv, NothingOverwritten, ReadsCurrent
<1>2. row.version + 0 = row.version
  BY DifferenceType DEF Inv
<1> QED
  BY <1>1, <1>2, PutKeepsInv DEF UpdateLiteral

LEMMA VersionedKeepsInv ==
  ASSUME Inv, TypeInv', NEW b \in Buyers, kind[b] = "pg_optimistic", UpdateVersioned(b)
  PROVE  Inv'
<1>1. CASE Conflict(b)
  BY <1>1, ReturnKeepsInv
<1>2. CASE /\ row.version = read[b].version
           /\ Put(b, NextRow(read[b].stock - qty[b], row.version + 1))
  <2>1. read[b].stock = row.stock
    BY <1>2 DEF Put, Inv, NothingOverwritten, ReadsCurrent
  <2> QED
    BY <1>2, <2>1, PutKeepsInv
<1> QED
  BY <1>1, <1>2 DEF UpdateVersioned

LEMMA ConditionalKeepsInv ==
  ASSUME Inv, TypeInv', NEW b \in Buyers, kind[b] = "pg_cond", UpdateConditional(b)
  PROVE  Inv'
<1>1. CASE Put(b, NextRow(row.stock - qty[b], row.version))
  <2>1. row.version + 0 = row.version
    BY DifferenceType DEF Inv
  <2> QED
    BY <1>1, <2>1, PutKeepsInv
<1>2. CASE /\ Goto(b, "classify")
           /\ UNCHANGED <<row, rowLock, advLock, kind, qty, read, write, seeded, sinceSeed>>
  BY <1>2 DEF Goto, Inv, TypeInv, TypeOK, OneDeployment, Balance, NothingOverwritten,
              LocksHeld, ReadsCurrent, WritesFresh
<1> QED
  BY <1>1, <1>2 DEF UpdateConditional

LEMMA SelectKeepsInv ==
  ASSUME Inv, TypeInv', NEW b \in Buyers, NEW forUpdate \in BOOLEAN, Select(b, forUpdate),
         kind[b] = "pg_for_update" => forUpdate
  PROVE  Inv'
<1>1. ASSUME NEW a, Return(b, a) PROVE Inv'
  BY <1>1, ReturnKeepsInv
<1>2. CASE /\ read' = [read EXCEPT ![b] = row]
           /\ rowLock' = IF forUpdate THEN b ELSE rowLock
           /\ row.exists
           /\ Goto(b, "update")
           /\ UNCHANGED <<row, orders, advLock, kind, qty, failures, write, answer,
                          seeded, sinceSeed>>
  <2>1. OneDeployment' /\ Balance'
    BY <1>2 DEF Inv, OneDeployment, Balance
  <2>2. LocksHeld'
    BY <1>2 DEF Select, RowFreeFor, Goto, Inv, TypeInv, TypeOK, NothingOverwritten,
                LocksHeld
  <2>3. ReadsCurrent'
    BY <1>2, Numbers DEF Goto, Inv, TypeInv, TypeOK, NothingOverwritten, ReadsCurrent
  <2>4. WritesFresh'
    BY <1>2 DEF Goto, Inv, TypeInv, TypeOK, NothingOverwritten, WritesFresh
  <2> QED
    BY <2>1, <2>2, <2>3, <2>4 DEF Inv, NothingOverwritten
<1> QED
  BY <1>1, <1>2 DEF Select

\* A commit makes visible what nobody else can have read, or what they can tell.
LEMMA CommitKeepsInv ==
  ASSUME Inv, TypeInv', NEW b \in Buyers, NEW a, CommitAs(b, a)
  PROVE  Inv'
<1>0. /\ pc[b] = "commit" /\ row' = write[b] /\ sinceSeed' = sinceSeed + qty[b]
      /\ pc' = [pc EXCEPT ![b] = "done"]
      /\ UNCHANGED <<kind, qty, seeded>>
      /\ Release(b)
  BY DEF CommitAs, Goto
<1>1. OneDeployment'
  BY <1>0 DEF Inv, OneDeployment
<1>2. /\ write[b].stock = row.stock - qty[b]
      /\ write[b].xmin = row.xmin + 1
      /\ write[b].version = row.version + (IF kind[b] = "pg_optimistic" THEN 1 ELSE 0)
      /\ rowLock = b
  BY <1>0 DEF Inv, NothingOverwritten, WritesFresh, LocksHeld
<1>3. Balance'
  BY <1>0, <1>2, Numbers, DifferenceType DEF Inv, Balance
<1>4. LocksHeld'
  BY <1>0, <1>2 DEF Release, Inv, TypeInv, TypeOK, NothingOverwritten, LocksHeld
<1>5. ReadsCurrent'
  <2> SUFFICES ASSUME NEW c \in Buyers, pc'[c] = "update", kind'[c] # "pg_cond"
               PROVE  /\ read'[c].version <= row'.version
                      /\ read'[c].xmin <= row'.xmin
                      /\ \/ kind'[c] \in {"pg_for_update", "pg_advisory"}
                         \/ kind'[c] = "pg_optimistic" /\ read'[c].version = row'.version
                         \/ kind'[c] = "pg_serializable" /\ read'[c].xmin = row'.xmin
                         => read'[c].stock = row'.stock
    BY DEF ReadsCurrent
  <2>1. c # b /\ pc[c] = "update" /\ kind[c] # "pg_cond" /\ read'[c] = read[c]
    BY <1>0 DEF Release, Inv, TypeInv, TypeOK
  <2>2. read[c].version <= row.version /\ read[c].xmin <= row.xmin
    BY <2>1 DEF Inv, NothingOverwritten, ReadsCurrent
  <2>3. kind[c] # "pg_for_update"
    BY <1>2, <2>1 DEF Inv, NothingOverwritten, LocksHeld
  <2>4. kind[c] # "pg_advisory"
    BY <1>0, <2>1 DEF Inv, OneDeployment, NothingOverwritten, LocksHeld
  <2>5. kind[c] = "pg_optimistic" => kind[b] = "pg_optimistic"
    BY DEF Inv, OneDeployment
  <2>6. read[c].xmin < row'.xmin
    BY <1>0, <1>2, <2>2, Numbers DEF Inv
  <2>7. read[c].version <= row'.version
    BY <1>0, <1>2, <2>2, Numbers DEF Inv
  <2>8. kind[b] = "pg_optimistic" => read[c].version < row'.version
    BY <1>0, <1>2, <2>2, Numbers DEF Inv
  <2>9. row'.xmin \in Nat /\ row'.version \in Nat
    BY <1>0, <1>2, Numbers DEF Inv
  <2> QED
    BY <1>0, <2>1, <2>3, <2>4, <2>5, <2>6, <2>7, <2>8, <2>9, Numbers DEF Inv
<1>6. WritesFresh'
  BY <1>0, <1>2 DEF Release, Inv, TypeInv, TypeOK, NothingOverwritten, WritesFresh, LocksHeld
<1> QED
  BY <1>1, <1>3, <1>4, <1>5, <1>6 DEF Inv, NothingOverwritten

LEMMA BuyerKeepsInv ==
  ASSUME Inv, TypeInv', NEW b \in Buyers, BuyerStep(b) \/ BuyerFault(b)
  PROVE  Inv'
<1>1. ASSUME NEW loc \in {"lock", "update", "select"}, Begin(b, loc),
             loc = "update" => kind[b] = "pg_cond",
             loc = "select" => kind[b] # "pg_advisory"
      PROVE Inv'
  BY <1>1 DEF Begin, Goto, Inv, TypeInv, TypeOK, OneDeployment, Balance,
              NothingOverwritten, LocksHeld, ReadsCurrent, WritesFresh
<1>2. CASE LockAdvisory(b)
  BY <1>2 DEF LockAdvisory, Goto, Inv, TypeInv, TypeOK, OneDeployment, Balance,
              NothingOverwritten, LocksHeld, ReadsCurrent, WritesFresh
<1>3. CASE Insert(b)
  BY <1>3 DEF Insert, Goto, Inv, TypeInv, TypeOK, OneDeployment, Balance,
              NothingOverwritten, LocksHeld, ReadsCurrent, WritesFresh
<1>4. CASE Classify(b) \/ SerializationFailure(b) \/ Fail(b)
  BY <1>4, ReturnKeepsInv DEF Classify, SerializationFailure, Fail
<1>5. CASE Commit(b) \/ CommitUnacknowledged(b)
  BY <1>5, CommitKeepsInv DEF Commit, CommitUnacknowledged
<1>6. CASE NaiveDecrement(b)
  BY <1>6 DEF NaiveDecrement, Inv, OneDeployment
<1>7. CASE PgCondDecrement(b)
  BY <1>1, <1>3, <1>4, <1>5, <1>7, ConditionalKeepsInv DEF PgCondDecrement
<1>8. CASE PgForUpdateDecrement(b)
  BY <1>1, <1>3, <1>5, <1>8, SelectKeepsInv, LiteralKeepsInv DEF PgForUpdateDecrement
<1>9. CASE PgAdvisoryDecrement(b)
  BY <1>1, <1>2, <1>3, <1>5, <1>9, SelectKeepsInv, LiteralKeepsInv DEF PgAdvisoryDecrement
<1>10. CASE PgOptimisticDecrement(b)
  BY <1>1, <1>3, <1>5, <1>10, SelectKeepsInv, VersionedKeepsInv DEF PgOptimisticDecrement
<1>11. CASE PgSerializableDecrement(b)
  BY <1>1, <1>3, <1>5, <1>11, SelectKeepsInv, LiteralKeepsInv, ReturnKeepsInv
  DEF PgSerializableDecrement, UpdateSnapshot
<1> QED
  BY <1>4, <1>5, <1>6, <1>7, <1>8, <1>9, <1>10, <1>11 DEF BuyerStep, BuyerFault

\* A seed waits for the row lock, and a snapshot notices it.
LEMMA SeederKeepsInv ==
  ASSUME Inv, TypeInv', NEW s \in Seeders, SeederStep(s) \/ SeedFail(s)
  PROVE  Inv'
<1>0. s \in Clients /\ s \notin Buyers
  OBVIOUS
<1>1. CASE SeedUpsert(s)
  <2>0. /\ rowLock = None /\ sinceSeed' = 0
        /\ pc' = [pc EXCEPT ![s] = "gap"]
        /\ UNCHANGED <<rowLock, advLock, kind, qty, read, write>>
    BY <1>1 DEF SeedUpsert, Goto
  <2>1. \A c \in Clients : kind[c] \in {"pg_cond", "pg_for_update", "pg_serializable"}
    BY DEF Inv, OneDeployment
  <2>2. PICK n \in Stocks : row' = NextRow(n, row.version) /\ seeded' = n
    BY <1>0, <1>1, <2>1 DEF SeedUpsert
  <2>3. n \in Nat /\ row'.stock = n /\ row'.version = row.version /\ row'.xmin = row.xmin + 1
    BY <2>2, QuantitiesAssumption DEF NextRow
  <2>4. OneDeployment' /\ Balance'
    BY <2>0, <2>2, <2>3 DEF Inv, OneDeployment, Balance
  <2>5. LocksHeld'
    BY <1>0, <2>0 DEF Inv, TypeInv, TypeOK, NothingOverwritten, LocksHeld
  <2>6. ReadsCurrent'
    <3> SUFFICES ASSUME NEW b \in Buyers, pc[b] = "update", kind[b] # "pg_cond"
                 PROVE  /\ read[b].version <= row'.version
                        /\ read[b].xmin < row'.xmin
                        /\ kind[b] = "pg_serializable"
      BY <1>0, <2>0, <2>3, Numbers DEF Inv, TypeInv, TypeOK, ReadsCurrent
    <3>1. kind[b] = "pg_serializable"
      BY <2>0, <2>1 DEF Inv, NothingOverwritten, LocksHeld
    <3> QED
      BY <2>3, <3>1, Numbers DEF Inv, NothingOverwritten, ReadsCurrent
  <2>7. WritesFresh'
    BY <1>0, <2>0 DEF Inv, TypeInv, TypeOK, NothingOverwritten, WritesFresh, LocksHeld
  <2> QED
    BY <2>4, <2>5, <2>6, <2>7 DEF Inv, NothingOverwritten
<1>2. CASE SeedConnect(s) \/ SeedDelete(s) \/ SeedFail(s)
  BY <1>0, <1>2 DEF SeedConnect, SeedDelete, SeedFail, SeedReturn, Goto, Inv, TypeInv, TypeOK,
                    OneDeployment, Balance, NothingOverwritten, LocksHeld, ReadsCurrent,
                    WritesFresh
<1> QED
  BY <1>1, <1>2 DEF SeederStep

LEMMA InvStep == Inv /\ [Next]_vars => Inv'
<1> SUFFICES ASSUME Inv, [Next]_vars PROVE Inv'
  OBVIOUS
<1>1. TypeInv'
  BY TypeStep DEF Inv
<1>2. CASE UNCHANGED vars
  BY <1>1, <1>2 DEF vars, Inv, OneDeployment, Balance, NothingOverwritten, LocksHeld,
                    ReadsCurrent, WritesFresh
<1> QED
  BY <1>1, <1>2, BuyerKeepsInv, SeederKeepsInv DEF Next, Finished

LEMMA KindIsFixed == [Next]_vars => kind' = kind
<1> SUFFICES ASSUME [Next]_vars PROVE kind' = kind
  OBVIOUS
<1>1. ASSUME NEW b \in Buyers, BuyerStep(b) PROVE kind' = kind
  <2>1. ASSUME NEW version, Put(b, version) PROVE kind' = kind
    BY <2>1 DEF Put
  <2>2. CASE UpdateLiteral(b) \/ UpdateSnapshot(b) \/ UpdateVersioned(b)
             \/ UpdateConditional(b)
    BY <2>1, <2>2
    DEF UpdateLiteral, UpdateSnapshot, UpdateVersioned, UpdateConditional, Conflict
  <2> QED
    BY <1>1, <2>2
    DEF BuyerStep, NaiveDecrement, PgCondDecrement, PgForUpdateDecrement,
        PgAdvisoryDecrement, PgOptimisticDecrement, PgSerializableDecrement, Begin,
        LockAdvisory, Select, Classify, Insert, Commit, CommitAs, Return
<1>2. ASSUME NEW b \in Buyers, BuyerFault(b) PROVE kind' = kind
  BY <1>2 DEF BuyerFault, CommitUnacknowledged, CommitAs, SerializationFailure, Conflict,
              Fail, Return
<1>3. ASSUME NEW s \in Seeders, SeederStep(s) \/ SeedFail(s) PROVE kind' = kind
  BY <1>3 DEF SeederStep, SeedConnect, SeedUpsert, SeedDelete, SeedFail, SeedReturn
<1> QED
  BY <1>1, <1>2, <1>3 DEF Next, Finished, vars

\* The adapters of the clients never change, so a sale that begins coordinated stays so.
CoordinatedInv == TypeInv /\ (OneDeployment => Inv)

LEMMA CoordinatedInvInit == Init => CoordinatedInv
BY InvInit, TypeInit DEF CoordinatedInv

LEMMA CoordinatedInvStep == CoordinatedInv /\ [Next]_vars => CoordinatedInv'
<1> SUFFICES ASSUME CoordinatedInv, [Next]_vars PROVE CoordinatedInv'
  OBVIOUS
<1>1. TypeInv'
  BY TypeStep DEF CoordinatedInv
<1>2. kind' = kind
  BY KindIsFixed
<1>3. OneDeployment' <=> OneDeployment
  BY <1>2 DEF OneDeployment
<1> QED
  BY <1>1, <1>3, InvStep DEF CoordinatedInv

\* Under coordinated adapters no transaction overwrites a row it has not seen:
\* what is about to be committed was computed from the row as it is.
THEOREM WritesAreFresh == Spec => []NoLostUpdate
<1>1. CoordinatedInv => NoLostUpdate
  BY CoordinatedClients DEF CoordinatedInv, Inv, NoLostUpdate
<1> QED
  BY <1>1, CoordinatedInvInit, CoordinatedInvStep, PTL DEF Spec

\* Under coordinated adapters every unit that left the row since the last seed is
\* in a committed order, through retries, rollbacks, lost acknowledgements and,
\* for the adapters it suits, seeds in the middle of the sale.
THEOREM UnitsConserved == Spec => []Conservation
<1>1. CoordinatedInv => Conservation
  BY CoordinatedClients DEF CoordinatedInv, Inv, Conservation
<1> QED
  BY <1>1, CoordinatedInvInit, CoordinatedInvStep, PTL DEF Spec

\* So oversell_total stays 0 for them: since the last seed no more units were sold
\* than it put up for sale (metrics.go:37).
THEOREM NoOversell == Spec => [](Coordinated => sinceSeed <= seeded)
<1>1. TypeInv /\ Conservation /\ StockNeverNegative => (Coordinated => sinceSeed <= seeded)
  <2> SUFFICES ASSUME TypeInv, Balance, StockNeverNegative PROVE sinceSeed <= seeded
    BY DEF Conservation
  <2>1. row.stock \in Int /\ seeded \in Nat /\ sinceSeed \in Nat
    BY DEF TypeInv, TypeOK, Rows
  <2> QED
    BY <2>1 DEF Balance, StockNeverNegative
<1>2. Spec => []TypeInv
  BY TypeInit, TypeStep, PTL DEF Spec
<1> QED
  BY <1>1, <1>2, UnitsConserved, NeverNegative, PTL

-----------------------------------------------------------------------------
(* PgRow implements Sale: every step of coordinated adapters is a step of   *)
(* the contract of Inventory, or changes nothing that the contract sees.    *)

\* Without a row there is no stock, and no transaction is about to remove the row.
Present ==
  /\ row.exists \/ row.stock = 0
  /\ \A b \in Buyers : pc[b] \in {"insert", "commit"} => write[b].exists

\* A call answers once, when it ends.
Unanswered == \A b \in Buyers : pc[b] # "done" => answer[b] = None

RefInv == Inv /\ NonNegative /\ Present /\ Unanswered

LEMMA RefInit == Init => Present /\ Unanswered
<1> SUFFICES ASSUME Init PROVE Present /\ Unanswered
  OBVIOUS
<1>1. PICK present \in RowAtStart, n \in Stocks :
        row = IF present THEN [NoRow EXCEPT !.exists = TRUE, !.stock = n] ELSE NoRow
  BY DEF Init
<1>2. row.exists \/ row.stock = 0
  BY <1>1 DEF NoRow
<1> QED
  BY <1>2 DEF Init, Present, Unanswered

LEMMA RefBuyer ==
  ASSUME TypeInv, Present, Unanswered, NEW b \in Buyers, BuyerStep(b) \/ BuyerFault(b)
  PROVE  (Present /\ Unanswered)'
<1>1. ASSUME NEW loc \in {"lock", "update", "select"}, Begin(b, loc)
      PROVE (Present /\ Unanswered)'
  BY <1>1 DEF Begin, Goto, Present, Unanswered, TypeInv, TypeOK
<1>2. CASE LockAdvisory(b)
  BY <1>2 DEF LockAdvisory, Goto, Present, Unanswered, TypeInv, TypeOK
<1>3. ASSUME NEW a, Return(b, a) PROVE (Present /\ Unanswered)'
  BY <1>3 DEF Return, Release, Goto, Present, Unanswered, TypeInv, TypeOK
<1>4. CASE pc[b] # "done" /\ Conflict(b)
  BY <1>4 DEF Conflict, Release, Goto, Present, Unanswered, TypeInv, TypeOK
<1>5. ASSUME NEW forUpdate \in BOOLEAN, Select(b, forUpdate) PROVE (Present /\ Unanswered)'
  BY <1>3, <1>5 DEF Select, Goto, Present, Unanswered, TypeInv, TypeOK
<1>6. ASSUME NEW n, NEW v, Put(b, NextRow(n, v)) PROVE (Present /\ Unanswered)'
  BY <1>6 DEF Put, NextRow, Goto, Present, Unanswered, TypeInv, TypeOK
<1>7. CASE UpdateLiteral(b) \/ UpdateSnapshot(b) \/ UpdateVersioned(b)
  BY <1>4, <1>6, <1>7 DEF UpdateLiteral, UpdateSnapshot, UpdateVersioned
<1>8. CASE UpdateConditional(b)
  BY <1>6, <1>8 DEF UpdateConditional, Goto, Present, Unanswered, TypeInv, TypeOK
<1>9. CASE Classify(b)
  BY <1>3, <1>9 DEF Classify
<1>10. CASE Insert(b)
  BY <1>10 DEF Insert, Goto, Present, Unanswered, TypeInv, TypeOK
<1>11. ASSUME NEW a, CommitAs(b, a) PROVE (Present /\ Unanswered)'
  BY <1>11 DEF CommitAs, Release, Goto, Present, Unanswered, TypeInv, TypeOK
<1>12. CASE BuyerFault(b)
  BY <1>3, <1>4, <1>11, <1>12
  DEF BuyerFault, CommitUnacknowledged, SerializationFailure, Fail
<1> QED
  BY <1>1, <1>2, <1>5, <1>7, <1>8, <1>9, <1>10, <1>11, <1>12
  DEF BuyerStep, NaiveDecrement, PgCondDecrement, PgForUpdateDecrement,
      PgAdvisoryDecrement, PgOptimisticDecrement, PgSerializableDecrement, Commit

LEMMA RefSeeder ==
  ASSUME TypeInv, Present, Unanswered, NEW s \in Seeders, SeederStep(s) \/ SeedFail(s)
  PROVE  (Present /\ Unanswered)'
<1>0. s \in Clients /\ s \notin Buyers
  OBVIOUS
<1>1. CASE SeedUpsert(s)
  <2>1. row'.exists
    BY <1>1 DEF SeedUpsert, NextRow
  <2> QED
    BY <1>0, <1>1, <2>1 DEF SeedUpsert, Goto, Present, Unanswered, TypeInv, TypeOK
<1>2. CASE SeedConnect(s) \/ SeedDelete(s) \/ SeedFail(s)
  BY <1>0, <1>2
    DEF SeedConnect, SeedDelete, SeedFail, SeedReturn, Goto, Present, Unanswered,
                    TypeInv, TypeOK
<1> QED
  BY <1>1, <1>2 DEF SeederStep

LEMMA RefStep == RefInv /\ [Next]_vars => RefInv'
<1> SUFFICES ASSUME RefInv, [Next]_vars PROVE RefInv'
  OBVIOUS
<1>1. TypeInv /\ Inv'
  BY InvStep DEF RefInv, Inv
<1>2. CASE UNCHANGED vars
  BY <1>1, <1>2 DEF vars, RefInv, NonNegative, StockNeverNegative, Present, Unanswered
<1>3. ASSUME NEW b \in Buyers, BuyerStep(b) \/ BuyerFault(b) PROVE RefInv'
  BY <1>1, <1>3, NonNegativeBuyer, RefBuyer DEF RefInv
<1>4. ASSUME NEW s \in Seeders, SeederStep(s) \/ SeedFail(s) PROVE RefInv'
  BY <1>1, <1>4, NonNegativeSeeder, RefSeeder DEF RefInv
<1> QED
  BY <1>2, <1>3, <1>4 DEF Next, Finished

-----------------------------------------------------------------------------
(* Steps of PgRow as steps of the contract                                  *)

Stutter == UNCHANGED <<row.stock, sinceSeed, seeded, qty, BuyerAnswers, BuyersShort>>

\* A statement that moves b on and answers nothing, and that neither enters nor
\* leaves pg_cond's "no row" state, is invisible.
LEMMA MoveStutters ==
  ASSUME TypeInv, NEW b \in Buyers, NEW loc, Goto(b, loc),
         pc[b] # "classify", loc # "classify",
         UNCHANGED <<row, sinceSeed, seeded, qty, answer>>
  PROVE  Stutter
<1>1. BuyerAnswers' = BuyerAnswers
  BY DEF BuyerAnswers
<1>2. BuyersShort' = BuyersShort
  BY DEF BuyersShort, Goto, TypeInv, TypeOK
<1> QED
  BY <1>1, <1>2 DEF Stutter

LEMMA ReturnFails ==
  ASSUME TypeInv, Unanswered, NEW b \in Buyers, pc[b] # "done",
         NEW a \in Answers \ {"ok", "out_of_stock"}, Return(b, a)
  PROVE  Contract!GiveUp(b)
<1>1. BuyerAnswers[b] = None
  BY DEF BuyerAnswers, Unanswered
<1>2. BuyerAnswers' = [BuyerAnswers EXCEPT ![b] = a]
  BY DEF BuyerAnswers, Return, TypeInv, TypeOK
<1>3. BuyersShort' = [BuyersShort EXCEPT ![b] = FALSE]
  BY DEF BuyersShort, Return, Goto, TypeInv, TypeOK
<1>4. UNCHANGED <<row.stock, sinceSeed, seeded, qty>>
  BY DEF Return
<1>5. a \in Contract!Answers \ {"ok", "out_of_stock"}
  BY DEF Answers, Contract!Answers
<1> QED
  BY <1>1, <1>2, <1>3, <1>4, <1>5
    DEF Contract!GiveUp, Contract!Undecided, Contract!Answer, NobodyHolds

LEMMA ConflictRefines ==
  ASSUME TypeInv, Unanswered, NEW b \in Buyers, pc[b] \notin {"done", "classify"}, Conflict(b)
  PROVE  Contract!GiveUp(b) \/ Stutter
<1>0. UNCHANGED <<row.stock, sinceSeed, seeded, qty>>
  BY DEF Conflict
<1>1. CASE failures[b] + 1 < MaxAttempts
  <2>1. answer' = answer
    BY <1>1 DEF Conflict, TypeInv, TypeOK, Unanswered
  <2>2. BuyersShort' = BuyersShort
    BY <1>1, <2>1 DEF BuyersShort, Conflict, Goto, TypeInv, TypeOK
  <2> QED
    BY <1>0, <2>1, <2>2 DEF Stutter, BuyerAnswers
<1>2. CASE ~(failures[b] + 1 < MaxAttempts)
  <2>1. BuyerAnswers[b] = None
    BY DEF BuyerAnswers, Unanswered
  <2>2. BuyerAnswers' = [BuyerAnswers EXCEPT ![b] = "retry_exhausted"]
    BY <1>2 DEF BuyerAnswers, Conflict, TypeInv, TypeOK
  <2>3. BuyersShort' = [BuyersShort EXCEPT ![b] = FALSE]
    BY <1>2 DEF BuyersShort, Conflict, Goto, TypeInv, TypeOK
  <2> QED
    BY <1>0, <2>1, <2>2, <2>3
      DEF Contract!GiveUp, Contract!Undecided, Contract!Answer,
          NobodyHolds, Contract!Answers
<1> QED
  BY <1>1, <1>2

\* A refusal by the statement that saw the stock.
LEMMA SelectRefines ==
  ASSUME TypeInv, Unanswered, Present, NEW b \in Buyers, NEW forUpdate \in BOOLEAN,
         Select(b, forUpdate)
  PROVE  Contract!Shortage(b) \/ Contract!GiveUp(b) \/ Stutter
<1>1. CASE row.stock < qty[b] /\ Return(b, "out_of_stock")
  <2>1. BuyerAnswers[b] = None
    BY DEF BuyerAnswers, Unanswered, Select
  <2>2. BuyerAnswers' = [BuyerAnswers EXCEPT ![b] = "out_of_stock"]
    BY <1>1 DEF BuyerAnswers, Return, TypeInv, TypeOK
  <2>3. BuyersShort' = [BuyersShort EXCEPT ![b] = TRUE]
    BY <1>1 DEF BuyersShort, Return, Goto, TypeInv, TypeOK
  <2>4. UNCHANGED <<row.stock, sinceSeed, seeded, qty>>
    BY <1>1 DEF Return
  <2> QED
    BY <1>1, <2>1, <2>2, <2>3, <2>4
      DEF Contract!Shortage, Contract!Undecided, Contract!Answer, NobodyHolds
<1>2. CASE Goto(b, "update") /\ UNCHANGED <<row, sinceSeed, seeded, qty, answer>>
  BY <1>2, MoveStutters DEF Select
<1>3. CASE Return(b, "not_found")
  BY <1>3, ReturnFails DEF Select, Answers
<1> QED
  BY <1>1, <1>2, <1>3 DEF Select

\* pg_cond sees the shortage with the UPDATE and answers after the next statement.
LEMMA ConditionalRefines ==
  ASSUME TypeInv, Unanswered, Present, NEW b \in Buyers, UpdateConditional(b)
  PROVE  Contract!Shortage(b) \/ Stutter
<1>1. CASE Put(b, NextRow(row.stock - qty[b], row.version))
  BY <1>1, MoveStutters DEF Put
<1>2. CASE /\ pc[b] = "update"
           /\ row.stock < qty[b]
           /\ Goto(b, "classify")
           /\ UNCHANGED <<row, qty, answer, seeded, sinceSeed>>
  <2>1. BuyerAnswers[b] = None
    BY <1>2 DEF BuyerAnswers, Unanswered
  <2>2. BuyerAnswers' = [BuyerAnswers EXCEPT ![b] = None]
    BY <1>2, <2>1 DEF BuyerAnswers
  <2>3. BuyersShort' = [BuyersShort EXCEPT ![b] = TRUE]
    BY <1>2 DEF BuyersShort, Goto, TypeInv, TypeOK
  <2> QED
    BY <1>2, <2>1, <2>2, <2>3
      DEF Contract!Shortage, Contract!Undecided, Contract!Answer, NobodyHolds
<1> QED
  BY <1>1, <1>2, DifferenceType DEF UpdateConditional, Present

LEMMA ClassifyRefines ==
  ASSUME TypeInv, Unanswered, NEW b \in Buyers, Classify(b)
  PROVE  Contract!Refuse(b) \/ Contract!GiveUp(b)
<1>1. CASE Return(b, "not_found")
  BY <1>1, ReturnFails DEF Classify, Answers
<1>2. CASE Return(b, "out_of_stock")
  <2>1. BuyerAnswers[b] = None /\ BuyersShort[b]
    BY DEF BuyerAnswers, BuyersShort, Unanswered, Classify
  <2>2. BuyerAnswers' = [BuyerAnswers EXCEPT ![b] = "out_of_stock"]
    BY <1>2 DEF BuyerAnswers, Return, TypeInv, TypeOK
  <2>3. BuyersShort' = BuyersShort
    BY <1>2 DEF BuyersShort, Return, Goto, TypeInv, TypeOK, Classify
  <2>4. UNCHANGED <<row.stock, sinceSeed, seeded, qty>>
    BY <1>2 DEF Return
  <2> QED
    BY <2>1, <2>2, <2>3, <2>4
      DEF Contract!Refuse, Contract!Undecided, Contract!Answer, NobodyHolds
<1> QED
  BY <1>1, <1>2 DEF Classify

\* The sale: what COMMIT makes visible is the stock less the units of b.
LEMMA CommitRefines ==
  ASSUME RefInv, NEW b \in Buyers, NEW a \in {"ok", "error"}, CommitAs(b, a)
  PROVE  Contract!Buy(b)
<1>0. TypeInv /\ Unanswered /\ pc[b] = "commit" /\ row' = write[b]
  BY DEF RefInv, Inv, CommitAs
<1>1. BuyerAnswers[b] = None
  BY <1>0 DEF BuyerAnswers, Unanswered
<1>2. BuyerAnswers' = [BuyerAnswers EXCEPT ![b] = a]
  BY <1>0 DEF BuyerAnswers, CommitAs, TypeInv, TypeOK
<1>3. BuyersShort' = BuyersShort
  <2>1. answer[b] = None /\ None # "out_of_stock"
    BY <1>0, <1>1 DEF BuyerAnswers, Answers
  <2> QED
    BY <1>0, <2>1 DEF BuyersShort, CommitAs, Goto, TypeInv, TypeOK
<1>4. row'.stock = row.stock - qty[b] /\ write[b].stock >= 0
  BY <1>0 DEF RefInv, Inv, NothingOverwritten, WritesFresh, NonNegative
<1>5. row.stock \in Int /\ qty[b] \in Nat
  BY <1>0, DifferenceType
<1>6. qty[b] <= row.stock
  BY <1>0, <1>4, <1>5
<1>7. sinceSeed' = sinceSeed + qty[b] /\ UNCHANGED <<seeded, qty>>
  BY DEF CommitAs
<1> QED
  BY <1>1, <1>2, <1>3, <1>4, <1>6, <1>7
    DEF Contract!Buy, Contract!Undecided, Contract!Answer, NobodyHolds

\* What a buyer can do to the sale.
Sells(b) == Contract!Buy(b) \/ Contract!Shortage(b) \/ Contract!Refuse(b) \/ Contract!GiveUp(b)

LEMMA BuyerRefines ==
  ASSUME RefInv, NEW b \in Buyers, BuyerStep(b) \/ BuyerFault(b)
  PROVE  Sells(b) \/ Stutter
<1>0. TypeInv /\ Unanswered /\ Present
  BY DEF RefInv, Inv
<1>1. ASSUME \/ Contract!Buy(b) \/ Contract!Shortage(b)
             \/ Contract!Refuse(b) \/ Contract!GiveUp(b)
      PROVE Sells(b)
  BY <1>1 DEF Sells
<1>2. ASSUME NEW loc \in {"lock", "update", "select"}, Begin(b, loc) PROVE Stutter
  BY <1>0, <1>2, MoveStutters DEF Begin
<1>3. CASE LockAdvisory(b)
  BY <1>0, <1>3, MoveStutters DEF LockAdvisory
<1>4. ASSUME NEW forUpdate \in BOOLEAN, Select(b, forUpdate) PROVE Sells(b) \/ Stutter
  BY <1>0, <1>1, <1>4, SelectRefines
<1>5. ASSUME NEW n, NEW v, Put(b, NextRow(n, v)) PROVE Stutter
  BY <1>0, <1>5, MoveStutters DEF Put
<1>6. CASE UpdateLiteral(b) \/ UpdateSnapshot(b) \/ UpdateVersioned(b)
  BY <1>0, <1>1, <1>5, <1>6, ConflictRefines
    DEF UpdateLiteral, UpdateSnapshot, UpdateVersioned
<1>7. CASE UpdateConditional(b)
  BY <1>0, <1>1, <1>7, ConditionalRefines
<1>8. CASE Classify(b)
  BY <1>0, <1>1, <1>8, ClassifyRefines
<1>9. CASE Insert(b)
  BY <1>0, <1>9, MoveStutters DEF Insert
<1>10. CASE Commit(b) \/ CommitUnacknowledged(b)
  BY <1>1, <1>10, CommitRefines DEF Commit, CommitUnacknowledged
<1>11. CASE SerializationFailure(b)
  BY <1>0, <1>1, <1>11, ConflictRefines DEF SerializationFailure
<1>12. CASE Fail(b)
  BY <1>0, <1>1, <1>12, ReturnFails DEF Fail, Answers
<1> QED
  BY <1>2, <1>3, <1>4, <1>6, <1>7, <1>8, <1>9, <1>10, <1>11, <1>12
  DEF BuyerStep, BuyerFault, NaiveDecrement, PgCondDecrement, PgForUpdateDecrement,
      PgAdvisoryDecrement, PgOptimisticDecrement, PgSerializableDecrement

LEMMA SeederRefines ==
  ASSUME RefInv, NEW s \in Seeders, SeederStep(s) \/ SeedFail(s)
  PROVE  Contract!Next \/ Stutter
<1>0. TypeInv /\ s \in Clients /\ s \notin Buyers
  BY DEF RefInv, Inv
<1>1. BuyerAnswers' = BuyerAnswers /\ BuyersShort' = BuyersShort
  BY <1>0
    DEF BuyerAnswers, BuyersShort, SeederStep, SeedConnect, SeedUpsert, SeedDelete,
              SeedFail, SeedReturn, Goto, TypeInv, TypeOK
<1>2. CASE SeedUpsert(s)
  <2>1. PICK n \in Stocks :
      /\ row' = NextRow(n, IF kind[s] = "pg_optimistic" THEN 0 ELSE row.version)
      /\ seeded' = n
    BY <1>2 DEF SeedUpsert
  <2>2. row'.stock = n /\ n \in Nat
    BY <2>1, QuantitiesAssumption DEF NextRow
  <2> QED
    BY <1>1, <1>2, <2>1, <2>2 DEF SeedUpsert, Contract!Next, Contract!Reseed
<1>3. CASE SeedConnect(s) \/ SeedDelete(s) \/ SeedFail(s)
  BY <1>1, <1>3 DEF SeedConnect, SeedDelete, SeedFail, SeedReturn, Stutter
<1> QED
  BY <1>2, <1>3 DEF SeederStep

\* Every deployment is one of adapters that keep out of each other's way.
OnlyCoordinated == \A d \in Deployments : Coordinate(d)

LEMMA OneOfThem == ASSUME OnlyCoordinated, Init PROVE OneDeployment
<1>1. PICK d \in Deployments : kind \in [Clients -> d]
  BY DEF Init
<1> QED
  BY <1>1 DEF OneDeployment, OnlyCoordinated, Coordinate

\* Coordinated adapters keep the contract of Inventory, for every number of buyers,
\* seeds, attempts and connections.
THEOREM KeepsContract ==
  ASSUME OnlyCoordinated
  PROVE  Spec => RefinesSale
<1>1. Init => RefInv /\ Contract!Init
  <2> SUFFICES ASSUME Init PROVE RefInv /\ Contract!Init
    OBVIOUS
  <2>1. RefInv
    BY InvInit, OneOfThem, RefInit, NonNegativeInit DEF RefInv
  <2>2. qty \in [Buyers -> Nat \ {0}]
    BY QuantitiesAssumption DEF Init
  <2>3. row.stock \in Nat /\ sinceSeed = 0 /\ seeded = row.stock
    BY InitialRow DEF Init
  <2>4. /\ BuyerAnswers = [b \in Buyers |-> None]
        /\ BuyersShort = [b \in Buyers |-> FALSE]
    BY DEF Init, BuyerAnswers, BuyersShort, Answers
  <2> QED
    BY <2>1, <2>2, <2>3, <2>4 DEF Contract!Init, NobodyHolds
<1>2. RefInv /\ [Next]_vars => [Contract!Next]_(Contract!vars)
  <2> SUFFICES ASSUME RefInv, [Next]_vars PROVE Contract!Next \/ Stutter
    BY DEF Stutter, Contract!vars
  <2>1. CASE UNCHANGED vars
    BY <2>1 DEF vars, Stutter, BuyerAnswers, BuyersShort
  <2> QED
    BY <2>1, BuyerRefines, SeederRefines DEF Next, Finished, Sells, Contract!Next
<1> QED
  BY <1>1, <1>2, RefStep, PTL DEF Spec, RefinesSale, Contract!Spec

-----------------------------------------------------------------------------
(* Answers and orders, for any mix of adapters                              *)

\* A statement that goes well and does not end the call.
Walk(b) ==
  /\ pc[b] # "done"
  /\ \E loc \in Locations \ {"done"} : Goto(b, loc)
  /\ \A o \in Buyers \ {b} : read'[o] = read[o]
  /\ UNCHANGED <<row, orders, kind, qty, failures, answer, seeded, sinceSeed>>

GivesUp(b) == pc[b] # "done" /\ \E a \in Answers \ {"ok"} : Return(b, a)
Retries(b) == pc[b] # "done" /\ Conflict(b)
Sold(b) == \E a \in {"ok", "error"} : CommitAs(b, a)

\* Every step of every adapter is one of these.
LEMMA BuyerForms ==
  ASSUME TypeInv, NEW b \in Buyers, BuyerStep(b) \/ BuyerFault(b)
  PROVE  Walk(b) \/ GivesUp(b) \/ Retries(b) \/ Sold(b)
<1> DEFINE Form == Walk(b) \/ GivesUp(b) \/ Retries(b) \/ Sold(b)
<1>1. ASSUME NEW loc \in {"lock", "update", "select"}, Begin(b, loc) PROVE Form
  BY <1>1 DEF Begin, Walk, Locations, InTransaction
<1>2. CASE LockAdvisory(b)
  BY <1>2 DEF LockAdvisory, Walk, Locations, InTransaction
<1>3. ASSUME NEW forUpdate \in BOOLEAN, Select(b, forUpdate) PROVE Form
  <2>1. CASE Return(b, "not_found") \/ Return(b, "out_of_stock")
    BY <1>3, <2>1 DEF Select, GivesUp, Answers
  <2>2. CASE /\ read' = [read EXCEPT ![b] = row]
             /\ Goto(b, "update")
             /\ UNCHANGED <<row, orders, kind, qty, failures, answer, seeded, sinceSeed>>
    BY <1>3, <2>2 DEF Select, Walk, Locations, InTransaction, TypeInv, TypeOK
  <2> QED
    BY <1>3, <2>1, <2>2 DEF Select
<1>4. ASSUME NEW v, Put(b, v) PROVE Form
  BY <1>4 DEF Put, Walk, Locations, InTransaction
<1>5. CASE pc[b] = "update" /\ Conflict(b)
  BY <1>5 DEF Retries
<1>6. CASE UpdateLiteral(b) \/ UpdateSnapshot(b) \/ UpdateVersioned(b)
  BY <1>4, <1>5, <1>6 DEF UpdateLiteral, UpdateSnapshot, UpdateVersioned
<1>7. CASE UpdateConditional(b)
  <2>1. CASE /\ pc[b] = "update" /\ Goto(b, "classify")
             /\ UNCHANGED <<row, orders, kind, qty, failures, read, answer, seeded,
                            sinceSeed>>
    BY <2>1 DEF Walk, Locations, InTransaction
  <2> QED
    BY <1>4, <1>7, <2>1 DEF UpdateConditional
<1>8. CASE Classify(b)
  BY <1>8 DEF Classify, GivesUp, Answers
<1>9. CASE Insert(b)
  BY <1>9 DEF Insert, Walk, Locations, InTransaction
<1>10. CASE Commit(b) \/ CommitUnacknowledged(b)
  BY <1>10 DEF Commit, CommitUnacknowledged, Sold
<1>11. CASE SerializationFailure(b)
  BY <1>11 DEF SerializationFailure, Retries
<1>12. CASE Fail(b)
  BY <1>12 DEF Fail, GivesUp, Answers
<1> QED
  BY <1>1, <1>2, <1>3, <1>6, <1>7, <1>8, <1>9, <1>10, <1>11, <1>12
  DEF BuyerStep, BuyerFault, NaiveDecrement, PgCondDecrement, PgForUpdateDecrement,
      PgAdvisoryDecrement, PgOptimisticDecrement, PgSerializableDecrement

\* What is true of a client, whoever it is: no answer before the end, at most one
\* order, and that only at the end; only a seed removes the order of a buyer who got "ok".
Told(c) == pc[c] # "done" => answer[c] = None

OnceFor(b) ==
  /\ orders[b] \in {0, 1}
  /\ pc[b] # "done" => orders[b] = 0
  /\ orders[b] = 1 => answer[b] \in {"ok", "error"}
  /\ Seeders = {} /\ answer[b] = "ok" => orders[b] = 1

Once ==
  /\ \A c \in Clients : Told(c)
  /\ \A b \in Buyers : OnceFor(b)

LEMMA OnceInit == Init => Once
BY DEF Init, Once, Told, OnceFor, Answers

LEMMA OnceBuyer ==
  ASSUME TypeInv, Once, NEW b \in Buyers, Walk(b) \/ GivesUp(b) \/ Retries(b) \/ Sold(b)
  PROVE  Once'
<1>1. ASSUME NEW c \in Clients, c # b
      PROVE  pc'[c] = pc[c] /\ answer'[c] = answer[c]
  <2>1. CASE Walk(b)
    BY <1>1, <2>1 DEF Walk, Goto, TypeInv, TypeOK
  <2>2. CASE GivesUp(b)
    BY <1>1, <2>2 DEF GivesUp, Return, Goto, TypeInv, TypeOK
  <2>3. CASE Retries(b)
    BY <1>1, <2>3 DEF Retries, Conflict, Goto, TypeInv, TypeOK
  <2>4. CASE Sold(b)
    BY <1>1, <2>4 DEF Sold, CommitAs, Goto, TypeInv, TypeOK
  <2> QED
    BY <2>1, <2>2, <2>3, <2>4
<1>2. ASSUME NEW o \in Buyers, o # b
      PROVE  orders'[o] = orders[o]
  BY <1>2 DEF Walk, GivesUp, Return, Retries, Conflict, Sold, CommitAs, TypeInv, TypeOK
<1>3. Told(b)' /\ OnceFor(b)'
  <2>0. b \in Clients /\ Told(b) /\ OnceFor(b) /\ pc[b] # "done"
    BY DEF Once, Walk, GivesUp, Retries, Sold, CommitAs
  <2>1. CASE Walk(b)
    BY <2>0, <2>1 DEF Walk, Goto, Told, OnceFor, TypeInv, TypeOK
  <2>2. CASE GivesUp(b)
    BY <2>0, <2>2 DEF GivesUp, Return, Goto, Told, OnceFor, TypeInv, TypeOK
  <2>3. CASE Retries(b)
    BY <2>0, <2>3 DEF Retries, Conflict, Goto, Told, OnceFor, TypeInv, TypeOK
  <2>4. CASE Sold(b)
    BY <2>0, <2>4 DEF Sold, CommitAs, Goto, Told, OnceFor, TypeInv, TypeOK
  <2> QED
    BY <2>1, <2>2, <2>3, <2>4
<1>4. \A c \in Clients : Told(c)'
  BY <1>1, <1>3 DEF Once, Told
<1>5. \A o \in Buyers : OnceFor(o)'
  <2> SUFFICES ASSUME NEW o \in Buyers, o # b PROVE OnceFor(o)'
    BY <1>3
  <2>1. o \in Clients
    OBVIOUS
  <2> QED
    BY <1>1, <1>2, <2>1 DEF Once, OnceFor
<1> QED
  BY <1>4, <1>5 DEF Once

LEMMA OnceSeeder ==
  ASSUME TypeInv, Once, NEW s \in Seeders, SeederStep(s) \/ SeedFail(s)
  PROVE  Once'
<1>0. s \in Clients /\ s \notin Buyers /\ Told(s)
  BY DEF Once
<1>1. CASE SeedConnect(s) \/ SeedUpsert(s)
  <2>1. /\ orders' = orders /\ answer' = answer /\ pc[s] # "done"
        /\ \A c \in Clients : pc'[c] # "done" => pc[c] # "done"
        /\ \A c \in Clients : pc'[c] = "done" => pc[c] = "done"
    BY <1>0, <1>1 DEF SeedConnect, SeedUpsert, Goto, TypeInv, TypeOK
  <2> QED
    BY <2>1 DEF Once, Told, OnceFor
<1>2. CASE SeedDelete(s) \/ SeedFail(s)
  <2>1. /\ pc'[s] = "done"
        /\ \A c \in Clients \ {s} : pc'[c] = pc[c] /\ answer'[c] = answer[c]
        /\ orders' = orders \/ orders' = [b \in Buyers |-> 0]
    BY <1>0, <1>2 DEF SeedDelete, SeedFail, SeedReturn, Goto, TypeInv, TypeOK
  <2>2. \A c \in Clients : Told(c)'
    BY <2>1 DEF Once, Told
  <2>3. ASSUME NEW b \in Buyers PROVE OnceFor(b)'
    <3>1. pc'[b] = pc[b] /\ answer'[b] = answer[b]
      BY <1>0, <2>1
    <3>2. orders'[b] = orders[b] \/ orders'[b] = 0
      BY <2>1
    <3> QED
      BY <3>1, <3>2 DEF Once, OnceFor
  <2> QED
    BY <2>2, <2>3 DEF Once
<1> QED
  BY <1>1, <1>2 DEF SeederStep

LEMMA OnceStep == TypeInv /\ Once /\ [Next]_vars => Once'
<1> SUFFICES ASSUME TypeInv, Once, [Next]_vars PROVE Once'
  OBVIOUS
<1>1. CASE UNCHANGED vars
  BY <1>1 DEF vars, Once, Told, OnceFor
<1> QED
  BY <1>1, BuyerForms, OnceBuyer, OnceSeeder DEF Next, Finished

\* Where no seed clears the table, orders and answers agree, through any number of
\* attempts, rollbacks and lost acknowledgements: who was sold something has exactly
\* one order, and who was refused has none.
THEOREM OrdersMatchAnswers ==
  ASSUME Seeders = {}
  PROVE  Spec => []OrderMatchesAnswer
<1>1. Once => OrderMatchesAnswer
  BY DEF Once, OnceFor, OrderMatchesAnswer
<1>2. TypeInv /\ Once /\ [Next]_vars => TypeInv' /\ Once'
  BY TypeStep, OnceStep
<1>3. Init => TypeInv /\ Once
  BY TypeInit, OnceInit
<1> QED
  BY <1>1, <1>2, <1>3, PTL DEF Spec

-----------------------------------------------------------------------------
(* The orders table and the last seed, for any mix of adapters              *)

LEMMA UnitsType ==
  ASSUME TypeInv, Once, NEW b \in Buyers
  PROVE  /\ qty[b] \in Nat
         /\ UnitsOrdered[b] = IF orders[b] = 1 THEN qty[b] ELSE 0
         /\ UnitsOrdered[b] \in Nat
<1>1. qty[b] \in Nat /\ orders[b] \in {0, 1}
  BY DifferenceType DEF Once, OnceFor
<1>2. UnitsOrdered[b] = orders[b] * qty[b]
  BY DEF UnitsOrdered
<1>3. \A q \in Nat : 0 * q = 0 /\ 1 * q = q
  OBVIOUS
<1>4. UnitsOrdered[b] = IF orders[b] = 1 THEN qty[b] ELSE 0
  BY <1>1, <1>2, <1>3, Zenon
<1> QED
  BY <1>1, <1>4

\* A sale adds its units to the table.
LEMMA SaleAddsUnits ==
  ASSUME TypeInv, Once, TypeInv', Once', NEW b \in Buyers, orders[b] = 0, qty' = qty,
         orders' = [orders EXCEPT ![b] = @ + 1]
  PROVE  Total(UnitsOrdered', Buyers) = Total(UnitsOrdered, Buyers) + qty[b]
<1>1. \A x \in Buyers : UnitsOrdered[x] \in Nat
  BY UnitsType
<1>2. \A x \in Buyers : UnitsOrdered'[x] = orders'[x] * qty[x]
  BY DEF UnitsOrdered
<1>3. orders'[b] = 1 /\ \A x \in Buyers \ {b} : orders'[x] = orders[x]
  BY DEF TypeInv, TypeOK
<1>4. /\ UnitsOrdered[b] = 0 /\ UnitsOrdered'[b] = qty[b] /\ qty[b] \in Nat
      /\ \A x \in Buyers \ {b} : UnitsOrdered'[x] = UnitsOrdered[x]
  <2>1. UnitsOrdered[b] = 0 /\ qty[b] \in Nat
    BY UnitsType
  <2>2. UnitsOrdered'[b] = qty[b]
    <3>1. \A q \in Nat : 1 * q = q
      OBVIOUS
    <3> QED
      BY <1>2, <1>3, <2>1, <3>1, Zenon
  <2>3. ASSUME NEW x \in Buyers \ {b}
        PROVE  UnitsOrdered'[x] = UnitsOrdered[x]
    <3>1. x \in Buyers /\ orders'[x] = orders[x]
      BY <1>3
    <3>2. UnitsOrdered[x] = orders[x] * qty[x]
      BY <3>1 DEF UnitsOrdered
    <3> QED
      BY <1>2, <3>1, <3>2, Zenon
  <2> QED
    BY <2>1, <2>2, <2>3
<1>5. \A x \in Buyers : UnitsOrdered'[x] \in Nat
  BY <1>1, <1>4
<1>6. Total(UnitsOrdered, Buyers) = Total(UnitsOrdered, Buyers \ {b}) + UnitsOrdered[b]
  BY <1>1, TotalRemove
<1>7. Total(UnitsOrdered', Buyers) = Total(UnitsOrdered', Buyers \ {b}) + UnitsOrdered'[b]
  BY <1>5, TotalRemove
<1>8. Total(UnitsOrdered', Buyers \ {b}) = Total(UnitsOrdered, Buyers \ {b})
  BY <1>4, TotalSame
<1>9. Total(UnitsOrdered, Buyers \ {b}) \in Nat
  BY <1>1, FS_RemoveElement, TotalType
<1> QED
  BY <1>4, <1>6, <1>7, <1>8, <1>9

LEMMA OrdersStay ==
  ASSUME orders' = orders, qty' = qty
  PROVE  Total(UnitsOrdered', Buyers) = Total(UnitsOrdered, Buyers)
BY DEF UnitsOrdered

WithinInv == TypeInv /\ Once /\ OrdersWithinSeed

LEMMA WithinInit == Init => WithinInv
<1> SUFFICES ASSUME Init PROVE WithinInv
  OBVIOUS
<1>1. TypeInv /\ Once /\ sinceSeed = 0 /\ \A b \in Buyers : orders[b] = 0
  BY TypeInit, OnceInit DEF Init
<1>2. \A b \in Buyers : UnitsOrdered[b] = 0
  BY <1>1, UnitsType
<1> QED
  BY <1>1, <1>2, TotalZero DEF WithinInv, OrdersWithinSeed

LEMMA WithinBuyer ==
  ASSUME WithinInv, (TypeInv /\ Once)', NEW b \in Buyers, BuyerStep(b) \/ BuyerFault(b)
  PROVE  OrdersWithinSeed'
<1>0. TypeInv /\ Once
  BY DEF WithinInv
<1>1. Walk(b) \/ GivesUp(b) \/ Retries(b) \/ Sold(b)
  BY <1>0, BuyerForms
<1>2. \A s \in Seeders : pc'[s] = pc[s] /\ answer'[s] = answer[s]
  <2>1. \A s \in Seeders : s # b
    OBVIOUS
  <2>2. CASE Walk(b)
    BY <1>0, <2>1, <2>2 DEF Walk, Goto, TypeInv, TypeOK
  <2>3. CASE GivesUp(b)
    BY <1>0, <2>1, <2>3 DEF GivesUp, Return, Goto, TypeInv, TypeOK
  <2>4. CASE Retries(b)
    BY <1>0, <2>1, <2>4 DEF Retries, Conflict, Goto, TypeInv, TypeOK
  <2>5. CASE Sold(b)
    BY <1>0, <2>1, <2>5 DEF Sold, CommitAs, Goto, TypeInv, TypeOK
  <2> QED
    BY <1>1, <2>2, <2>3, <2>4, <2>5
<1>3. SeedsSettled' => SeedsSettled
  BY <1>2 DEF SeedsSettled
<1>4. CASE Walk(b) \/ GivesUp(b) \/ Retries(b)
  <2>1. orders' = orders /\ qty' = qty /\ sinceSeed' = sinceSeed
    BY <1>4 DEF Walk, GivesUp, Return, Retries, Conflict
  <2> QED
    BY <1>3, <2>1, OrdersStay DEF WithinInv, OrdersWithinSeed
<1>5. CASE Sold(b)
  <2>1. /\ pc[b] # "done" /\ qty' = qty /\ sinceSeed' = sinceSeed + qty[b]
        /\ orders' = [orders EXCEPT ![b] = @ + 1]
    BY <1>5 DEF Sold, CommitAs
  <2>2. Total(UnitsOrdered', Buyers) = Total(UnitsOrdered, Buyers) + qty[b]
    BY <1>0, <2>1, SaleAddsUnits DEF Once, OnceFor
  <2>3. qty[b] \in Nat /\ sinceSeed \in Nat /\ Total(UnitsOrdered, Buyers) \in Nat
    BY <1>0, UnitsType, TotalType DEF TypeInv, TypeOK
  <2>4. Total(UnitsOrdered, Buyers) <= sinceSeed
          => Total(UnitsOrdered', Buyers) <= sinceSeed'
    BY <2>1, <2>2, <2>3
  <2> QED
    BY <1>3, <2>4 DEF WithinInv, OrdersWithinSeed
<1> QED
  BY <1>1, <1>4, <1>5

LEMMA WithinSeeder ==
  ASSUME WithinInv, (TypeInv /\ Once)', NEW s \in Seeders, SeederStep(s) \/ SeedFail(s)
  PROVE  OrdersWithinSeed'
<1>0. TypeInv /\ Once /\ Told(s) /\ s \in Clients /\ pc \in [Clients -> Locations]
      /\ answer \in [Clients -> Answers \cup {None}]
  BY DEF WithinInv, Once, TypeInv, TypeOK
<1>1. CASE SeedConnect(s)
  <2>1. SeedsSettled' => SeedsSettled
    <3>1. answer' = answer /\ answer[s] = None
      BY <1>0, <1>1 DEF SeedConnect, Told
    <3>2. \A t \in Seeders : pc'[t] \in {"idle", "upsert"} => pc[t] \in {"idle", "upsert"}
      BY <1>0, <1>1 DEF SeedConnect, Goto
    <3> QED
      BY <3>1, <3>2 DEF SeedsSettled
  <2> QED
    BY <1>1, <2>1, OrdersStay DEF SeedConnect, WithinInv, OrdersWithinSeed
<1>2. CASE SeedUpsert(s)
  <2>1. pc'[s] = "gap" /\ answer'[s] = None
    BY <1>0, <1>2 DEF SeedUpsert, Goto, Told
  <2>2. ~SeedsSettled'
    BY <2>1 DEF SeedsSettled, Answers
  <2> QED
    BY <2>2 DEF OrdersWithinSeed
<1>3. CASE SeedDelete(s)
  <2>1. \A b \in Buyers : orders'[b] = 0 /\ qty'[b] = qty[b] /\ qty[b] \in Nat
    BY <1>0, <1>3, UnitsType DEF SeedDelete, SeedReturn
  <2>2. ASSUME NEW b \in Buyers
        PROVE  UnitsOrdered'[b] = 0
    <3>1. UnitsOrdered'[b] = orders'[b] * qty'[b]
      BY DEF UnitsOrdered
    <3>2. \A q \in Nat : 0 * q = 0
      OBVIOUS
    <3> QED
      BY <2>1, <3>1, <3>2, Zenon
  <2>3. Total(UnitsOrdered', Buyers) = 0
    BY <2>2, TotalZero
  <2>4. sinceSeed' \in Nat
    BY DEF TypeInv, TypeOK
  <2> QED
    BY <2>3, <2>4 DEF OrdersWithinSeed
<1>4. CASE SeedFail(s)
  <2>1. pc'[s] = "done" /\ answer'[s] = "error"
    BY <1>0, <1>4 DEF SeedFail, SeedReturn, Goto
  <2>2. ~SeedsSettled'
    BY <2>1 DEF SeedsSettled
  <2> QED
    BY <2>2 DEF OrdersWithinSeed
<1> QED
  BY <1>1, <1>2, <1>3, <1>4 DEF SeederStep

LEMMA WithinStep == WithinInv /\ [Next]_vars => WithinInv'
<1> SUFFICES ASSUME WithinInv, [Next]_vars PROVE WithinInv'
  OBVIOUS
<1>1. (TypeInv /\ Once)'
  BY TypeStep, OnceStep DEF WithinInv
<1>2. CASE UNCHANGED vars
  <2>1. SeedsSettled' <=> SeedsSettled
    BY <1>2 DEF vars, SeedsSettled
  <2> QED
    BY <1>1, <1>2, <2>1, OrdersStay DEF vars, WithinInv, OrdersWithinSeed
<1> QED
  BY <1>1, <1>2, WithinBuyer, WithinSeeder DEF Next, Finished, WithinInv

\* Once every seed that began is through, the table holds no order from before the
\* last one, whatever adapters sell, however many seeds ran into each other and
\* whichever of their statements came last.
THEOREM OrdersAreOfThisSale == Spec => []OrdersWithinSeed
<1>1. WithinInv => OrdersWithinSeed
  BY DEF WithinInv
<1> QED
  BY <1>1, WithinInit, WithinStep, PTL DEF Spec

-----------------------------------------------------------------------------
(* Refusals that stay true, between coordinated adapters                    *)

\* Who was refused, or is about to be, wants more than there is.
ShortStays == \A b \in Buyers : BuyersShort[b] => row.stock < qty[b]

ShortInv ==
  /\ TypeInv
  /\ OneDeployment => RefInv
  /\ OneDeployment /\ Seeders = {} => ShortStays

LEMMA ShortInit == Init => ShortInv
<1> SUFFICES ASSUME Init PROVE ShortInv
  OBVIOUS
<1>1. TypeInv /\ (OneDeployment => RefInv)
  BY TypeInit, InvInit, RefInit, NonNegativeInit DEF RefInv
<1>2. \A b \in Buyers : ~BuyersShort[b]
  BY DEF Init, BuyersShort, Answers
<1> QED
  BY <1>1, <1>2 DEF ShortInv, ShortStays

\* A step of the contract takes from the stock or leaves it, and whoever meets a
\* shortage meets one.
LEMMA SalesKeepShort ==
  ASSUME TypeInv, ShortStays, NEW b \in Buyers, Sells(b) \/ Stutter
  PROVE  ShortStays'
<1>1. /\ row.stock \in Int /\ \A o \in Buyers : qty[o] \in Nat
      /\ BuyersShort \in [Buyers -> BOOLEAN]
  BY DifferenceType, QuantitiesAssumption DEF TypeInv, TypeOK, Rows, BuyersShort
<1>2. CASE Contract!Buy(b)
  <2>1. /\ row.stock' = row.stock - qty[b] /\ qty' = qty
        /\ BuyersShort' = BuyersShort
    BY <1>2 DEF Contract!Buy
  <2>2. ASSUME NEW o \in Buyers, BuyersShort[o]
        PROVE  row.stock' < qty[o]
    <3>1. row.stock < qty[o] /\ qty[o] \in Nat /\ qty[b] \in Nat
      BY <1>1, <2>2 DEF ShortStays
    <3> QED
      BY <1>1, <2>1, <3>1
  <2> QED
    BY <2>1, <2>2 DEF ShortStays
<1>3. CASE Contract!Shortage(b)
  <2>1. /\ row.stock < qty[b] /\ row.stock' = row.stock /\ qty' = qty
        /\ BuyersShort' = [BuyersShort EXCEPT ![b] = TRUE]
    BY <1>3 DEF Contract!Shortage
  <2> QED
    BY <1>1, <2>1 DEF ShortStays
<1>4. CASE Contract!Refuse(b) \/ Stutter
  <2>1. row.stock' = row.stock /\ qty' = qty /\ BuyersShort' = BuyersShort
    BY <1>4 DEF Contract!Refuse, Stutter
  <2> QED
    BY <2>1 DEF ShortStays
<1>5. CASE Contract!GiveUp(b)
  <2>1. /\ row.stock' = row.stock /\ qty' = qty
        /\ BuyersShort' = [BuyersShort EXCEPT ![b] = FALSE]
    BY <1>5 DEF Contract!GiveUp
  <2> QED
    BY <1>1, <2>1 DEF ShortStays
<1> QED
  BY <1>2, <1>3, <1>4, <1>5 DEF Sells

LEMMA ShortStep == ShortInv /\ [Next]_vars => ShortInv'
<1> SUFFICES ASSUME ShortInv, [Next]_vars PROVE ShortInv'
  OBVIOUS
<1>1. TypeInv /\ TypeInv' /\ (OneDeployment' <=> OneDeployment)
  BY TypeStep, KindIsFixed DEF ShortInv, OneDeployment
<1>2. OneDeployment => RefInv'
  BY RefStep DEF ShortInv
<1>3. ASSUME OneDeployment, Seeders = {} PROVE ShortStays'
  <2>1. RefInv /\ ShortStays
    BY <1>3 DEF ShortInv
  <2>2. CASE UNCHANGED vars
    BY <2>1, <2>2 DEF vars, ShortStays, BuyersShort
  <2>3. ASSUME NEW b \in Buyers, BuyerStep(b) \/ BuyerFault(b)
        PROVE  ShortStays'
    BY <1>1, <2>1, <2>3, BuyerRefines, SalesKeepShort
  <2> QED
    BY <1>3, <2>2, <2>3 DEF Next, Finished
<1> QED
  BY <1>1, <1>2, <1>3 DEF ShortInv

\* Coordinated adapters without a seed during the sale refuse nobody whom they could
\* serve later: an "out of stock" is final.
THEOREM RefusalsAreFinal == Spec => []OutOfStockIsTrue
<1>1. ShortInv => OutOfStockIsTrue
  BY CoordinatedClients DEF ShortInv, ShortStays, BuyersShort, OutOfStockIsTrue
<1> QED
  BY <1>1, ShortInit, ShortStep, PTL DEF Spec

-----------------------------------------------------------------------------
(* Why pg_optimistic gives up, for any mix of adapters                      *)

\* The UPDATE of b will find another version.
Behind(b) == pc[b] = "update" /\ read[b].version # row.version

Served(b) == {o \in Buyers \ {b} : orders[o] > 0}

Contended ==
  \A b \in Buyers :
    kind[b] = "pg_optimistic" =>
      failures[b] + (IF Behind(b) THEN 1 ELSE 0) <= Cardinality(Served(b))

ContentionInv == TypeInv /\ Once /\ Contended

LEMMA ServedType ==
  ASSUME NEW b
  PROVE  IsFiniteSet(Served(b)) /\ Cardinality(Served(b)) \in Nat
<1>1. IsFiniteSet(Served(b))
  BY FS_Subset DEF Served
<1> QED
  BY <1>1, FS_CardinalityType

LEMMA ContentionInit == Init => ContentionInv
<1> SUFFICES ASSUME Init PROVE ContentionInv
  OBVIOUS
<1>1. TypeInv /\ Once
  BY TypeInit, OnceInit
<1>2. ASSUME NEW b \in Buyers
      PROVE  failures[b] + (IF Behind(b) THEN 1 ELSE 0) <= Cardinality(Served(b))
  <2>1. failures[b] = 0 /\ ~Behind(b)
    BY DEF Init, Behind
  <2> QED
    BY <2>1, ServedType
<1> QED
  BY <1>1, <1>2 DEF ContentionInv, Contended

\* The attempt of a pg_optimistic buyer is lost only to a version that moved.
LEMMA OptimisticForms ==
  ASSUME TypeInv, NEW b \in Buyers, kind[b] = "pg_optimistic", BuyerStep(b) \/ BuyerFault(b)
  PROVE  (Walk(b) /\ ~Behind(b)') \/ (Behind(b) /\ Conflict(b)) \/ GivesUp(b) \/ Sold(b)
<1> USE DEF TypeInv, TypeOK
<1>1. CASE Begin(b, "select") \/ Insert(b)
  <2>1. pc'[b] # "update" /\ Walk(b)
    BY <1>1 DEF Begin, Insert, Goto, Walk, Locations, InTransaction
  <2> QED
    BY <2>1 DEF Behind
<1>2. CASE Select(b, FALSE)
  <2>1. CASE Return(b, "not_found") \/ Return(b, "out_of_stock")
    BY <1>2, <2>1 DEF Select, GivesUp, Answers
  <2>2. CASE /\ read' = [read EXCEPT ![b] = row]
             /\ Goto(b, "update")
             /\ UNCHANGED <<row, orders, kind, qty, failures, answer, seeded, sinceSeed>>
    <3>1. read'[b] = row /\ row' = row
      BY <2>2
    <3>2. Walk(b)
      BY <1>2, <2>2 DEF Select, Walk, Locations, InTransaction
    <3> QED
      BY <3>1, <3>2 DEF Behind
  <2> QED
    BY <1>2, <2>1, <2>2 DEF Select
<1>3. CASE UpdateVersioned(b)
  <2>1. ASSUME NEW v, Put(b, v)
        PROVE  Walk(b) /\ ~Behind(b)'
    <3>1. pc'[b] # "update" /\ Walk(b)
      BY <2>1 DEF Put, Goto, Walk, Locations, InTransaction
    <3> QED
      BY <3>1 DEF Behind
  <2> QED
    BY <1>3, <2>1 DEF UpdateVersioned, Behind
<1>4. CASE Commit(b) \/ CommitUnacknowledged(b)
  BY <1>4 DEF Commit, CommitUnacknowledged, Sold
<1>5. CASE Fail(b)
  BY <1>5 DEF Fail, GivesUp, Answers
<1> QED
  BY <1>1, <1>2, <1>3, <1>4, <1>5
  DEF BuyerStep, BuyerFault, NaiveDecrement, PgCondDecrement, PgForUpdateDecrement,
      PgAdvisoryDecrement, PgOptimisticDecrement, PgSerializableDecrement,
      SerializationFailure

\* A step of another buyer leaves b's attempt alone; a sale may outdate what b read,
\* but then it is one more sale.
LEMMA OthersContend ==
  ASSUME ContentionInv, NEW b \in Buyers, NEW o \in Buyers \ {b},
         Walk(o) \/ GivesUp(o) \/ Retries(o) \/ Sold(o),
         failures[b] + (IF Behind(b) THEN 1 ELSE 0) <= Cardinality(Served(b))
  PROVE  failures'[b] + (IF Behind(b)' THEN 1 ELSE 0) <= Cardinality(Served(b)')
<1>0. /\ TypeInv /\ Once /\ failures[b] \in Nat
      /\ IsFiniteSet(Served(b)) /\ Cardinality(Served(b)) \in Nat
  BY ServedType DEF ContentionInv, TypeInv, TypeOK
<1>1. pc'[b] = pc[b] /\ failures'[b] = failures[b] /\ read'[b] = read[b]
  <2>1. CASE Walk(o)
    BY <1>0, <2>1 DEF Walk, Goto, TypeInv, TypeOK
  <2>2. CASE GivesUp(o)
    BY <1>0, <2>2 DEF GivesUp, Return, Release, Goto, TypeInv, TypeOK
  <2>3. CASE Retries(o)
    BY <1>0, <2>3 DEF Retries, Conflict, Release, Goto, TypeInv, TypeOK
  <2>4. CASE Sold(o)
    BY <1>0, <2>4 DEF Sold, CommitAs, Release, Goto, TypeInv, TypeOK
  <2> QED
    BY <2>1, <2>2, <2>3, <2>4
<1>2. CASE Walk(o) \/ GivesUp(o) \/ Retries(o)
  <2>1. row' = row /\ orders' = orders
    BY <1>2 DEF Walk, GivesUp, Return, Retries, Conflict
  <2>2. Behind(b)' = Behind(b) /\ Served(b)' = Served(b)
    BY <1>1, <2>1 DEF Behind, Served
  <2> QED
    BY <1>1, <2>2
<1>3. CASE Sold(o)
  <2>1. orders[o] = 0 /\ orders' = [orders EXCEPT ![o] = @ + 1]
    BY <1>0, <1>3 DEF Sold, CommitAs, Once, OnceFor
  <2>2. Served(b)' = Served(b) \cup {o} /\ o \notin Served(b)
    <3>1. orders'[o] = 1 /\ \A x \in Buyers \ {o} : orders'[x] = orders[x]
      BY <1>0, <2>1 DEF TypeInv, TypeOK
    <3>2. Served(b)' = {x \in Buyers \ {b} : orders'[x] > 0}
      BY DEF Served
    <3> QED
      BY <2>1, <3>1, <3>2 DEF Served
  <2>3. Cardinality(Served(b)') = Cardinality(Served(b)) + 1
    BY <1>0, <2>2, FS_AddElement
  <2>4. failures[b] <= Cardinality(Served(b))
    BY <1>0
  <2>5. failures'[b] + (IF Behind(b)' THEN 1 ELSE 0) <= failures[b] + 1
    BY <1>0, <1>1
  <2> QED
    BY <1>0, <1>1, <2>3, <2>4, <2>5
<1> QED
  BY <1>2, <1>3

LEMMA OwnContends ==
  ASSUME ContentionInv, NEW b \in Buyers, kind[b] = "pg_optimistic",
         BuyerStep(b) \/ BuyerFault(b)
  PROVE  failures'[b] + (IF Behind(b)' THEN 1 ELSE 0) <= Cardinality(Served(b)')
<1>0. /\ TypeInv /\ failures[b] \in Nat /\ Cardinality(Served(b)) \in Nat
      /\ failures[b] + (IF Behind(b) THEN 1 ELSE 0) <= Cardinality(Served(b))
  BY ServedType DEF ContentionInv, Contended, TypeInv, TypeOK
<1>1. (Walk(b) /\ ~Behind(b)') \/ (Behind(b) /\ Conflict(b)) \/ GivesUp(b) \/ Sold(b)
  BY <1>0, OptimisticForms
<1>2. Served(b)' = Served(b)
  <2>1. \A x \in Buyers \ {b} : orders'[x] = orders[x]
    BY <1>0, <1>1
    DEF Walk, GivesUp, Return, Conflict, Sold, CommitAs, TypeInv, TypeOK
  <2> QED
    BY <2>1 DEF Served
<1>3. CASE Walk(b) /\ ~Behind(b)'
  <2>1. failures'[b] = failures[b]
    BY <1>3 DEF Walk
  <2> QED
    BY <1>0, <1>2, <1>3, <2>1
<1>4. CASE Behind(b) /\ Conflict(b)
  <2>1. failures'[b] = failures[b] + 1 /\ pc'[b] # "update"
    BY <1>0, <1>4 DEF Conflict, Goto, TypeInv, TypeOK
  <2>2. ~Behind(b)'
    BY <2>1 DEF Behind
  <2> QED
    BY <1>0, <1>2, <1>4, <2>1, <2>2
<1>5. CASE GivesUp(b) \/ Sold(b)
  <2>1. failures'[b] = failures[b] /\ pc'[b] # "update"
    BY <1>0, <1>5 DEF GivesUp, Return, Sold, CommitAs, Goto, TypeInv, TypeOK
  <2>2. ~Behind(b)'
    BY <2>1 DEF Behind
  <2> QED
    BY <1>0, <1>2, <2>1, <2>2
<1> QED
  BY <1>1, <1>3, <1>4, <1>5

LEMMA ContentionStep ==
  ASSUME Seeders = {}
  PROVE  ContentionInv /\ [Next]_vars => ContentionInv'
<1> SUFFICES ASSUME ContentionInv, [Next]_vars PROVE ContentionInv'
  OBVIOUS
<1>1. TypeInv /\ TypeInv' /\ Once' /\ kind' = kind
  BY TypeStep, OnceStep, KindIsFixed DEF ContentionInv
<1>2. CASE UNCHANGED vars
  BY <1>1, <1>2 DEF vars, ContentionInv, Contended, Behind, Served
<1>3. ASSUME NEW o \in Buyers, BuyerStep(o) \/ BuyerFault(o)
      PROVE  ContentionInv'
  <2>1. ASSUME NEW b \in Buyers, kind[b] = "pg_optimistic"
        PROVE  failures'[b] + (IF Behind(b)' THEN 1 ELSE 0) <= Cardinality(Served(b)')
    <3>1. CASE b = o
      BY <1>3, <2>1, <3>1, OwnContends
    <3>2. CASE b # o
      <4>1. Walk(o) \/ GivesUp(o) \/ Retries(o) \/ Sold(o)
        BY <1>1, <1>3, BuyerForms
      <4> QED
        BY <2>1, <3>2, <4>1, OthersContend DEF ContentionInv, Contended
    <3> QED
      BY <3>1, <3>2
  <2> QED
    BY <1>1, <2>1 DEF ContentionInv, Contended
<1> QED
  BY <1>2, <1>3 DEF Next, Finished

\* Without a seed, which sets the version back and clears the orders, a buyer of
\* pg_optimistic loses an attempt only to the sale of another buyer, so it gives up
\* only behind MaxAttempts others who were served, whatever adapters they use.
THEOREM GivesUpBehindOthers ==
  ASSUME Seeders = {}
  PROVE  Spec => []ExhaustionIsContention
<1>1. ContentionInv => ExhaustionIsContention
  <2> SUFFICES ASSUME ContentionInv, NEW b \in Buyers, kind[b] = "pg_optimistic"
               PROVE  failures[b] <= Cardinality(Served(b))
    BY DEF ExhaustionIsContention, Served
  <2>1. /\ failures[b] + (IF Behind(b) THEN 1 ELSE 0) <= Cardinality(Served(b))
        /\ failures[b] \in Nat /\ Cardinality(Served(b)) \in Nat
    BY ServedType DEF ContentionInv, Contended, TypeInv, TypeOK
  <2> QED
    BY <2>1
<1> QED
  BY <1>1, ContentionInit, ContentionStep, PTL DEF Spec

=============================================================================
