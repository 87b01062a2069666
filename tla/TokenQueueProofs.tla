-------------------------- MODULE TokenQueueProofs --------------------------
(***************************************************************************)
(* Theorems about token_queue, for any number of calls, seeds and replicas, *)
(* any spread of the calls over them, and any number of faults.             *)
(***************************************************************************)
EXTENDS TokenQueue, TotalsProofs

USE QueueClientsAssumption DEF Clients

\* A call that is running has no answer, a grant is the first step of its call, and what
\* is under way was sent.
CallsInOrder ==
  /\ \A c \in Clients : pc[c] # "done" => answer[c] = None
  /\ \A b \in current : pc[b] # "grant"
  /\ \A b \in Buyers : wire[b] <= sends[b]

\* What the member that has the partition skipped is in the orders table, or it is in its
\* batch; and a batch that is about to be committed is in the table.
BatchesCover ==
  /\ committed <= position
  /\ assigned # None =>
       \A i \in 1 .. position : i \in pending[assigned] \/ log[i] \in recorded
  /\ \A r \in Replicas : flushing[r] => Batch(r) \subseteq recorded

\* No step can bring the order of a settled record back.
StaysSettled == \A b \in drained : Settled(b) /\ orders[b] = 0

TypeInv == TypeOK /\ CallsInOrder
OffsetsInv == BatchesCover /\ CommittedIsRecorded

-----------------------------------------------------------------------------
(* Types                                                                    *)

LEMMA QueueTypeInit == Init => TypeInv
<1> SUFFICES ASSUME Init PROVE TypeInv
  OBVIOUS
<1>1. quota \in [Replicas -> Nat]
  <2>1. Stocks \cup {0} \subseteq Nat
    BY QueueQuantitiesAssumption
  <2>2. quota \in [Replicas -> Stocks \cup {0}]
    BY DEF Init
  <2> QED
    BY <2>1, <2>2
<1>2. home \in [Clients -> Replicas] /\ known \in [Replicas -> BOOLEAN]
  BY QueueHomesAssumption, QueueQuantitiesAssumption DEF Init
<1>3. TypeOK
  BY <1>1, <1>2, QueueLimitsAssumption DEF Init, TypeOK
<1>4. CallsInOrder
  BY DEF Init, CallsInOrder
<1> QED
  BY <1>3, <1>4 DEF TypeInv

\* What the actions of a call compute with.
LEMMA CallValues ==
  ASSUME TypeInv, NEW b \in Buyers
  PROVE  /\ qty[b] \in Nat /\ home[b] \in Replicas
         /\ quota[home[b]] \in Nat /\ stray[home[b]] \in Nat
         /\ sends[b] \in 0 .. MaxSends /\ wire[b] \in Nat /\ wire[b] <= sends[b]
<1>1. qty[b] \in Nat /\ home[b] \in Replicas
  BY QueueQuantitiesAssumption DEF TypeInv, TypeOK
<1>2. quota[home[b]] \in Nat /\ stray[home[b]] \in Nat
  BY <1>1 DEF TypeInv, TypeOK
<1>3. sends[b] \in 0 .. MaxSends /\ wire[b] \in 0 .. MaxSends
  BY DEF TypeInv, TypeOK
<1>4. wire[b] <= sends[b]
  BY DEF TypeInv, CallsInOrder
<1> QED
  BY <1>1, <1>2, <1>3, <1>4, QueueLimitsAssumption

LEMMA CallType ==
  ASSUME TypeInv, NEW b \in Buyers, CallStep(b)
  PROVE  TypeInv'
<1>1. CASE Grant(b)
  <2>1. quota[home[b]] - qty[b] \in Nat
    BY <1>1, CallValues DEF Grant
  <2>2. quota' \in [Replicas -> Nat]
    BY <1>1, <2>1 DEF Grant, TypeInv, TypeOK
  <2>3. TypeOK'
    BY <1>1, <2>2 DEF Grant, Goto, consumerVars, TypeInv, TypeOK
  <2>4. CallsInOrder'
    BY <1>1 DEF Grant, Goto, TypeInv, TypeOK, CallsInOrder
  <2> QED
    BY <2>3, <2>4 DEF TypeInv
<1>2. CASE Refuse(b) \/ Acknowledged(b)
  <2>1. \E a \in Answers : Return(b, a)
    BY <1>2 DEF Refuse, Acknowledged, Answers
  <2>2. /\ pc' \in [Clients -> {"grant", "produce", "delete", "set", "done"}]
        /\ answer' \in [Clients -> Answers \cup {None}]
    BY <2>1 DEF Return, Goto, TypeInv, TypeOK
  <2>3. UNCHANGED <<quota, known, home, qty, sends, wire, log, consumerVars, orders, history>>
    BY <1>2 DEF Refuse, Acknowledged
  <2>4. TypeOK'
    BY <2>2, <2>3 DEF history, ledger, consumerVars, TypeInv, TypeOK
  <2>5. CallsInOrder'
    BY <2>1, <2>3 DEF Return, Goto, history, ledger, TypeInv, TypeOK, CallsInOrder
  <2> QED
    BY <2>4, <2>5 DEF TypeInv
<1>3. CASE Send(b)
  <2>1. /\ sends[b] + 1 \in 0 .. MaxSends /\ wire[b] + 1 \in 0 .. MaxSends
        /\ wire[b] + 1 <= sends[b] + 1
    BY <1>3, CallValues, QueueLimitsAssumption DEF Send
  <2>2. faults \in 0 .. MaxFaults
    BY DEF TypeInv, TypeOK
  <2>3. faults' \in 0 .. MaxFaults
    BY <1>3, <2>2, QueueLimitsAssumption DEF Send
  <2>4. sends' \in [Buyers -> 0 .. MaxSends] /\ wire' \in [Buyers -> 0 .. MaxSends]
    BY <1>3, <2>1 DEF Send, TypeInv, TypeOK
  <2>5. TypeOK'
    BY <1>3, <2>3, <2>4 DEF Send, consumerVars, ledger, TypeInv, TypeOK
  <2>6. \A o \in Buyers : wire'[o] <= sends'[o]
    BY <1>3, <2>1 DEF Send, TypeInv, TypeOK, CallsInOrder
  <2> QED
    BY <1>3, <2>5, <2>6 DEF Send, ledger, TypeInv, CallsInOrder
<1>4. CASE ProduceFails(b)
  <2>1. quota[home[b]] + qty[b] \in Nat /\ stray[home[b]] + qty[b] \in Nat
    BY CallValues
  <2>2. quota' \in [Replicas -> Nat]
    BY <1>4, <2>1 DEF ProduceFails, TypeInv, TypeOK
  <2>3. stray' \in [Replicas -> Nat]
    BY <1>4, <2>1 DEF ProduceFails, TypeInv, TypeOK
  <2>4. TypeOK'
    BY <1>4, <2>2, <2>3 DEF ProduceFails, Return, Goto, Answers, consumerVars, TypeInv, TypeOK
  <2>5. CallsInOrder'
    BY <1>4 DEF ProduceFails, Return, Goto, TypeInv, TypeOK, CallsInOrder
  <2> QED
    BY <2>4, <2>5 DEF TypeInv
<1> QED
  BY <1>1, <1>2, <1>3, <1>4 DEF CallStep

\* What a record more does to the log.
LEMMA AppendToLog ==
  ASSUME NEW q \in Seq(Buyers), NEW b \in Buyers
  PROVE  /\ Append(q, b) \in Seq(Buyers)
         /\ Len(q) \in Nat /\ Len(Append(q, b)) = Len(q) + 1
         /\ \A i \in 1 .. Len(q) : Append(q, b)[i] = q[i]
         /\ Append(q, b)[Len(q) + 1] = b
  OBVIOUS

\* The log only grows.
LEMMA LogGrows ==
  ASSUME TypeInv, NEW b \in Buyers, Arrive(b) \/ Drop(b)
  PROVE  /\ log' \in Seq(Buyers) /\ 1 .. Len(log) \subseteq 1 .. Len(log')
         /\ \A i \in 1 .. Len(log) : log'[i] = log[i]
<1>1. log \in Seq(Buyers)
  BY DEF TypeInv, TypeOK
<1>2. CASE log' = log
  BY <1>1, <1>2
<1>3. CASE log' = Append(log, b)
  <2>1. /\ log' \in Seq(Buyers)
        /\ Len(log) \in Nat /\ Len(log') = Len(log) + 1
        /\ \A i \in 1 .. Len(log) : log'[i] = log[i]
    BY <1>1, <1>3, AppendToLog
  <2> QED
    BY <2>1
<1> QED
  BY <1>2, <1>3 DEF Arrive, Drop

LEMMA BrokerType ==
  ASSUME TypeInv, NEW b \in Buyers, Arrive(b) \/ Drop(b)
  PROVE  TypeInv'
<1>1. wire[b] - 1 \in 0 .. MaxSends /\ wire[b] - 1 <= sends[b]
  BY CallValues, QueueLimitsAssumption DEF Arrive, Drop
<1>2. wire' \in [Buyers -> 0 .. MaxSends]
  BY <1>1 DEF Arrive, Drop, TypeInv, TypeOK
<1>3. log' \in Seq(Buyers) /\ 1 .. Len(log) \subseteq 1 .. Len(log')
  BY LogGrows
<1>4. position \in 0 .. Len(log') /\ committed \in 0 .. Len(log')
  <2>1. log \in Seq(Buyers) /\ position \in 0 .. Len(log) /\ committed \in 0 .. Len(log)
    BY DEF TypeInv, TypeOK
  <2>2. Len(log) \in Nat /\ Len(log') \in Nat
    BY <1>3, <2>1
  <2> QED
    BY <1>3, <2>1, <2>2
<1>5. pending \in [Replicas -> SUBSET (1 .. Len(log'))]
  BY <1>3 DEF TypeInv, TypeOK
<1>6. UNCHANGED <<callVars, consumerVars, orders, history>>
  BY DEF Arrive, Drop
<1>7. TypeOK'
  BY <1>2, <1>3, <1>4, <1>5, <1>6
  DEF callVars, consumerVars, history, ledger, TypeInv, TypeOK
<1>8. \A o \in Buyers : wire'[o] <= sends[o]
  BY <1>1 DEF Arrive, Drop, TypeInv, TypeOK, CallsInOrder
<1> QED
  BY <1>6, <1>7, <1>8 DEF callVars, history, ledger, TypeInv, CallsInOrder

\* The calls and what their account consists of.
callState == <<callVars, wire, ledger>>

LEMMA CallsFrame ==
  ASSUME TypeInv, UNCHANGED callState
  PROVE  CallsInOrder'
BY DEF callState, callVars, ledger, TypeInv, CallsInOrder

LEMMA RebalanceType ==
  ASSUME TypeInv, NEW r \in Replicas, Rebalance(r)
  PROVE  TypeInv'
<1>1. faults \in 0 .. MaxFaults
  BY DEF TypeInv, TypeOK
<1>2. faults' \in 0 .. MaxFaults
  BY <1>1, QueueLimitsAssumption DEF Rebalance
<1>3. TypeOK'
  BY <1>2 DEF Rebalance, callVars, ledger, TypeInv, TypeOK
<1> QED
  BY <1>3, CallsFrame DEF Rebalance, callState, TypeInv

\* Batches hold records of the log.
LEMMA BatchType ==
  ASSUME TypeInv, NEW r \in Replicas
  PROVE  Batch(r) \subseteq Buyers
<1>1. log \in Seq(Buyers) /\ pending[r] \subseteq 1 .. Len(log)
  BY DEF TypeInv, TypeOK
<1>2. \A i \in 1 .. Len(log) : log[i] \in Buyers
  BY <1>1
<1> QED
  BY <1>1, <1>2 DEF Batch

\* The loop of a replica leaves calls alone.
LEMMA ConsumerType ==
  ASSUME TypeInv, NEW r \in Replicas, ConsumerStep(r)
  PROVE  TypeInv'
<1>1. UNCHANGED callState /\ UNCHANGED <<log, faults, drained, assigned>>
  BY DEF ConsumerStep, Poll, InsertBatch, InsertUnacknowledged, InsertOrders, CommitOffsets,
         CommitFails, callState, callVars, history, ledger
<1>2. log \in Seq(Buyers) /\ Len(log) \in Nat /\ position \in 0 .. Len(log)
  BY DEF TypeInv, TypeOK
<1>3. Batch(r) \subseteq Buyers
  BY BatchType
<1>4. position' \in 0 .. Len(log) /\ pending' \in [Replicas -> SUBSET (1 .. Len(log))]
  <2>1. CASE Poll(r)
    <3>1. position + 1 \in 1 .. Len(log)
      BY <1>2, <2>1 DEF Poll
    <3>2. position' \in 0 .. Len(log)
      BY <1>2, <2>1, <3>1 DEF Poll
    <3>3. pending' \in [Replicas -> SUBSET (1 .. Len(log))]
      BY <2>1, <3>1 DEF Poll, TypeInv, TypeOK
    <3> QED
      BY <3>2, <3>3
  <2>2. CASE ~Poll(r)
    BY <2>2 DEF ConsumerStep, InsertBatch, InsertUnacknowledged, InsertOrders, CommitOffsets,
                CommitFails, TypeInv, TypeOK
  <2> QED
    BY <2>1, <2>2
<1>5. committed' \in 0 .. Len(log) /\ flushing' \in [Replicas -> BOOLEAN]
  BY DEF ConsumerStep, Poll, InsertBatch, InsertUnacknowledged, InsertOrders, CommitOffsets,
         CommitFails, TypeInv, TypeOK
<1>6. orders' \in [Buyers -> Nat] /\ recorded' \subseteq Buyers
  <2>1. CASE InsertOrders(Batch(r))
    BY <1>3, <2>1 DEF InsertOrders, TypeInv, TypeOK
  <2>2. CASE UNCHANGED <<orders, recorded>>
    BY <2>2 DEF TypeInv, TypeOK
  <2> QED
    BY <2>1, <2>2 DEF ConsumerStep, Poll, InsertBatch, InsertUnacknowledged, CommitOffsets,
                      CommitFails, history
<1>7. TypeOK'
  BY <1>1, <1>4, <1>5, <1>6 DEF callState, callVars, ledger, TypeInv, TypeOK
<1> QED
  BY <1>1, <1>7, CallsFrame DEF TypeInv

LEMMA SeedType ==
  ASSUME TypeInv, NEW s \in Seeders, SeedDelete(s) \/ SeedQuota(s)
  PROVE  TypeInv'
<1>1. faults \in 0 .. MaxFaults /\ home[s] \in Replicas
  BY DEF TypeInv, TypeOK
<1>2. CASE SeedDelete(s)
  <2>1. faults' \in 0 .. MaxFaults
    BY <1>1, <1>2, QueueLimitsAssumption DEF SeedDelete
  <2>2. TypeOK'
    BY <1>2, <2>1 DEF SeedDelete, Goto, consumerVars, ledger, TypeInv, TypeOK
  <2> QED
    BY <1>2, <2>2 DEF SeedDelete, Goto, ledger, TypeInv, TypeOK, CallsInOrder
<1>3. CASE SeedQuota(s)
  <2>1. PICK n \in Stocks : NewShare(home[s], n)
    BY <1>3 DEF SeedQuota
  <2>2. n \in Nat
    BY QueueQuantitiesAssumption
  <2>3. /\ quota' \in [Replicas -> Nat] /\ share' \in [Replicas -> Nat]
        /\ stray' \in [Replicas -> Nat] /\ current' \subseteq current
    BY <1>1, <2>1, <2>2 DEF NewShare, TypeInv, TypeOK
  <2>4. TypeOK'
    BY <1>1, <1>3, <2>3 DEF SeedQuota, Return, Goto, Answers, consumerVars, TypeInv, TypeOK
  <2> QED
    BY <1>3, <2>3, <2>4 DEF SeedQuota, Return, Goto, TypeInv, TypeOK, CallsInOrder
<1> QED
  BY <1>2, <1>3

LEMMA CrashType ==
  ASSUME TypeInv, NEW r \in Replicas, Crash(r)
  PROVE  TypeInv'
<1>1. faults \in 0 .. MaxFaults
  BY DEF TypeInv, TypeOK
<1>2. faults' \in 0 .. MaxFaults
  BY <1>1, QueueLimitsAssumption DEF Crash
<1>3. /\ quota' \in [Replicas -> Nat] /\ share' \in [Replicas -> Nat]
      /\ stray' \in [Replicas -> Nat] /\ current' \subseteq current
  BY DEF Crash, NewShare, TypeInv, TypeOK
<1>4. /\ pc' \in [Clients -> {"grant", "produce", "delete", "set", "done"}]
      /\ answer' \in [Clients -> Answers \cup {None}]
  BY DEF Crash, Answers, TypeInv, TypeOK
<1>5. /\ assigned' \in Replicas \cup {None} /\ known' \in [Replicas -> BOOLEAN]
      /\ pending' \in [Replicas -> SUBSET (1 .. Len(log))]
      /\ flushing' \in [Replicas -> BOOLEAN]
  BY DEF Crash, TypeInv, TypeOK
<1>6. TypeOK'
  BY <1>2, <1>3, <1>4, <1>5 DEF Crash, TypeInv, TypeOK
<1>7. CallsInOrder'
  BY <1>3 DEF Crash, TypeInv, TypeOK, CallsInOrder
<1> QED
  BY <1>6, <1>7 DEF TypeInv

LEMMA QueueTypeStep == TypeInv /\ [Next]_vars => TypeInv'
<1> SUFFICES ASSUME TypeInv, [Next]_vars PROVE TypeInv'
  OBVIOUS
<1>1. CASE UNCHANGED vars
  BY <1>1 DEF vars, callVars, consumerVars, history, ledger, TypeInv, TypeOK, CallsInOrder
<1> QED
  BY <1>1, CallType, BrokerType, SeedType, ConsumerType, RebalanceType, CrashType
  DEF Next, Finished

\* Every variable keeps its type; in particular no replica grants more than its quota, and
\* no record is sent more often than the client library tries.
THEOREM QueueTypeCorrect == Spec => []TypeOK
<1>1. Spec => []TypeInv
  BY QueueTypeInit, QueueTypeStep, PTL DEF Spec
<1> QED
  BY <1>1, PTL DEF TypeInv

-----------------------------------------------------------------------------
(* Offsets                                                                  *)

\* The offsets and batches as numbers, without the rest of the types.
LEMMA OffsetValues ==
  ASSUME TypeInv
  PROVE  /\ Len(log) \in Nat /\ position \in 0 .. Len(log) /\ committed \in 0 .. Len(log)
         /\ \A r \in Replicas : pending[r] \subseteq 1 .. Len(log)
         /\ assigned \in Replicas \cup {None}
BY DEF TypeInv, TypeOK

LEMMA OffsetsFrame ==
  ASSUME OffsetsInv, UNCHANGED <<log, consumerVars, recorded>>
  PROVE  OffsetsInv'
BY DEF consumerVars, OffsetsInv, BatchesCover, CommittedIsRecorded, Batch

LEMMA BrokerOffsets ==
  ASSUME TypeInv, OffsetsInv, NEW b \in Buyers, Arrive(b) \/ Drop(b)
  PROVE  OffsetsInv'
<1>1. \A i \in 1 .. Len(log) : log'[i] = log[i]
  BY LogGrows
<1>2. UNCHANGED <<consumerVars, recorded>>
  BY DEF Arrive, Drop, history
<1>3. \A i \in 1 .. position : i \in 1 .. Len(log)
  BY OffsetValues
<1>4. \A i \in 1 .. committed : i \in 1 .. Len(log)
  BY OffsetValues
<1>5. \A r \in Replicas : Batch(r)' = Batch(r)
  BY <1>1, <1>2, OffsetValues DEF Batch, consumerVars
<1>6. CommittedIsRecorded'
  BY <1>1, <1>2, <1>4 DEF consumerVars, OffsetsInv, CommittedIsRecorded
<1>7. BatchesCover'
  BY <1>1, <1>2, <1>3, <1>5 DEF consumerVars, OffsetsInv, BatchesCover
<1> QED
  BY <1>6, <1>7 DEF OffsetsInv

LEMMA PollOffsets ==
  ASSUME TypeInv, OffsetsInv, NEW r \in Replicas, Poll(r)
  PROVE  OffsetsInv'
<1>1. UNCHANGED <<log, committed, recorded, assigned, flushing>>
  BY DEF Poll, history
<1>2. assigned = r /\ ~flushing[r] /\ position' = position + 1
  BY DEF Poll
<1>3. pending' = [pending EXCEPT ![r] = @ \cup {position + 1}] /\ pending \in [Replicas -> SUBSET (1 .. Len(log))]
  BY DEF Poll, TypeInv, TypeOK
<1>4. committed <= position'
  BY <1>2, OffsetValues DEF OffsetsInv, BatchesCover
<1>5. ASSUME NEW i \in 1 .. position' PROVE i \in pending'[r] \/ log[i] \in recorded
  <2>1. i \in 1 .. position \/ i = position + 1
    BY <1>2, OffsetValues
  <2>2. pending'[r] = pending[r] \cup {position + 1}
    BY <1>3
  <2> QED
    BY <1>2, <2>1, <2>2 DEF OffsetsInv, BatchesCover
<1>6. \A k \in Replicas : flushing[k] => Batch(k)' = Batch(k)
  BY <1>1, <1>2, <1>3 DEF Batch
<1>7. BatchesCover'
  BY <1>1, <1>2, <1>4, <1>5, <1>6 DEF OffsetsInv, BatchesCover
<1> QED
  BY <1>1, <1>7 DEF OffsetsInv, CommittedIsRecorded

\* Inserting a batch records it, whatever becomes of the acknowledgement.
LEMMA InsertOffsets ==
  ASSUME TypeInv, OffsetsInv, NEW r \in Replicas, InsertBatch(r) \/ InsertUnacknowledged(r)
  PROVE  OffsetsInv'
<1>1. /\ UNCHANGED <<log, assigned, position, pending, committed>>
      /\ recorded' = recorded \cup Batch(r)
  BY DEF InsertBatch, InsertUnacknowledged, InsertOrders
<1>2. \A k \in Replicas : Batch(k)' = Batch(k)
  BY <1>1 DEF Batch
<1>3. \A k \in Replicas : flushing'[k] => flushing[k] \/ k = r
  BY DEF InsertBatch, InsertUnacknowledged, TypeInv, TypeOK
<1> QED
  BY <1>1, <1>2, <1>3 DEF OffsetsInv, BatchesCover, CommittedIsRecorded

LEMMA CommitsOffsets ==
  ASSUME TypeInv, OffsetsInv, NEW r \in Replicas, CommitOffsets(r) \/ CommitFails(r)
  PROVE  OffsetsInv'
<1>1. /\ UNCHANGED <<log, assigned, position, recorded>>
      /\ flushing[r]
  BY DEF CommitOffsets, CommitFails, history
<1>2. committed' = committed \/ (assigned = r /\ committed' = position)
  BY DEF CommitOffsets, CommitFails
<1>3. Batch(r) \subseteq recorded
  BY <1>1 DEF OffsetsInv, BatchesCover
<1>4. \A i \in pending[r] : log[i] \in recorded
  BY <1>3 DEF Batch
<1>5. \A k \in Replicas : pending'[k] = pending[k] \/ (k = r /\ pending'[k] = {})
  BY DEF CommitOffsets, CommitFails, TypeInv, TypeOK
<1>6. \A k \in Replicas : flushing'[k] => flushing[k] /\ k # r
  BY DEF CommitOffsets, CommitFails, TypeInv, TypeOK
<1>7. CommittedIsRecorded'
  BY <1>1, <1>2, <1>4 DEF OffsetsInv, BatchesCover, CommittedIsRecorded
<1>8. committed' <= position
  BY <1>2, OffsetValues DEF OffsetsInv, BatchesCover
<1>9. assigned # None => \A i \in 1 .. position : i \in pending'[assigned] \/ log[i] \in recorded
  BY <1>4, <1>5, OffsetValues DEF OffsetsInv, BatchesCover
<1>10. \A k \in Replicas : flushing'[k] => Batch(k)' = Batch(k)
  BY <1>1, <1>5, <1>6 DEF Batch
<1>11. BatchesCover'
  BY <1>1, <1>6, <1>8, <1>9, <1>10 DEF OffsetsInv, BatchesCover
<1> QED
  BY <1>7, <1>11 DEF OffsetsInv

LEMMA RebalanceOffsets ==
  ASSUME TypeInv, OffsetsInv, NEW r \in Replicas, Rebalance(r)
  PROVE  OffsetsInv'
<1>1. UNCHANGED <<log, pending, flushing, committed, recorded>> /\ position' = committed
  BY DEF Rebalance
<1>2. \A k \in Replicas : Batch(k)' = Batch(k)
  BY <1>1 DEF Batch
<1>3. committed <= committed
  BY OffsetValues
<1> QED
  BY <1>1, <1>2, <1>3 DEF OffsetsInv, BatchesCover, CommittedIsRecorded

LEMMA CrashOffsets ==
  ASSUME TypeInv, OffsetsInv, NEW r \in Replicas, Crash(r)
  PROVE  OffsetsInv'
<1>1. UNCHANGED <<log, position, committed, recorded>>
  BY DEF Crash
<1>2. assigned' \in {None, assigned} /\ assigned' # r
  BY QueueClientsAssumption DEF Crash
<1>3. \A k \in Replicas \ {r} : pending'[k] = pending[k] /\ flushing'[k] = flushing[k]
  BY DEF Crash, TypeInv, TypeOK
<1>4. ~flushing'[r]
  BY DEF Crash, TypeInv, TypeOK
<1>5. \A k \in Replicas \ {r} : Batch(k)' = Batch(k)
  BY <1>1, <1>3 DEF Batch
<1>6. BatchesCover'
  BY <1>1, <1>2, <1>3, <1>4, <1>5, OffsetValues DEF OffsetsInv, BatchesCover
<1> QED
  BY <1>1, <1>6 DEF OffsetsInv, CommittedIsRecorded

LEMMA OffsetsStep == TypeInv /\ OffsetsInv /\ [Next]_vars => OffsetsInv'
<1> SUFFICES ASSUME TypeInv, OffsetsInv, [Next]_vars PROVE OffsetsInv'
  OBVIOUS
<1>1. CASE UNCHANGED vars
  BY <1>1, OffsetsFrame DEF vars, history
<1>2. ASSUME NEW b \in Buyers, CallStep(b) PROVE OffsetsInv'
  BY <1>2, OffsetsFrame
  DEF CallStep, Grant, Refuse, Send, Acknowledged, ProduceFails, history
<1>3. ASSUME NEW s \in Seeders, SeedDelete(s) \/ SeedQuota(s) PROVE OffsetsInv'
  BY <1>3, OffsetsFrame DEF SeedDelete, SeedQuota
<1> QED
  BY <1>1, <1>2, <1>3, BrokerOffsets, PollOffsets, InsertOffsets, CommitsOffsets,
     RebalanceOffsets, CrashOffsets
  DEF Next, Finished, ConsumerStep

LEMMA OffsetsInit == Init => OffsetsInv
<1> SUFFICES ASSUME Init PROVE OffsetsInv
  OBVIOUS
<1> QED
  BY DEF Init, OffsetsInv, BatchesCover, CommittedIsRecorded

\* Offsets run behind the orders, whatever is delivered twice, rebalanced or crashed.
THEOREM CommitsLoseNothing == Spec => []CommittedIsRecorded
<1>1. Init => TypeInv /\ OffsetsInv
  BY QueueTypeInit, OffsetsInit
<1>2. (TypeInv /\ OffsetsInv) /\ [Next]_vars => (TypeInv /\ OffsetsInv)'
  BY QueueTypeStep, OffsetsStep
<1>3. OffsetsInv => CommittedIsRecorded
  BY DEF OffsetsInv
<1> QED
  BY <1>1, <1>2, <1>3, PTL DEF Spec

-----------------------------------------------------------------------------
(* Orders                                                                   *)

LEMMA OrdersStep == TypeInv /\ NoDuplicateOrders /\ [Next]_vars => NoDuplicateOrders'
<1> SUFFICES ASSUME TypeInv, NoDuplicateOrders, [Next]_vars PROVE NoDuplicateOrders'
  OBVIOUS
<1>1. CASE \E keys \in SUBSET Buyers : InsertOrders(keys)
  BY <1>1 DEF InsertOrders, NoDuplicateOrders
<1>2. CASE orders' = [b \in Buyers |-> 0]
  BY <1>2 DEF NoDuplicateOrders
<1>3. CASE orders' = orders
  BY <1>3 DEF NoDuplicateOrders
<1>4. ASSUME NEW r \in Replicas, ConsumerStep(r)
      PROVE  orders' = orders \/ \E keys \in SUBSET Buyers : InsertOrders(keys)
  BY <1>4, BatchType
  DEF ConsumerStep, Poll, InsertBatch, InsertUnacknowledged, CommitOffsets, CommitFails
<1> QED
  BY <1>1, <1>2, <1>3, <1>4
  DEF Next, Finished, vars, CallStep, Grant, Refuse, Send, Acknowledged, ProduceFails, Arrive,
      Drop, SeedDelete, SeedQuota, Rebalance, Crash

\* insertBatch keeps its word: a record that is delivered again books no second unit.
THEOREM KeysPreventDuplicates == Spec => []NoDuplicateOrders
<1>1. Init => NoDuplicateOrders
  BY DEF Init, NoDuplicateOrders
<1>2. Init => TypeInv
  BY QueueTypeInit
<1>3. (TypeInv /\ NoDuplicateOrders) /\ [Next]_vars => (TypeInv /\ NoDuplicateOrders)'
  BY QueueTypeStep, OrdersStep
<1> QED
  BY <1>1, <1>2, <1>3, PTL DEF Spec

\* A record that is settled stays so: its call is over, nothing of it is under way, and all of
\* its copies are behind the committed offset, which only rises.
LEMMA SettledStays ==
  ASSUME TypeInv, OffsetsInv, [Next]_vars, NEW b \in Buyers, Settled(b)
  PROVE  Settled(b)'
<1>1. /\ pc[b] = "done" /\ wire[b] = 0
      /\ \A i \in DOMAIN log : log[i] = b => i <= committed
      /\ \A r \in Replicas : b \notin Batch(r)
  BY DEF Settled
<1>2. /\ log \in Seq(Buyers) /\ DOMAIN log = 1 .. Len(log)
      /\ Len(log) \in Nat /\ position \in 0 .. Len(log) /\ committed \in 0 .. Len(log)
      /\ committed <= position
      /\ pc \in [Clients -> {"grant", "produce", "delete", "set", "done"}]
      /\ wire \in [Buyers -> 0 .. MaxSends]
      /\ pending \in [Replicas -> SUBSET (1 .. Len(log))]
  <2>1. log \in Seq(Buyers)
    BY DEF TypeInv, TypeOK
  <2>2. DOMAIN log = 1 .. Len(log)
    BY <2>1
  <2>3. committed <= position
    BY DEF OffsetsInv, BatchesCover
  <2> QED
    BY <2>1, <2>2, <2>3, OffsetValues DEF TypeInv, TypeOK
<1> DEFINE Calm == pc'[b] = "done" /\ wire'[b] = 0
<1>3. ASSUME Calm, log' = log, committed' \in {committed, position},
             \A r \in Replicas : pending'[r] \subseteq pending[r] \cup {position + 1}
      PROVE  Settled(b)'
  <2>1. \A i \in DOMAIN log : log[i] = b => i <= committed'
    BY <1>1, <1>2, <1>3
  <2>2. pending' \in [Replicas -> SUBSET (1 .. Len(log))]
    BY <1>3, QueueTypeStep DEF TypeInv, TypeOK
  <2>3. ASSUME NEW r \in Replicas, NEW i \in pending'[r], log[i] = b PROVE FALSE
    <3>1. CASE i \in pending[r]
      BY <1>1, <2>3, <3>1 DEF Batch
    <3>2. CASE i = position + 1
      <4>1. i \in DOMAIN log
        BY <1>2, <2>2, <2>3
      <4> QED
        BY <1>1, <1>2, <2>3, <3>2, <4>1
    <3> QED
      BY <1>3, <2>3, <3>1, <3>2
  <2>4. \A r \in Replicas : b \notin Batch(r)'
    BY <1>3, <2>3 DEF Batch
  <2> QED
    BY <1>3, <2>1, <2>4 DEF Settled
<1> HIDE DEF Calm
<1>4. ASSUME NEW c \in Buyers, CallStep(c) PROVE Settled(b)'
  <2>1. Calm
    BY <1>1, <1>2, <1>4
    DEF Calm, CallStep, Grant, Refuse, Send, Acknowledged, ProduceFails, Return, Goto
  <2>2. UNCHANGED <<log, committed, pending>>
    BY <1>4
    DEF CallStep, Grant, Refuse, Send, Acknowledged, ProduceFails, consumerVars
  <2> QED
    BY <1>2, <1>3, <2>1, <2>2
<1>5. ASSUME NEW c \in Buyers, Arrive(c) \/ Drop(c) PROVE Settled(b)'
  <2>1. c # b
    BY <1>1, <1>5 DEF Arrive, Drop
  <2>2. Calm /\ UNCHANGED <<committed, pending>>
    BY <1>1, <1>2, <1>5, <2>1 DEF Calm, Arrive, Drop, callVars, consumerVars
  <2>3. log' = log \/ log' = Append(log, c)
    BY <1>5 DEF Arrive, Drop
  <2>4. CASE log' = Append(log, c)
    <3>1. /\ log' \in Seq(Buyers) /\ Len(log') = Len(log) + 1
          /\ \A i \in 1 .. Len(log) : log'[i] = log[i]
          /\ log'[Len(log) + 1] = c
      BY <1>2, <2>4, AppendToLog
    <3>2. DOMAIN log' = 1 .. Len(log')
      BY <3>1
    <3>3. \A i \in DOMAIN log' : log'[i] = b => i <= committed'
      <4> SUFFICES ASSUME NEW i \in 1 .. Len(log'), log'[i] = b PROVE i <= committed
        BY <2>2, <3>2
      <4>1. i \in 1 .. Len(log)
        BY <1>2, <2>1, <3>1
      <4>2. log[i] = b /\ i \in DOMAIN log
        BY <1>2, <3>1, <4>1
      <4> QED
        BY <1>1, <4>2
    <3>4. \A r \in Replicas : Batch(r)' = Batch(r)
      BY <1>2, <2>2, <3>1 DEF Batch
    <3> QED
      BY <1>1, <2>2, <3>3, <3>4 DEF Settled, Calm
  <2> QED
    BY <1>3, <2>2, <2>3, <2>4
<1>6. ASSUME NEW s \in Seeders, SeedDelete(s) \/ SeedQuota(s) PROVE Settled(b)'
  <2>1. Calm
    BY <1>1, <1>2, <1>6 DEF Calm, SeedDelete, SeedQuota, Return, Goto
  <2>2. UNCHANGED <<log, committed, pending>>
    BY <1>6 DEF SeedDelete, SeedQuota, consumerVars
  <2> QED
    BY <1>2, <1>3, <2>1, <2>2
<1>7. ASSUME NEW r \in Replicas, ConsumerStep(r) PROVE Settled(b)'
  <2>1. Calm /\ log' = log
    BY <1>1, <1>2, <1>7
    DEF Calm, ConsumerStep, Poll, InsertBatch, InsertUnacknowledged, InsertOrders, CommitOffsets,
        CommitFails, callVars
  <2>2. committed' \in {committed, position}
    BY <1>7
    DEF ConsumerStep, Poll, InsertBatch, InsertUnacknowledged, InsertOrders, CommitOffsets,
        CommitFails
  <2>3. \A k \in Replicas : pending'[k] \subseteq pending[k] \cup {position + 1}
    BY <1>2, <1>7
    DEF ConsumerStep, Poll, InsertBatch, InsertUnacknowledged, InsertOrders, CommitOffsets,
        CommitFails
  <2> QED
    BY <1>3, <2>1, <2>2, <2>3
<1>8. ASSUME NEW r \in Replicas, Rebalance(r) \/ Crash(r) PROVE Settled(b)'
  <2>1. Calm /\ UNCHANGED <<log, committed>>
    BY <1>1, <1>2, <1>8 DEF Calm, Rebalance, Crash, callVars
  <2>2. \A k \in Replicas : pending'[k] \subseteq pending[k]
    BY <1>2, <1>8 DEF Rebalance, Crash
  <2> QED
    BY <1>3, <2>1, <2>2
<1>9. CASE UNCHANGED vars
  BY <1>9 DEF vars, callVars, consumerVars, Settled, Batch
<1> QED
  BY <1>4, <1>5, <1>6, <1>7, <1>8, <1>9 DEF Next, Finished

LEMMA SettledStep == TypeInv /\ OffsetsInv /\ StaysSettled /\ [Next]_vars => StaysSettled'
<1> SUFFICES ASSUME TypeInv, OffsetsInv, StaysSettled, [Next]_vars,
                    NEW b \in drained'
             PROVE  Settled(b)' /\ orders'[b] = 0
  BY DEF StaysSettled
<1>1. drained \subseteq Buyers /\ recorded \subseteq Buyers
  BY DEF TypeInv, TypeOK
<1>2. CASE \E s \in Seeders : SeedDelete(s)
  <2>1. b \in Buyers /\ Settled(b) /\ orders'[b] = 0
    BY <1>1, <1>2 DEF SeedDelete
  <2> QED
    BY <2>1, SettledStays
<1>3. CASE drained' = drained
  <2>1. b \in Buyers /\ Settled(b) /\ orders[b] = 0 /\ \A r \in Replicas : b \notin Batch(r)
    BY <1>1, <1>3 DEF StaysSettled, Settled
  <2>2. orders'[b] = 0
    BY <2>1
    DEF Next, Finished, vars, CallStep, Grant, Refuse, Send, Acknowledged, ProduceFails, Arrive,
        Drop, SeedDelete, SeedQuota, ConsumerStep, Poll, InsertBatch, InsertUnacknowledged,
        InsertOrders, CommitOffsets, CommitFails, Rebalance, Crash
  <2> QED
    BY <2>1, <2>2, SettledStays
<1> QED
  BY <1>2, <1>3
  DEF Next, Finished, vars, history, CallStep, Grant, Refuse, Send, Acknowledged, ProduceFails,
      Arrive, Drop, SeedQuota, ConsumerStep, Poll, InsertBatch, InsertUnacknowledged,
      InsertOrders, CommitOffsets, CommitFails, Rebalance, Crash

\* The orders of an earlier sale do not come back after a seed once their records have settled,
\* although the seed deleted the keys that would have stopped them.
THEOREM SettledOrdersStayAway == Spec => []SeedIsClean
<1> DEFINE SInv == TypeInv /\ OffsetsInv /\ StaysSettled
<1>1. Init => SInv
  BY QueueTypeInit, OffsetsInit DEF Init, StaysSettled
<1>2. SInv /\ [Next]_vars => SInv'
  BY QueueTypeStep, OffsetsStep, SettledStep
<1>3. SInv => SeedIsClean
  BY DEF StaysSettled, SeedIsClean
<1> QED
  BY <1>1, <1>2, <1>3, PTL DEF Spec

-----------------------------------------------------------------------------
(* The account of a share                                                   *)

\* A replica has an account with a finite number of grants in it.
LEMMA AccountType ==
  ASSUME TypeInv, NEW r \in Replicas
  PROVE  /\ IsFiniteSet(Granted(r)) /\ Granted(r) \subseteq Buyers
         /\ \A b \in Buyers : qty[b] \in Nat
         /\ quota[r] \in Nat /\ share[r] \in Nat /\ stray[r] \in Nat
         /\ Total(qty, Granted(r)) \in Nat
<1>1. Granted(r) \subseteq Buyers
  BY DEF Granted, TypeInv, TypeOK
<1>2. IsFiniteSet(Granted(r))
  BY <1>1, FS_Subset, QueueClientsAssumption
<1>3. \A b \in Buyers : qty[b] \in Nat
  BY CallValues
<1>4. quota[r] \in Nat /\ share[r] \in Nat /\ stray[r] \in Nat
  BY DEF TypeInv, TypeOK
<1> QED
  BY <1>1, <1>2, <1>3, <1>4, TotalType

\* Nothing changes for a replica whose numbers and grants stay.
LEMMA AccountFrame ==
  ASSUME QuotaLedger, qty' = qty, NEW r \in Replicas, Granted(r)' = Granted(r),
         quota'[r] = quota[r], share'[r] = share[r], stray'[r] = stray[r]
  PROVE  quota'[r] + Total(qty, Granted(r))' = share'[r] + stray'[r]
BY DEF QuotaLedger

LEMMA GrantLedger ==
  ASSUME TypeInv, QuotaLedger, NEW b \in Buyers, Grant(b)
  PROVE  QuotaLedger'
<1>1. PICK k \in Replicas : k = home[b]
  BY CallValues
<1>2. /\ b \notin current /\ answer[b] = None /\ None # "unavailable"
      /\ UNCHANGED <<qty, home, answer, share, stray>> /\ current' = current \cup {b}
  BY QueueClientsAssumption DEF Grant, TypeInv, CallsInOrder, Answers
<1>3. quota' = [quota EXCEPT ![k] = @ - qty[b]] /\ quota \in [Replicas -> Nat]
  BY <1>1 DEF Grant, TypeInv, TypeOK
<1>4. Granted(k)' = Granted(k) \cup {b} /\ b \notin Granted(k)
  BY <1>1, <1>2 DEF Granted
<1>5. Total(qty, Granted(k))' = Total(qty, Granted(k)) + qty[b]
  BY <1>2, <1>4, AccountType, TotalAdd
<1>6. quota[k] + Total(qty, Granted(k)) = share[k] + stray[k]
  BY DEF QuotaLedger
<1>7. quota'[k] = quota[k] - qty[b] /\ share'[k] = share[k] /\ stray'[k] = stray[k]
  BY <1>2, <1>3
<1>8. quota'[k] + Total(qty, Granted(k))' = share'[k] + stray'[k]
  BY <1>5, <1>6, <1>7, AccountType
<1>9. ASSUME NEW r \in Replicas, r # k
      PROVE  quota'[r] + Total(qty, Granted(r))' = share'[r] + stray'[r]
  <2>1. Granted(r)' = Granted(r) /\ quota'[r] = quota[r]
    BY <1>1, <1>2, <1>3, <1>9 DEF Granted
  <2> QED
    BY <1>2, <2>1, AccountFrame
<1> QED
  BY <1>8, <1>9 DEF QuotaLedger

\* A refund of a grant out of an earlier share is one too many.
LEMMA RefundLedger ==
  ASSUME TypeInv, QuotaLedger, NEW b \in Buyers, ProduceFails(b)
  PROVE  QuotaLedger'
<1>1. PICK k \in Replicas : k = home[b]
  BY CallValues
<1>2. /\ answer[b] = None /\ None # "unavailable"
      /\ UNCHANGED <<qty, home, share, current>>
      /\ stray' = IF b \in current THEN stray ELSE [stray EXCEPT ![k] = @ + qty[b]]
      /\ quota' = [quota EXCEPT ![k] = @ + qty[b]]
      /\ answer' = [answer EXCEPT ![b] = "unavailable"]
  BY <1>1, QueueClientsAssumption
  DEF ProduceFails, Return, TypeInv, CallsInOrder, Answers
<1>3. /\ quota \in [Replicas -> Nat] /\ stray \in [Replicas -> Nat]
      /\ answer \in [Clients -> Answers \cup {None}] /\ current \subseteq Buyers
  BY DEF TypeInv, TypeOK
<1>4. \A r \in Replicas : Granted(r)' = Granted(r) \ {b}
  BY <1>2, <1>3 DEF Granted
<1>5. quota[k] + Total(qty, Granted(k)) = share[k] + stray[k]
  BY DEF QuotaLedger
<1>6. quota'[k] = quota[k] + qty[b] /\ share'[k] = share[k]
  BY <1>2, <1>3
<1>7. quota'[k] + Total(qty, Granted(k))' = share'[k] + stray'[k]
  <2>1. CASE b \in current
    <3>1. b \in Granted(k)
      BY <1>1, <1>2, <2>1 DEF Granted
    <3>2. Total(qty, Granted(k)) = Total(qty, Granted(k) \ {b}) + qty[b]
      BY <3>1, AccountType, TotalRemove
    <3>3. Total(qty, Granted(k) \ {b}) \in Nat
      BY AccountType, FS_RemoveElement, TotalType
    <3>4. Total(qty, Granted(k))' = Total(qty, Granted(k) \ {b})
      BY <1>2, <1>4
    <3>5. stray'[k] = stray[k]
      BY <1>2, <2>1
    <3> QED
      BY <1>5, <1>6, <3>2, <3>3, <3>4, <3>5, AccountType
  <2>2. CASE b \notin current
    <3>1. Granted(k)' = Granted(k)
      BY <1>2, <1>4, <2>2 DEF Granted
    <3>2. stray'[k] = stray[k] + qty[b]
      BY <1>2, <1>3, <2>2
    <3>3. Total(qty, Granted(k))' = Total(qty, Granted(k))
      BY <1>2, <3>1
    <3> QED
      BY <1>5, <1>6, <3>2, <3>3, AccountType
  <2> QED
    BY <2>1, <2>2
<1>8. ASSUME NEW r \in Replicas, r # k
      PROVE  quota'[r] + Total(qty, Granted(r))' = share'[r] + stray'[r]
  <2>1. Granted(r)' = Granted(r)
    BY <1>1, <1>2, <1>4, <1>8 DEF Granted
  <2>2. quota'[r] = quota[r] /\ stray'[r] = stray[r]
    BY <1>2, <1>3, <1>8
  <2> QED
    BY <1>2, <2>1, <2>2, AccountFrame
<1> QED
  BY <1>7, <1>8 DEF QuotaLedger

\* A seed and a crash open a new account at one replica.
LEMMA NewShareLedger ==
  ASSUME TypeInv, QuotaLedger, NEW k \in Replicas, NEW n \in Nat, NewShare(k, n),
         UNCHANGED <<qty, home>>,
         \A b \in Buyers : home[b] # k => answer'[b] = answer[b]
  PROVE  QuotaLedger'
<1>1. /\ quota' = [quota EXCEPT ![k] = n] /\ share' = [share EXCEPT ![k] = n]
      /\ stray' = [stray EXCEPT ![k] = 0]
      /\ quota \in [Replicas -> Nat] /\ share \in [Replicas -> Nat]
      /\ stray \in [Replicas -> Nat]
  BY DEF NewShare, TypeInv, TypeOK
<1>2. Granted(k)' = {}
  BY DEF NewShare, Granted
<1>3. Total(qty, Granted(k))' = 0
  BY <1>2, TotalEmpty
<1>4. quota'[k] + Total(qty, Granted(k))' = share'[k] + stray'[k]
  BY <1>1, <1>3
<1>5. ASSUME NEW r \in Replicas \ {k}
      PROVE  quota'[r] + Total(qty, Granted(r))' = share'[r] + stray'[r]
  <2>1. Granted(r)' = Granted(r)
    BY DEF NewShare, Granted, TypeInv, TypeOK
  <2>2. quota'[r] = quota[r] /\ share'[r] = share[r] /\ stray'[r] = stray[r]
    BY <1>1
  <2> QED
    BY <2>1, <2>2, AccountFrame
<1> QED
  BY <1>4, <1>5 DEF QuotaLedger

LEMMA LedgerStep == TypeInv /\ QuotaLedger /\ [Next]_vars => QuotaLedger'
<1> SUFFICES ASSUME TypeInv, QuotaLedger, [Next]_vars PROVE QuotaLedger'
  OBVIOUS
<1>1. ASSUME UNCHANGED <<quota, home, qty, answer, ledger>> PROVE QuotaLedger'
  BY <1>1 DEF ledger, QuotaLedger, Granted
<1>2. ASSUME NEW b \in Buyers, Refuse(b) \/ Acknowledged(b) PROVE QuotaLedger'
  <2>1. PICK a \in Answers \ {"unavailable"} : answer' = [answer EXCEPT ![b] = a]
    BY <1>2 DEF Refuse, Acknowledged, Return, Answers
  <2>2. answer[b] # "unavailable"
    BY <1>2, QueueClientsAssumption DEF Refuse, Acknowledged, TypeInv, CallsInOrder, Answers
  <2>3. UNCHANGED <<quota, home, qty, ledger>>
    BY <1>2 DEF Refuse, Acknowledged, history
  <2>4. current \subseteq Buyers /\ answer \in [Clients -> Answers \cup {None}]
    BY DEF TypeInv, TypeOK
  <2>5. \A r \in Replicas : Granted(r)' = Granted(r)
    BY <2>1, <2>2, <2>3, <2>4 DEF Granted, ledger
  <2> QED
    BY <2>3, <2>5 DEF QuotaLedger, ledger
<1>3. ASSUME NEW s \in Seeders, SeedQuota(s) PROVE QuotaLedger'
  <2>1. PICK n \in Stocks : NewShare(home[s], n)
    BY <1>3 DEF SeedQuota
  <2>2. n \in Nat /\ home[s] \in Replicas
    BY QueueQuantitiesAssumption DEF TypeInv, TypeOK
  <2>3. \A b \in Buyers : answer'[b] = answer[b]
    BY <1>3, QueueClientsAssumption DEF SeedQuota, Return, TypeInv, TypeOK
  <2>4. UNCHANGED <<qty, home>>
    BY <1>3 DEF SeedQuota
  <2> QED
    BY <2>1, <2>2, <2>3, <2>4, NewShareLedger
<1>4. ASSUME NEW r \in Replicas, Crash(r) PROVE QuotaLedger'
  <2>1. NewShare(r, 0) /\ UNCHANGED <<qty, home>>
    BY <1>4 DEF Crash
  <2>2. \A b \in Buyers : home[b] # r => answer'[b] = answer[b]
    BY <1>4 DEF Crash
  <2> QED
    BY <2>1, <2>2, NewShareLedger
<1>5. ASSUME NEW b \in Buyers, Send(b) \/ Arrive(b) \/ Drop(b) PROVE QuotaLedger'
  BY <1>1, <1>5 DEF Send, Arrive, Drop, callVars, history
<1>6. ASSUME NEW s \in Seeders, SeedDelete(s) PROVE QuotaLedger'
  BY <1>1, <1>6 DEF SeedDelete
<1>7. ASSUME NEW r \in Replicas, ConsumerStep(r) \/ Rebalance(r) PROVE QuotaLedger'
  BY <1>1, <1>7
  DEF ConsumerStep, Poll, InsertBatch, InsertUnacknowledged, InsertOrders, CommitOffsets,
      CommitFails, Rebalance, callVars, history
<1>8. CASE UNCHANGED vars
  BY <1>1, <1>8 DEF vars, callVars, history
<1> QED
  BY <1>2, <1>3, <1>4, <1>5, <1>6, <1>7, <1>8, GrantLedger, RefundLedger
  DEF Next, Finished, CallStep

\* No unit of a share is lost or doubled, but for refunds of grants out of earlier shares.
THEOREM SharesBalance == Spec => []QuotaLedger
<1>1. Init => QuotaLedger
  <2> SUFFICES ASSUME Init, NEW r \in Replicas
               PROVE  quota[r] + Total(qty, Granted(r)) = share[r] + stray[r]
    BY DEF QuotaLedger
  <2>1. Granted(r) = {} /\ share[r] = quota[r] /\ stray[r] = 0
    BY DEF Init, Granted
  <2>2. quota[r] \in Nat
    BY QueueTypeInit DEF TypeInv, TypeOK
  <2> QED
    BY <2>1, <2>2, TotalEmpty
<1>2. Init => TypeInv
  BY QueueTypeInit
<1>3. (TypeInv /\ QuotaLedger) /\ [Next]_vars => (TypeInv /\ QuotaLedger)'
  BY QueueTypeStep, LedgerStep
<1> QED
  BY <1>1, <1>2, <1>3, PTL DEF Spec

=============================================================================
