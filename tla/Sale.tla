-------------------------------- MODULE Sale --------------------------------
(***************************************************************************)
(* What the Inventory interface promises for one product, whatever adapter  *)
(* is behind it (recipes/flashsale/internal/repository/inventory.go): every *)
(* checkout gets one answer, a sale takes its units out of the stock at one *)
(* instant during the call, and "out of stock" is answered only to a caller *)
(* for whom the stock was too small at some instant during the call.        *)
(***************************************************************************)
EXTENDS Integers

CONSTANTS Buyers,   \* the checkout calls
          None      \* the answer of a call that is still running

VARIABLES left,       \* units for sale
          taken,      \* units that left the stock since the last seed
          seeded,     \* units for sale at the last seed
          qty,        \* qty[b]: units buyer b asks for
          answer,     \* answer[b]: what the call of buyer b returned
          holding,    \* holding[b]: b's units left the stock, b is not told yet
          seenShort   \* seenShort[b]: b has met a stock below qty[b]

vars == <<left, taken, seeded, qty, answer, holding, seenShort>>

\* The results Decrement can have: nil, one of domain/errors.go, or an error
\* of a store, after which the caller cannot know whether the sale happened.
Answers ==
  {"ok", "out_of_stock", "not_found", "retry_exhausted", "unavailable", "error"}

Init ==
  /\ left \in Nat
  /\ taken = 0
  /\ seeded = left
  /\ qty \in [Buyers -> Nat \ {0}]
  /\ answer = [b \in Buyers |-> None]
  /\ holding = [b \in Buyers |-> FALSE]
  /\ seenShort = [b \in Buyers |-> FALSE]

\* The call of b is running and has taken nothing.
Undecided(b) == answer[b] = None /\ ~holding[b]

Answer(b, a) == answer' = [answer EXCEPT ![b] = a]

\* The units leave the stock, and b learns it at once or later.
Buy(b) ==
  /\ Undecided(b)
  /\ qty[b] <= left
  /\ left' = left - qty[b]
  /\ taken' = taken + qty[b]
  /\ \/ /\ \E a \in {"ok", "error"} : Answer(b, a)
        /\ UNCHANGED holding
     \/ /\ holding' = [holding EXCEPT ![b] = TRUE]
        /\ UNCHANGED answer
  /\ UNCHANGED <<seeded, qty, seenShort>>

\* An "error" here is a unit that left the stock and may never become an order.
Deliver(b) ==
  /\ holding[b]
  /\ holding' = [holding EXCEPT ![b] = FALSE]
  /\ \E a \in {"ok", "error"} : Answer(b, a)
  /\ UNCHANGED <<left, taken, seeded, qty, seenShort>>

Shortage(b) ==
  /\ Undecided(b)
  /\ left < qty[b]
  /\ seenShort' = [seenShort EXCEPT ![b] = TRUE]
  /\ \E a \in {None, "out_of_stock"} : Answer(b, a)
  /\ UNCHANGED <<left, taken, seeded, qty, holding>>

Refuse(b) ==
  /\ Undecided(b)
  /\ seenShort[b]
  /\ Answer(b, "out_of_stock")
  /\ UNCHANGED <<left, taken, seeded, qty, holding, seenShort>>

GiveUp(b) ==
  /\ Undecided(b)
  /\ \E a \in Answers \ {"ok", "out_of_stock"} : Answer(b, a)
  /\ seenShort' = [seenShort EXCEPT ![b] = FALSE]
  /\ UNCHANGED <<left, taken, seeded, qty, holding>>

Reseed ==
  /\ left' \in Nat
  /\ seeded' = left'
  /\ taken' = 0
  /\ UNCHANGED <<qty, answer, holding, seenShort>>

Next ==
  \/ \E b \in Buyers : Buy(b) \/ Deliver(b) \/ Shortage(b) \/ Refuse(b) \/ GiveUp(b)
  \/ Reseed

Spec == Init /\ [][Next]_vars

\* A store loses units that nobody gets.  The interface does not say that it may, but
\* an adapter whose commands can be sent twice has to.
Leak ==
  /\ \E n \in 1 .. left :
       /\ left' = left - n
       /\ taken' = taken + n
  /\ UNCHANGED <<seeded, qty, answer, holding, seenShort>>

LossySpec == Init /\ [][Next \/ Leak]_vars

-----------------------------------------------------------------------------

\* A flash sale that follows this contract never takes more out of the stock than
\* was seeded (metrics/metrics.go: oversells "must be zero for correct adapters").
NoOversell == taken <= seeded

=============================================================================
