----------------------------- MODULE SaleProofs -----------------------------
(* What every implementation of the contract inherits from it.              *)
EXTENDS Sale, TLAPS

\* Every unit seeded is for sale or taken; only Reseed may raise the stock.
SaleInv ==
  /\ left \in Nat
  /\ taken \in Nat
  /\ seeded \in Nat
  /\ qty \in [Buyers -> Nat \ {0}]
  /\ left + taken = seeded

LEMMA SaleInvInductive ==
  ASSUME SaleInv, [Next \/ Leak]_vars
  PROVE  SaleInv'
<1>1. ASSUME NEW b \in Buyers, Buy(b)
      PROVE  SaleInv'
  <2>1. qty[b] \in Nat \ {0}
    BY DEF SaleInv
  <2>2. left' \in Nat /\ taken' \in Nat /\ left' + taken' = left + taken
    BY <1>1, <2>1 DEF Buy, SaleInv
  <2> QED
    BY <1>1, <2>2 DEF Buy, SaleInv
<1>2. ASSUME NEW b \in Buyers, Deliver(b) \/ Shortage(b) \/ Refuse(b) \/ GiveUp(b)
      PROVE  SaleInv'
  BY <1>2 DEF Deliver, Shortage, Refuse, GiveUp, SaleInv
<1>3. CASE Reseed
  <2>1. left' \in Nat /\ taken' = 0 /\ seeded' = left' /\ qty' = qty
    BY <1>3 DEF Reseed
  <2>2. left' + taken' = seeded'
    <3>1. \A n \in Nat : n + 0 = n
      OBVIOUS
    <3> QED
      BY <2>1, <3>1
  <2> QED
    BY <2>1, <2>2 DEF SaleInv
<1>4. CASE UNCHANGED vars
  BY <1>4 DEF vars, SaleInv
<1>5. CASE Leak
  <2>1. PICK n \in 1 .. left : left' = left - n /\ taken' = taken + n
    BY <1>5 DEF Leak
  <2>2. left' \in Nat /\ taken' \in Nat /\ left' + taken' = left + taken
    BY <2>1 DEF SaleInv
  <2> QED
    BY <1>5, <2>2 DEF Leak, SaleInv
<1> QED
  BY <1>1, <1>2, <1>3, <1>4, <1>5 DEF Next

\* No program that follows the contract of Inventory takes more units out of the
\* stock than were seeded, however its buyers and seeds interleave, not even one that
\* loses units.
THEOREM LossyNeverOversells == LossySpec => []NoOversell
<1>1. Init => SaleInv
  BY DEF Init, SaleInv
<1>2. SaleInv /\ [Next \/ Leak]_vars => SaleInv'
  BY SaleInvInductive
<1>3. SaleInv => NoOversell
  BY DEF SaleInv, NoOversell
<1> QED
  BY <1>1, <1>2, <1>3, PTL DEF LossySpec

\* A program that loses none is a special case.
THEOREM ContractNeverOversells == Spec => []NoOversell
<1>1. [Next]_vars => [Next \/ Leak]_vars
  OBVIOUS
<1>2. Spec => LossySpec
  BY <1>1, PTL DEF Spec, LossySpec
<1> QED
  BY <1>2, LossyNeverOversells, PTL

=============================================================================
