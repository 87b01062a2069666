---------------------------- MODULE TotalsProofs ----------------------------
(* What the proofs need to know of Total.                                   *)
EXTENDS Totals, FiniteSetTheorems, TLAPS

\* The units of one call are as many as its quantity.
LEMMA UnitsOfOne ==
  ASSUME NEW x, NEW n \in Nat
  PROVE  IsFiniteSet({x} \X (1 .. n)) /\ Cardinality({x} \X (1 .. n)) = n
<1>1. IsFiniteSet({x}) /\ Cardinality({x}) = 1
  BY FS_Singleton
<1>2. IsFiniteSet(1 .. n) /\ Cardinality(1 .. n) = n
  BY FS_Interval
<1>3. /\ IsFiniteSet({x} \X (1 .. n))
      /\ Cardinality({x} \X (1 .. n)) = Cardinality({x}) * Cardinality(1 .. n)
  BY <1>1, <1>2, FS_Product
<1> QED
  BY <1>1, <1>2, <1>3

LEMMA UnitsFinite ==
  ASSUME NEW S, IsFiniteSet(S), NEW f, \A x \in S : f[x] \in Nat
  PROVE  IsFiniteSet(UnitsOf(f, S))
<1> DEFINE T == {{x} \X (1 .. f[x]) : x \in S}
           g == [x \in S |-> {x} \X (1 .. f[x])]
<1>1. g \in Surjection(S, T)
  BY DEF Surjection
<1>2. IsFiniteSet(T)
  BY <1>1, FS_Surjection
<1>3. ASSUME NEW x \in S PROVE IsFiniteSet({x} \X (1 .. f[x]))
  BY UnitsOfOne
<1>4. \A U \in T : IsFiniteSet(U)
  BY <1>3
<1> QED
  BY <1>2, <1>4, FS_UNION DEF UnitsOf

\* A total of natural numbers is one.
LEMMA TotalType ==
  ASSUME NEW S, IsFiniteSet(S), NEW f, \A x \in S : f[x] \in Nat
  PROVE  Total(f, S) \in Nat
BY UnitsFinite, FS_CardinalityType DEF Total

LEMMA TotalEmpty ==
  ASSUME NEW f
  PROVE  Total(f, {}) = 0
<1>1. UnitsOf(f, {}) = {}
  BY DEF UnitsOf
<1> QED
  BY <1>1, FS_EmptySet DEF Total

\* Calls that take nothing take nothing together.
LEMMA TotalZero ==
  ASSUME NEW S, NEW f, \A x \in S : f[x] = 0
  PROVE  Total(f, S) = 0
<1>1. UnitsOf(f, S) = {}
  BY DEF UnitsOf
<1> QED
  BY <1>1, FS_EmptySet DEF Total

\* One call more.
LEMMA TotalAdd ==
  ASSUME NEW S, IsFiniteSet(S), NEW x, x \notin S,
         NEW f, f[x] \in Nat, \A y \in S : f[y] \in Nat
  PROVE  Total(f, S \cup {x}) = Total(f, S) + f[x]
<1> DEFINE A == UnitsOf(f, S)
           B == {x} \X (1 .. f[x])
<1>1. UnitsOf(f, S \cup {x}) = A \cup B
  BY DEF UnitsOf
<1>2. A \cap B = {}
  <2>1. ASSUME NEW u \in A \cap B PROVE FALSE
    <3>1. PICK y \in S : u \in {y} \X (1 .. f[y])
      BY <2>1 DEF UnitsOf
    <3>2. u[1] = y /\ u[1] = x
      BY <3>1, <2>1
    <3> QED
      BY <3>1, <3>2
  <2> QED
    BY <2>1
<1>3. IsFiniteSet(A) /\ IsFiniteSet(B) /\ Cardinality(B) = f[x]
  BY UnitsFinite, UnitsOfOne
<1>4. Cardinality(A \cup B) = Cardinality(A) + Cardinality(B) - Cardinality(A \cap B)
  BY <1>3, FS_Union
<1>5. Cardinality(A \cap B) = 0 /\ Cardinality(A) \in Nat
  BY <1>2, <1>3, FS_EmptySet, FS_CardinalityType
<1>6. Cardinality(A \cup B) = Cardinality(A) + f[x]
  BY <1>3, <1>4, <1>5
<1>7. Total(f, S \cup {x}) = Cardinality(A \cup B) /\ Total(f, S) = Cardinality(A)
  BY <1>1 DEF Total
<1> HIDE DEF A, B
<1> QED
  BY <1>6, <1>7

\* One call less.
LEMMA TotalRemove ==
  ASSUME NEW S, IsFiniteSet(S), NEW x \in S, NEW f, \A y \in S : f[y] \in Nat
  PROVE  Total(f, S) = Total(f, S \ {x}) + f[x]
<1>1. IsFiniteSet(S \ {x}) /\ (S \ {x}) \cup {x} = S
  BY FS_RemoveElement
<1>2. Total(f, (S \ {x}) \cup {x}) = Total(f, S \ {x}) + f[x]
  BY <1>1, TotalAdd
<1> QED
  BY <1>1, <1>2

\* The units of one of the calls are part of the total.
LEMMA TotalAtLeast ==
  ASSUME NEW S, IsFiniteSet(S), NEW x \in S, NEW f, \A y \in S : f[y] \in Nat
  PROVE  f[x] <= Total(f, S)
<1>1. Total(f, S) = Total(f, S \ {x}) + f[x]
  BY TotalRemove
<1>2. Total(f, S \ {x}) \in Nat
  BY FS_RemoveElement, TotalType
<1> QED
  BY <1>1, <1>2

\* A total depends on the quantities of its calls and on nothing else.
LEMMA TotalSame ==
  ASSUME NEW S, NEW f, NEW g, \A x \in S : f[x] = g[x]
  PROVE  Total(f, S) = Total(g, S)
<1>1. UnitsOf(f, S) = UnitsOf(g, S)
  BY DEF UnitsOf
<1> QED
  BY <1>1 DEF Total

=============================================================================
