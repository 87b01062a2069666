------------------------------- MODULE Totals -------------------------------
(***************************************************************************)
(* The units that several calls have together.  A sum over a set is defined *)
(* here by counting: unit n of call x is the pair <<x, n>>.  That takes no  *)
(* recursion, so that the sums in the invariants can be reasoned about.     *)
(***************************************************************************)
EXTENDS Integers, FiniteSets

\* The units of the calls in S, f[x] for each.
UnitsOf(f, S) == UNION {{x} \X (1 .. f[x]) : x \in S}

Total(f, S) == Cardinality(UnitsOf(f, S))

=============================================================================
