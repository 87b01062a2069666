-------------------------- MODULE MCCheckoutService --------------------------
(* Small instances of CheckoutService.                                      *)
EXTENDS CheckoutService, TLC

\* Adapters on different stores meet only in a seed, so one store at a time; on the row
\* two that write over each other, and one that sees to it that nobody does.
Servers ==
  {{"naive", "pg_optimistic"}, {"pg_advisory"}, {"pg_skip_locked"}, {"redis_lua"},
   {"redis_atomic"}, {"go_chan"}, {"token_queue"}}
AllServed == UNION Servers

\* A request without :adapter sells with redis_lua where that is deployed, and is for an
\* unknown kind elsewhere.
Adapters == (AllServed \ {"redis_lua"}) \cup {Default}

OneKind == {"pg_cond"}
OneServer == {OneKind}
NoPaths == {Default}
BuyerSymmetry == Permutations(Buyers) \cup Permutations(Seeders)

=============================================================================
