------------------------------ MODULE MCPgRow ------------------------------
(* Small instances of PgRow.                                                *)
EXTENDS PgRow, TLC

Coordinated3 == {{"pg_cond", "pg_for_update", "pg_serializable"}}
Together == {RowKinds}
BuyerSymmetry == Permutations(Buyers)
OnlyOptimistic == {{"pg_optimistic"}}

=============================================================================
