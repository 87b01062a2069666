--------------------------- MODULE MCPgSkipLocked ---------------------------
(* Small instances of PgSkipLocked.                                         *)
EXTENDS PgSkipLocked

=============================================================================
