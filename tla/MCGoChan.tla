------------------------------ MODULE MCGoChan ------------------------------
(* Small instances of GoChan: the constants are in the configurations.      *)
EXTENDS GoChan

=============================================================================
