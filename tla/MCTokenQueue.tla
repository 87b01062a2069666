---------------------------- MODULE MCTokenQueue ----------------------------
(* Small instances of TokenQueue: all calls arrive at one replica.                   *)
EXTENDS TokenQueue

CONSTANT r1

Together == {[c \in Clients |-> r1]}

=============================================================================
