--------------------------- MODULE MCRedisCounter ---------------------------
(* Small instances of RedisCounter.                                         *)
EXTENDS RedisCounter, TLC

Both == {RedisKinds}
AtomicAlone == {{"redis_atomic"}}
BuyerSymmetry == Permutations(Buyers)

=============================================================================
