----------------------------- MODULE MCRedisLock -----------------------------
(* Instances of RedisLock for TLC. *)
EXTENDS RedisLock, TLC

CONSTANTS p1, p2, t1, t2, t3, t4

MCNoWait == {0}
MCWait == {1}

\* The key, the other process and one late command may each hold a token.
LockSymmetry == Permutations({p1, p2}) \cup Permutations({t1, t2, t3, t4})
=============================================================================
