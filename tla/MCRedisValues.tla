---------------------------- MODULE MCRedisValues ----------------------------
(* Instances of RedisValues for TLC. *)
EXTENDS RedisValues, TLC

CONSTANTS c1, c2, login, link

MCSubjects == {login, link}
MCValues == MCSubjects \cup {Mark, Undecodable} \cup 0..MaxVersion

\* No ttl, a short one and a long one.
MCRevokeTTLs == {0, 1, 3}

ClientSymmetry == Permutations({c1, c2})
=============================================================================
