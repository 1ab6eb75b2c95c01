----------------------------- MODULE RedisValues -----------------------------
(***************************************************************************)
(* The values that the library keeps in Redis apart from locks: OAuth      *)
(* states, revoked tokens and cached JSON.  They differ in the prefix of   *)
(* their keys, so that a key has one use for ever.                         *)
(***************************************************************************)
EXTENDS Session, CacheAside

vars == <<keyVars, use, sessionVars, cacheVars>>

Init ==
    /\ use \in {"state", "token", "cache"}
    /\ KeyInit /\ SessionInit /\ CacheInit

Next ==
    /\ UNCHANGED use
    /\ \/ use # "cache" /\ SessionNext /\ UNCHANGED cacheVars
       \/ use = "cache" /\ CacheNext /\ UNCHANGED sessionVars

Spec == Init /\ [][Next]_vars

(***************************************************************************)
(* Type correctness: the key, the commands of session.go and json.go and   *)
(* their retries; a key without a value has no expiry, and the cache knows *)
(* no version that the source never had.                                   *)
(***************************************************************************)
TypeOK ==
    /\ use \in {"state", "token", "cache"}
    /\ KeyTypeOK(IF use = "cache" THEN CacheOps ELSE SessionOps[use])
    /\ SessionTypeOK /\ CacheTypeOK
=============================================================================
