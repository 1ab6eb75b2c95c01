----------------------------- MODULE CacheAside ------------------------------
(***************************************************************************)
(* cache/json.go: GetJSON, SetJSON and RememberJSON over the one key of    *)
(* module RedisKey, beside a source (a database, say) whose value changes. *)
(* A value is the version of the source it was made from.                  *)
(***************************************************************************)
EXTENDS RedisKey

CONSTANTS
    MaxVersion,     \* bound: versions of the source
    Undecodable,    \* a stored value that json.Unmarshal refuses
    TTL             \* ttl argument of SetJSON and RememberJSON; 0 for no expiry

ASSUME CacheAsideAssumption ==
    /\ MaxVersion \in Nat /\ TTL \in Nat
    /\ (0..MaxVersion) \cup {Undecodable} \subseteq Values

VARIABLES
    source,         \* the version of the source
    acked,          \* history: the newest version whose SetJSON was acknowledged
    floor,          \* history: acked, as it was when c's read began
    overlap         \* history: the source changed between a load, or the call of a
                    \* SetJSON, and the end of its SET

cacheVars == <<source, acked, floor, overlap>>

CacheInit ==
    /\ source = 0 /\ acked = 0
    /\ floor = [c \in Clients |-> 0]
    /\ overlap = FALSE

\* GetJSON on the reply r.
Decoded(r) ==
    CASE r = NoValue -> "miss"
      [] r = Undecodable -> "err"
      [] OTHER -> "hit"

Read(c, op) ==
    /\ IsIdle(c)
    /\ Send(c, op, "get", NoValue, 0)
    /\ floor' = [floor EXCEPT ![c] = acked]
    /\ UNCHANGED <<source, acked, overlap>>

GetJSON(c) == Read(c, "GetJSON")

GotJSON(c) ==
    /\ HasReply(c, "GetJSON")
    /\ Return(c, Decoded(call[c].reply), call[c].reply)
    /\ UNCHANGED cacheVars

\* json.Marshal may refuse the value.
SetJSON(c) ==
    /\ IsIdle(c)
    /\ Send(c, "SetJSON", "set", source, TTL) \/ Return(c, "err", NoValue)
    /\ UNCHANGED cacheVars

SetDone(c) ==
    /\ HasReply(c, "SetJSON")
    /\ Return(c, "set", NoValue)
    /\ acked' = IF call[c].arg > acked THEN call[c].arg ELSE acked
    /\ UNCHANGED <<source, floor, overlap>>

RememberJSON(c) == Read(c, "RememberJSON")

\* Mutant: a hit is written back, to prolong its life.
RememberedWritesBack(c) ==
    /\ HasReply(c, "RememberJSON") /\ call[c].reply # NoValue
    /\ IF call[c].reply = Undecodable THEN Return(c, "err", NoValue)
       ELSE Send(c, "fill", "set", call[c].reply, TTL)
    /\ UNCHANGED cacheVars

\* A hit, or a value that cannot be decoded, which is no miss.
Remembered(c) ==
    /\ HasReply(c, "RememberJSON") /\ call[c].reply # NoValue
    /\ Return(c, Decoded(call[c].reply), call[c].reply)
    /\ UNCHANGED cacheVars

\* Mutant: what GetJSON returned with its miss is stored.
LoadStoresMiss(c) ==
    /\ HasReply(c, "RememberJSON") /\ call[c].reply = NoValue
    /\ Send(c, "fill", "set", call[c].reply, TTL) \/ Return(c, "err", NoValue)
    /\ UNCHANGED cacheVars

\* A miss: load reads the source, or fails; its value is stored.
Load(c) ==
    /\ HasReply(c, "RememberJSON") /\ call[c].reply = NoValue
    /\ Send(c, "fill", "set", source, TTL) \/ Return(c, "err", NoValue)
    /\ UNCHANGED cacheVars

Filled(c) ==
    /\ HasReply(c, "fill")
    /\ Return(c, "loaded", call[c].arg)
    /\ UNCHANGED cacheVars

\* RememberJSON returns the loaded value beside the error of SetJSON.
CacheFails(c) ==
    /\ CommandFails(c, "err", IF call[c].op = "fill" THEN call[c].arg ELSE NoValue)
    /\ UNCHANGED cacheVars

-----------------------------------------------------------------------------
(* External *)

\* SETs under way, of clients or late.
Writing == late # {} \/ \E c \in Clients : call[c].cmd = "set"

SourceChanges ==
    /\ source < MaxVersion
    /\ source' = source + 1
    /\ overlap' = (overlap \/ Writing)
    /\ UNCHANGED <<keyVars, acked, floor>>

\* Another program uses the key for a value of another type.
StoredElsewhere ==
    /\ val' = Undecodable /\ ttl' = TTL
    /\ UNCHANGED <<late, call, cacheVars>>

CacheCall(c) ==
    \/ GetJSON(c) \/ GotJSON(c) \/ SetJSON(c) \/ SetDone(c)
    \/ RememberJSON(c) \/ Remembered(c) \/ Load(c) \/ Filled(c) \/ CacheFails(c)

CacheNext ==
    \/ \E c \in Clients : CacheCall(c) \/ ((Execute(c) \/ Resend(c)) /\ UNCHANGED cacheVars)
    \/ \E m \in late : (LateExecute(m) \/ LateLost(m)) /\ UNCHANGED cacheVars
    \/ Expire /\ UNCHANGED cacheVars
    \/ SourceChanges \/ StoredElsewhere

-----------------------------------------------------------------------------
(* Properties *)

CacheOps == {"GetJSON", "SetJSON", "RememberJSON", "fill"}

CacheTypeOK ==
    /\ source \in 0..MaxVersion /\ acked \in 0..source
    /\ floor \in [Clients -> 0..source]

(***************************************************************************)
(* A read that begins after SetJSON of a version was acknowledged returns  *)
(* that version or a newer one, or none: GetJSON and RememberJSON fall     *)
(* behind only when the source changed while a SET was under way, that of  *)
(* a RememberJSON that had loaded the old version included.                *)
(***************************************************************************)
ReadsFollowWrites ==
    \A c \in Clients : call[c].ret \in {"hit", "loaded"} /\ ~overlap => call[c].found >= floor[c]
=============================================================================
