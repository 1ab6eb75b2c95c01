-------------------------- MODULE RedisValuesProofs --------------------------
(***************************************************************************)
(* Proofs about RedisValues.  A key has one use, so that the invariant has *)
(* a part for what every key and its commands look like and one for each   *)
(* use: states, revoked tokens and cached JSON.                            *)
(***************************************************************************)
EXTENDS RedisValues, TLAPS

-----------------------------------------------------------------------------
(* Keys and commands *)

Ops == IF use = "cache" THEN CacheOps ELSE SessionOps[use]

Rets ==
    CASE use = "state" -> {"none", "state", "blank", "mismatch", "accepted", "err"}
      [] use = "token" -> {"none", "revoked", "blank", "yes", "no", "err"}
      [] OTHER -> {"none", "hit", "miss", "set", "loaded", "err"}

\* What the SETs of the use store, and others beside them.
Content ==
    CASE use = "state" -> {madeFor}
      [] use = "token" -> {Mark}
      [] OTHER -> {Undecodable} \cup 0..source

CallType ==
    [op : Ops \cup {"idle"}, cmd : {"none", "set", "get", "getdel", "exists"}, arg : Values \cup {NoValue},
     exp : Nat, stage : {"none", "sent", "done"}, reply : Values \cup {NoValue}, tries : 0..MaxRetries,
     ret : Rets, found : Values \cup {NoValue}]

\* A SET of the use.
IsSet(m) ==
    /\ m.cmd = "set" /\ m.arg \in Values
    /\ CASE use = "state" -> m.arg = madeFor /\ m.exp = StateTTL
         [] use = "token" -> m.arg = Mark /\ m.exp > 0
         [] OTHER -> m.arg \in 0..source /\ m.exp = TTL

\* The command that goes with each operation.
CallShape(k) ==
    /\ k.op = "idle" => k.stage = "none" /\ k.cmd = "none" /\ k.reply = NoValue
    /\ k.op # "idle" => k.stage # "none" /\ k.ret = "none"
    /\ k.op \in {"NewState", "RevokeToken", "SetJSON", "fill"} => IsSet(k)
    /\ k.op = "VerifyState" => k.cmd = "getdel"
    /\ k.op = "IsRevoked" => k.cmd = "exists"
    /\ k.op \in {"GetJSON", "RememberJSON"} => k.cmd = "get"
    /\ k.reply \in Content \cup {NoValue}

Calls == call \in [Clients -> CallType] /\ \A c \in Clients : CallShape(call[c])

Key ==
    /\ val \in (Content \cap Values) \cup {NoValue} /\ ttl \in Nat /\ (val = NoValue => ttl = 0)
    /\ late \subseteq Command
    /\ \A m \in late : IsSet(m) \/ (use = "state" /\ m.cmd = "getdel" /\ made = "known")

Histories ==
    /\ use \in {"state", "token", "cache"} /\ SessionTypeOK /\ CacheTypeOK
    /\ accepted \in Nat /\ taken \in BOOLEAN /\ revived \in BOOLEAN
    /\ use # "state" => accepted = 0

-----------------------------------------------------------------------------
(* States *)

\* A VerifyState has got the state out of Redis and has not returned yet.
Holds(c) == call[c].op = "VerifyState" /\ call[c].stage = "done" /\ call[c].reply # NoValue

\* Who may be calling what, as the state is made.
Making ==
    /\ made = "no" => /\ val = NoValue /\ late = {} /\ madeFor = NoValue /\ ~taken
                      /\ \A c \in Clients : call[c].op = "idle" /\ call[c].ret \in {"none", "blank"}
    /\ made # "no" => madeFor \in Subjects
    /\ \A c \in Clients : call[c].op = "NewState" => made = "pending"
    /\ \A c, d \in Clients : call[c].op = "NewState" /\ call[d].op = "NewState" => c = d
    /\ made # "known" => /\ ~taken /\ ~revived /\ accepted = 0
                         /\ \A c \in Clients : call[c].op # "VerifyState"

\* The state is in one place: in Redis, with one VerifyState, or accepted.
Once ==
    /\ ~revived =>
          /\ accepted <= 1
          /\ val # NoValue => accepted = 0 /\ \A c \in Clients : ~Holds(c)
          /\ \A c \in Clients : Holds(c) => accepted = 0
          /\ \A c, d \in Clients : Holds(c) /\ Holds(d) => c = d
    /\ \A c \in Clients : call[c].ret = "accepted" => call[c].found = madeFor

\* Once it was stored, it is there until it is taken or its ttl has run out.
Kept ==
    /\ (made = "known" \/ \E c \in Clients : call[c].op = "NewState" /\ call[c].stage = "done") /\ ~taken
          => fresh = 0 \/ (val # NoValue /\ ttl >= fresh)
    /\ \A c \in Clients :
          /\ call[c].op = "VerifyState" /\ call[c].stage = "done" /\ call[c].reply = NoValue => taken \/ fresh = 0
          /\ call[c].ret = "mismatch" => taken \/ fresh = 0

StateInv == use = "state" => Making /\ Once /\ Kept

-----------------------------------------------------------------------------
(* Tokens *)

\* The entry outlives what was acknowledged, and what will be.
Listed ==
    /\ claim > 0 => val # NoValue /\ ttl >= claim
    /\ \A c \in Clients :
          /\ call[c].op = "RevokeToken" => left[c] <= call[c].exp
          /\ call[c].op = "RevokeToken" /\ call[c].stage = "done" /\ left[c] > 0 => val # NoValue /\ ttl >= left[c]

\* An IsRevoked that began under a revocation finds it.
Seen ==
    /\ sure \subseteq Clients /\ (sure # {} => claim > 0)
    /\ \A c \in sure : /\ call[c].op = "IsRevoked" /\ call[c].stage = "done" => call[c].reply # NoValue
                       /\ call[c].ret # "no"

TokenInv == use = "token" => Listed /\ Seen

-----------------------------------------------------------------------------
(* Cached JSON *)

IsVersion(v) == v \notin {NoValue, Undecodable}

\* As long as the source has not changed beside a SET, every SET under way stores the
\* current version, and the key is not behind what was acknowledged.
Current ==
    /\ \A m \in late : m.arg = source
    /\ \A c \in Clients :
          call[c].cmd = "set" => /\ call[c].arg = source
                                 /\ call[c].stage = "done" /\ IsVersion(val) => val = source
    /\ IsVersion(val) => val >= acked
    /\ \A c \in Clients :
          /\ call[c].cmd = "get" /\ call[c].stage = "done" /\ IsVersion(call[c].reply) => call[c].reply >= floor[c]
          /\ call[c].ret \in {"hit", "loaded"} => call[c].found >= floor[c]

CacheInv ==
    use = "cache" =>
        /\ \A c \in Clients : /\ floor[c] <= acked
                              /\ call[c].ret \in {"hit", "loaded"} => call[c].found \in 0..source
        /\ ~overlap => Current

Inv == Histories /\ Key /\ Calls /\ StateInv /\ TokenInv /\ CacheInv

-----------------------------------------------------------------------------
(* Lemmas about keys and calls *)

\* An operation that has returned.
LEMMA ReturningType ==
    ASSUME NEW r \in Rets, NEW v \in Values \cup {NoValue}
    PROVE  /\ Returning(r, v) \in CallType /\ CallShape(Returning(r, v))
           /\ Returning(r, v).op = "idle" /\ Returning(r, v).cmd = "none" /\ Returning(r, v).stage = "none"
           /\ Returning(r, v).ret = r /\ Returning(r, v).found = v
  <1>1. 0 \in 0..MaxRetries /\ "none" \in Rets
    BY RedisKeyAssumption DEF Rets
  <1>2. Idle \in CallType
    BY <1>1 DEF Idle, CallType
  <1>3. Returning(r, v) \in CallType
    BY <1>2 DEF Returning, CallType
  <1>4. /\ Returning(r, v).op = "idle" /\ Returning(r, v).cmd = "none" /\ Returning(r, v).stage = "none"
        /\ Returning(r, v).ret = r /\ Returning(r, v).found = v /\ Returning(r, v).reply = NoValue
    BY DEF Returning, Idle
  <1> QED
    BY <1>3, <1>4 DEF CallShape

\* An operation that has sent its command.
LEMMA SendingType ==
    ASSUME NEW op \in Ops, NEW cmd \in {"set", "get", "getdel", "exists"}, NEW arg \in Values \cup {NoValue}, NEW exp \in Nat
    PROVE  LET k == Sending(op, cmd, arg, exp)
           IN /\ k \in CallType
              /\ k.op = op /\ k.cmd = cmd /\ k.arg = arg /\ k.exp = exp /\ k.stage = "sent" /\ k.reply = NoValue
              /\ k.ret = "none"
  <1> DEFINE k == Sending(op, cmd, arg, exp)
  <1>1. 0 \in 0..MaxRetries /\ MaxRetries \in 0..MaxRetries /\ "none" \in Rets
    BY RedisKeyAssumption DEF Rets
  <1>2. Idle \in CallType
    BY <1>1 DEF Idle, CallType
  <1>3. k \in CallType
    BY <1>1, <1>2 DEF Sending, CallType
  <1>4. /\ k.op = op /\ k.cmd = cmd /\ k.arg = arg /\ k.exp = exp /\ k.stage = "sent" /\ k.reply = NoValue
        /\ k.ret = "none"
    BY DEF Sending, Idle
  <1> QED
    BY <1>3, <1>4

\* The operations of each use.
LEMMA OpsOf ==
    /\ use = "state" => Ops = {"NewState", "VerifyState"}
    /\ use = "token" => Ops = {"RevokeToken", "IsRevoked"}
    /\ use = "cache" => Ops = {"GetJSON", "SetJSON", "RememberJSON", "fill"}
  BY DEF Ops, SessionOps, CacheOps

\* The invariant holds of a key without value and clients without a call.
LEMMA InvInit == Init => Inv
  <1> SUFFICES ASSUME Init PROVE Inv
    OBVIOUS
  <1>1. Histories
    <2>1. SessionTypeOK
      BY SessionAssumption DEF Init, SessionInit, SessionTypeOK
    <2>2. CacheTypeOK
      BY CacheAsideAssumption DEF Init, CacheInit, CacheTypeOK
    <2>3. accepted = 0 /\ taken = FALSE /\ revived = FALSE /\ use \in {"state", "token", "cache"}
      BY DEF Init, SessionInit
    <2> QED
      BY <2>1, <2>2, <2>3 DEF Histories
  <1>2. val = NoValue /\ ttl = 0 /\ late = {} /\ call = [c \in Clients |-> Idle]
    BY DEF Init, KeyInit
  <1>3. Key
    BY <1>2 DEF Key
  <1>4. /\ Idle.op = "idle" /\ Idle.cmd = "none" /\ Idle.ret = "none" /\ Idle.stage = "none"
        /\ Idle.reply = NoValue
    BY DEF Idle
  <1>5. Idle \in CallType /\ CallShape(Idle)
    <2>1. 0 \in 0..MaxRetries /\ "none" \in Rets
      BY RedisKeyAssumption DEF Rets
    <2>2. Idle \in CallType
      BY <2>1 DEF Idle, CallType
    <2> QED
      BY <1>4, <2>2 DEF CallShape
  <1> HIDE DEF Idle
  <1>6. Calls
    BY <1>2, <1>5 DEF Calls
  <1>7. StateInv
    BY <1>2, <1>4 DEF Init, SessionInit, StateInv, Making, Once, Kept, Holds
  <1>8. TokenInv
    BY <1>2, <1>4 DEF Init, SessionInit, TokenInv, Listed, Seen
  <1>9. CacheInv
    BY <1>2, <1>4 DEF Init, CacheInit, CacheInv, Current, IsVersion
  <1> QED
    BY <1>1, <1>3, <1>6, <1>7, <1>8, <1>9 DEF Inv

\* Nothing in these definitions depends on the key or the calls.
LEMMA SameUse ==
    ASSUME UNCHANGED <<use, madeFor, source>>
    PROVE  /\ Content' = Content /\ CallType' = CallType /\ Rets' = Rets /\ Ops' = Ops
           /\ \A k : (IsSet(k)' <=> IsSet(k)) /\ (CallShape(k)' <=> CallShape(k))
  <1>1. Content' = Content /\ Rets' = Rets /\ Ops' = Ops
    BY DEF Content, Rets, Ops
  <1>2. CallType' = CallType
    BY <1>1 DEF CallType
  <1>3. \A k : IsSet(k)' <=> IsSet(k)
    BY DEF IsSet
  <1>4. \A k : CallShape(k)' <=> CallShape(k)
    BY <1>1, <1>3 DEF CallShape
  <1> QED
    BY <1>1, <1>2, <1>3, <1>4

\* A step of one client that leaves value and expiry alone.
LEMMA ClientStep ==
    ASSUME Inv, NEW c \in Clients, NEW k \in CallType, CallShape(k),
           call' = [call EXCEPT ![c] = k], UNCHANGED <<use, val, ttl, madeFor, source>>,
           made' = made \/ made # "known",
           \A m \in late' : m \in late \/ (m \in Command /\ (IsSet(m) \/ (use = "state" /\ m.cmd = "getdel" /\ made = "known")))
    PROVE  /\ Key' /\ Calls' /\ call'[c] = k
           /\ \A d \in Clients : d # c => call'[d] = call[d]
  <1>1. /\ Content' = Content /\ CallType' = CallType
        /\ \A r : (IsSet(r)' <=> IsSet(r)) /\ (CallShape(r)' <=> CallShape(r))
    BY SameUse
  <1>2. call'[c] = k /\ \A d \in Clients : d # c => call'[d] = call[d]
    BY DEF Inv, Calls
  <1>3. Calls'
    <2>1. call' \in [Clients -> CallType]
      BY DEF Inv, Calls
    <2>2. \A d \in Clients : CallShape(call'[d])
      BY <1>2 DEF Inv, Calls
    <2> QED
      BY <1>1, <2>1, <2>2 DEF Calls
  <1>4. Key'
    BY <1>1 DEF Inv, Key
  <1> QED
    BY <1>2, <1>3, <1>4

\* The command of an operation under way.
LEMMA CommandOf ==
    ASSUME Inv, NEW c \in Clients, call[c].stage # "none"
    PROVE  /\ call[c] \in CallType /\ CallShape(call[c]) /\ call[c].op # "idle" /\ call[c].ret = "none"
           /\ call[c].op \in Ops
           /\ call[c].cmd = "set" => /\ IsSet(call[c])
                                     /\ call[c].op \in {"NewState", "RevokeToken", "SetJSON", "fill"}
           /\ call[c].cmd = "getdel" => call[c].op = "VerifyState" /\ use = "state" /\ made = "known"
  <1>1. call[c] \in CallType /\ CallShape(call[c])
    BY DEF Inv, Calls
  <1>2. call[c].op # "idle" /\ call[c].op \in Ops /\ call[c].ret = "none"
    BY <1>1 DEF CallShape, CallType
  <1>3. call[c].cmd = "set" => call[c].op \in {"NewState", "RevokeToken", "SetJSON", "fill"}
    BY <1>1, <1>2, OpsOf DEF CallShape, Inv, Histories
  <1>4. call[c].cmd = "set" => IsSet(call[c])
    BY <1>1, <1>3 DEF CallShape
  <1>5. call[c].cmd = "getdel" => call[c].op = "VerifyState"
    BY <1>1, <1>2, OpsOf DEF CallShape, Inv, Histories, IsSet
  <1>6. call[c].op = "VerifyState" => use = "state" /\ made = "known"
    BY <1>2, OpsOf DEF Inv, Histories, StateInv, Making
  <1> QED
    BY <1>1, <1>2, <1>3, <1>4, <1>5, <1>6

\* A command that is given up is one of the use.
LEMMA AbandonStep ==
    ASSUME Inv, NEW c \in Clients, Abandon(c)
    PROVE  \A m \in late' : m \in late \/ (m \in Command /\ (IsSet(m) \/ (use = "state" /\ m.cmd = "getdel" /\ made = "known")))
  <1>1. CASE late' = late
    BY <1>1
  <1>2. CASE call[c].stage = "sent" /\ call[c].cmd \in {"set", "getdel"}
             /\ late' = late \cup {[cmd |-> call[c].cmd, arg |-> call[c].arg, exp |-> call[c].exp]}
    <2> DEFINE k == call[c]
    <2> DEFINE m == [cmd |-> k.cmd, arg |-> k.arg, exp |-> k.exp]
    <2>1. /\ k \in CallType
          /\ k.cmd = "set" => IsSet(k)
          /\ k.cmd = "getdel" => use = "state" /\ made = "known"
      BY <1>2, CommandOf
    <2>2. m \in Command
      BY <1>2, <2>1 DEF CallType, Command
    <2>3. k.cmd = "set" => IsSet(m)
      BY <2>1 DEF IsSet
    <2> QED
      BY <1>2, <2>1, <2>2, <2>3
  <1> QED
    BY <1>1, <1>2 DEF Abandon

\* A client whose command is executed, or sent again.
LEMMA StageStep ==
    ASSUME Inv, NEW c \in Clients, UNCHANGED <<use, madeFor, source>>, call[c].stage # "none",
           NEW st \in {"sent", "done"}, NEW v \in Content \cup {NoValue}, v \in Values \cup {NoValue}, NEW n \in 0..MaxRetries,
           call' = [call EXCEPT ![c] = [call[c] EXCEPT !.stage = st, !.reply = v, !.tries = n]]
    PROVE  /\ Calls'
           /\ \A d \in Clients : /\ call'[d].op = call[d].op /\ call'[d].cmd = call[d].cmd /\ call'[d].arg = call[d].arg
                                 /\ call'[d].exp = call[d].exp /\ call'[d].ret = call[d].ret /\ call'[d].found = call[d].found
                                 /\ d # c => call'[d] = call[d]
           /\ call'[c].stage = st /\ call'[c].reply = v
  <1> DEFINE k == [call[c] EXCEPT !.stage = st, !.reply = v, !.tries = n]
  <1>1. call[c] \in CallType /\ CallShape(call[c]) /\ call[c].op # "idle" /\ call \in [Clients -> CallType]
    BY CommandOf DEF Inv, Calls
  <1>2. /\ k \in CallType /\ k.stage = st /\ k.reply = v
        /\ k.op = call[c].op /\ k.cmd = call[c].cmd /\ k.arg = call[c].arg /\ k.exp = call[c].exp
        /\ k.ret = call[c].ret /\ k.found = call[c].found
    BY <1>1 DEF CallType
  <1> HIDE DEF k
  <1>3. call'[c] = k /\ \A d \in Clients : d # c => call'[d] = call[d]
    BY <1>1 DEF k
  <1>4. CallShape(k)
    BY <1>1, <1>2 DEF CallShape, IsSet
  <1>5. Calls'
    <2>1. CallType' = CallType /\ \A r : CallShape(r)' <=> CallShape(r)
      BY SameUse
    <2>2. call' \in [Clients -> CallType]
      BY <1>1, <1>2 DEF k
    <2>3. \A d \in Clients : CallShape(call'[d])
      BY <1>3, <1>4 DEF Inv, Calls
    <2> QED
      BY <2>1, <2>2, <2>3 DEF Calls
  <1> QED
    BY <1>2, <1>3, <1>5

\* What the command of an operation, or a late one, does to the key.
LEMMA EffectStep ==
    ASSUME Inv, NEW m, m.exp \in Nat, Effect(m), UNCHANGED <<use, madeFor, source, made>>, late' \subseteq late,
           m.cmd = "set" => IsSet(m)
    PROVE  /\ Key'
           /\ m.cmd = "set" => val' = m.arg /\ ttl' = m.exp /\ m.arg \in Values /\ m.arg # NoValue
           /\ m.cmd = "getdel" => val' = NoValue /\ ttl' = 0
           /\ m.cmd \notin {"set", "getdel"} => val' = val /\ ttl' = ttl
  <1>1. Content' = Content /\ \A r : IsSet(r)' <=> IsSet(r)
    BY SameUse
  <1>2. CASE m.cmd = "set"
    <2>1. val' = m.arg /\ ttl' = m.exp
      BY <1>2 DEF Effect
    <2>2. m.arg \in Content /\ m.arg \in Values /\ m.arg # NoValue
      BY <1>2, RedisKeyAssumption DEF IsSet, Content
    <2> QED
      BY <1>1, <1>2, <2>1, <2>2 DEF Inv, Key
  <1>3. CASE m.cmd = "getdel"
    <2>1. val' = NoValue /\ ttl' = 0
      BY <1>3 DEF Effect
    <2> QED
      BY <1>1, <1>3, <2>1 DEF Inv, Key
  <1>4. CASE m.cmd \notin {"set", "getdel"}
    <2>1. val' = val /\ ttl' = ttl
      BY <1>4 DEF Effect
    <2> QED
      BY <1>1, <1>4, <2>1 DEF Inv, Key
  <1> QED
    BY <1>2, <1>3, <1>4

\* Execute in the form of the lemmas above.
LEMMA ExecuteStep ==
    ASSUME Inv, NEW c \in Clients, Execute(c), UNCHANGED <<use, madeFor, source, made>>
    PROVE  /\ Key' /\ Calls' /\ call[c].stage = "sent" /\ late' = late
           /\ \A d \in Clients : /\ call'[d].op = call[d].op /\ call'[d].cmd = call[d].cmd /\ call'[d].arg = call[d].arg
                                 /\ call'[d].exp = call[d].exp /\ call'[d].ret = call[d].ret /\ call'[d].found = call[d].found
                                 /\ d # c => call'[d] = call[d]
           /\ call'[c].stage = "done" /\ call'[c].reply = val
           /\ call[c].cmd = "set" => val' = call[c].arg /\ ttl' = call[c].exp /\ call[c].arg \in Values /\ call[c].arg # NoValue
           /\ call[c].cmd = "getdel" => val' = NoValue /\ ttl' = 0
           /\ call[c].cmd \notin {"set", "getdel"} => val' = val /\ ttl' = ttl
  <1>1. /\ call[c].stage = "sent" /\ Effect(call[c]) /\ late' = late
        /\ call' = [call EXCEPT ![c].stage = "done", ![c].reply = val]
    BY DEF Execute
  <1>2. call[c] \in CallType /\ (call[c].cmd = "set" => IsSet(call[c]))
    BY <1>1, CommandOf
  <1>3. call[c].exp \in Nat /\ call[c].tries \in 0..MaxRetries /\ val \in Content \cup {NoValue} /\ val \in Values \cup {NoValue}
    BY <1>2 DEF CallType, Inv, Key
  <1>4. call' = [call EXCEPT ![c] = [call[c] EXCEPT !.stage = "done", !.reply = val, !.tries = call[c].tries]]
    BY <1>1, <1>2 DEF CallType
  <1>5. call[c].stage # "none"
    BY <1>1
  <1>6. /\ Calls'
        /\ \A d \in Clients : /\ call'[d].op = call[d].op /\ call'[d].cmd = call[d].cmd /\ call'[d].arg = call[d].arg
                              /\ call'[d].exp = call[d].exp /\ call'[d].ret = call[d].ret /\ call'[d].found = call[d].found
                              /\ d # c => call'[d] = call[d]
        /\ call'[c].stage = "done" /\ call'[c].reply = val
    BY <1>3, <1>4, <1>5, StageStep
  <1>7. /\ Key'
        /\ call[c].cmd = "set" => val' = call[c].arg /\ ttl' = call[c].exp /\ call[c].arg \in Values /\ call[c].arg # NoValue
        /\ call[c].cmd = "getdel" => val' = NoValue /\ ttl' = 0
        /\ call[c].cmd \notin {"set", "getdel"} => val' = val /\ ttl' = ttl
    BY <1>1, <1>2, <1>3, EffectStep
  <1> QED
    BY <1>1, <1>6, <1>7

\* Resend in the form of the lemmas above.
LEMMA ResendStep ==
    ASSUME Inv, NEW c \in Clients, Resend(c), UNCHANGED <<use, madeFor, source, made>>
    PROVE  /\ Key' /\ Calls' /\ val' = val /\ ttl' = ttl /\ call[c].stage # "none"
           /\ \A d \in Clients : /\ call'[d].op = call[d].op /\ call'[d].cmd = call[d].cmd /\ call'[d].arg = call[d].arg
                                 /\ call'[d].exp = call[d].exp /\ call'[d].ret = call[d].ret /\ call'[d].found = call[d].found
                                 /\ d # c => call'[d] = call[d]
           /\ call'[c].stage = "sent"
  <1>1. /\ call[c].stage # "none" /\ call[c].tries > 0 /\ Abandon(c) /\ val' = val /\ ttl' = ttl
        /\ call' = [call EXCEPT ![c].stage = "sent", ![c].tries = @ - 1]
    BY DEF Resend
  <1>2. call[c] \in CallType /\ CallShape(call[c])
    BY <1>1, CommandOf
  <1> DEFINE n == call[c].tries - 1
  <1> DEFINE v == call[c].reply
  <1>3. n \in 0..MaxRetries /\ call[c].reply \in Content \cup {NoValue} /\ call[c].reply \in Values \cup {NoValue}
    <2>1. call[c].tries \in 0..MaxRetries
      BY <1>2 DEF CallType
    <2> QED
      BY <1>1, <1>2, <2>1, RedisKeyAssumption DEF CallType, CallShape
  <1>4. call' = [call EXCEPT ![c] = [call[c] EXCEPT !.stage = "sent", !.reply = v, !.tries = n]]
    BY <1>1, <1>2 DEF CallType
  <1> HIDE DEF n
  <1>5. /\ Calls'
        /\ \A d \in Clients : /\ call'[d].op = call[d].op /\ call'[d].cmd = call[d].cmd /\ call'[d].arg = call[d].arg
                              /\ call'[d].exp = call[d].exp /\ call'[d].ret = call[d].ret /\ call'[d].found = call[d].found
                              /\ d # c => call'[d] = call[d]
        /\ call'[c].stage = "sent"
    <2>1. call[c].stage # "none" /\ "sent" \in {"sent", "done"} /\ UNCHANGED <<use, madeFor, source>>
      BY <1>1
    <2> QED
      BY <2>1, <1>3, <1>4, StageStep
  <1>6. Key'
    <2>1. Content' = Content /\ \A r : IsSet(r)' <=> IsSet(r)
      BY SameUse
    <2>2. \A m \in late' : m \in late \/ (m \in Command /\ (IsSet(m) \/ (use = "state" /\ m.cmd = "getdel" /\ made = "known")))
      BY <1>1, AbandonStep
    <2> QED
      BY <1>1, <2>1, <2>2 DEF Inv, Key
  <1> QED
    BY <1>1, <1>5, <1>6

\* A late command is executed.
LEMMA LateExecuteStep ==
    ASSUME Inv, NEW m \in late, LateExecute(m), UNCHANGED <<use, madeFor, source, made>>
    PROVE  /\ Key' /\ Calls' /\ call' = call /\ late' \subseteq late /\ m.exp \in Nat
           /\ \/ /\ m.cmd = "set" /\ IsSet(m) /\ val' = m.arg /\ ttl' = m.exp /\ m.arg \in Values /\ m.arg # NoValue
              \/ m.cmd = "getdel" /\ use = "state" /\ made = "known" /\ val' = NoValue /\ ttl' = 0
  <1>1. call' = call /\ late' \subseteq late /\ Effect(m)
    BY DEF LateExecute
  <1>2. m.exp \in Nat /\ (IsSet(m) \/ (m.cmd = "getdel" /\ use = "state" /\ made = "known"))
    BY DEF Inv, Key, Command
  <1>3. m.cmd = "set" => IsSet(m)
    BY <1>2
  <1>4. /\ Key'
        /\ m.cmd = "set" => val' = m.arg /\ ttl' = m.exp /\ m.arg \in Values /\ m.arg # NoValue
        /\ m.cmd = "getdel" => val' = NoValue /\ ttl' = 0
    BY <1>1, <1>2, <1>3, EffectStep
  <1>5. Calls'
    BY <1>1, SameUse DEF Inv, Calls
  <1> QED
    BY <1>1, <1>2, <1>4, <1>5 DEF IsSet

\* Time passes, or a late command is lost.
LEMMA PassingStep ==
    ASSUME Inv, UNCHANGED <<use, madeFor, source, made, call>>, late' \subseteq late,
           \/ UNCHANGED <<val, ttl>>
           \/ /\ val' = IF ttl = 1 THEN NoValue ELSE val
              /\ ttl' = IF ttl > 0 THEN ttl - 1 ELSE 0
    PROVE  Key' /\ Calls'
  <1>1. Content' = Content /\ \A r : IsSet(r)' <=> IsSet(r)
    BY SameUse
  <1>2. Calls'
    BY SameUse DEF Inv, Calls
  <1>3. /\ val' \in (Content \cap Values) \cup {NoValue} /\ ttl' \in Nat /\ (val' = NoValue => ttl' = 0)
    BY DEF Inv, Key
  <1> QED
    BY <1>1, <1>2, <1>3 DEF Inv, Key

-----------------------------------------------------------------------------
(* Steps on a state *)

\* The other uses have nothing to say about the key of a state.
LEMMA StateOnly ==
    ASSUME use' = "state", Histories', Key', Calls', Making', Once', Kept'
    PROVE  Inv'
  BY DEF Inv, StateInv, TokenInv, CacheInv

\* NewState draws the state and sends the SET.
LEMMA NewStateStep ==
    ASSUME Inv, NEW c \in Clients, NEW s \in Subjects, NewState(c, s), UNCHANGED <<use, cacheVars>>
    PROVE  Inv'
  <1>1. /\ use = "state" /\ made = "no" /\ made' = "pending" /\ madeFor' = s /\ fresh' = StateTTL
        /\ call' = [call EXCEPT ![c] = Sending("NewState", "set", s, StateTTL)]
        /\ UNCHANGED <<val, ttl, late, taken, revived, accepted, claim, left, sure>>
    BY DEF NewState, Send, tokenVars
  <1>2. /\ val = NoValue /\ late = {} /\ ~taken /\ ~revived /\ accepted = 0
        /\ \A d \in Clients : call[d].op = "idle" /\ call[d].ret \in {"none", "blank"}
    BY <1>1 DEF Inv, StateInv, Making
  <1>3. s \in Values /\ StateTTL \in Nat /\ s # NoValue
    BY SessionAssumption, RedisKeyAssumption
  <1> DEFINE k == Sending("NewState", "set", s, StateTTL)
  <1>4. /\ k \in CallType /\ k.op = "NewState" /\ k.cmd = "set" /\ k.arg = s /\ k.exp = StateTTL
        /\ k.stage = "sent" /\ k.reply = NoValue /\ k.ret = "none"
    <2>1. "NewState" \in Ops
      BY <1>1, OpsOf
    <2> QED
      BY <1>3, <2>1, SendingType
  <1> HIDE DEF k
  <1>5. Rets' = Rets /\ Ops' = Ops /\ CallType' = CallType
    <2>1. Rets' = Rets /\ Ops' = Ops
      BY DEF Rets, Ops
    <2> QED
      BY <2>1 DEF CallType
  <1>6. /\ call \in [Clients -> CallType] /\ call' \in [Clients -> CallType] /\ call'[c] = k
        /\ \A d \in Clients : d # c => call'[d] = call[d]
    BY <1>1, <1>4 DEF Inv, Calls, k
  <1>7. Calls'
    <2>1. CallShape(call[c])'
      BY <1>1, <1>3, <1>4, <1>6 DEF CallShape, IsSet, Content
    <2>2. \A d \in Clients : d # c => CallShape(call[d])'
      BY <1>2, <1>6 DEF Inv, Calls, CallShape
    <2> QED
      BY <1>5, <1>6, <2>1, <2>2 DEF Calls
  <1>8. Key'
    BY <1>1, <1>2 DEF Inv, Key
  <1>9. Histories'
    BY <1>1, <1>2, SessionAssumption DEF Inv, Histories, SessionTypeOK, CacheTypeOK, cacheVars
  <1>10. Making'
    BY <1>1, <1>2, <1>4, <1>6 DEF Making
  <1>11. Once' /\ Kept'
    BY <1>1, <1>2, <1>4, <1>6 DEF Once, Kept, Holds
  <1> QED
    BY <1>1, <1>7, <1>8, <1>9, <1>10, <1>11, StateOnly

\* NewState returns the state.
LEMMA NewStateDoneStep ==
    ASSUME Inv, NEW c \in Clients, NewStateDone(c), use = "state", UNCHANGED <<use, cacheVars>>
    PROVE  Inv'
  <1>1. /\ call[c].op = "NewState" /\ call[c].stage = "done" /\ made' = "known"
        /\ call' = [call EXCEPT ![c] = Returning("state", NoValue)]
        /\ UNCHANGED <<val, ttl, late, madeFor, fresh, taken, revived, accepted, claim, left, sure>>
    BY DEF NewStateDone, HasReply, Return, tokenVars
  <1>2. Making /\ Once /\ Kept
    BY DEF Inv, StateInv
  <1>3. made = "pending" /\ ~taken /\ ~revived /\ accepted = 0 /\ \A d \in Clients : call[d].op # "VerifyState"
    BY <1>1, <1>2 DEF Making
  <1> DEFINE k == Returning("state", NoValue)
  <1>4. k \in CallType /\ CallShape(k) /\ k.op = "idle" /\ k.ret = "state" /\ k.stage = "none"
    BY ReturningType DEF Rets
  <1> HIDE DEF k
  <1>5. /\ Key' /\ Calls' /\ call'[c] = k
        /\ \A d \in Clients : d # c => call'[d] = call[d]
    <2>1. made # "known" /\ source' = source
      BY <1>3 DEF cacheVars
    <2> QED
      BY <1>1, <1>4, <2>1, ClientStep DEF k
  <1>6. Histories'
    BY <1>1, <1>3 DEF Inv, Histories, SessionTypeOK, CacheTypeOK, cacheVars
  <1>7. Making'
    BY <1>1, <1>2, <1>3, <1>4, <1>5 DEF Making
  <1>8. Once'
    BY <1>1, <1>2, <1>3, <1>4, <1>5 DEF Once, Holds
  <1>9. Kept'
    BY <1>1, <1>2, <1>3, <1>4, <1>5 DEF Kept
  <1> QED
    BY <1>5, <1>6, <1>7, <1>8, <1>9, StateOnly

\* VerifyState sends its GETDEL, or refuses a blank state.
LEMMA VerifyStep ==
    ASSUME Inv, NEW c \in Clients, VerifyState(c) \/ VerifyBlank(c), UNCHANGED <<use, cacheVars>>
    PROVE  Inv'
  <1>1. /\ use = "state" /\ call[c].op = "idle"
        /\ UNCHANGED <<val, ttl, late, made, madeFor, fresh, taken, revived, accepted, claim, left, sure>>
    BY DEF VerifyState, VerifyBlank, IsIdle, Send, Return, sessionVars, stateVars, tokenVars
  <1>2. Making /\ Once /\ Kept
    BY <1>1 DEF Inv, StateInv
  <1>3. PICK k \in CallType :
          /\ CallShape(k) /\ call' = [call EXCEPT ![c] = k] /\ k.stage # "done"
          /\ \/ k.op = "idle" /\ k.ret = "blank"
             \/ k.op = "VerifyState" /\ k.ret = "none" /\ made = "known"
    <2>1. CASE VerifyState(c)
      <3> DEFINE k == Sending("VerifyState", "getdel", NoValue, 0)
      <3>1. /\ k \in CallType /\ k.op = "VerifyState" /\ k.cmd = "getdel" /\ k.stage = "sent" /\ k.reply = NoValue
            /\ k.ret = "none"
        <4>1. "VerifyState" \in Ops
          BY <1>1, OpsOf
        <4> QED
          BY <4>1, SendingType
      <3>2. call' = [call EXCEPT ![c] = k] /\ made = "known"
        BY <2>1 DEF VerifyState, Send
      <3> HIDE DEF k
      <3>3. CallShape(k)
        BY <3>1 DEF CallShape
      <3> QED
        BY <3>1, <3>2, <3>3
    <2>2. CASE VerifyBlank(c)
      <3> DEFINE k == Returning("blank", NoValue)
      <3>1. k \in CallType /\ CallShape(k) /\ k.op = "idle" /\ k.ret = "blank" /\ k.stage = "none"
        BY <1>1, ReturningType DEF Rets
      <3>2. call' = [call EXCEPT ![c] = k]
        BY <2>2 DEF VerifyBlank, Return
      <3> HIDE DEF k
      <3> QED
        BY <3>1, <3>2
    <2> QED
      BY <2>1, <2>2
  <1>4. /\ Key' /\ Calls' /\ call'[c] = k
        /\ \A d \in Clients : d # c => call'[d] = call[d]
    <2>1. source' = source
      BY DEF cacheVars
    <2> QED
      BY <1>1, <1>3, <2>1, ClientStep
  <1>5. Histories'
    BY <1>1 DEF Inv, Histories, SessionTypeOK, CacheTypeOK, cacheVars
  <1>6. Making'
    BY <1>1, <1>2, <1>3, <1>4 DEF Making
  <1>7. Once'
    BY <1>1, <1>2, <1>3, <1>4 DEF Once, Holds
  <1>8. Kept'
    BY <1>1, <1>2, <1>3, <1>4 DEF Kept
  <1> QED
    BY <1>1, <1>4, <1>5, <1>6, <1>7, <1>8, StateOnly

\* VerifyState returns: the state is accepted, or was not there.
LEMMA VerifiedStep ==
    ASSUME Inv, NEW c \in Clients, Verified(c), use = "state", UNCHANGED <<use, cacheVars>>
    PROVE  Inv'
  <1>1. /\ call[c].op = "VerifyState" /\ call[c].stage = "done"
        /\ UNCHANGED <<val, ttl, late, made, madeFor, fresh, taken, revived, claim, left, sure>>
    BY DEF Verified, HasReply, Return, tokenVars
  <1>2. Making /\ Once /\ Kept /\ accepted \in Nat
    BY DEF Inv, StateInv, Histories
  <1>3. made = "known" /\ call[c] \in CallType /\ call[c].reply \in {madeFor, NoValue}
    <2>1. call[c] \in CallType /\ CallShape(call[c])
      BY DEF Inv, Calls
    <2> QED
      BY <1>1, <1>2, <2>1 DEF Making, CallShape, Content
  <1>4. PICK k \in CallType :
          /\ CallShape(k) /\ call' = [call EXCEPT ![c] = k] /\ k.stage = "none" /\ k.op = "idle"
          /\ \/ k.ret = "mismatch" /\ call[c].reply = NoValue /\ accepted' = accepted
             \/ k.ret = "accepted" /\ Holds(c) /\ k.found = madeFor /\ accepted' = accepted + 1
    <2>1. CASE call[c].reply = NoValue
      <3> DEFINE k == Returning("mismatch", NoValue)
      <3>1. k \in CallType /\ CallShape(k) /\ k.op = "idle" /\ k.ret = "mismatch" /\ k.stage = "none"
        BY ReturningType DEF Rets
      <3>2. call' = [call EXCEPT ![c] = k] /\ accepted' = accepted
        BY <2>1 DEF Verified, Return
      <3> HIDE DEF k
      <3> QED
        BY <2>1, <3>1, <3>2
    <2>2. CASE call[c].reply # NoValue
      <3> DEFINE k == Returning("accepted", call[c].reply)
      <3>1. /\ k \in CallType /\ CallShape(k) /\ k.op = "idle" /\ k.ret = "accepted" /\ k.stage = "none"
            /\ k.found = call[c].reply
        <4>1. call[c].reply \in Values \cup {NoValue} /\ "accepted" \in Rets
          BY <1>3 DEF CallType, Rets
        <4> QED
          BY <4>1, ReturningType
      <3>2. call' = [call EXCEPT ![c] = k] /\ accepted' = accepted + 1
        BY <2>2 DEF Verified, Return
      <3> HIDE DEF k
      <3> QED
        BY <1>1, <1>3, <2>2, <3>1, <3>2 DEF Holds
    <2> QED
      BY <2>1, <2>2
  <1>5. /\ Key' /\ Calls' /\ call'[c] = k
        /\ \A d \in Clients : d # c => call'[d] = call[d]
    <2>1. source' = source
      BY DEF cacheVars
    <2> QED
      BY <1>1, <1>4, <2>1, ClientStep
  <1>6. Histories'
    BY <1>1, <1>2, <1>4 DEF Inv, Histories, SessionTypeOK, CacheTypeOK, cacheVars
  <1>7. Making'
    BY <1>1, <1>2, <1>3, <1>4, <1>5 DEF Making
  <1>8. Once'
    <2>1. \A d \in Clients : Holds(d)' <=> Holds(d) /\ d # c
      BY <1>4, <1>5 DEF Holds
    <2>2. \A d \in Clients : call'[d].ret = "accepted" => call'[d].found = madeFor'
      BY <1>1, <1>2, <1>4, <1>5 DEF Once
    <2>3. CASE accepted' = accepted
      BY <1>1, <1>2, <2>1, <2>2, <2>3 DEF Once
    <2>4. CASE Holds(c) /\ accepted' = accepted + 1
      BY <1>1, <1>2, <2>1, <2>2, <2>4 DEF Once
    <2> QED
      BY <1>4, <2>3, <2>4
  <1>9. Kept'
    BY <1>1, <1>2, <1>3, <1>4, <1>5 DEF Kept
  <1> QED
    BY <1>5, <1>6, <1>7, <1>8, <1>9, StateOnly

\* A command of NewState or VerifyState fails.
LEMMA StateFailsStep ==
    ASSUME Inv, NEW c \in Clients, SessionFails(c), use = "state", UNCHANGED <<use, cacheVars>>
    PROVE  Inv'
  <1>1. /\ call[c].stage # "none" /\ Abandon(c) /\ call' = [call EXCEPT ![c] = Returning("err", NoValue)]
        /\ made' = IF call[c].op = "NewState" THEN "failed" ELSE made
        /\ left' = [left EXCEPT ![c] = 0]
        /\ UNCHANGED <<val, ttl, madeFor, fresh, taken, revived, accepted, claim, sure>>
    BY DEF SessionFails, CommandFails, SessionError
  <1>2. Making /\ Once /\ Kept
    BY DEF Inv, StateInv
  <1>3. call[c].op = "NewState" \/ (call[c].op = "VerifyState" /\ made = "known")
    <2>1. call[c].op \in Ops
      BY <1>1, CommandOf
    <2> QED
      BY <1>2, <2>1, OpsOf DEF Making, Inv, Histories, SessionTypeOK
  <1>4. call[c].op = "NewState" => made = "pending" /\ made' = "failed"
    BY <1>1, <1>2 DEF Making
  <1> DEFINE k == Returning("err", NoValue)
  <1>5. k \in CallType /\ CallShape(k) /\ k.op = "idle" /\ k.ret = "err" /\ k.stage = "none"
    BY ReturningType DEF Rets
  <1> HIDE DEF k
  <1>6. /\ Key' /\ Calls' /\ call'[c] = k
        /\ \A d \in Clients : d # c => call'[d] = call[d]
    <2>1. source' = source /\ (made' = made \/ made # "known") /\ call' = [call EXCEPT ![c] = k]
      BY <1>1, <1>4 DEF cacheVars, k
    <2>2. \A m \in late' : m \in late \/ (m \in Command /\ (IsSet(m) \/ (use = "state" /\ m.cmd = "getdel" /\ made = "known")))
      BY <1>1, AbandonStep
    <2> QED
      BY <1>1, <1>5, <2>1, <2>2, ClientStep
  <1>7. Histories'
    BY <1>1 DEF Inv, Histories, SessionTypeOK, CacheTypeOK, cacheVars
  <1>8. Making'
    BY <1>1, <1>2, <1>3, <1>4, <1>5, <1>6 DEF Making
  <1>9. Once'
    BY <1>1, <1>2, <1>5, <1>6 DEF Once, Holds
  <1>10. Kept'
    BY <1>1, <1>2, <1>4, <1>5, <1>6 DEF Kept
  <1> QED
    BY <1>6, <1>7, <1>8, <1>9, <1>10, StateOnly

\* Redis executes the command of a client.
LEMMA StateExecuteStep ==
    ASSUME Inv, NEW c \in Clients, Execute(c), Noted(call[c], Executed), use = "state", UNCHANGED <<use, cacheVars>>
    PROVE  Inv'
  <1>1. /\ taken' = (taken \/ (call[c].cmd = "getdel" /\ val # NoValue))
        /\ revived' = (revived \/ (call[c].cmd = "set" /\ made = "known"))
        /\ UNCHANGED <<made, madeFor, fresh, accepted, sure, claim, left, source>>
    BY DEF Noted, cacheVars
  <1>2. Making /\ Once /\ Kept /\ fresh \in 0..StateTTL /\ StateTTL \in Nat
    BY SessionAssumption DEF Inv, StateInv, Histories, SessionTypeOK
  <1>3. /\ Key' /\ Calls' /\ call[c].stage = "sent" /\ late' = late
        /\ \A d \in Clients : /\ call'[d].op = call[d].op /\ call'[d].cmd = call[d].cmd
                              /\ call'[d].ret = call[d].ret /\ call'[d].found = call[d].found
                              /\ d # c => call'[d] = call[d]
        /\ call'[c].stage = "done" /\ call'[c].reply = val
        /\ call[c].cmd = "set" => val' = call[c].arg /\ ttl' = call[c].exp /\ call[c].arg # NoValue
        /\ call[c].cmd = "getdel" => val' = NoValue /\ ttl' = 0
    BY <1>1, ExecuteStep
  <1>4. \/ call[c].op = "NewState" /\ call[c].cmd = "set" /\ call[c].exp = StateTTL /\ made = "pending"
        \/ call[c].op = "VerifyState" /\ call[c].cmd = "getdel" /\ made = "known"
    <2>1. call[c].op \in Ops /\ CallShape(call[c])
      BY <1>3, CommandOf
    <2>2. call[c].op \in {"NewState", "VerifyState"}
      BY <2>1, OpsOf
    <2> QED
      BY <1>2, <2>1, <2>2 DEF CallShape, IsSet, Making, Inv, Histories, SessionTypeOK
  <1>5. Histories'
    BY <1>1 DEF Inv, Histories, SessionTypeOK, CacheTypeOK, cacheVars
  <1>6. Making'
    BY <1>1, <1>2, <1>3, <1>4 DEF Making
  <1>7. CASE call[c].op = "NewState"
    <2>1. call[c].cmd = "set" /\ made = "pending" /\ (taken' <=> taken) /\ (revived' <=> revived)
      BY <1>1, <1>4, <1>7
    <2>2. accepted = 0 /\ \A d \in Clients : call[d].op # "VerifyState"
      BY <1>2, <2>1 DEF Making
    <2>3. Once'
      BY <1>1, <1>2, <1>3, <2>1, <2>2 DEF Once, Holds
    <2>4. Kept'
      BY <1>1, <1>2, <1>3, <1>4, <1>7, <2>1, <2>2 DEF Kept
    <2> QED
      BY <1>3, <1>5, <1>6, <2>3, <2>4, StateOnly
  <1>8. CASE call[c].op = "VerifyState"
    <2>1. /\ call[c].cmd = "getdel" /\ made = "known" /\ val' = NoValue
          /\ (taken' <=> taken \/ val # NoValue) /\ (revived' <=> revived)
      BY <1>1, <1>3, <1>4, <1>8
    <2>2. Once'
      <3>1. \A d \in Clients : d # c => (Holds(d)' <=> Holds(d))
        BY <1>3 DEF Holds
      <3>2. Holds(c)' <=> val # NoValue
        BY <1>3, <1>8 DEF Holds
      <3>3. \A d \in Clients : call'[d].ret = "accepted" => call'[d].found = madeFor'
        BY <1>1, <1>2, <1>3 DEF Once
      <3> QED
        BY <1>1, <1>2, <2>1, <3>1, <3>2, <3>3 DEF Once
    <2>3. Kept'
      <3>1. val = NoValue /\ ~taken => fresh = 0
        BY <1>2, <2>1 DEF Kept
      <3> QED
        BY <1>1, <1>2, <1>3, <2>1, <3>1 DEF Kept
    <2> QED
      BY <1>3, <1>5, <1>6, <2>2, <2>3, StateOnly
  <1> QED
    BY <1>4, <1>7, <1>8

\* go-redis sends a command again.
LEMMA StateResendStep ==
    ASSUME Inv, NEW c \in Clients, Resend(c), UNCHANGED sessionVars, use = "state", UNCHANGED <<use, cacheVars>>
    PROVE  Inv'
  <1>1. UNCHANGED <<made, madeFor, fresh, taken, revived, accepted, claim, left, sure, source>>
    BY DEF sessionVars, stateVars, tokenVars, cacheVars
  <1>2. Making /\ Once /\ Kept
    BY DEF Inv, StateInv
  <1>3. /\ Key' /\ Calls' /\ val' = val /\ ttl' = ttl /\ call[c].stage # "none"
        /\ \A d \in Clients : /\ call'[d].op = call[d].op
                              /\ call'[d].ret = call[d].ret /\ call'[d].found = call[d].found
                              /\ d # c => call'[d] = call[d]
        /\ call'[c].stage = "sent"
    BY <1>1, ResendStep
  <1>4. made # "no"
    <2>1. call[c].op # "idle"
      BY <1>3, CommandOf
    <2> QED
      BY <1>2, <2>1 DEF Making
  <1>5. Histories'
    BY <1>1 DEF Inv, Histories, SessionTypeOK, CacheTypeOK, cacheVars
  <1>6. Making'
    BY <1>1, <1>2, <1>3, <1>4 DEF Making
  <1>7. Once'
    <2>1. \A d \in Clients : Holds(d)' => Holds(d)
      BY <1>3 DEF Holds
    <2> QED
      BY <1>1, <1>2, <1>3, <2>1 DEF Once
  <1>8. Kept'
    BY <1>1, <1>2, <1>3 DEF Kept
  <1> QED
    BY <1>3, <1>5, <1>6, <1>7, <1>8, StateOnly

\* Redis executes a command that was given up.
LEMMA StateLateStep ==
    ASSUME Inv, NEW m \in late, LateExecute(m), Noted(m, Executed), use = "state", UNCHANGED <<use, cacheVars>>
    PROVE  Inv'
  <1>1. /\ taken' = (taken \/ (m.cmd = "getdel" /\ val # NoValue))
        /\ revived' = (revived \/ (m.cmd = "set" /\ made = "known"))
        /\ UNCHANGED <<made, madeFor, fresh, accepted, sure, claim, left, source>>
    BY DEF Noted, cacheVars
  <1>2. Making /\ Once /\ Kept /\ fresh \in 0..StateTTL /\ StateTTL \in Nat
    BY SessionAssumption DEF Inv, StateInv, Histories, SessionTypeOK
  <1>3. /\ Key' /\ Calls' /\ call' = call /\ late' \subseteq late
        /\ \/ m.cmd = "set" /\ IsSet(m) /\ val' = m.arg /\ ttl' = m.exp /\ m.arg # NoValue
           \/ m.cmd = "getdel" /\ made = "known" /\ val' = NoValue /\ ttl' = 0
    BY <1>1, LateExecuteStep
  <1>4. made # "no" /\ (m.cmd = "set" => m.exp = StateTTL)
    BY <1>2, <1>3 DEF Making, IsSet
  <1>5. Histories'
    BY <1>1 DEF Inv, Histories, SessionTypeOK, CacheTypeOK, cacheVars
  <1>6. Making'
    BY <1>1, <1>2, <1>3, <1>4 DEF Making
  <1>7. Once'
    <2>1. \A d \in Clients : Holds(d)' <=> Holds(d)
      BY <1>3 DEF Holds
    <2>2. made # "known" => accepted = 0 /\ \A d \in Clients : ~Holds(d)
      BY <1>2 DEF Making, Holds
    <2> QED
      BY <1>1, <1>2, <1>3, <2>1, <2>2 DEF Once
  <1>8. Kept'
    <2>1. CASE m.cmd = "set"
      <3>1. val' # NoValue /\ ttl' = StateTTL
        BY <1>3, <1>4, <2>1
      <3>2. ttl' >= fresh'
        BY <1>1, <1>2, <3>1
      <3>3. taken' <=> taken
        BY <1>1, <2>1
      <3> QED
        BY <1>1, <1>2, <1>3, <3>1, <3>2, <3>3 DEF Kept
    <2>2. CASE m.cmd = "getdel"
      BY <1>1, <1>2, <1>3, <2>2 DEF Kept
    <2> QED
      BY <1>3, <2>1, <2>2
  <1> QED
    BY <1>3, <1>5, <1>6, <1>7, <1>8, StateOnly

\* A late command is lost, or time passes.
LEMMA StatePassingStep ==
    ASSUME Inv, use = "state", UNCHANGED <<use, cacheVars>>,
           SessionTick \/ \E m \in late : LateLost(m) /\ UNCHANGED sessionVars
    PROVE  Inv'
  <1>1. /\ UNCHANGED <<made, madeFor, taken, revived, accepted, source, call>> /\ late' \subseteq late
        /\ \/ UNCHANGED <<val, ttl, fresh, claim, left>>
           \/ /\ val' = IF ttl = 1 THEN NoValue ELSE val
              /\ ttl' = IF ttl > 0 THEN ttl - 1 ELSE 0
              /\ fresh' = IF fresh > 0 THEN fresh - 1 ELSE 0
              /\ claim' = IF claim > 0 THEN claim - 1 ELSE 0
              /\ left' = [c \in Clients |-> IF left[c] > 0 THEN left[c] - 1 ELSE 0]
    BY DEF SessionTick, Expire, LateLost, sessionVars, stateVars, tokenVars, cacheVars
  <1>2. Making /\ Once /\ Kept /\ fresh \in Nat /\ ttl \in Nat
    BY SessionAssumption DEF Inv, StateInv, Histories, SessionTypeOK, Key
  <1>3. Key' /\ Calls'
    BY <1>1, PassingStep
  <1>4. Histories'
    <2>1. fresh' \in 0..StateTTL /\ claim' \in Nat /\ left' \in [Clients -> Nat]
      BY <1>1, SessionAssumption DEF Inv, Histories, SessionTypeOK
    <2> QED
      BY <1>1, <2>1 DEF Inv, Histories, SessionTypeOK, CacheTypeOK, cacheVars
  <1>5. Making'
    BY <1>1, <1>2 DEF Making
  <1>6. Once'
    <2>1. \A d \in Clients : Holds(d)' <=> Holds(d)
      BY <1>1 DEF Holds
    <2>2. val' # NoValue => val # NoValue
      BY <1>1
    <2> QED
      BY <1>1, <1>2, <2>1, <2>2 DEF Once
  <1>7. Kept'
    <2>1. fresh = 0 => fresh' = 0
      BY <1>1, <1>2
    <2>2. val # NoValue /\ ttl >= fresh => fresh' = 0 \/ (val' # NoValue /\ ttl' >= fresh')
      BY <1>1, <1>2
    <2> QED
      BY <1>1, <1>2, <2>1, <2>2 DEF Kept
  <1> QED
    BY <1>3, <1>4, <1>5, <1>6, <1>7, StateOnly

\* Every step on a state preserves the invariant.
LEMMA StateStep ==
    ASSUME Inv, use = "state", SessionNext, UNCHANGED <<use, cacheVars>>
    PROVE  Inv'
  <1>1. ASSUME NEW c \in Clients, SessionCall(c)
        PROVE  Inv'
    <2>1. ~RevokeToken(c, 0) /\ ~Revoked(c) /\ ~IsRevoked(c) /\ ~IsRevokedDone(c) /\ ~BlankToken(c)
          /\ \A d \in RevokeTTLs : ~RevokeToken(c, d)
      <3>1. call[c].op \in {"idle", "NewState", "VerifyState"}
        BY OpsOf DEF Inv, Calls, CallType
      <3> QED
        BY <3>1 DEF RevokeToken, Revoked, IsRevoked, IsRevokedDone, BlankToken, HasReply
    <2> QED
      BY <1>1, <2>1, NewStateStep, NewStateDoneStep, VerifyStep, VerifiedStep, StateFailsStep DEF SessionCall
  <1>2. ASSUME NEW c \in Clients, \/ Execute(c) /\ Noted(call[c], Executed)
                                  \/ Resend(c) /\ UNCHANGED sessionVars
        PROVE  Inv'
    BY <1>2, StateExecuteStep, StateResendStep
  <1>3. ASSUME NEW m \in late, LateExecute(m) /\ Noted(m, Executed)
        PROVE  Inv'
    BY <1>3, StateLateStep
  <1> QED
    BY <1>1, <1>2, <1>3, StatePassingStep DEF SessionNext
-----------------------------------------------------------------------------
(* Steps on the key of a token *)

\* The other uses have nothing to say about the key of a token.
LEMMA TokenOnly ==
    ASSUME use' = "token", Histories', Key', Calls', Listed', Seen'
    PROVE  Inv'
  BY DEF Inv, StateInv, TokenInv, CacheInv

\* RevokeToken and IsRevoked send their command.
LEMMA TokenCallStep ==
    ASSUME Inv, NEW c \in Clients, IsRevoked(c) \/ \E d \in RevokeTTLs : RevokeToken(c, d), UNCHANGED <<use, cacheVars>>
    PROVE  Inv'
  <1>1. /\ use = "token" /\ call[c].op = "idle"
        /\ UNCHANGED <<val, ttl, late, made, madeFor, fresh, taken, revived, accepted, claim, source>>
    BY DEF IsRevoked, RevokeToken, IsIdle, Send, stateVars, cacheVars
  <1>2. Listed /\ Seen /\ claim \in Nat /\ left \in [Clients -> Nat]
    BY <1>1 DEF Inv, TokenInv, Histories, SessionTypeOK
  <1>3. PICK k \in CallType :
          /\ CallShape(k) /\ call' = [call EXCEPT ![c] = k] /\ k.stage = "sent" /\ k.ret = "none"
          /\ \/ k.op = "RevokeToken" /\ left' = [left EXCEPT ![c] = k.exp] /\ sure' = sure
             \/ k.op = "IsRevoked" /\ left' = left /\ sure' = IF claim > 0 THEN sure \cup {c} ELSE sure \ {c}
    <2>1. CASE IsRevoked(c)
      <3> DEFINE k == Sending("IsRevoked", "exists", NoValue, 0)
      <3>1. /\ k \in CallType /\ k.op = "IsRevoked" /\ k.cmd = "exists" /\ k.stage = "sent" /\ k.reply = NoValue
            /\ k.ret = "none"
        <4>1. "IsRevoked" \in Ops
          BY <1>1, OpsOf
        <4> QED
          BY <4>1, SendingType
      <3>2. call' = [call EXCEPT ![c] = k] /\ left' = left /\ sure' = IF claim > 0 THEN sure \cup {c} ELSE sure \ {c}
        BY <2>1 DEF IsRevoked, Send
      <3> HIDE DEF k
      <3>3. CallShape(k)
        BY <3>1 DEF CallShape
      <3> QED
        BY <3>1, <3>2, <3>3
    <2>2. ASSUME NEW d \in RevokeTTLs, RevokeToken(c, d)
          PROVE  \E k \in CallType :
                    /\ CallShape(k) /\ call' = [call EXCEPT ![c] = k] /\ k.stage = "sent" /\ k.ret = "none"
                    /\ k.op = "RevokeToken" /\ left' = [left EXCEPT ![c] = k.exp] /\ sure' = sure
      <3>1. RevokeTTL(d) \in Nat /\ RevokeTTL(d) > 0 /\ Mark \in Values
        BY SessionAssumption DEF RevokeTTL
      <3> DEFINE k == Sending("RevokeToken", "set", Mark, RevokeTTL(d))
      <3>2. /\ k \in CallType /\ k.op = "RevokeToken" /\ k.cmd = "set" /\ k.arg = Mark /\ k.exp = RevokeTTL(d)
            /\ k.stage = "sent" /\ k.reply = NoValue /\ k.ret = "none"
        <4>1. "RevokeToken" \in Ops
          BY <1>1, OpsOf
        <4> HIDE DEF k
        <4> QED
          BY <3>1, <4>1, SendingType DEF k
      <3>3. call' = [call EXCEPT ![c] = k] /\ sure' = sure /\ left' = [left EXCEPT ![c] = RevokeTTL(d)]
        BY <2>2 DEF RevokeToken, Send, RevokeTTL
      <3> HIDE DEF k
      <3>4. CallShape(k)
        BY <1>1, <3>1, <3>2 DEF CallShape, IsSet
      <3> QED
        BY <3>2, <3>3, <3>4
    <2> QED
      BY <2>1, <2>2
  <1>4. /\ Key' /\ Calls' /\ call'[c] = k
        /\ \A d \in Clients : d # c => call'[d] = call[d]
    BY <1>1, <1>3, ClientStep
  <1>5. left' \in [Clients -> Nat] /\ (\A d \in Clients : d # c => left'[d] = left[d])
        /\ (k.op = "RevokeToken" => left'[c] = k.exp) /\ k.exp \in Nat
    BY <1>2, <1>3 DEF CallType
  <1>6. Histories'
    BY <1>1, <1>5 DEF Inv, Histories, SessionTypeOK, CacheTypeOK, cacheVars
  <1>7. Listed'
    BY <1>1, <1>2, <1>3, <1>4, <1>5 DEF Listed
  <1>8. Seen'
    BY <1>1, <1>2, <1>3, <1>4 DEF Seen
  <1> QED
    BY <1>1, <1>4, <1>6, <1>7, <1>8, TokenOnly

\* RevokeToken and IsRevoked return, or find their argument blank.
LEMMA TokenReturnStep ==
    ASSUME Inv, NEW c \in Clients, Revoked(c) \/ IsRevokedDone(c) \/ BlankToken(c), use = "token", UNCHANGED <<use, cacheVars>>
    PROVE  Inv'
  <1>1. UNCHANGED <<val, ttl, late, made, madeFor, fresh, taken, revived, accepted, sure, source>>
    BY DEF Revoked, IsRevokedDone, BlankToken, Return, sessionVars, stateVars, tokenVars, cacheVars
  <1>2. Listed /\ Seen /\ claim \in Nat /\ left \in [Clients -> Nat]
    BY DEF Inv, TokenInv, Histories, SessionTypeOK
  <1>3. PICK r \in Rets :
          /\ call' = [call EXCEPT ![c] = Returning(r, NoValue)]
          /\ r = "no" => c \notin sure
          /\ \/ claim' = claim /\ left' = left
             \/ /\ call[c].op = "RevokeToken" /\ call[c].stage = "done"
                /\ claim' = IF left[c] > claim THEN left[c] ELSE claim
                /\ left' = [left EXCEPT ![c] = 0]
    <2>1. CASE Revoked(c)
      BY <2>1 DEF Revoked, HasReply, Return, Rets
    <2>2. CASE IsRevokedDone(c)
      <3>1. call[c].reply = NoValue => c \notin sure
        BY <1>2, <2>2 DEF Seen, IsRevokedDone, HasReply
      <3> QED
        BY <2>2, <3>1 DEF IsRevokedDone, Return, Rets, sessionVars, tokenVars
    <2>3. CASE BlankToken(c)
      BY <2>3 DEF BlankToken, Return, Rets, sessionVars, tokenVars
    <2> QED
      BY <2>1, <2>2, <2>3
  <1> DEFINE k == Returning(r, NoValue)
  <1>4. k \in CallType /\ CallShape(k) /\ k.op = "idle" /\ k.ret = r /\ k.stage = "none"
    BY ReturningType
  <1>5. call' = [call EXCEPT ![c] = k]
    BY <1>3
  <1> HIDE DEF k
  <1>6. /\ Key' /\ Calls' /\ call'[c] = k
        /\ \A d \in Clients : d # c => call'[d] = call[d]
    BY <1>1, <1>4, <1>5, ClientStep
  <1>7. /\ claim' \in Nat /\ left' \in [Clients -> Nat] /\ claim' >= claim
        /\ \A d \in Clients : d # c => left'[d] = left[d]
    BY <1>2, <1>3
  <1>8. Histories'
    BY <1>1, <1>7 DEF Inv, Histories, SessionTypeOK, CacheTypeOK, cacheVars
  <1>9. Listed'
    <2>1. claim' > 0 => val # NoValue /\ ttl >= claim'
      BY <1>2, <1>3 DEF Listed
    <2> QED
      BY <1>1, <1>2, <1>4, <1>6, <1>7, <2>1 DEF Listed
  <1>10. Seen'
    BY <1>1, <1>2, <1>3, <1>4, <1>6, <1>7 DEF Seen
  <1> QED
    BY <1>6, <1>8, <1>9, <1>10, TokenOnly

\* A command of RevokeToken or IsRevoked fails.
LEMMA TokenFailsStep ==
    ASSUME Inv, NEW c \in Clients, SessionFails(c), use = "token", UNCHANGED <<use, cacheVars>>
    PROVE  Inv'
  <1>1. /\ call[c].stage # "none" /\ Abandon(c) /\ call' = [call EXCEPT ![c] = Returning("err", NoValue)]
        /\ left' = [left EXCEPT ![c] = 0]
        /\ UNCHANGED <<val, ttl, madeFor, fresh, taken, revived, accepted, claim, sure, source>>
    BY DEF SessionFails, CommandFails, SessionError, cacheVars
  <1>2. Listed /\ Seen /\ left \in [Clients -> Nat]
    BY DEF Inv, TokenInv, Histories, SessionTypeOK
  <1>3. made' = made
    <2>1. call[c].op \in Ops
      BY <1>1, CommandOf
    <2> QED
      BY <2>1, OpsOf DEF SessionFails
  <1> DEFINE k == Returning("err", NoValue)
  <1>4. k \in CallType /\ CallShape(k) /\ k.op = "idle" /\ k.ret = "err" /\ k.stage = "none"
    BY ReturningType DEF Rets
  <1>5. call' = [call EXCEPT ![c] = k]
    BY <1>1
  <1> HIDE DEF k
  <1>6. /\ Key' /\ Calls' /\ call'[c] = k
        /\ \A d \in Clients : d # c => call'[d] = call[d]
    <2>1. \A m \in late' : m \in late \/ (m \in Command /\ (IsSet(m) \/ (use = "state" /\ m.cmd = "getdel" /\ made = "known")))
      BY <1>1, AbandonStep
    <2> QED
      BY <1>1, <1>3, <1>4, <1>5, <2>1, ClientStep
  <1>7. left' \in [Clients -> Nat] /\ \A d \in Clients : d # c => left'[d] = left[d]
    BY <1>1, <1>2
  <1>8. Histories'
    BY <1>1, <1>3, <1>7 DEF Inv, Histories, SessionTypeOK, CacheTypeOK, cacheVars
  <1>9. Listed'
    BY <1>1, <1>2, <1>4, <1>6, <1>7 DEF Listed
  <1>10. Seen'
    BY <1>1, <1>2, <1>4, <1>6 DEF Seen
  <1> QED
    BY <1>6, <1>8, <1>9, <1>10, TokenOnly

\* What a SET of a token with expiry n does to the histories.
LEMMA NotedSet ==
    ASSUME Inv, use = "token", NEW m, Noted(m, Executed), m.cmd = "set", m.exp \in Nat, m.exp > 0
    PROVE  /\ claim' \in Nat /\ claim' <= m.exp /\ (claim > 0 => claim' > 0)
           /\ left' \in [Clients -> Nat]
           /\ \A c \in Clients : left'[c] <= left[c] /\ (call[c].stage = "done" => left'[c] <= m.exp)
  <1>1. claim \in Nat /\ left \in [Clients -> Nat]
    BY DEF Inv, Histories, SessionTypeOK
  <1>2. /\ claim' = Smaller(claim, m.exp)
        /\ left' = [c \in Clients |-> IF c \in Executed THEN Smaller(left[c], m.exp) ELSE left[c]]
    BY DEF Noted
  <1> QED
    BY <1>1, <1>2 DEF Smaller, Executed

\* Redis executes the command of a client.
LEMMA TokenExecuteStep ==
    ASSUME Inv, NEW c \in Clients, Execute(c), Noted(call[c], Executed), use = "token", UNCHANGED <<use, cacheVars>>
    PROVE  Inv'
  <1>1. /\ (taken' <=> taken) /\ (revived' <=> revived) /\ taken' \in BOOLEAN /\ revived' \in BOOLEAN
        /\ UNCHANGED <<made, madeFor, fresh, accepted, sure, source>>
    BY DEF Noted, cacheVars
  <1>2. Listed /\ Seen /\ claim \in Nat /\ left \in [Clients -> Nat]
    BY DEF Inv, TokenInv, Histories, SessionTypeOK
  <1>3. /\ Key' /\ Calls' /\ call[c].stage = "sent"
        /\ \A d \in Clients : /\ call'[d].op = call[d].op /\ call'[d].exp = call[d].exp /\ call'[d].ret = call[d].ret
                              /\ d # c => call'[d] = call[d]
        /\ call'[c].stage = "done" /\ call'[c].reply = val
        /\ call[c].cmd = "set" => val' = call[c].arg /\ ttl' = call[c].exp /\ call[c].arg # NoValue
        /\ call[c].cmd \notin {"set", "getdel"} => val' = val /\ ttl' = ttl
    BY <1>1, ExecuteStep
  <1>4. call[c].exp \in Nat /\ \/ call[c].op = "RevokeToken" /\ call[c].cmd = "set" /\ call[c].exp > 0
                               \/ call[c].op = "IsRevoked" /\ call[c].cmd = "exists"
    <2>1. call[c].op \in Ops /\ CallShape(call[c]) /\ call[c] \in CallType
      BY <1>3, CommandOf
    <2> QED
      BY <2>1, OpsOf DEF CallShape, IsSet, CallType
  <1>5. \A d \in Clients : call[d].exp \in Nat
    BY DEF Inv, Calls, CallType
  <1>6. CASE call[c].cmd = "set"
    <2>1. /\ claim' \in Nat /\ claim' <= call[c].exp /\ (claim > 0 => claim' > 0)
          /\ left' \in [Clients -> Nat]
          /\ \A d \in Clients : left'[d] <= left[d] /\ (call[d].stage = "done" => left'[d] <= call[c].exp)
      BY <1>4, <1>6, NotedSet
    <2>2. Histories'
      BY <1>1, <2>1 DEF Inv, Histories, SessionTypeOK, CacheTypeOK, cacheVars
    <2>3. Listed'
      <3>1. \A d \in Clients : call'[d].op = "RevokeToken" => left'[d] <= call'[d].exp
        BY <1>2, <1>3, <1>5, <2>1 DEF Listed
      <3>2. call[c].op = "RevokeToken"
        BY <1>4, <1>6
      <3>3. \A d \in Clients : call'[d].op = "RevokeToken" /\ call'[d].stage = "done" => left'[d] <= ttl'
        BY <1>3, <1>6, <2>1, <3>1
      <3> QED
        BY <1>3, <1>4, <1>6, <2>1, <3>1, <3>3 DEF Listed
    <2>4. Seen'
      <3>1. call[c].op # "IsRevoked"
        BY <1>4, <1>6
      <3> QED
        BY <1>1, <1>2, <1>3, <2>1, <3>1 DEF Seen
    <2> QED
      BY <1>3, <2>2, <2>3, <2>4, TokenOnly
  <1>7. CASE call[c].cmd = "exists"
    <2>1. claim' = claim /\ left' = left /\ val' = val /\ ttl' = ttl /\ call[c].op = "IsRevoked"
      BY <1>3, <1>4, <1>7 DEF Noted
    <2>2. Histories'
      BY <1>1, <2>1 DEF Inv, Histories, SessionTypeOK, CacheTypeOK, cacheVars
    <2>3. Listed'
      BY <1>2, <1>3, <2>1 DEF Listed
    <2>4. c \in sure => val # NoValue
      BY <1>2 DEF Seen, Listed
    <2>5. Seen'
      BY <1>1, <1>2, <1>3, <2>1, <2>4 DEF Seen
    <2> QED
      BY <1>3, <2>2, <2>3, <2>5, TokenOnly
  <1> QED
    BY <1>4, <1>6, <1>7

\* go-redis sends a command again.
LEMMA TokenResendStep ==
    ASSUME Inv, NEW c \in Clients, Resend(c), UNCHANGED sessionVars, use = "token", UNCHANGED <<use, cacheVars>>
    PROVE  Inv'
  <1>1. UNCHANGED <<made, madeFor, fresh, taken, revived, accepted, claim, left, sure, source>>
    BY DEF sessionVars, stateVars, tokenVars, cacheVars
  <1>2. Listed /\ Seen
    BY DEF Inv, TokenInv
  <1>3. /\ Key' /\ Calls' /\ val' = val /\ ttl' = ttl
        /\ \A d \in Clients : /\ call'[d].op = call[d].op /\ call'[d].exp = call[d].exp /\ call'[d].ret = call[d].ret
                              /\ d # c => call'[d] = call[d]
        /\ call'[c].stage = "sent"
    BY <1>1, ResendStep
  <1>4. Histories'
    BY <1>1 DEF Inv, Histories, SessionTypeOK, CacheTypeOK, cacheVars
  <1>5. Listed'
    BY <1>1, <1>2, <1>3 DEF Listed
  <1>6. Seen'
    BY <1>1, <1>2, <1>3 DEF Seen
  <1> QED
    BY <1>3, <1>4, <1>5, <1>6, TokenOnly

\* Redis executes a SET that was given up.
LEMMA TokenLateStep ==
    ASSUME Inv, NEW m \in late, LateExecute(m), Noted(m, Executed), use = "token", UNCHANGED <<use, cacheVars>>
    PROVE  Inv'
  <1>1. /\ (taken' <=> taken) /\ (revived' <=> revived) /\ taken' \in BOOLEAN /\ revived' \in BOOLEAN
        /\ UNCHANGED <<made, madeFor, fresh, accepted, sure, source>>
    BY DEF Noted, cacheVars
  <1>2. Listed /\ Seen /\ claim \in Nat /\ left \in [Clients -> Nat]
    BY DEF Inv, TokenInv, Histories, SessionTypeOK
  <1>3. /\ Key' /\ Calls' /\ call' = call /\ m.exp \in Nat
        /\ m.cmd = "set" /\ IsSet(m) /\ val' = m.arg /\ ttl' = m.exp /\ m.arg # NoValue
    BY <1>1, LateExecuteStep
  <1>4. m.exp > 0
    BY <1>3 DEF IsSet
  <1>5. /\ claim' \in Nat /\ claim' <= m.exp /\ (claim > 0 => claim' > 0)
        /\ left' \in [Clients -> Nat]
        /\ \A d \in Clients : left'[d] <= left[d] /\ (call[d].stage = "done" => left'[d] <= m.exp)
    BY <1>3, <1>4, NotedSet
  <1>6. Histories'
    BY <1>1, <1>5 DEF Inv, Histories, SessionTypeOK, CacheTypeOK, cacheVars
  <1>7. Listed'
    <2>1. \A d \in Clients : call[d].exp \in Nat
      BY DEF Inv, Calls, CallType
    <2> QED
      BY <1>2, <1>3, <1>5, <2>1 DEF Listed
  <1>8. Seen'
    BY <1>1, <1>2, <1>3, <1>5 DEF Seen
  <1> QED
    BY <1>3, <1>6, <1>7, <1>8, TokenOnly

\* A late command is lost, or time passes.
LEMMA TokenPassingStep ==
    ASSUME Inv, use = "token", UNCHANGED <<use, cacheVars>>,
           SessionTick \/ \E m \in late : LateLost(m) /\ UNCHANGED sessionVars
    PROVE  Inv'
  <1>1. /\ UNCHANGED <<made, madeFor, taken, revived, accepted, source, call>> /\ late' \subseteq late
        /\ \/ UNCHANGED <<val, ttl, fresh, claim, left, sure>>
           \/ /\ val' = IF ttl = 1 THEN NoValue ELSE val
              /\ ttl' = IF ttl > 0 THEN ttl - 1 ELSE 0
              /\ fresh' = IF fresh > 0 THEN fresh - 1 ELSE 0
              /\ claim' = IF claim > 0 THEN claim - 1 ELSE 0
              /\ left' = [c \in Clients |-> IF left[c] > 0 THEN left[c] - 1 ELSE 0]
              /\ sure' = IF claim <= 1 THEN {} ELSE sure
    BY DEF SessionTick, Expire, LateLost, sessionVars, stateVars, tokenVars, cacheVars
  <1>2. Listed /\ Seen /\ claim \in Nat /\ left \in [Clients -> Nat] /\ ttl \in Nat
    BY DEF Inv, TokenInv, Histories, SessionTypeOK, Key
  <1>3. Key' /\ Calls' /\ \A d \in Clients : call[d].exp \in Nat
    BY <1>1, PassingStep DEF Inv, Calls, CallType
  <1>4. Histories'
    <2>1. fresh' \in 0..StateTTL /\ claim' \in Nat /\ left' \in [Clients -> Nat]
      BY <1>1, SessionAssumption DEF Inv, Histories, SessionTypeOK
    <2> QED
      BY <1>1, <2>1 DEF Inv, Histories, SessionTypeOK, CacheTypeOK, cacheVars
  <1>5. CASE UNCHANGED <<val, ttl, fresh, claim, left, sure>>
    <2>1. Listed' /\ Seen'
      BY <1>1, <1>2, <1>5 DEF Listed, Seen
    <2> QED
      BY <1>3, <1>4, <2>1, TokenOnly
  <1>6. CASE /\ val' = IF ttl = 1 THEN NoValue ELSE val
             /\ ttl' = IF ttl > 0 THEN ttl - 1 ELSE 0
             /\ claim' = IF claim > 0 THEN claim - 1 ELSE 0
             /\ left' = [c \in Clients |-> IF left[c] > 0 THEN left[c] - 1 ELSE 0]
             /\ sure' = IF claim <= 1 THEN {} ELSE sure
    <2>1. \A d \in Clients : left'[d] \in Nat /\ left'[d] <= left[d] /\ (left'[d] > 0 => left[d] = left'[d] + 1)
      BY <1>2, <1>6
    <2>2. claim' > 0 => val' # NoValue /\ ttl' >= claim'
      BY <1>2, <1>6 DEF Listed
    <2>3. \A d \in Clients : call'[d].op = "RevokeToken" => left'[d] <= call'[d].exp
      BY <1>1, <1>2, <1>3, <2>1 DEF Listed
    <2>4. ASSUME NEW d \in Clients, call'[d].op = "RevokeToken", call'[d].stage = "done", left'[d] > 0
          PROVE  val' # NoValue /\ ttl' >= left'[d]
      <3>1. val # NoValue /\ ttl >= left[d] /\ left[d] = left'[d] + 1 /\ left'[d] \in Nat
        BY <1>1, <1>2, <2>1, <2>4 DEF Listed
      <3> QED
        BY <1>2, <1>6, <2>4, <3>1
    <2>5. Listed'
      BY <2>2, <2>3, <2>4 DEF Listed
    <2>6. Seen'
      BY <1>1, <1>2, <1>6 DEF Seen
    <2> QED
      BY <1>3, <1>4, <2>5, <2>6, TokenOnly
  <1> QED
    BY <1>1, <1>5, <1>6

\* Every step on the key of a token preserves the invariant.
LEMMA TokenStep ==
    ASSUME Inv, use = "token", SessionNext, UNCHANGED <<use, cacheVars>>
    PROVE  Inv'
  <1>1. ASSUME NEW c \in Clients, SessionCall(c)
        PROVE  Inv'
    <2>1. ~NewStateDone(c) /\ ~VerifyState(c) /\ ~VerifyBlank(c) /\ ~Verified(c) /\ \A s \in Subjects : ~NewState(c, s)
      <3>1. call[c].op \in {"idle", "RevokeToken", "IsRevoked"}
        BY OpsOf DEF Inv, Calls, CallType
      <3> QED
        BY <3>1 DEF NewState, NewStateDone, VerifyState, VerifyBlank, Verified, HasReply
    <2> QED
      BY <1>1, <2>1, TokenCallStep, TokenReturnStep, TokenFailsStep DEF SessionCall
  <1>2. ASSUME NEW c \in Clients, \/ Execute(c) /\ Noted(call[c], Executed)
                                  \/ Resend(c) /\ UNCHANGED sessionVars
        PROVE  Inv'
    BY <1>2, TokenExecuteStep, TokenResendStep
  <1>3. ASSUME NEW m \in late, LateExecute(m) /\ Noted(m, Executed)
        PROVE  Inv'
    BY <1>3, TokenLateStep
  <1> QED
    BY <1>1, <1>2, <1>3, TokenPassingStep DEF SessionNext
-----------------------------------------------------------------------------
(* Steps on the key of cached JSON *)

\* The other uses have nothing to say about the key of cached JSON.
LEMMA CacheOnly ==
    ASSUME use' = "cache", Histories', Key', Calls', CacheInv'
    PROVE  Inv'
  BY DEF Inv, StateInv, TokenInv

\* The versions that the history variables speak of.
LEMMA Versions ==
    ASSUME Inv
    PROVE  /\ MaxVersion \in Nat /\ source \in 0..MaxVersion /\ acked \in 0..source /\ floor \in [Clients -> 0..source]
           /\ source \in Nat /\ acked \in Nat /\ \A c \in Clients : floor[c] \in Nat
           /\ use = "cache" => val \in {NoValue, Undecodable} \cup 0..source
  <1>1. MaxVersion \in Nat /\ source \in 0..MaxVersion /\ acked \in 0..source /\ floor \in [Clients -> 0..source]
    BY CacheAsideAssumption DEF Inv, Histories, CacheTypeOK
  <1>2. source \in Nat
    BY <1>1
  <1>3. acked \in Nat /\ \A c \in Clients : floor[c] \in Nat
    BY <1>1, <1>2
  <1> QED
    BY <1>1, <1>2, <1>3 DEF Inv, Key, Content

\* A SET that is given up stores the current version, as the others do.
LEMMA CacheAbandonStep ==
    ASSUME Inv, use = "cache", ~overlap, NEW c \in Clients, Abandon(c)
    PROVE  \A m \in late' : m.arg = source
  <1>1. Current
    BY DEF Inv, CacheInv
  <1>2. CASE late' = late
    BY <1>1, <1>2 DEF Current
  <1>3. CASE call[c].stage = "sent" /\ call[c].cmd \in {"set", "getdel"}
             /\ late' = late \cup {[cmd |-> call[c].cmd, arg |-> call[c].arg, exp |-> call[c].exp]}
    <2>1. call[c].cmd = "set"
      BY <1>3, CommandOf
    <2> QED
      BY <1>1, <1>3, <2>1 DEF Current
  <1> QED
    BY <1>2, <1>3 DEF Abandon

\* A step of client c that sends a command, returns or fails.
LEMMA CacheClientStep ==
    ASSUME Inv, use = "cache", NEW c \in Clients, NEW k \in CallType, CallShape(k),
           call' = [call EXCEPT ![c] = k], Abandon(c), UNCHANGED <<use, val, ttl, source, overlap, sessionVars>>,
           acked' \in acked..source, floor' \in [Clients -> 0..source], floor'[c] <= acked',
           \A d \in Clients : d # c => floor'[d] = floor[d],
           k.stage # "done", k.cmd = "set" => k.arg = source,
           k.ret \in {"hit", "loaded"} => k.found \in 0..source /\ (~overlap => k.found >= floor'[c]),
           ~overlap /\ IsVersion(val) => val >= acked'
    PROVE  Inv'
  <1>1. UNCHANGED <<made, madeFor, fresh, taken, revived, accepted, claim, left, sure>>
    BY DEF sessionVars, stateVars, tokenVars
  <1>2. /\ source \in Nat /\ acked \in Nat /\ acked' \in Nat /\ acked' >= acked /\ acked' \in 0..source
        /\ \A d \in Clients : floor[d] \in Nat
    BY Versions
  <1>3. /\ Key' /\ Calls' /\ call'[c] = k
        /\ \A d \in Clients : d # c => call'[d] = call[d]
    <2>1. \A m \in late' : m \in late \/ (m \in Command /\ (IsSet(m) \/ (use = "state" /\ m.cmd = "getdel" /\ made = "known")))
      BY AbandonStep
    <2> QED
      BY <1>1, <2>1, ClientStep
  <1>4. Histories'
    BY <1>1, <1>2 DEF Inv, Histories, SessionTypeOK, CacheTypeOK
  <1>5. \A d \in Clients : /\ floor[d]' <= acked'
                           /\ call[d].ret' \in {"hit", "loaded"} => call[d].found' \in 0..source
    BY <1>2, <1>3 DEF Inv, CacheInv
  <1>6. ASSUME ~overlap PROVE Current'
    <2>1. Current
      BY <1>6 DEF Inv, CacheInv
    <2>2. \A m \in late' : m.arg = source
      BY <1>6, CacheAbandonStep
    <2>3. ASSUME NEW d \in Clients
          PROVE  /\ call'[d].cmd = "set" => /\ call'[d].arg = source
                                            /\ call'[d].stage = "done" /\ IsVersion(val) => val = source
                 /\ call'[d].cmd = "get" /\ call'[d].stage = "done" /\ IsVersion(call'[d].reply) => call'[d].reply >= floor'[d]
                 /\ call'[d].ret \in {"hit", "loaded"} => call'[d].found >= floor'[d]
      <3>1. CASE d = c
        BY <1>3, <1>6, <3>1
      <3>2. CASE d # c
        BY <1>3, <2>1, <3>2 DEF Current
      <3> QED
        BY <3>1, <3>2
    <2> QED
      BY <1>6, <2>2, <2>3 DEF Current, IsVersion
  <1>7. CacheInv'
    BY <1>5, <1>6 DEF CacheInv
  <1> QED
    BY <1>3, <1>4, <1>7, CacheOnly

\* Read sends its GET; what was acknowledged by then is its floor.
LEMMA CacheReadStep ==
    ASSUME Inv, use = "cache", NEW c \in Clients, GetJSON(c) \/ RememberJSON(c), UNCHANGED <<use, sessionVars>>
    PROVE  Inv'
  <1>1. PICK op \in {"GetJSON", "RememberJSON"} : Read(c, op)
    BY DEF GetJSON, RememberJSON
  <1> DEFINE k == Sending(op, "get", NoValue, 0)
  <1>2. /\ call' = [call EXCEPT ![c] = k] /\ floor' = [floor EXCEPT ![c] = acked]
        /\ UNCHANGED <<val, ttl, late, source, acked, overlap>>
    BY <1>1 DEF Read, Send
  <1>3. /\ k \in CallType /\ k.op = op /\ k.cmd = "get" /\ k.stage = "sent" /\ k.reply = NoValue /\ k.ret = "none"
    <2>1. op \in Ops
      BY OpsOf
    <2> QED
      BY <2>1, SendingType
  <1> HIDE DEF k
  <1>4. CallShape(k)
    BY <1>1, <1>3 DEF CallShape
  <1>5. /\ acked' \in acked..source /\ floor' \in [Clients -> 0..source] /\ floor'[c] <= acked'
        /\ \A d \in Clients : d # c => floor'[d] = floor[d]
    BY <1>2, Versions
  <1>6. ~overlap /\ IsVersion(val) => val >= acked'
    BY <1>2 DEF Inv, CacheInv, Current
  <1>7. Abandon(c) /\ UNCHANGED <<use, val, ttl, source, overlap, sessionVars>>
    BY <1>2 DEF Abandon
  <1>8. k.stage # "done" /\ k.cmd # "set" /\ k.ret \notin {"hit", "loaded"}
    BY <1>3
  <1> QED
    BY <1>2, <1>3, <1>4, <1>5, <1>6, <1>7, <1>8, CacheClientStep

\* A SET of the source's version is sent, or nothing can be stored.
LEMMA CacheWriteStep ==
    ASSUME Inv, use = "cache", NEW c \in Clients, SetJSON(c) \/ Load(c), UNCHANGED <<use, sessionVars>>
    PROVE  Inv'
  <1>1. /\ UNCHANGED <<val, ttl, late, source, acked, floor, overlap>>
        /\ \/ \E op \in {"SetJSON", "fill"} : call' = [call EXCEPT ![c] = Sending(op, "set", source, TTL)]
           \/ call' = [call EXCEPT ![c] = Returning("err", NoValue)]
    BY DEF SetJSON, Load, Send, Return, cacheVars
  <1>2. PICK k \in CallType :
          /\ CallShape(k) /\ call' = [call EXCEPT ![c] = k] /\ k.stage # "done" /\ k.ret \notin {"hit", "loaded"}
          /\ k.cmd = "set" => k.arg = source
    <2>1. ASSUME NEW op \in {"SetJSON", "fill"}, call' = [call EXCEPT ![c] = Sending(op, "set", source, TTL)]
          PROVE  \E k \in CallType :
                    /\ CallShape(k) /\ call' = [call EXCEPT ![c] = k] /\ k.stage # "done" /\ k.ret \notin {"hit", "loaded"}
                    /\ k.cmd = "set" => k.arg = source
      <3> DEFINE k == Sending(op, "set", source, TTL)
      <3>1. source \in 0..source /\ source \in Values /\ TTL \in Nat
        BY Versions, CacheAsideAssumption
      <3>2. /\ k \in CallType /\ k.op = op /\ k.cmd = "set" /\ k.arg = source /\ k.exp = TTL
            /\ k.stage = "sent" /\ k.reply = NoValue /\ k.ret = "none"
        <4>1. op \in Ops
          BY OpsOf
        <4> QED
          BY <3>1, <4>1, SendingType
      <3>3. call' = [call EXCEPT ![c] = k]
        BY <2>1
      <3> HIDE DEF k
      <3>4. CallShape(k)
        BY <3>1, <3>2 DEF CallShape, IsSet
      <3> QED
        BY <3>2, <3>3, <3>4
    <2>2. CASE call' = [call EXCEPT ![c] = Returning("err", NoValue)]
      <3> DEFINE k == Returning("err", NoValue)
      <3>1. k \in CallType /\ CallShape(k) /\ k.cmd = "none" /\ k.ret = "err" /\ k.stage = "none"
        BY ReturningType DEF Rets
      <3>2. call' = [call EXCEPT ![c] = k]
        BY <2>2
      <3> HIDE DEF k
      <3> QED
        BY <3>1, <3>2
    <2> QED
      BY <1>1, <2>1, <2>2
  <1>3. /\ acked' \in acked..source /\ floor' \in [Clients -> 0..source] /\ floor'[c] <= acked'
        /\ \A d \in Clients : d # c => floor'[d] = floor[d]
    <2>1. floor[c] <= acked
      BY DEF Inv, CacheInv
    <2> QED
      BY <1>1, <2>1, Versions
  <1>4. ~overlap /\ IsVersion(val) => val >= acked'
    BY <1>1 DEF Inv, CacheInv, Current
  <1>5. Abandon(c) /\ UNCHANGED <<use, val, ttl, source, overlap, sessionVars>>
    BY <1>1 DEF Abandon
  <1> QED
    BY <1>2, <1>3, <1>4, <1>5, CacheClientStep

\* An operation returns, or its command fails.
LEMMA CacheReturnStep ==
    ASSUME Inv, use = "cache", NEW c \in Clients, GotJSON(c) \/ Remembered(c) \/ SetDone(c) \/ Filled(c) \/ CacheFails(c),
           UNCHANGED <<use, sessionVars>>
    PROVE  Inv'
  <1>1. UNCHANGED <<val, ttl, source, floor, overlap>> /\ Abandon(c) /\ call[c].stage # "none"
    BY DEF GotJSON, Remembered, SetDone, Filled, CacheFails, CommandFails, HasReply, Return, Abandon, cacheVars
  <1>2. /\ call[c] \in CallType /\ CallShape(call[c])
        /\ call[c].reply \in Values \cup {NoValue} /\ call[c].arg \in Values \cup {NoValue}
        /\ call[c].reply \in {NoValue, Undecodable} \cup 0..source
    <2>1. call[c] \in CallType /\ CallShape(call[c])
      BY <1>1, CommandOf
    <2> QED
      BY <2>1 DEF CallType, CallShape, Content
  <1>3. floor[c] <= acked /\ (~overlap => Current)
    BY DEF Inv, CacheInv
  <1>4. PICK r \in Rets, v \in Values \cup {NoValue} :
          /\ call' = [call EXCEPT ![c] = Returning(r, v)]
          /\ r \in {"hit", "loaded"} => v \in 0..source /\ (~overlap => v >= floor[c])
    <2>1. CASE GotJSON(c) \/ Remembered(c)
      <3>1. /\ call' = [call EXCEPT ![c] = Returning(Decoded(call[c].reply), call[c].reply)]
            /\ call[c].op \in {"GetJSON", "RememberJSON"} /\ call[c].stage = "done"
        BY <2>1 DEF GotJSON, Remembered, HasReply, Return
      <3>2. call[c].cmd = "get"
        BY <1>2, <3>1 DEF CallShape
      <3>3. Decoded(call[c].reply) \in Rets /\ (Decoded(call[c].reply) \in {"hit", "loaded"} => IsVersion(call[c].reply))
        BY DEF Decoded, Rets, IsVersion
      <3>4. IsVersion(call[c].reply) => call[c].reply \in 0..source /\ (~overlap => call[c].reply >= floor[c])
        BY <1>2, <1>3, <3>1, <3>2 DEF IsVersion, Current
      <3> QED
        BY <1>2, <3>1, <3>3, <3>4
    <2>2. CASE SetDone(c)
      BY <2>2 DEF SetDone, Return, Rets
    <2>3. CASE Filled(c)
      <3>1. call' = [call EXCEPT ![c] = Returning("loaded", call[c].arg)] /\ call[c].op = "fill"
        BY <2>3 DEF Filled, HasReply, Return
      <3>2. call[c].cmd = "set" /\ call[c].arg \in 0..source
        BY <1>2, <3>1 DEF CallShape, IsSet
      <3>3. ~overlap => call[c].arg = source
        BY <1>3, <3>2 DEF Current
      <3>4. floor[c] \in 0..source /\ source \in Nat
        BY Versions
      <3>5. ~overlap => call[c].arg >= floor[c]
        BY <3>3, <3>4
      <3>6. "loaded" \in Rets
        BY DEF Rets
      <3> QED
        BY <1>2, <3>1, <3>2, <3>5, <3>6
    <2>4. CASE CacheFails(c)
      <3> DEFINE v == IF call[c].op = "fill" THEN call[c].arg ELSE NoValue
      <3>1. call' = [call EXCEPT ![c] = Returning("err", v)] /\ v \in Values \cup {NoValue} /\ "err" \in Rets
        BY <1>2, <2>4 DEF CacheFails, CommandFails, Rets
      <3> HIDE DEF v
      <3> QED
        BY <3>1
    <2> QED
      BY <2>1, <2>2, <2>3, <2>4
  <1>5. acked' \in acked..source /\ (~overlap /\ IsVersion(val) => val >= acked')
    <2>1. CASE ~SetDone(c)
      <3>1. acked' = acked
        BY <2>1 DEF GotJSON, Remembered, SetDone, Filled, CacheFails, cacheVars
      <3> QED
        BY <1>3, <3>1, Versions DEF Current
    <2>2. CASE SetDone(c)
      <3>1. call[c].op = "SetJSON" /\ call[c].stage = "done" /\ acked' = IF call[c].arg > acked THEN call[c].arg ELSE acked
        BY <2>2 DEF SetDone, HasReply
      <3>2. call[c].cmd = "set" /\ call[c].arg \in 0..source
        BY <1>2, <3>1 DEF CallShape, IsSet
      <3>3. ~overlap /\ IsVersion(val) => val >= acked /\ val = source
        BY <1>3, <3>1, <3>2 DEF Current
      <3> QED
        BY <3>1, <3>2, <3>3, Versions
    <2> QED
      BY <2>1, <2>2
  <1>6. /\ floor' \in [Clients -> 0..source] /\ floor'[c] <= acked'
        /\ \A d \in Clients : d # c => floor'[d] = floor[d]
    BY <1>1, <1>3, <1>5, Versions
  <1> DEFINE k == Returning(r, v)
  <1>7. k \in CallType /\ CallShape(k) /\ k.cmd = "none" /\ k.ret = r /\ k.found = v /\ k.stage = "none"
    BY ReturningType
  <1>8. call' = [call EXCEPT ![c] = k]
    BY <1>4
  <1> HIDE DEF k
  <1>9. /\ k.stage # "done" /\ (k.cmd = "set" => k.arg = source)
        /\ k.ret \in {"hit", "loaded"} => k.found \in 0..source /\ (~overlap => k.found >= floor'[c])
    BY <1>1, <1>4, <1>7
  <1>10. UNCHANGED <<use, val, ttl, source, overlap, sessionVars>>
    BY <1>1
  <1> QED
    BY <1>1, <1>5, <1>6, <1>7, <1>8, <1>9, <1>10, CacheClientStep

\* Redis executes the command of a client.
LEMMA CacheExecuteStep ==
    ASSUME Inv, use = "cache", NEW c \in Clients, Execute(c), UNCHANGED <<use, sessionVars, cacheVars>>
    PROVE  Inv'
  <1>1. UNCHANGED <<made, madeFor, fresh, taken, revived, accepted, claim, left, sure, source, acked, floor, overlap>>
    BY DEF sessionVars, stateVars, tokenVars, cacheVars
  <1>2. /\ Key' /\ Calls' /\ call[c].stage = "sent" /\ late' = late
        /\ \A d \in Clients : /\ call'[d].op = call[d].op /\ call'[d].cmd = call[d].cmd /\ call'[d].arg = call[d].arg
                              /\ call'[d].exp = call[d].exp /\ call'[d].ret = call[d].ret /\ call'[d].found = call[d].found
                              /\ d # c => call'[d] = call[d]
        /\ call'[c].stage = "done" /\ call'[c].reply = val
        /\ call[c].cmd = "set" => val' = call[c].arg
        /\ call[c].cmd \notin {"set", "getdel"} => val' = val
    BY <1>1, ExecuteStep
  <1>3. call[c].cmd # "getdel"
    BY <1>2, CommandOf
  <1>4. Histories'
    BY <1>1 DEF Inv, Histories, SessionTypeOK, CacheTypeOK
  <1>5. \A d \in Clients : /\ floor[d]' <= acked'
                           /\ call[d].ret' \in {"hit", "loaded"} => call[d].found' \in 0..source
    BY <1>1, <1>2 DEF Inv, CacheInv
  <1>6. ASSUME ~overlap PROVE Current'
    <2>1. Current /\ floor[c] <= acked /\ acked \in 0..source /\ source \in Nat /\ floor[c] \in Nat
      BY <1>6, Versions DEF Inv, CacheInv
    <2>2. val' = source \/ val' = val
      BY <1>2, <1>3, <2>1 DEF Current
    <2>3. call[c].cmd = "set" => val' = source
      BY <1>2, <2>1 DEF Current
    <2>4. IsVersion(val') => val' >= acked
      BY <2>1, <2>2 DEF Current
    <2>5. ASSUME NEW d \in Clients
          PROVE  /\ call'[d].cmd = "set" => /\ call'[d].arg = source
                                            /\ call'[d].stage = "done" /\ IsVersion(val') => val' = source
                 /\ call'[d].cmd = "get" /\ call'[d].stage = "done" /\ IsVersion(call'[d].reply) => call'[d].reply >= floor[d]
                 /\ call'[d].ret \in {"hit", "loaded"} => call'[d].found >= floor[d]
      <3>1. CASE d = c
        <4>1. IsVersion(val) => val >= floor[c]
          <5>1. IsVersion(val) => val >= acked /\ val \in 0..source
            BY <2>1, Versions DEF Current, IsVersion
          <5> QED
            BY <2>1, <5>1
        <4> QED
          BY <1>2, <2>1, <2>3, <3>1, <4>1 DEF Current
      <3>2. CASE d # c
        BY <1>2, <2>1, <2>2, <3>2 DEF Current
      <3> QED
        BY <3>1, <3>2
    <2> QED
      BY <1>1, <1>2, <2>1, <2>4, <2>5 DEF Current, IsVersion
  <1>7. CacheInv'
    BY <1>1, <1>5, <1>6 DEF CacheInv
  <1> QED
    BY <1>2, <1>4, <1>7, CacheOnly

\* go-redis sends a command again.
LEMMA CacheResendStep ==
    ASSUME Inv, use = "cache", NEW c \in Clients, Resend(c), UNCHANGED <<use, sessionVars, cacheVars>>
    PROVE  Inv'
  <1>1. UNCHANGED <<made, madeFor, fresh, taken, revived, accepted, claim, left, sure, source, acked, floor, overlap>>
    BY DEF sessionVars, stateVars, tokenVars, cacheVars
  <1>2. /\ Key' /\ Calls' /\ val' = val
        /\ \A d \in Clients : /\ call'[d].op = call[d].op /\ call'[d].cmd = call[d].cmd /\ call'[d].arg = call[d].arg
                              /\ call'[d].ret = call[d].ret /\ call'[d].found = call[d].found
                              /\ d # c => call'[d] = call[d]
        /\ call'[c].stage = "sent"
    BY <1>1, ResendStep
  <1>3. Histories'
    BY <1>1 DEF Inv, Histories, SessionTypeOK, CacheTypeOK
  <1>4. ASSUME ~overlap PROVE Current'
    <2>1. Current
      BY <1>4 DEF Inv, CacheInv
    <2>2. \A m \in late' : m.arg = source
      BY <1>4, CacheAbandonStep DEF Resend
    <2> QED
      BY <1>1, <1>2, <2>1, <2>2 DEF Current, IsVersion
  <1>5. CacheInv'
    BY <1>1, <1>2, <1>4 DEF Inv, CacheInv
  <1> QED
    BY <1>2, <1>3, <1>5, CacheOnly

\* Redis executes a SET that was given up, forgets one, or time passes, or another
\* program stores a value.
LEMMA CacheKeyStep ==
    ASSUME Inv, use = "cache", UNCHANGED <<use, sessionVars, cacheVars>>,
           Expire \/ StoredElsewhere \/ \E m \in late : LateExecute(m) \/ LateLost(m)
    PROVE  Inv'
  <1>1. UNCHANGED <<made, madeFor, fresh, taken, revived, accepted, claim, left, sure, source, acked, floor, overlap>>
    BY DEF sessionVars, stateVars, tokenVars, cacheVars
  <1>2. /\ Key' /\ Calls' /\ call' = call /\ late' \subseteq late
        /\ val' \in {val, NoValue, Undecodable} \/ \E m \in late : val' = m.arg
    <2>1. CASE Expire
      BY <1>1, <2>1, PassingStep DEF Expire
    <2>2. CASE StoredElsewhere
      <3>1. val' = Undecodable /\ ttl' = TTL /\ late' = late /\ call' = call /\ TTL \in Nat /\ Undecodable \in Values
        BY <2>2, CacheAsideAssumption DEF StoredElsewhere
      <3>2. Content' = Content /\ \A r : IsSet(r)' <=> IsSet(r)
        BY <1>1, SameUse
      <3>3. Undecodable \in Content /\ Undecodable # NoValue
        BY <3>1, RedisKeyAssumption DEF Content
      <3>4. Calls'
        BY <1>1, <3>1, SameUse DEF Inv, Calls
      <3>5. Key'
        BY <3>1, <3>2, <3>3 DEF Inv, Key
      <3> QED
        BY <3>1, <3>4, <3>5
    <2>3. ASSUME NEW m \in late, LateExecute(m)
          PROVE  Key' /\ Calls' /\ call' = call /\ late' \subseteq late /\ val' = m.arg
      BY <1>1, <2>3, LateExecuteStep
    <2>4. ASSUME NEW m \in late, LateLost(m)
          PROVE  Key' /\ Calls' /\ call' = call /\ late' \subseteq late /\ val' = val
      BY <1>1, <2>4, PassingStep DEF LateLost
    <2> QED
      BY <2>1, <2>2, <2>3, <2>4
  <1>3. Histories'
    BY <1>1 DEF Inv, Histories, SessionTypeOK, CacheTypeOK
  <1>4. ASSUME ~overlap PROVE Current'
    <2>1. Current /\ acked \in 0..source /\ source \in Nat
      BY <1>4, Versions DEF Inv, CacheInv
    <2>2. val' \in {val, NoValue, Undecodable, source}
      BY <1>2, <2>1 DEF Current
    <2>3. IsVersion(val') => val' >= acked
      BY <2>1, <2>2 DEF Current, IsVersion
    <2>4. \A d \in Clients : call[d].cmd = "set" /\ call[d].stage = "done" /\ IsVersion(val') => val' = source
      BY <2>1, <2>2 DEF Current, IsVersion
    <2> QED
      BY <1>1, <1>2, <2>1, <2>3, <2>4 DEF Current, IsVersion
  <1>5. CacheInv'
    BY <1>1, <1>2, <1>4 DEF Inv, CacheInv
  <1> QED
    BY <1>2, <1>3, <1>5, CacheOnly

\* The source changes: what was current is a version of it still.
LEMMA SourceChangesStep ==
    ASSUME Inv, use = "cache", SourceChanges, UNCHANGED <<use, sessionVars>>
    PROVE  Inv'
  <1>1. /\ UNCHANGED <<made, madeFor, fresh, taken, revived, accepted, claim, left, sure>>
        /\ source' = source + 1 /\ source < MaxVersion /\ UNCHANGED <<val, ttl, late, call, acked, floor>>
        /\ ~overlap' => ~overlap /\ ~Writing
    BY DEF SourceChanges, sessionVars, stateVars, tokenVars, keyVars
  <1>2. source \in Nat /\ 0..source \subseteq 0..source' /\ source' \in 0..MaxVersion
    BY <1>1, Versions
  <1>3. Content \subseteq Content' /\ Rets' = Rets /\ Ops' = Ops /\ \A r : IsSet(r) => IsSet(r)'
    BY <1>1, <1>2 DEF Content, Rets, Ops, IsSet
  <1>4. CallType' = CallType
    BY <1>3 DEF CallType
  <1>5. \A r : CallShape(r) => CallShape(r)'
    BY <1>3 DEF CallShape
  <1>6. Calls'
    BY <1>1, <1>4, <1>5 DEF Inv, Calls
  <1>7. Key'
    BY <1>1, <1>3 DEF Inv, Key
  <1>8. Histories'
    <2>1. CacheTypeOK'
      <3>1. acked \in 0..source' /\ floor \in [Clients -> 0..source']
        BY <1>2, Versions
      <3> QED
        BY <1>1, <1>2, <3>1 DEF CacheTypeOK
    <2> QED
      BY <1>1, <2>1 DEF Inv, Histories, SessionTypeOK
  <1>9. ASSUME ~overlap' PROVE Current'
    <2>1. Current /\ late = {} /\ \A d \in Clients : call[d].cmd # "set"
      BY <1>1, <1>9 DEF Inv, CacheInv, Writing
    <2> QED
      BY <1>1, <2>1 DEF Current, IsVersion
  <1>10. CacheInv'
    BY <1>1, <1>2, <1>9 DEF Inv, CacheInv
  <1> QED
    BY <1>6, <1>7, <1>8, <1>10, CacheOnly

\* Every step on the key of cached JSON preserves the invariant.
LEMMA CacheStep ==
    ASSUME Inv, use = "cache", CacheNext, UNCHANGED <<use, sessionVars>>
    PROVE  Inv'
  <1>1. ASSUME NEW c \in Clients, CacheCall(c)
        PROVE  Inv'
    BY <1>1, CacheReadStep, CacheWriteStep, CacheReturnStep DEF CacheCall
  <1>2. ASSUME NEW c \in Clients, Execute(c) \/ Resend(c), UNCHANGED cacheVars
        PROVE  Inv'
    BY <1>2, CacheExecuteStep, CacheResendStep
  <1>3. ASSUME NEW m \in late, LateExecute(m) \/ LateLost(m), UNCHANGED cacheVars
        PROVE  Inv'
    BY <1>3, CacheKeyStep
  <1>4. CASE Expire /\ UNCHANGED cacheVars
    BY <1>4, CacheKeyStep
  <1>5. CASE StoredElsewhere
    <2>1. UNCHANGED cacheVars
      BY <1>5 DEF StoredElsewhere
    <2> QED
      BY <1>5, <2>1, CacheKeyStep
  <1> QED
    BY <1>1, <1>2, <1>3, <1>4, <1>5, SourceChangesStep DEF CacheNext

-----------------------------------------------------------------------------
(* The theorems *)

\* Every step, and every stuttering step, preserves the invariant.
LEMMA InvStep == Inv /\ [Next]_vars => Inv'
  <1> SUFFICES ASSUME Inv, [Next]_vars PROVE Inv'
    OBVIOUS
  <1>1. CASE Next
    <2>1. use \in {"state", "token", "cache"}
      BY DEF Inv, Histories
    <2> QED
      BY <1>1, <2>1, StateStep, TokenStep, CacheStep DEF Next
  <1>2. CASE UNCHANGED vars
    <2>1. UNCHANGED <<val, ttl, late, call, use, made, madeFor, fresh, taken, revived, accepted, claim, left, sure,
                      source, acked, floor, overlap>>
      BY <1>2 DEF vars, keyVars, sessionVars, stateVars, tokenVars, cacheVars
    <2>2. Key' /\ Calls'
      BY <2>1, PassingStep
    <2>3. Histories'
      BY <2>1 DEF Inv, Histories, SessionTypeOK, CacheTypeOK
    <2>4. StateInv' /\ TokenInv' /\ CacheInv'
      BY <2>1 DEF Inv, StateInv, Making, Once, Kept, Holds, TokenInv, Listed, Seen, CacheInv, Current, IsVersion
    <2> QED
      BY <2>2, <2>3, <2>4 DEF Inv
  <1> QED
    BY <1>1, <1>2

(***************************************************************************)
(* For any number of clients, retries, late commands and ttls, whatever    *)
(* the key is used for: the invariant holds in every reachable state.      *)
(***************************************************************************)
THEOREM Invariance == Spec => []Inv
  BY InvInit, InvStep, PTL DEF Spec

\* The key, the calls of session.go and cache/json.go and the histories are well typed,
\* and a key without value has no expiry.
THEOREM TypeCorrectness == Spec => []TypeOK
  <1>1. Inv => TypeOK
    <2> SUFFICES ASSUME Inv PROVE TypeOK
      OBVIOUS
    <2>1. KeyTypeOK(Ops)
      <3>1. \A c \in Clients : call[c] \in CallType /\ CallShape(call[c])
        BY DEF Inv, Calls
      <3>2. \A c \in Clients : /\ call[c].op \in Ops \cup {"idle"} /\ call[c].tries \in 0..MaxRetries
                               /\ call[c].stage \in {"none", "sent", "done"}
                               /\ call[c].op = "idle" => call[c].stage = "none"
        BY <3>1 DEF CallType, CallShape
      <3> QED
        BY <3>2 DEF Inv, Key, KeyTypeOK
    <2> QED
      BY <2>1 DEF TypeOK, Ops, Inv, Histories
  <1> QED
    BY <1>1, Invariance, PTL

\* VerifyState accepts a state once, whatever competes for it and is sent again, unless a
\* SET was executed after NewState had returned; and for the subject of NewState.
THEOREM AcceptedOnceAlways == Spec => []AcceptedOnce
  <1>1. Inv => AcceptedOnce
    BY DEF Inv, Histories, StateInv, Once, AcceptedOnce, Calls, CallType, Rets
  <1> QED
    BY <1>1, Invariance, PTL

\* VerifyState refuses a state of NewState only when a GETDEL has deleted it or its ttl is over.
THEOREM MismatchAlwaysRight == Spec => []MismatchIsRight
  <1>1. Inv => MismatchIsRight
    BY DEF Inv, Histories, StateInv, Kept, MismatchIsRight, Calls, CallType, Rets
  <1> QED
    BY <1>1, Invariance, PTL

\* IsRevoked sees every revocation that was acknowledged before it began and is not over.
THEOREM RevokedAlwaysSeen == Spec => []RevokedIsSeen
  <1>1. Inv => RevokedIsSeen
    BY DEF Inv, Histories, TokenInv, Seen, RevokedIsSeen, Calls, CallType, Rets
  <1> QED
    BY <1>1, Invariance, PTL

\* GetJSON and RememberJSON return nothing older than what SetJSON had stored before they
\* began, unless the source changed while a SET was under way.
THEOREM ReadsAlwaysFollow == Spec => []ReadsFollowWrites
  <1>1. Inv => ReadsFollowWrites
    BY DEF Inv, Histories, CacheInv, Current, ReadsFollowWrites, Calls, CallType, Rets
  <1> QED
    BY <1>1, Invariance, PTL
=============================================================================
