--------------------------- MODULE RedisLockProofs ---------------------------
(***************************************************************************)
(* Leases of the Redis lock exclude each other, for any number of          *)
(* processes, retries and late commands and for ttls of every length, each  *)
(* call with one of its own.                                               *)
(***************************************************************************)
EXTENDS RedisLock, TLAPS

\* Two processes never have the same token, and a call on Redis has one.
TokenShape ==
    /\ \A p, q \in Procs : tok[p] = tok[q] /\ p # q => tok[p] = NoToken
    /\ \A p \in Procs : pc[p] \in {"try", "refresh", "unlock"} => tok[p] # NoToken
    /\ \A p \in Procs : cmd[p] # "none" => pc[p] \in {"try", "refresh", "unlock"}

\* Unlock ends the claim, an attempt has none yet; what p counts on is never more
\* than the shortest ttl it has refreshed its lock with.
ClaimShape ==
    \A p \in Procs :
        /\ pc[p] = "try" => p \notin gone /\ ttl[p] > 0 /\ left[p] <= Whole(ttl[p]) /\ least[p] = -1
        /\ pc[p] = "refresh" => /\ ttl[p] > 0 /\ 0 <= least[p] /\ least[p] <= Whole(ttl[p])
                                /\ left[p] <= least[p] /\ lease[p] <= left[p]
        /\ pc[p] = "unlock" => p \in gone
        /\ pc[p] = "sleep" => ttl[p] > 0
        /\ p \in gone => lease[p] = 0
        /\ pc[p] \in {"try", "sleep"} => lease[p] = 0
        /\ 0 <= least[p] => lease[p] <= least[p]

\* A late command of a token that is still somebody's cannot hurt the lease.
LateShape ==
    \A m \in late :
        /\ m.kind \in {"try", "refresh"} => m.ttl > 0
        /\ \A p \in Procs : tok[p] = m.tok =>
              /\ m.kind = "unlock" => p \in gone
              /\ m.kind = "refresh" => 0 <= least[p] /\ least[p] <= Whole(m.ttl)

\* Redis keeps the key at least as long as p relies on it.
Backed ==
    \A p \in Procs : lease[p] > 0 => keyTok = tok[p] /\ tok[p] # NoToken /\ keyTTL >= lease[p]

\* So it does for the lease that an answer on its way promises.
Promised ==
    \A p \in Procs :
        /\ pc[p] = "try" /\ cmd[p] = "yes" /\ left[p] > 0 => keyTok = tok[p] /\ keyTTL >= left[p]
        /\ pc[p] = "refresh" /\ cmd[p] = "yes" /\ p \notin gone /\ left[p] > 0 =>
              keyTok = tok[p] /\ keyTTL >= left[p]

\* The inductive invariant.
Inv == TypeOK /\ TokenShape /\ ClaimShape /\ LateShape /\ Backed /\ Promised /\ RefusalIsRight

\* Durations in whole milliseconds are durations.
LEMMA Durations ==
    ASSUME NEW d \in Int
    PROVE  /\ Whole(d) \in Int /\ PExpireTicks(d) = Whole(d)
           /\ SetNXTicks(d) \in Int /\ SetNXTicks(d) >= Whole(d)
           /\ d > 0 => Whole(d) >= 0 /\ SetNXTicks(d) > 0
  <1>1. d % TicksPerMs \in 0..(TicksPerMs - 1)
    BY RedisLockAssumption
  <1>2. d > 0 => d % TicksPerMs <= d
    BY RedisLockAssumption
  <1> QED
    BY <1>1, <1>2, RedisLockAssumption DEF Lost, Whole, PExpireTicks, SetNXTicks

\* A capped ttl is the smaller of the two.
LEMMA CappedFacts ==
    ASSUME NEW b \in Int, NEW d \in Int
    PROVE  /\ Capped(b, d) \in Int /\ Capped(b, d) <= d
           /\ 0 <= b => Capped(b, d) <= b
           /\ 0 <= d => 0 <= Capped(b, d)
  BY DEF Capped

\* The invariant holds before the first call.
LEMMA InvInit == Init => Inv
  BY RedisLockAssumption DEF Init, Inv, TypeOK, TokenShape, ClaimShape, LateShape, Backed, Promised,
     RefusalIsRight

\* A call that sends a SETNX with a new token.
LEMMA AttemptStep ==
    ASSUME Inv, NEW p \in Procs, NEW d \in Int, pc[p] \in {"idle", "sleep"}, Attempt(p, d),
           once' \subseteq Procs, deadline' \in [Procs -> Int], interval' \in [Procs -> Nat]
    PROVE  Inv'
  <1> USE DEF Inv
  <1>1. PICK t \in Tokens : t \notin InUse(p) /\ tok' = [tok EXCEPT ![p] = t]
    BY DEF Attempt
  <1>2. /\ t # keyTok /\ \A q \in Procs \ {p} : t # tok[q]
        /\ \A m \in late : t # m.tok
    BY <1>1 DEF InUse
  <1>a. d > 0 /\ Whole(d) \in Nat
    BY Durations DEF Attempt
  <1>3. TypeOK'
    <2>1. keyTok' \in Tokens \cup {NoToken} /\ keyTTL' \in Nat /\ late' \subseteq Command
      BY <1>1, <1>a, RedisLockAssumption DEF Attempt, Send, TypeOK
    <2>2. pc' \in [Procs -> {"idle", "try", "sleep", "refresh", "unlock"}]
      BY <1>1, <1>a, RedisLockAssumption DEF Attempt, Send, TypeOK
    <2>3. tok' \in [Procs -> Tokens \cup {NoToken}]
      BY <1>1, <1>a, RedisLockAssumption DEF Attempt, Send, TypeOK
    <2>4. cmd' \in [Procs -> {"none", "sent", "yes", "no"}] /\ retries' \in [Procs -> Nat]
      BY <1>1, <1>a, RedisLockAssumption DEF Attempt, Send, TypeOK
    <2>5. /\ ctx' \in [Procs -> {"live", "done"}] /\ once' \subseteq Procs
          /\ deadline' \in [Procs -> Int] /\ timer' \in [Procs -> Nat]
      BY <1>1, <1>a, RedisLockAssumption DEF Attempt, Send, TypeOK
    <2>6. gone' \subseteq Procs /\ left' \in [Procs -> Nat] /\ lease' \in [Procs -> Nat]
      BY <1>1, <1>a, RedisLockAssumption DEF Attempt, Send, TypeOK
    <2>7. ttl' \in [Procs -> Int] /\ interval' \in [Procs -> Nat] /\ least' \in [Procs -> Int]
      <3>1. ttl' = [ttl EXCEPT ![p] = d] /\ least' = [least EXCEPT ![p] = -1]
        BY DEF Attempt, Send
      <3> QED
        BY <3>1 DEF TypeOK
    <2> QED
      BY <2>1, <2>2, <2>3, <2>4, <2>5, <2>6, <2>7 DEF TypeOK
  <1>4. TokenShape'
    BY <1>1, <1>2, RedisLockAssumption DEF Attempt, Send, TypeOK, TokenShape
  <1>5. ClaimShape'
    BY <1>1, <1>a, RedisLockAssumption DEF Attempt, Send, TypeOK, ClaimShape
  <1>6. LateShape'
    BY <1>1, <1>2 DEF Attempt, Send, TypeOK, LateShape
  <1>7. Backed' /\ RefusalIsRight'
    BY <1>1, <1>2 DEF Attempt, Send, TypeOK, Backed, RefusalIsRight
  <1>8. Promised'
    BY <1>1, <1>2 DEF Attempt, Send, TypeOK, Promised
  <1> QED
    BY <1>3, <1>4, <1>5, <1>6, <1>7, <1>8

\* Refresh starts, with a ttl of its own: what p counts on can only become less.
LEMMA RefreshCallStep ==
    ASSUME Inv, NEW p \in Procs, NEW d \in Int, Refresh(p, d)
    PROVE  Inv'
  <1> USE DEF Inv, Refresh, Send, TypeOK
  <1> DEFINE b == Capped(least[p], PExpireTicks(d))
             c == Capped(PExpireTicks(d), lease[p])
  <1>1. d > 0 /\ Whole(d) \in Nat /\ PExpireTicks(d) = Whole(d)
    BY Durations
  <1>2. least[p] \in Int /\ lease[p] \in Nat /\ (0 <= least[p] => lease[p] <= least[p])
    BY DEF ClaimShape
  <1>3. /\ b \in Nat /\ b <= Whole(d) /\ (0 <= least[p] => b <= least[p])
        /\ c \in Nat /\ c <= Whole(d) /\ c <= lease[p] /\ c <= b
    BY <1>1, <1>2 DEF Capped
  <1>4. /\ least' = [least EXCEPT ![p] = b] /\ left' = [left EXCEPT ![p] = b]
        /\ lease' = [lease EXCEPT ![p] = c] /\ ttl' = [ttl EXCEPT ![p] = d]
        /\ pc' = [pc EXCEPT ![p] = "refresh"] /\ cmd' = [cmd EXCEPT ![p] = "sent"]
        /\ retries' = [retries EXCEPT ![p] = MaxRetries] /\ pc[p] = "idle" /\ tok[p] # NoToken
        /\ UNCHANGED <<keyTok, keyTTL, late, tok, ctx, interval, once, deadline, timer, gone>>
    OBVIOUS
  <1> HIDE DEF b, c, Refresh, Send
  <1>5. TypeOK'
    <2>1. keyTok' \in Tokens \cup {NoToken} /\ keyTTL' \in Nat /\ late' \subseteq Command
      BY <1>3, <1>4, RedisLockAssumption
    <2>2. pc' \in [Procs -> {"idle", "try", "sleep", "refresh", "unlock"}]
      BY <1>3, <1>4, RedisLockAssumption
    <2>3. tok' \in [Procs -> Tokens \cup {NoToken}]
      BY <1>3, <1>4, RedisLockAssumption
    <2>4. cmd' \in [Procs -> {"none", "sent", "yes", "no"}] /\ retries' \in [Procs -> Nat]
      BY <1>3, <1>4, RedisLockAssumption
    <2>5. /\ ctx' \in [Procs -> {"live", "done"}] /\ once' \subseteq Procs
          /\ deadline' \in [Procs -> Int] /\ timer' \in [Procs -> Nat]
      BY <1>3, <1>4, RedisLockAssumption
    <2>6. gone' \subseteq Procs /\ left' \in [Procs -> Nat] /\ lease' \in [Procs -> Nat]
      BY <1>3, <1>4, RedisLockAssumption
    <2>7. ttl' \in [Procs -> Int] /\ interval' \in [Procs -> Nat] /\ least' \in [Procs -> Int]
      BY <1>3, <1>4, RedisLockAssumption
    <2> QED
      BY <2>1, <2>2, <2>3, <2>4, <2>5, <2>6, <2>7 DEF TypeOK
  <1>6. TokenShape'
    BY <1>4 DEF TokenShape
  <1>7. ClaimShape'
    BY <1>1, <1>3, <1>4 DEF ClaimShape
  <1>8. LateShape'
    <2>1. \A m \in late : Whole(m.ttl) \in Int
      BY Durations DEF Command
    <2> QED
      BY <1>2, <1>3, <1>4, <2>1 DEF LateShape
  <1>9. Backed' /\ RefusalIsRight'
    BY <1>2, <1>3, <1>4 DEF Backed, RefusalIsRight
  <1>10. Promised'
    BY <1>4 DEF Promised
  <1> QED
    BY <1>5, <1>6, <1>7, <1>8, <1>9, <1>10

\* Unlock starts.
LEMMA UnlockCallStep ==
    ASSUME Inv, NEW p \in Procs, Unlock(p)
    PROVE  Inv'
  <1> USE DEF Inv, Unlock, Send, TypeOK
  <1>3. TypeOK'
    <2>1. keyTok' \in Tokens \cup {NoToken} /\ keyTTL' \in Nat /\ late' \subseteq Command
      BY RedisLockAssumption
    <2>2. pc' \in [Procs -> {"idle", "try", "sleep", "refresh", "unlock"}]
      BY RedisLockAssumption
    <2>3. tok' \in [Procs -> Tokens \cup {NoToken}]
      BY RedisLockAssumption
    <2>4. cmd' \in [Procs -> {"none", "sent", "yes", "no"}] /\ retries' \in [Procs -> Nat]
      BY RedisLockAssumption
    <2>5. /\ ctx' \in [Procs -> {"live", "done"}] /\ once' \subseteq Procs
          /\ deadline' \in [Procs -> Int] /\ timer' \in [Procs -> Nat]
      BY RedisLockAssumption
    <2>6. gone' \subseteq Procs /\ left' \in [Procs -> Nat] /\ lease' \in [Procs -> Nat]
      BY RedisLockAssumption
    <2>7. ttl' \in [Procs -> Int] /\ interval' \in [Procs -> Nat] /\ least' \in [Procs -> Int]
      BY RedisLockAssumption
    <2> QED
      BY <2>1, <2>2, <2>3, <2>4, <2>5, <2>6, <2>7 DEF TypeOK
  <1>4. TokenShape'
    BY DEF TokenShape
  <1>5. ClaimShape'
    BY RedisLockAssumption DEF ClaimShape
  <1>6. LateShape'
    BY DEF LateShape
  <1>7. Backed' /\ RefusalIsRight'
    BY DEF Backed, RefusalIsRight
  <1>8. Promised'
    BY DEF Promised
  <1> QED
    BY <1>3, <1>4, <1>5, <1>6, <1>7, <1>8

\* An answer arrives, or none will, and the call returns.
LEMMA ReturnStep ==
    ASSUME Inv, NEW p \in Procs,
           Acquired(p) \/ Refused(p) \/ Sleep(p) \/ SleepCancelled(p) \/ Refreshed(p) \/ Unlocked(p)
    PROVE  Inv'
  <1> USE DEF Inv, Acquired, Refused, Sleep, SleepCancelled, Refreshed, Unlocked, Return, NoLock,
              TypeOK
  <1>3. TypeOK'
    <2>1. keyTok' \in Tokens \cup {NoToken} /\ keyTTL' \in Nat /\ late' \subseteq Command
      BY RedisLockAssumption
    <2>2. pc' \in [Procs -> {"idle", "try", "sleep", "refresh", "unlock"}]
      BY RedisLockAssumption
    <2>3. tok' \in [Procs -> Tokens \cup {NoToken}]
      BY RedisLockAssumption
    <2>4. cmd' \in [Procs -> {"none", "sent", "yes", "no"}] /\ retries' \in [Procs -> Nat]
      BY RedisLockAssumption
    <2>5. /\ ctx' \in [Procs -> {"live", "done"}] /\ once' \subseteq Procs
          /\ deadline' \in [Procs -> Int] /\ timer' \in [Procs -> Nat]
      BY RedisLockAssumption
    <2>6. gone' \subseteq Procs /\ left' \in [Procs -> Nat] /\ lease' \in [Procs -> Nat]
      BY RedisLockAssumption
    <2>7. ttl' \in [Procs -> Int] /\ interval' \in [Procs -> Nat] /\ least' \in [Procs -> Int]
      BY RedisLockAssumption
    <2> QED
      BY <2>1, <2>2, <2>3, <2>4, <2>5, <2>6, <2>7 DEF TypeOK
  <1>4. TokenShape'
    BY DEF TokenShape
  <1>5. ClaimShape'
    BY DEF ClaimShape
  <1>6. LateShape'
    <2>1. \A m \in late : m.tok # NoToken
      BY RedisLockAssumption DEF Command
    <2>2. CASE Refused(p) \/ Sleep(p)
      BY <2>1, <2>2 DEF LateShape
    <2>3. CASE Acquired(p) \/ Refreshed(p) \/ SleepCancelled(p) \/ Unlocked(p)
      BY <2>3 DEF LateShape
    <2> QED
      BY <2>2, <2>3
  <1>7. Backed'
    <2>1. CASE Acquired(p) \/ Refreshed(p)
      <3>1. tok[p] # NoToken /\ \A q \in Procs \ {p} : lease'[q] = lease[q]
        BY <2>1 DEF TokenShape
      <3>2. lease'[p] > 0 => keyTok = tok[p] /\ keyTTL >= lease'[p]
        BY <2>1 DEF Promised
      <3> QED
        BY <2>1, <3>1, <3>2 DEF Backed
    <2>2. CASE Refused(p) \/ Sleep(p)
      <3>1. lease[p] = 0
        BY <2>2 DEF ClaimShape
      <3> QED
        BY <2>2, <3>1 DEF Backed
    <2>3. CASE SleepCancelled(p) \/ Unlocked(p)
      BY <2>3 DEF Backed
    <2> QED
      BY <2>1, <2>2, <2>3
  <1>8. Promised' /\ RefusalIsRight'
    BY DEF Promised, RefusalIsRight
  <1> QED
    BY <1>3, <1>4, <1>5, <1>6, <1>7, <1>8

\* The connection fails.
LEMMA FailureStep ==
    ASSUME Inv, NEW p \in Procs, RedisRetry(p) \/ CommandFails(p)
    PROVE  Inv'
  <1> USE DEF Inv, RedisRetry, CommandFails, Return, NoLock, TypeOK
  <1>1. \A m \in late' : m \in late \/ m = [kind |-> pc[p], tok |-> tok[p], ttl |-> ttl[p]]
    BY DEF Abandon
  <1>2. [kind |-> pc[p], tok |-> tok[p], ttl |-> ttl[p]] \in Command
    BY DEF TokenShape, Command
  <1>3. TypeOK'
    <2>1. keyTok' \in Tokens \cup {NoToken} /\ keyTTL' \in Nat /\ late' \subseteq Command
      BY <1>1, <1>2, RedisLockAssumption
    <2>2. pc' \in [Procs -> {"idle", "try", "sleep", "refresh", "unlock"}]
      BY <1>1, <1>2, RedisLockAssumption
    <2>3. tok' \in [Procs -> Tokens \cup {NoToken}]
      BY <1>1, <1>2, RedisLockAssumption
    <2>4. cmd' \in [Procs -> {"none", "sent", "yes", "no"}] /\ retries' \in [Procs -> Nat]
      BY <1>1, <1>2, RedisLockAssumption
    <2>5. /\ ctx' \in [Procs -> {"live", "done"}] /\ once' \subseteq Procs
          /\ deadline' \in [Procs -> Int] /\ timer' \in [Procs -> Nat]
      BY <1>1, <1>2, RedisLockAssumption
    <2>6. gone' \subseteq Procs /\ left' \in [Procs -> Nat] /\ lease' \in [Procs -> Nat]
      BY <1>1, <1>2, RedisLockAssumption
    <2>7. ttl' \in [Procs -> Int] /\ interval' \in [Procs -> Nat] /\ least' \in [Procs -> Int]
      BY <1>1, <1>2, RedisLockAssumption
    <2> QED
      BY <2>1, <2>2, <2>3, <2>4, <2>5, <2>6, <2>7 DEF TypeOK
  <1>4. TokenShape'
    <2>1. CASE RedisRetry(p)
      BY <2>1 DEF TokenShape
    <2>2. CASE CommandFails(p) /\ pc[p] = "try"
      <3>1. /\ tok' = [tok EXCEPT ![p] = NoToken] /\ pc' = [pc EXCEPT ![p] = "idle"]
            /\ cmd' = [cmd EXCEPT ![p] = "none"]
        BY <2>2
      <3> QED
        BY <3>1 DEF TokenShape
    <2>3. CASE CommandFails(p) /\ pc[p] # "try"
      BY <2>3 DEF TokenShape
    <2> QED
      BY <2>1, <2>2, <2>3
  <1>5. ClaimShape'
    BY DEF ClaimShape
  <1>6. LateShape'
    <2> DEFINE n == [kind |-> pc[p], tok |-> tok[p], ttl |-> ttl[p]]
    <2>1. \A m \in late : m.tok # NoToken
      BY RedisLockAssumption DEF Command
    <2>2. /\ \A q \in Procs \ {p} : /\ tok'[q] = tok[q] /\ least'[q] = least[q]
                                    /\ (q \in gone <=> q \in gone')
          /\ (tok'[p] = NoToken \/ (tok'[p] = tok[p] /\ gone' = gone /\ least'[p] = least[p]))
      <3>1. CASE RedisRetry(p)
        BY <3>1
      <3>2. CASE CommandFails(p) /\ pc[p] = "try"
        <4>1. /\ tok' = [tok EXCEPT ![p] = NoToken] /\ gone' = gone \ {p}
              /\ least' = [least EXCEPT ![p] = -1]
          BY <3>2
        <4>2. tok'[p] = NoToken
          BY <4>1
        <4>3. \A q \in Procs \ {p} : tok'[q] = tok[q] /\ least'[q] = least[q]
          BY <4>1
        <4>4. \A q \in Procs \ {p} : q \in gone <=> q \in gone'
          BY <4>1
        <4> QED
          BY <4>2, <4>3, <4>4
      <3>3. CASE CommandFails(p) /\ pc[p] # "try"
        BY <3>3
      <3> QED
        BY <3>1, <3>2, <3>3
    <2>3. ASSUME NEW m \in late
          PROVE  /\ m.kind \in {"try", "refresh"} => m.ttl > 0
                 /\ \A q \in Procs : tok'[q] = m.tok =>
                       /\ m.kind = "unlock" => q \in gone'
                       /\ m.kind = "refresh" => 0 <= least'[q] /\ least'[q] <= Whole(m.ttl)
      BY <2>1, <2>2 DEF LateShape
    <2>4. /\ n.kind \in {"try", "refresh"} => n.ttl > 0
          /\ \A q \in Procs : tok'[q] = n.tok =>
                /\ n.kind = "unlock" => q \in gone'
                /\ n.kind = "refresh" => 0 <= least'[q] /\ least'[q] <= Whole(n.ttl)
      <3>1. tok[p] # NoToken /\ \A q \in Procs : tok[q] = tok[p] => q = p
        BY DEF TokenShape
      <3>2. \A q \in Procs : tok'[q] = tok[p] => q = p /\ gone' = gone /\ least'[p] = least[p]
        BY <2>2, <3>1
      <3>3. n.kind = pc[p] /\ n.tok = tok[p] /\ n.ttl = ttl[p]
        OBVIOUS
      <3> HIDE DEF n
      <3> QED
        BY <3>2, <3>3 DEF ClaimShape
    <2> HIDE DEF n
    <2>5. \A m \in late' : m \in late \/ m = n
      BY <1>1 DEF n
    <2> QED
      BY <2>3, <2>4, <2>5 DEF LateShape
  <1>7. Backed'
    BY DEF Backed, ClaimShape
  <1>8. Promised' /\ RefusalIsRight'
    BY DEF Promised, RefusalIsRight
  <1> QED
    BY <1>3, <1>4, <1>5, <1>6, <1>7, <1>8

\* What a command does to the key.
LEMMA ExecuteFacts ==
    ASSUME NEW kind \in {"try", "refresh", "unlock"}, NEW t \in Tokens, NEW d \in Int, Execute(kind, t, d)
    PROVE  \/ keyTok' = keyTok /\ keyTTL' = keyTTL
           \/ kind = "try" /\ keyTok = NoToken /\ keyTok' = t /\ keyTTL' = SetNXTicks(d)
           \/ kind = "refresh" /\ keyTok = t /\ keyTok' = t /\ keyTTL' = Whole(d)
           \/ kind = "refresh" /\ keyTok = t /\ Whole(d) = 0 /\ keyTok' = NoToken /\ keyTTL' = 0
           \/ kind = "unlock" /\ keyTok = t /\ keyTok' = NoToken /\ keyTTL' = 0
  BY DEF Execute, PExpireTicks

\* Redis executes a command of a call that waits for it.
LEMMA ExecStep ==
    ASSUME Inv, NEW p \in Procs, RedisExec(p)
    PROVE  Inv'
  <1>a. TypeOK /\ TokenShape /\ ClaimShape /\ LateShape /\ Backed /\ Promised /\ RefusalIsRight
    BY DEF Inv
  <1>b. /\ cmd[p] = "sent" /\ cmd' = [cmd EXCEPT ![p] = ReplyTo(pc[p], tok[p])]
        /\ UNCHANGED <<late, pc, tok, retries, ctx, ttl, interval, once, deadline, timer, gone, least, left, lease>>
    BY DEF RedisExec
  <1>1. pc[p] \in {"try", "refresh", "unlock"} /\ tok[p] \in Tokens /\ tok[p] # NoToken /\ ttl[p] \in Int
    BY <1>a, <1>b DEF TokenShape, TypeOK
  <1>2. \/ keyTok' = keyTok /\ keyTTL' = keyTTL
        \/ pc[p] = "try" /\ keyTok = NoToken /\ keyTok' = tok[p] /\ keyTTL' = SetNXTicks(ttl[p])
        \/ pc[p] = "refresh" /\ keyTok = tok[p] /\ keyTok' = tok[p] /\ keyTTL' = Whole(ttl[p])
        \/ pc[p] = "refresh" /\ keyTok = tok[p] /\ Whole(ttl[p]) = 0 /\ keyTok' = NoToken /\ keyTTL' = 0
        \/ pc[p] = "unlock" /\ keyTok = tok[p] /\ keyTok' = NoToken /\ keyTTL' = 0
    BY <1>1, ExecuteFacts DEF RedisExec
  <1>c. /\ pc[p] = "try" => ttl[p] > 0 /\ left[p] <= Whole(ttl[p])
        /\ pc[p] = "refresh" => /\ ttl[p] > 0 /\ 0 <= least[p] /\ least[p] <= Whole(ttl[p])
                                /\ left[p] <= least[p] /\ lease[p] <= left[p]
        /\ pc[p] \in {"try", "unlock"} => lease[p] = 0
    BY <1>a DEF ClaimShape
  <1>d. /\ keyTTL \in Nat /\ \A q \in Procs : left[q] \in Nat /\ lease[q] \in Nat /\ least[q] \in Int
        /\ cmd'[p] \in {"yes", "no"} /\ \A q \in Procs \ {p} : cmd'[q] = cmd[q]
    BY <1>a, <1>b DEF TypeOK, ReplyTo
  <1>e. \A q \in Procs \ {p} : tok[q] # tok[p]
    BY <1>a, <1>1 DEF TokenShape
  <1>f. /\ Whole(ttl[p]) \in Int /\ SetNXTicks(ttl[p]) \in Int /\ SetNXTicks(ttl[p]) >= Whole(ttl[p])
        /\ ttl[p] > 0 => Whole(ttl[p]) >= 0 /\ SetNXTicks(ttl[p]) > 0
    BY <1>1, Durations
  <1>3. TypeOK'
    <2>1. keyTok' \in Tokens \cup {NoToken}
      BY <1>a, <1>1, <1>2 DEF TypeOK
    <2>2. keyTTL' \in Nat
      BY <1>c, <1>d, <1>f, <1>2
    <2>3. cmd' \in [Procs -> {"none", "sent", "yes", "no"}]
      BY <1>a, <1>b DEF TypeOK, ReplyTo
    <2> QED
      BY <1>a, <1>b, <2>1, <2>2, <2>3 DEF TypeOK
  <1>4. TokenShape'
    BY <1>a, <1>b, <1>d, <1>1 DEF TokenShape
  <1>5. ClaimShape'
    BY <1>a, <1>b DEF ClaimShape
  <1>6. LateShape'
    BY <1>a, <1>b DEF LateShape
  <1>7. Backed'
    <2> SUFFICES ASSUME NEW q \in Procs, lease[q] > 0
                 PROVE  keyTok' = tok[q] /\ tok[q] # NoToken /\ keyTTL' >= lease[q]
      BY <1>b DEF Backed
    <2>1. keyTok = tok[q] /\ tok[q] # NoToken /\ keyTTL >= lease[q]
      BY <1>a DEF Backed
    <2>2. CASE q = p
      BY <1>c, <1>d, <1>f, <1>2, <2>1, <2>2
    <2>3. CASE q # p
      BY <1>e, <1>2, <2>1, <2>3
    <2> QED
      BY <2>2, <2>3
  <1>8. Promised'
    <2>1. ASSUME NEW q \in Procs \ {p}
          PROVE  /\ pc[q] = "try" /\ cmd[q] = "yes" /\ left[q] > 0 => keyTok' = tok[q] /\ keyTTL' >= left[q]
                 /\ pc[q] = "refresh" /\ cmd[q] = "yes" /\ q \notin gone /\ left[q] > 0 =>
                       keyTok' = tok[q] /\ keyTTL' >= left[q]
      <3>1. pc[q] \in {"try", "refresh"} => tok[q] # NoToken /\ tok[q] # tok[p]
        BY <1>a, <1>e DEF TokenShape
      <3> QED
        BY <1>a, <1>2, <3>1 DEF Promised
    <2>2. cmd'[p] = "yes" /\ pc[p] = "try" => keyTok' = tok[p] /\ keyTTL' = SetNXTicks(ttl[p])
      BY <1>b, <1>1, <1>2 DEF TypeOK, ReplyTo, Execute, RedisExec
    <2>3. cmd'[p] = "yes" /\ pc[p] = "refresh" =>
             \/ keyTok' = tok[p] /\ keyTTL' = Whole(ttl[p])
             \/ Whole(ttl[p]) = 0
      BY <1>a, <1>b, <1>1 DEF TypeOK, ReplyTo, Execute, RedisExec, PExpireTicks
    <2>4. /\ pc[p] = "try" /\ cmd'[p] = "yes" /\ left[p] > 0 => keyTok' = tok[p] /\ keyTTL' >= left[p]
          /\ pc[p] = "refresh" /\ cmd'[p] = "yes" /\ p \notin gone /\ left[p] > 0 =>
                keyTok' = tok[p] /\ keyTTL' >= left[p]
      BY <1>c, <1>d, <1>f, <2>2, <2>3
    <2> QED
      BY <1>b, <1>d, <2>1, <2>4 DEF Promised
  <1>9. RefusalIsRight'
    <2>1. cmd'[p] = "no" /\ pc[p] = "refresh" => lease[p] = 0
      <3>1. cmd'[p] = "no" /\ pc[p] = "refresh" => keyTok # tok[p]
        BY <1>a, <1>b DEF TypeOK, ReplyTo
      <3> QED
        BY <1>a, <1>d, <3>1 DEF Backed
    <2> QED
      BY <1>a, <1>b, <1>d, <2>1 DEF RefusalIsRight
  <1> QED
    BY <1>3, <1>4, <1>5, <1>6, <1>7, <1>8, <1>9 DEF Inv

\* Redis executes a command that nobody waits for.
LEMMA LateStep ==
    ASSUME Inv, NEW m \in late, LateExec(m) \/ LateLost(m)
    PROVE  Inv'
  <1>a. TypeOK /\ TokenShape /\ ClaimShape /\ LateShape /\ Backed /\ Promised /\ RefusalIsRight
    BY DEF Inv
  <1>b. /\ late' = late \ {m}
        /\ UNCHANGED <<pc, tok, cmd, retries, ctx, ttl, interval, once, deadline, timer, gone, least, left, lease>>
    BY DEF LateExec, LateLost
  <1>1. m.kind \in {"try", "refresh", "unlock"} /\ m.tok \in Tokens /\ m.tok # NoToken /\ m.ttl \in Int
    BY <1>a, RedisLockAssumption DEF TypeOK, Command
  <1>2. \/ keyTok' = keyTok /\ keyTTL' = keyTTL
        \/ m.kind = "try" /\ keyTok = NoToken /\ keyTok' = m.tok /\ keyTTL' = SetNXTicks(m.ttl)
        \/ m.kind = "refresh" /\ keyTok = m.tok /\ keyTok' = m.tok /\ keyTTL' = Whole(m.ttl)
        \/ m.kind = "refresh" /\ keyTok = m.tok /\ Whole(m.ttl) = 0 /\ keyTok' = NoToken /\ keyTTL' = 0
        \/ m.kind = "unlock" /\ keyTok = m.tok /\ keyTok' = NoToken /\ keyTTL' = 0
    BY <1>1, ExecuteFacts DEF LateExec, LateLost
  <1>c. /\ m.kind \in {"try", "refresh"} => m.ttl > 0
        /\ \A q \in Procs : tok[q] = m.tok =>
              /\ m.kind = "unlock" => q \in gone
              /\ m.kind = "refresh" => 0 <= least[q] /\ least[q] <= Whole(m.ttl)
    BY <1>a DEF LateShape
  <1>d. keyTTL \in Nat /\ \A q \in Procs : left[q] \in Nat /\ lease[q] \in Nat /\ least[q] \in Int
    BY <1>a DEF TypeOK
  <1>f. /\ Whole(m.ttl) \in Int /\ SetNXTicks(m.ttl) \in Int
        /\ m.ttl > 0 => Whole(m.ttl) >= 0 /\ SetNXTicks(m.ttl) > 0
    BY <1>1, Durations
  <1>3. TypeOK'
    <2>1. keyTok' \in Tokens \cup {NoToken} /\ late' \subseteq Command
      BY <1>a, <1>b, <1>1, <1>2 DEF TypeOK
    <2>2. keyTTL' \in Nat
      BY <1>c, <1>d, <1>f, <1>2
    <2> QED
      BY <1>a, <1>b, <2>1, <2>2 DEF TypeOK
  <1>4. TokenShape'
    BY <1>a, <1>b DEF TokenShape
  <1>5. ClaimShape'
    BY <1>a, <1>b DEF ClaimShape
  <1>6. LateShape'
    BY <1>a, <1>b DEF LateShape
  <1>7. Backed'
    <2> SUFFICES ASSUME NEW q \in Procs, lease[q] > 0
                 PROVE  keyTok' = tok[q] /\ tok[q] # NoToken /\ keyTTL' >= lease[q]
      BY <1>b DEF Backed
    <2>1. /\ keyTok = tok[q] /\ tok[q] # NoToken /\ keyTTL >= lease[q] /\ q \notin gone
          /\ 0 <= least[q] => lease[q] <= least[q]
      BY <1>a, <1>d DEF Backed, ClaimShape
    <2> QED
      BY <1>c, <1>d, <1>f, <1>2, <2>1
  <1>8. Promised'
    <2> SUFFICES ASSUME NEW q \in Procs
                 PROVE  /\ pc[q] = "try" /\ cmd[q] = "yes" /\ left[q] > 0 => keyTok' = tok[q] /\ keyTTL' >= left[q]
                        /\ pc[q] = "refresh" /\ cmd[q] = "yes" /\ q \notin gone /\ left[q] > 0 =>
                              keyTok' = tok[q] /\ keyTTL' >= left[q]
      BY <1>b DEF Promised
    <2>1. /\ pc[q] = "try" /\ cmd[q] = "yes" /\ left[q] > 0 => keyTok = tok[q] /\ keyTTL >= left[q]
          /\ pc[q] = "refresh" /\ cmd[q] = "yes" /\ q \notin gone /\ left[q] > 0 =>
                keyTok = tok[q] /\ keyTTL >= left[q]
      BY <1>a DEF Promised
    <2>2. pc[q] \in {"try", "refresh"} => tok[q] # NoToken
      BY <1>a DEF TokenShape
    <2>3. /\ pc[q] = "try" => q \notin gone /\ least[q] = -1
          /\ pc[q] = "refresh" => left[q] <= least[q]
      BY <1>a DEF ClaimShape
    <2> QED
      BY <1>c, <1>d, <1>f, <1>2, <2>1, <2>2, <2>3
  <1>9. RefusalIsRight'
    BY <1>a, <1>b DEF RefusalIsRight
  <1> QED
    BY <1>3, <1>4, <1>5, <1>6, <1>7, <1>8, <1>9 DEF Inv

\* Time passes: the lease runs down no slower than the key.
LEMMA TickStep ==
    ASSUME Inv, Tick
    PROVE  Inv'
  <1> USE DEF Inv, Tick, Less, TypeOK
  <1>3. TypeOK'
    <2>1. keyTok' \in Tokens \cup {NoToken} /\ keyTTL' \in Nat /\ late' \subseteq Command
      BY RedisLockAssumption
    <2>2. pc' \in [Procs -> {"idle", "try", "sleep", "refresh", "unlock"}]
      BY RedisLockAssumption
    <2>3. tok' \in [Procs -> Tokens \cup {NoToken}]
      BY RedisLockAssumption
    <2>4. cmd' \in [Procs -> {"none", "sent", "yes", "no"}] /\ retries' \in [Procs -> Nat]
      BY RedisLockAssumption
    <2>5. /\ ctx' \in [Procs -> {"live", "done"}] /\ once' \subseteq Procs
          /\ deadline' \in [Procs -> Int] /\ timer' \in [Procs -> Nat]
      BY RedisLockAssumption
    <2>6. gone' \subseteq Procs /\ left' \in [Procs -> Nat] /\ lease' \in [Procs -> Nat]
      BY RedisLockAssumption
    <2>7. ttl' \in [Procs -> Int] /\ interval' \in [Procs -> Nat] /\ least' \in [Procs -> Int]
      BY RedisLockAssumption
    <2> QED
      BY <2>1, <2>2, <2>3, <2>4, <2>5, <2>6, <2>7 DEF TypeOK
  <1>4. TokenShape'
    BY DEF TokenShape
  <1>5. ClaimShape'
    <2>1. \A p \in Procs : /\ left[p] \in Nat /\ lease[p] \in Nat /\ least[p] \in Int /\ ttl[p] \in Int
                           /\ left'[p] \in Nat /\ lease'[p] \in Nat
                           /\ left'[p] <= left[p] /\ lease'[p] <= lease[p]
                           /\ lease[p] <= left[p] => lease'[p] <= left'[p]
      OBVIOUS
    <2>2. pc' = pc /\ gone' = gone /\ ttl' = ttl /\ least' = least
      OBVIOUS
    <2>3. \A p \in Procs : Whole(ttl[p]) \in Int
      BY Durations
    <2> QED
      BY <2>1, <2>2, <2>3, RedisLockAssumption DEF ClaimShape
  <1>6. LateShape'
    BY DEF LateShape
  <1>7. Backed'
    BY DEF Backed
  <1>8. Promised'
    BY DEF Promised
  <1>9. RefusalIsRight'
    BY DEF RefusalIsRight
  <1> QED
    BY <1>3, <1>4, <1>5, <1>6, <1>7, <1>8, <1>9

\* Every step preserves the invariant.
LEMMA InvStep == Inv /\ [Next]_vars => Inv'
  <1> SUFFICES ASSUME Inv, [Next]_vars PROVE Inv'
    OBVIOUS
  <1>1. ASSUME NEW p \in Procs, NEW d \in TTLs, TryLock(p, d)
        PROVE  Inv'
    <2>1. d \in Int /\ once' \subseteq Procs /\ deadline' \in [Procs -> Int] /\ interval' \in [Procs -> Nat]
      BY <1>1, RedisLockAssumption DEF TryLock, Inv, TypeOK
    <2> QED
      BY <1>1, <2>1, AttemptStep DEF TryLock
  <1>2. ASSUME NEW p \in Procs, NEW d \in TTLs, NEW w \in Waits, NEW i \in Intervals, LockWithWait(p, d, w, i)
        PROVE  Inv'
    <2>1. d \in Int /\ once' \subseteq Procs /\ deadline' \in [Procs -> Int] /\ interval' \in [Procs -> Nat]
      BY <1>2, RedisLockAssumption DEF LockWithWait, Inv, TypeOK
    <2> QED
      BY <1>2, <2>1, AttemptStep DEF LockWithWait
  <1>3. ASSUME NEW p \in Procs, WakeUp(p)
        PROVE  Inv'
    <2>1. ttl[p] \in Int /\ once' \subseteq Procs /\ deadline' \in [Procs -> Int] /\ interval' \in [Procs -> Nat]
      BY <1>3 DEF WakeUp, Inv, TypeOK
    <2> QED
      BY <1>3, <2>1, AttemptStep DEF WakeUp
  <1>4. ASSUME NEW p \in Procs, NEW d \in TTLs, Refresh(p, d)
        PROVE  Inv'
    BY <1>4, RefreshCallStep, RedisLockAssumption
  <1>5. ASSUME NEW p \in Procs, Cancel(p)
        PROVE  Inv'
    BY <1>5 DEF Cancel, Inv, TypeOK, TokenShape, ClaimShape, LateShape, Backed, Promised, RefusalIsRight
  <1>6. ASSUME UNCHANGED vars
        PROVE  Inv'
    BY <1>6 DEF vars, Inv, TypeOK, TokenShape, ClaimShape, LateShape, Backed, Promised, RefusalIsRight
  <1> QED
    BY <1>1, <1>2, <1>3, <1>4, <1>5, <1>6, UnlockCallStep, ReturnStep, FailureStep, ExecStep, LateStep, TickStep
       DEF Next, Call, Progress

\* It holds throughout every behaviour.
THEOREM Invariance == Spec => []Inv
  <1>1. Init => Inv
    BY InvInit
  <1>2. Inv /\ [Next]_vars => Inv'
    BY InvStep
  <1> QED
    BY <1>1, <1>2, PTL DEF Spec

\* Every variable keeps its type: clocks, leases and budgets stay natural numbers,
\* although Lock, Refresh and the passing of time subtract from them.
THEOREM TypeCorrectness == Spec => []TypeOK
  <1>1. Inv => TypeOK
    BY DEF Inv
  <1> QED
    BY <1>1, Invariance, PTL

\* Two processes never rely on the lock at the same time, with ttls that differ from
\* call to call, for every retry count and any number of processes and late commands,
\* of a Refresh with a shorter ttl too.
THEOREM LeaseSafety == Spec => []LeaseExclusion
  <1>1. Inv => LeaseExclusion
    BY DEF Inv, Backed, TokenShape, LeaseExclusion
  <1> QED
    BY <1>1, Invariance, PTL

\* Refresh never reports a live lock as lost.
THEOREM RefusalSafety == Spec => []RefusalIsRight
  <1>1. Inv => RefusalIsRight
    BY DEF Inv
  <1> QED
    BY <1>1, Invariance, PTL
-----------------------------------------------------------------------------
(* The lock implements LeaseLock *)

\* The refinement mapping.
Taken == keyTok # NoToken
Owner == {p \in Procs : tok[p] = keyTok /\ keyTok # NoToken}
Busy == {p \in Procs : pc[p] # "idle"}

\* A step that leaves the abstract variables alone, or is one of the abstract lock.
AbstractStep == [Leases!Next]_<<Taken, Owner, Busy, lease>>

\* A call of p that keeps p's token, or takes one that is not the key's, begins.
LEMMA CallRefines ==
    ASSUME TypeOK, NEW p \in Procs, NEW c \in {"try", "refresh", "unlock"}, NEW n \in 0..lease[p],
           pc[p] = "idle", pc' = [pc EXCEPT ![p] = c], keyTok' = keyTok,
           lease' = [lease EXCEPT ![p] = n],
           tok' = tok \/ (n = 0 /\ \E t \in Tokens \ {keyTok} : tok' = [tok EXCEPT ![p] = t])
    PROVE  AbstractStep
  <1>1. p \notin Busy /\ Busy' = Busy \cup {p}
    BY DEF Busy, TypeOK
  <1>2. lease'[p] = n /\ lease' = [lease EXCEPT ![p] = lease'[p]]
    BY DEF TypeOK
  <1>3. Owner' = Owner \/ (Owner' = Owner \ {p} /\ lease'[p] = 0)
    <2>1. CASE tok' = tok
      BY <2>1 DEF Owner
    <2>2. CASE n = 0 /\ \E t \in Tokens \ {keyTok} : tok' = [tok EXCEPT ![p] = t]
      BY <1>2, <2>2 DEF Owner, TypeOK
    <2> QED
      BY <2>1, <2>2
  <1>4. Taken' = Taken
    BY DEF Taken
  <1>5. Leases!Call(p)
    BY <1>1, <1>2, <1>3, <1>4 DEF Leases!Call, Leases!Forgets, Taken, Owner, Busy
  <1> QED
    BY <1>5 DEF AbstractStep, Leases!Next

\* A call of p returns and keeps p's token, or p has no lock.
LEMMA ReturnRefines ==
    ASSUME TypeOK, NEW p \in Procs, NEW n \in Nat,
           pc[p] # "idle", pc' = [pc EXCEPT ![p] = "idle"], keyTok' = keyTok,
           lease' = [lease EXCEPT ![p] = n],
           n = lease[p] \/ (n > lease[p] /\ p \in Owner),
           tok' = tok \/ (n = 0 /\ tok' = [tok EXCEPT ![p] = NoToken])
    PROVE  AbstractStep
  <1>1. p \in Busy /\ Busy' = Busy \ {p}
    BY DEF Busy, TypeOK
  <1>2. lease'[p] = n /\ lease' = [lease EXCEPT ![p] = lease'[p]]
    BY DEF TypeOK
  <1>3. Owner' = Owner \/ (Owner' = Owner \ {p} /\ lease'[p] = 0)
    <2>1. CASE tok' = tok
      BY <2>1 DEF Owner
    <2>2. CASE n = 0 /\ tok' = [tok EXCEPT ![p] = NoToken]
      BY <1>2, <2>2 DEF Owner, TypeOK
    <2> QED
      BY <2>1, <2>2
  <1>4. Taken' = Taken
    BY DEF Taken
  <1>5. Leases!Return(p)
    BY <1>1, <1>2, <1>3, <1>4 DEF Leases!Return, Leases!Forgets, Taken, Owner, Busy
  <1> QED
    BY <1>5 DEF AbstractStep, Leases!Next

\* LockWithWait goes to sleep, or tries again.
LEMMA RetryRefines ==
    ASSUME TypeOK, NEW p \in Procs, NEW c \in {"try", "sleep"}, lease[p] = 0,
           pc[p] \in {"try", "sleep"}, pc' = [pc EXCEPT ![p] = c], keyTok' = keyTok, lease' = lease,
           \E t \in (Tokens \ {keyTok}) \cup {NoToken} : tok' = [tok EXCEPT ![p] = t]
    PROVE  AbstractStep
  <1>1. p \in Busy /\ Busy' = Busy
    BY DEF Busy, TypeOK
  <1>2. Owner' = Owner \ {p}
    BY DEF Owner, TypeOK
  <1>3. Leases!Retry(p)
    BY <1>1, <1>2 DEF Leases!Retry, Leases!Forgets, Taken, Owner, Busy
  <1> QED
    BY <1>3 DEF AbstractStep, Leases!Next

\* Redis executes a command: it takes a free lock for a token, keeps the key, or
\* deletes a key whose owner has no time left.
LEMMA ExecRefines ==
    ASSUME TypeOK, TokenShape, UNCHANGED <<pc, tok, lease>>,
           \/ keyTok' = keyTok
           \/ keyTok = NoToken /\ keyTok' \in Tokens
           \/ keyTok' = NoToken /\ \A p \in Owner : lease[p] = 0
    PROVE  AbstractStep
  <1>1. CASE keyTok' = keyTok
    BY <1>1 DEF AbstractStep, Taken, Owner, Busy
  <1>2. CASE keyTok = NoToken /\ keyTok' \in Tokens
    <2>1. ~Taken /\ Taken' /\ UNCHANGED <<Busy, lease>>
      BY <1>2, RedisLockAssumption DEF Taken, Busy
    <2>2. \A p, q \in Owner' : p = q
      BY <1>2, RedisLockAssumption DEF Owner, TokenShape
    <2>3. Owner' = {} \/ \E p \in Procs : Owner' = {p}
      BY <2>2 DEF Owner
    <2>4. Leases!Take
      BY <2>1, <2>3 DEF Leases!Take, Taken, Owner, Busy
    <2> QED
      BY <2>4 DEF AbstractStep, Leases!Next
  <1>3. CASE keyTok' = NoToken /\ \A p \in Owner : lease[p] = 0
    <2>1. Taken' = FALSE /\ Owner' = {} /\ UNCHANGED <<Busy, lease>>
      BY <1>3 DEF Taken, Owner, Busy
    <2>2. Leases!Release
      BY <1>3, <2>1 DEF Leases!Release, Taken, Owner, Busy
    <2> QED
      BY <2>2 DEF AbstractStep, Leases!Next
  <1> QED
    BY <1>1, <1>2, <1>3

\* Every step is a step of the abstract lock, or leaves it unchanged.
LEMMA RefinementStep == Inv /\ [Next]_vars => AbstractStep
  <1> SUFFICES ASSUME Inv, [Next]_vars PROVE AbstractStep
    OBVIOUS
  <1>a. TypeOK /\ TokenShape /\ ClaimShape /\ LateShape /\ Backed /\ Promised /\ RefusalIsRight
    BY DEF Inv
  <1>b. \A p \in Procs : lease[p] \in Nat /\ left[p] \in Nat /\ least[p] \in Int /\ ttl[p] \in Int
    BY <1>a DEF TypeOK
  <1>1. ASSUME NEW p \in Procs, NEW d, Attempt(p, d), pc[p] = "idle"
        PROVE  AbstractStep
    <2>1. 0 \in 0..lease[p]
      BY <1>b
    <2>3. \E t \in Tokens \ {keyTok} : tok' = [tok EXCEPT ![p] = t]
      <3>1. \E t \in Tokens \ InUse(p) : tok' = [tok EXCEPT ![p] = t]
        BY <1>1 DEF Attempt
      <3>2. keyTok \in InUse(p)
        BY DEF InUse
      <3> QED
        BY <3>1, <3>2
    <2>2. pc' = [pc EXCEPT ![p] = "try"] /\ keyTok' = keyTok /\ lease' = [lease EXCEPT ![p] = 0]
      BY <1>1 DEF Attempt, Send
    <2> QED
      BY <1>a, <1>1, <2>1, <2>2, <2>3, CallRefines
  <1>2. ASSUME NEW p \in Procs, WakeUp(p)
        PROVE  AbstractStep
    <2>1. \E t \in (Tokens \ {keyTok}) \cup {NoToken} : tok' = [tok EXCEPT ![p] = t]
      BY <1>2 DEF WakeUp, Attempt, InUse
    <2>2. lease[p] = 0 /\ lease' = lease
      BY <1>a, <1>2 DEF WakeUp, Attempt, ClaimShape, TypeOK
    <2>3. pc[p] = "sleep" /\ pc' = [pc EXCEPT ![p] = "try"] /\ keyTok' = keyTok
      BY <1>2 DEF WakeUp, Attempt, Send
    <2> QED
      BY <1>a, <2>1, <2>2, <2>3, RetryRefines
  <1>3. ASSUME NEW p \in Procs, NEW d \in TTLs, Refresh(p, d)
        PROVE  AbstractStep
    <2>1. Capped(PExpireTicks(d), lease[p]) \in 0..lease[p]
      BY <1>b, RedisLockAssumption, Durations, CappedFacts
    <2>2. /\ pc[p] = "idle" /\ pc' = [pc EXCEPT ![p] = "refresh"] /\ keyTok' = keyTok /\ tok' = tok
          /\ lease' = [lease EXCEPT ![p] = Capped(PExpireTicks(d), lease[p])]
      BY <1>3 DEF Refresh, Send
    <2> QED
      BY <1>a, <2>1, <2>2, CallRefines
  <1>4. ASSUME NEW p \in Procs, Unlock(p)
        PROVE  AbstractStep
    <2>1. /\ pc[p] = "idle" /\ pc' = [pc EXCEPT ![p] = "unlock"] /\ keyTok' = keyTok /\ tok' = tok
          /\ lease' = [lease EXCEPT ![p] = 0] /\ 0 \in 0..lease[p]
      BY <1>b, <1>4 DEF Unlock, Send
    <2> QED
      BY <1>a, <2>1, CallRefines
  <1>5. ASSUME NEW p \in Procs, Acquired(p) \/ Refreshed(p)
        PROVE  AbstractStep
    <2>1. pc[p] # "idle" /\ pc' = [pc EXCEPT ![p] = "idle"] /\ keyTok' = keyTok /\ tok' = tok
      BY <1>5 DEF Acquired, Refreshed, Return
    <2>2. ASSUME NEW n \in Nat, lease' = [lease EXCEPT ![p] = n],
                 n = lease[p] \/ (n > lease[p] /\ keyTok = tok[p] /\ tok[p] # NoToken)
          PROVE  AbstractStep
      <3>1. n = lease[p] \/ (n > lease[p] /\ p \in Owner)
        BY <2>2 DEF Owner
      <3> QED
        BY <1>a, <2>1, <2>2, <3>1, ReturnRefines
    <2>3. CASE Acquired(p)
      <3>1. lease[p] = 0 /\ tok[p] # NoToken /\ (left[p] > 0 => keyTok = tok[p])
        BY <1>a, <2>3 DEF Acquired, ClaimShape, TokenShape, Promised
      <3>2. lease' = [lease EXCEPT ![p] = left[p]]
        BY <2>3 DEF Acquired
      <3>3. left[p] \in Nat /\ (left[p] = lease[p] \/ (left[p] > lease[p] /\ keyTok = tok[p] /\ tok[p] # NoToken))
        BY <1>b, <3>1
      <3> QED
        BY <2>2, <3>2, <3>3
    <2>4. CASE Refreshed(p) /\ cmd[p] = "yes" /\ p \notin gone
      <3>1. lease[p] <= left[p] /\ tok[p] # NoToken /\ (left[p] > 0 => keyTok = tok[p])
        BY <1>a, <2>4 DEF Refreshed, ClaimShape, TokenShape, Promised
      <3>2. lease' = [lease EXCEPT ![p] = left[p]]
        BY <2>4 DEF Refreshed
      <3>3. left[p] \in Nat /\ (left[p] = lease[p] \/ (left[p] > lease[p] /\ keyTok = tok[p] /\ tok[p] # NoToken))
        BY <1>b, <3>1
      <3> QED
        BY <2>2, <3>2, <3>3
    <2>5. CASE Refreshed(p) /\ ~(cmd[p] = "yes" /\ p \notin gone)
      <3>1. lease[p] = 0
        BY <1>a, <2>5 DEF Refreshed, ClaimShape, RefusalIsRight
      <3>2. lease' = [lease EXCEPT ![p] = 0]
        BY <2>5 DEF Refreshed
      <3> QED
        BY <2>2, <3>1, <3>2, 0 \in Nat
    <2> QED
      BY <1>5, <2>3, <2>4, <2>5
  <1>6. ASSUME NEW p \in Procs, Refused(p) \/ SleepCancelled(p) \/ Unlocked(p) \/ CommandFails(p)
        PROVE  AbstractStep
    <2>1. pc[p] # "idle" /\ pc' = [pc EXCEPT ![p] = "idle"] /\ keyTok' = keyTok
      BY <1>a, <1>6 DEF Refused, SleepCancelled, Unlocked, CommandFails, Return, TokenShape
    <2>2. lease' = lease /\ lease' = [lease EXCEPT ![p] = lease[p]]
      BY <1>a, <1>6 DEF Refused, SleepCancelled, Unlocked, CommandFails, TypeOK
    <2>3. tok' = tok \/ (lease[p] = 0 /\ tok' = [tok EXCEPT ![p] = NoToken])
      BY <1>a, <1>6 DEF Refused, SleepCancelled, Unlocked, CommandFails, NoLock, ClaimShape
    <2> QED
      BY <1>a, <1>b, <2>1, <2>2, <2>3, ReturnRefines
  <1>7. ASSUME NEW p \in Procs, Sleep(p)
        PROVE  AbstractStep
    <2>1. /\ lease[p] = 0 /\ pc[p] = "try" /\ pc' = [pc EXCEPT ![p] = "sleep"] /\ keyTok' = keyTok /\ lease' = lease
          /\ tok' = [tok EXCEPT ![p] = NoToken]
      BY <1>a, <1>7 DEF Sleep, NoLock, ClaimShape
    <2> QED
      BY <1>a, <2>1, RetryRefines
  <1>8. ASSUME NEW p \in Procs, RedisExec(p)
        PROVE  AbstractStep
    <2>1. pc[p] \in {"try", "refresh", "unlock"} /\ tok[p] \in Tokens /\ tok[p] # NoToken
      BY <1>a, <1>8 DEF RedisExec, TokenShape, TypeOK
    <2>2. \/ keyTok' = keyTok
          \/ keyTok = NoToken /\ keyTok' \in Tokens
          \/ pc[p] = "refresh" /\ keyTok = tok[p] /\ Whole(ttl[p]) = 0 /\ keyTok' = NoToken
          \/ pc[p] = "unlock" /\ keyTok = tok[p] /\ keyTok' = NoToken
      BY <1>b, <1>8, <2>1, ExecuteFacts DEF RedisExec
    <2>3. \A q \in Owner : keyTok = tok[p] => q = p
      BY <1>a DEF Owner, TokenShape
    <2>4. (pc[p] = "refresh" /\ Whole(ttl[p]) = 0) \/ pc[p] = "unlock" => lease[p] = 0
      BY <1>a, <1>b DEF ClaimShape
    <2>5. UNCHANGED <<pc, tok, lease>>
      BY <1>8 DEF RedisExec
    <2> QED
      BY <1>a, <2>2, <2>3, <2>4, <2>5, ExecRefines
  <1>9. ASSUME NEW m \in late, LateExec(m) \/ LateLost(m)
        PROVE  AbstractStep
    <2>1. m.kind \in {"try", "refresh", "unlock"} /\ m.tok \in Tokens /\ m.ttl \in Int
      BY <1>a DEF TypeOK, Command
    <2>2. \/ keyTok' = keyTok
          \/ keyTok = NoToken /\ keyTok' \in Tokens
          \/ m.kind = "refresh" /\ keyTok = m.tok /\ Whole(m.ttl) = 0 /\ keyTok' = NoToken
          \/ m.kind = "unlock" /\ keyTok = m.tok /\ keyTok' = NoToken
      BY <1>9, <2>1, ExecuteFacts DEF LateExec, LateLost
    <2>3. ASSUME NEW q \in Owner, keyTok = m.tok, (m.kind = "refresh" /\ Whole(m.ttl) = 0) \/ m.kind = "unlock"
          PROVE  lease[q] = 0
      <3>1. q \in Procs /\ tok[q] = m.tok
        BY <2>3 DEF Owner
      <3> QED
        BY <1>a, <1>b, <2>3, <3>1 DEF LateShape, ClaimShape
    <2>4. UNCHANGED <<pc, tok, lease>>
      BY <1>9 DEF LateExec, LateLost
    <2> QED
      BY <1>a, <2>2, <2>3, <2>4, ExecRefines
  <1>10. CASE Tick
    <2>1. lease' = [p \in Procs |-> IF lease[p] > 0 THEN lease[p] - 1 ELSE 0] /\ Busy' = Busy
      BY <1>10 DEF Tick, Less, Busy
    <2>2. \/ Taken' = Taken /\ Owner' = Owner
          \/ Taken' = FALSE /\ Owner' = {} /\ \A p \in Owner : lease'[p] = 0
      <3>1. CASE keyTTL <= 1
        <4>1. Taken' = FALSE /\ Owner' = {}
          BY <1>10, <3>1 DEF Tick, Taken, Owner
        <4>2. \A p \in Procs : lease[p] <= 1
          BY <1>a, <1>b, <3>1 DEF Backed, TypeOK
        <4>3. \A p \in Owner : lease'[p] = 0
          BY <1>b, <2>1, <4>2 DEF Owner
        <4> QED
          BY <4>1, <4>3
      <3>2. CASE ~(keyTTL <= 1)
        BY <1>10, <3>2 DEF Tick, Taken, Owner
      <3> QED
        BY <3>1, <3>2
    <2>3. Leases!Pass
      BY <2>1, <2>2 DEF Leases!Pass, Taken, Owner, Busy
    <2> QED
      BY <2>3 DEF AbstractStep, Leases!Next
  <1>11. ASSUME NEW p \in Procs, RedisRetry(p) \/ Cancel(p)
         PROVE  AbstractStep
    BY <1>11 DEF RedisRetry, Cancel, AbstractStep, Taken, Owner, Busy
  <1>12. CASE UNCHANGED vars
    BY <1>12 DEF vars, AbstractStep, Taken, Owner, Busy
  <1> QED
    BY <1>1, <1>2, <1>3, <1>4, <1>5, <1>6, <1>7, <1>8, <1>9, <1>10, <1>11, <1>12
       DEF Next, Call, Progress, TryLock, LockWithWait

\* The lock of lock.go implements the abstract lock with leases: an owner with time
\* left keeps the lock, and only its own calls and time shorten its lease; for any
\* number of processes and late commands, any retry count and ttls of every length
\* that change from call to call.
THEOREM Refinement == Spec => ImplementsLeaseLock
  <1>1. Init => Leases!Init
    BY DEF Init, Leases!Init
  <1>2. Inv /\ [Next]_vars => [Leases!Next]_<<keyTok # NoToken, {p \in Procs : tok[p] = keyTok /\ keyTok # NoToken},
                                             {p \in Procs : pc[p] # "idle"}, lease>>
    BY RefinementStep DEF AbstractStep, Taken, Owner, Busy
  <1> QED
    BY <1>1, <1>2, Invariance, PTL DEF Spec, ImplementsLeaseLock, Leases!Spec

-----------------------------------------------------------------------------
(* What the abstract lock promises *)

\* Only the owner has time left, and there is at most one.
OwnerOnly ==
    /\ lease \in [Procs -> Nat]
    /\ \A p \in Procs : lease[p] > 0 => p \in Owner
    /\ \A p, q \in Owner : p = q

\* It is kept by every step of the abstract lock, by whatever it is implemented.
LEMMA AbstractInvariant == OwnerOnly /\ AbstractStep => OwnerOnly'
  <1> SUFFICES ASSUME OwnerOnly, AbstractStep PROVE OwnerOnly'
    OBVIOUS
  <1>1. CASE UNCHANGED <<Taken, Owner, Busy, lease>>
    BY <1>1 DEF OwnerOnly
  <1>2. CASE Leases!Take
    <2>1. lease' = lease /\ \A p \in Procs : lease[p] = 0
      BY <1>2 DEF Leases!Take, OwnerOnly, Owner
    <2>2. Owner' = {} \/ \E p \in Procs : Owner' = {p}
      BY <1>2 DEF Leases!Take, Owner
    <2> QED
      BY <2>1, <2>2 DEF OwnerOnly
  <1>3. CASE Leases!Release
    <2>1. Owner' = {} /\ lease' = lease /\ \A p \in Owner : lease[p] = 0
      BY <1>3 DEF Leases!Release, Owner
    <2> QED
      BY <2>1 DEF OwnerOnly
  <1>4. CASE Leases!Pass
    <2>1. /\ lease' = [p \in Procs |-> IF lease[p] > 0 THEN lease[p] - 1 ELSE 0]
          /\ Owner' = Owner \/ (Owner' = {} /\ \A p \in Owner : lease'[p] = 0)
      BY <1>4 DEF Leases!Pass, Owner
    <2> QED
      BY <2>1 DEF OwnerOnly
  <1>5. ASSUME NEW p \in Procs, Leases!Call(p) \/ Leases!Retry(p) \/ Leases!Return(p)
        PROVE  OwnerOnly'
    <2>1. lease' = lease \/ (lease'[p] \in Nat /\ lease' = [lease EXCEPT ![p] = lease'[p]])
      BY <1>5 DEF Leases!Call, Leases!Retry, Leases!Return, OwnerOnly
    <2>2. Owner' = Owner \/ (Owner' = Owner \ {p} /\ lease'[p] = 0)
      BY <1>5 DEF Leases!Call, Leases!Retry, Leases!Return, Leases!Forgets, Owner
    <2>3. lease'[p] > 0 => p \in Owner
      BY <1>5 DEF Leases!Call, Leases!Retry, Leases!Return, Leases!Forgets, Owner, OwnerOnly
    <2> QED
      BY <2>1, <2>2, <2>3 DEF OwnerOnly
  <1> QED
    BY <1>1, <1>2, <1>3, <1>4, <1>5 DEF AbstractStep, Leases!Next

\* The abstract lock by itself excludes: leases of two processes never overlap in any
\* system that implements it.
THEOREM AbstractExclusion == ImplementsLeaseLock => []LeaseExclusion
  <1>1. Leases!Init => OwnerOnly
    BY DEF Leases!Init, OwnerOnly, Owner
  <1>2. OwnerOnly /\ [Leases!Next]_<<keyTok # NoToken, {p \in Procs : tok[p] = keyTok /\ keyTok # NoToken},
                                    {p \in Procs : pc[p] # "idle"}, lease>> => OwnerOnly'
    BY AbstractInvariant DEF AbstractStep, Taken, Owner, Busy
  <1>3. OwnerOnly => LeaseExclusion
    BY DEF OwnerOnly, LeaseExclusion
  <1> QED
    BY <1>1, <1>2, <1>3, PTL DEF ImplementsLeaseLock, Leases!Spec
=============================================================================
