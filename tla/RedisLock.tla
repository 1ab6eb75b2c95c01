------------------------------ MODULE RedisLock ------------------------------
(***************************************************************************)
(* The Redis lock of package cache (lock.go): TryLock, LockWithWait,       *)
(* Refresh and Unlock on one key, with the key's expiry, go-redis's own    *)
(* retries, and commands that Redis executes after the client gave up on   *)
(* them.                                                                   *)
(*                                                                         *)
(* Time is a number of ticks, TicksPerMs of them to Redis's millisecond,   *)
(* and every duration is a countdown that Tick lowers.                     *)
(***************************************************************************)
EXTENDS Integers, FiniteSets

CONSTANTS
    Procs,          \* goroutines and processes that use the lock
    Tokens, NoToken, \* random tokens; a name is used again once nothing holds it
    TTLs,           \* ttl arguments of TryLock, LockWithWait and Refresh
    Waits,          \* wait arguments of LockWithWait
    Intervals,      \* its interval arguments, after the default is filled in
    TicksPerMs,
    MaxRetries,     \* go-redis Options.MaxRetries
    MaxLate         \* bound: abandoned commands that Redis may still execute

ASSUME RedisLockAssumption ==
    /\ NoToken \notin Tokens
    /\ TTLs \subseteq Int /\ Waits \subseteq Int
    /\ Intervals \subseteq Nat \ {0} /\ TicksPerMs \in Nat \ {0}
    /\ MaxRetries \in Nat /\ MaxLate \in Nat

VARIABLES
    keyTok, keyTTL, \* the key: the token it holds and the ticks it has left
    late,           \* abandoned commands that may still be executed
    pc,             \* pc[p]: "idle", or the call p is in
    tok,            \* tok[p]: the token of the attempt, or of the *Lock p holds
    cmd,            \* cmd[p]: the command on the wire: not yet executed, or Redis's answer
    retries,        \* retries[p]: what go-redis has left
    ctx,            \* ctx[p]: "live" or "done"
    ttl,            \* ttl[p]: the ttl argument of the call p is in
    interval,       \* interval[p]: the interval argument of p's LockWithWait
    once,           \* the processes whose call takes the first refusal as final
    deadline,       \* deadline[p]: ticks until LockWithWait's deadline; negative once past
    timer,          \* timer[p]: ticks until the interval timer fires
    gone,           \* history: the processes that called Unlock on the lock they hold
    least,          \* history: the shortest ttl that p has refreshed its lock with, or -1
    left,           \* history: ticks left of what p may count on if its call succeeds
    lease           \* history: ticks for which p may rely on its lock

vars == <<keyTok, keyTTL, late, pc, tok, cmd, retries, ctx, ttl, interval, once, deadline, timer, gone, least, left, lease>>

\* The part of a duration that milliseconds do not express, and the rest.
Lost(d) == d % TicksPerMs
Whole(d) == d - Lost(d)

\* The ttl as go-redis sends it with SET NX: at least one millisecond.
SetNXTicks(d) == IF Whole(d) = 0 THEN TicksPerMs ELSE Whole(d)

\* ttl.Milliseconds() in Refresh.
PExpireTicks(d) == Whole(d)

Init ==
    /\ keyTok = NoToken /\ keyTTL = 0
    /\ late = {}
    /\ pc = [p \in Procs |-> "idle"]
    /\ tok = [p \in Procs |-> NoToken]
    /\ cmd = [p \in Procs |-> "none"]
    /\ retries = [p \in Procs |-> 0]
    /\ ctx = [p \in Procs |-> "live"]
    /\ ttl = [p \in Procs |-> 0]
    /\ interval = [p \in Procs |-> 0]
    /\ once = Procs
    /\ deadline = [p \in Procs |-> 0]
    /\ timer = [p \in Procs |-> 0]
    /\ gone = {}
    /\ least = [p \in Procs |-> -1]
    /\ left = [p \in Procs |-> 0]
    /\ lease = [p \in Procs |-> 0]

-----------------------------------------------------------------------------
(* Calling *)

\* Tokens that a new one of p must differ from.
InUse(p) == {keyTok} \cup {tok[q] : q \in Procs \ {p}} \cup {m.tok : m \in late}

\* go-redis writes the command of call c, with d the ttl; p counts on l of it from now.
Send(p, c, d, l) ==
    /\ pc' = [pc EXCEPT ![p] = c]
    /\ cmd' = [cmd EXCEPT ![p] = "sent"]
    /\ retries' = [retries EXCEPT ![p] = MaxRetries]
    /\ ttl' = [ttl EXCEPT ![p] = d]
    /\ left' = [left EXCEPT ![p] = l]

\* TryLock up to SETNX; p forgets the lock it may have had.
Attempt(p, d) ==
    /\ d > 0
    /\ \E t \in Tokens \ InUse(p) : tok' = [tok EXCEPT ![p] = t]
    /\ Send(p, "try", d, Whole(d))
    /\ lease' = [lease EXCEPT ![p] = 0]
    /\ least' = [least EXCEPT ![p] = -1]
    /\ gone' = gone \ {p}
    /\ UNCHANGED <<keyTok, keyTTL, late, ctx, timer>>

TryLock(p, d) ==
    /\ pc[p] = "idle"
    /\ Attempt(p, d)
    /\ UNCHANGED <<interval, once, deadline>>

\* With wait <= 0 the first refusal is final, as it is in TryLock, and nothing waits.
LockWithWait(p, d, wait, i) ==
    /\ pc[p] = "idle"
    /\ Attempt(p, d)
    /\ interval' = [interval EXCEPT ![p] = IF wait <= 0 THEN 0 ELSE i]
    /\ once' = IF wait <= 0 THEN once \cup {p} ELSE once \ {p}
    /\ deadline' = [deadline EXCEPT ![p] = wait]

\* A ttl that is cut down to b, unless b is none.
Capped(b, d) == IF 0 <= b /\ b < d THEN b ELSE d

\* On a lock that was released, or lost without p's knowledge, too.  The command may
\* shorten the lease, its reply may be lost, and it may be executed once more, later:
\* from now on p counts on this ttl at most, also after a Refresh with a longer one.
Refresh(p, d) ==
    /\ pc[p] = "idle" /\ tok[p] # NoToken
    /\ d > 0
    /\ Send(p, "refresh", d, Capped(least[p], PExpireTicks(d)))
    /\ least' = [least EXCEPT ![p] = Capped(least[p], PExpireTicks(d))]
    /\ lease' = [lease EXCEPT ![p] = Capped(PExpireTicks(d), lease[p])]
    /\ UNCHANGED <<keyTok, keyTTL, late, tok, ctx, interval, once, deadline, timer, gone>>

Unlock(p) ==
    /\ pc[p] = "idle" /\ tok[p] # NoToken
    /\ Send(p, "unlock", 0, 0)
    /\ gone' = gone \cup {p}
    /\ lease' = [lease EXCEPT ![p] = 0]
    /\ UNCHANGED <<keyTok, keyTTL, late, tok, ctx, interval, once, deadline, timer, least>>

\* The call returns and takes its local variables with it.
Return(p) ==
    /\ pc' = [pc EXCEPT ![p] = "idle"]
    /\ cmd' = [cmd EXCEPT ![p] = "none"]
    /\ retries' = [retries EXCEPT ![p] = 0]
    /\ ctx' = [ctx EXCEPT ![p] = "live"]
    /\ ttl' = [ttl EXCEPT ![p] = 0]
    /\ interval' = [interval EXCEPT ![p] = 0]
    /\ once' = once \cup {p}
    /\ deadline' = [deadline EXCEPT ![p] = 0]
    /\ timer' = [timer EXCEPT ![p] = 0]
    /\ left' = [left EXCEPT ![p] = 0]

\* p has no lock.
NoLock(p) ==
    /\ tok' = [tok EXCEPT ![p] = NoToken]
    /\ gone' = gone \ {p}
    /\ least' = [least EXCEPT ![p] = -1]

-----------------------------------------------------------------------------
(* Redis (external): SET key token PX ttl NX, and the two scripts. *)

\* Mutants: the unlock script deletes whatever token is there; a refused SET
\* renews the expiry.
ExecuteAnyToken(kind, t, d) ==
    CASE kind = "try" ->
           IF keyTok = NoToken THEN keyTok' = t /\ keyTTL' = SetNXTicks(d) ELSE UNCHANGED <<keyTok, keyTTL>>
      [] kind = "refresh" ->
           IF keyTok # t THEN UNCHANGED <<keyTok, keyTTL>> ELSE keyTTL' = PExpireTicks(d) /\ UNCHANGED keyTok
      [] kind = "unlock" -> keyTok' = NoToken /\ keyTTL' = 0
ExecuteRenewing(kind, t, d) ==
    CASE kind = "try" -> keyTok' = (IF keyTok = NoToken THEN t ELSE keyTok) /\ keyTTL' = SetNXTicks(d)
      [] OTHER -> IF keyTok # t THEN UNCHANGED <<keyTok, keyTTL>>
                  ELSE IF kind = "refresh" THEN keyTTL' = PExpireTicks(d) /\ UNCHANGED keyTok
                  ELSE keyTok' = NoToken /\ keyTTL' = 0

Execute(kind, t, d) ==
    CASE kind = "try" ->
           IF keyTok = NoToken THEN keyTok' = t /\ keyTTL' = SetNXTicks(d)
           ELSE UNCHANGED <<keyTok, keyTTL>>
      [] kind = "refresh" ->
           IF keyTok # t THEN UNCHANGED <<keyTok, keyTTL>>
           ELSE IF PExpireTicks(d) = 0 THEN keyTok' = NoToken /\ keyTTL' = 0
           ELSE keyTTL' = PExpireTicks(d) /\ UNCHANGED keyTok
      [] kind = "unlock" ->
           IF keyTok # t THEN UNCHANGED <<keyTok, keyTTL>>
           ELSE keyTok' = NoToken /\ keyTTL' = 0

ReplyTo(kind, t) ==
    IF keyTok = (IF kind = "try" THEN NoToken ELSE t) THEN "yes" ELSE "no"

RedisExec(p) ==
    /\ cmd[p] = "sent"
    /\ Execute(pc[p], tok[p], ttl[p])
    /\ cmd' = [cmd EXCEPT ![p] = ReplyTo(pc[p], tok[p])]
    /\ UNCHANGED <<late, pc, tok, retries, ctx, ttl, interval, once, deadline, timer, gone, least, left, lease>>

LateExec(m) ==
    /\ Execute(m.kind, m.tok, m.ttl)
    /\ late' = late \ {m}
    /\ UNCHANGED <<pc, tok, cmd, retries, ctx, ttl, interval, once, deadline, timer, gone, least, left, lease>>

LateLost(m) ==
    /\ late' = late \ {m}
    /\ UNCHANGED <<keyTok, keyTTL, pc, tok, cmd, retries, ctx, ttl, interval, once, deadline, timer, gone, least, left, lease>>

-----------------------------------------------------------------------------
(* The connection fails *)

\* A command that was not executed yet may be executed later.
Abandon(p) ==
    \/ late' = late
    \/ /\ cmd[p] = "sent" /\ Cardinality(late) < MaxLate
       /\ late' = late \cup {[kind |-> pc[p], tok |-> tok[p], ttl |-> ttl[p]]}

\* Mutant: one retry too many.
RedisRetryOnceMore(p) ==
    /\ cmd[p] # "none" /\ retries[p] >= 0 /\ ctx[p] = "live"
    /\ Abandon(p)
    /\ cmd' = [cmd EXCEPT ![p] = "sent"]
    /\ retries' = [retries EXCEPT ![p] = retries[p] - 1]
    /\ UNCHANGED <<keyTok, keyTTL, pc, tok, ctx, ttl, interval, once, deadline, timer, gone, least, left, lease>>

RedisRetry(p) ==
    /\ cmd[p] # "none" /\ retries[p] > 0 /\ ctx[p] = "live"
    /\ Abandon(p)
    /\ cmd' = [cmd EXCEPT ![p] = "sent"]
    /\ retries' = [retries EXCEPT ![p] = retries[p] - 1]
    /\ UNCHANGED <<keyTok, keyTTL, pc, tok, ctx, ttl, interval, once, deadline, timer, gone, least, left, lease>>

\* go-redis returns an error: TryLock and LockWithWait return it and no lock.
CommandFails(p) ==
    /\ cmd[p] # "none" /\ (retries[p] = 0 \/ ctx[p] = "done")
    /\ Abandon(p)
    /\ Return(p)
    /\ IF pc[p] = "try" THEN NoLock(p) ELSE UNCHANGED <<tok, gone, least>>
    /\ UNCHANGED <<keyTok, keyTTL, lease>>

-----------------------------------------------------------------------------
(* The answer arrives *)

Acquired(p) ==
    /\ pc[p] = "try" /\ cmd[p] = "yes"
    /\ Return(p)
    /\ lease' = [lease EXCEPT ![p] = left[p]]
    /\ UNCHANGED <<keyTok, keyTTL, late, tok, gone, least>>

\* TryLock says so; LockWithWait gives up ...
Refused(p) ==
    /\ pc[p] = "try" /\ cmd[p] = "no"
    /\ p \in once \/ deadline[p] < 0
    /\ Return(p)
    /\ NoLock(p)
    /\ UNCHANGED <<keyTok, keyTTL, late, lease>>

\* Mutant: the deadline is not looked at.
SleepAgain(p) ==
    /\ pc[p] = "try" /\ cmd[p] = "no"
    /\ p \notin once
    /\ pc' = [pc EXCEPT ![p] = "sleep"]
    /\ cmd' = [cmd EXCEPT ![p] = "none"]
    /\ timer' = [timer EXCEPT ![p] = interval[p]]
    /\ NoLock(p)
    /\ UNCHANGED <<keyTok, keyTTL, late, retries, ctx, ttl, interval, once, deadline, left, lease>>

\* ... or sleeps.
Sleep(p) ==
    /\ pc[p] = "try" /\ cmd[p] = "no"
    /\ p \notin once /\ deadline[p] >= 0
    /\ pc' = [pc EXCEPT ![p] = "sleep"]
    /\ cmd' = [cmd EXCEPT ![p] = "none"]
    /\ timer' = [timer EXCEPT ![p] = interval[p]]
    /\ NoLock(p)
    /\ UNCHANGED <<keyTok, keyTTL, late, retries, ctx, ttl, interval, once, deadline, left, lease>>

WakeUp(p) ==
    /\ pc[p] = "sleep" /\ timer[p] = 0
    /\ Attempt(p, ttl[p])
    /\ UNCHANGED <<interval, once, deadline>>

SleepCancelled(p) ==
    /\ pc[p] = "sleep" /\ ctx[p] = "done"
    /\ Return(p)
    /\ UNCHANGED <<keyTok, keyTTL, late, tok, gone, least, lease>>

\* Mutant: Refresh does not look at the answer of the script.
RefreshedUnchecked(p) ==
    /\ pc[p] = "refresh" /\ cmd[p] \in {"yes", "no"}
    /\ Return(p)
    /\ lease' = [lease EXCEPT ![p] = IF p \notin gone THEN left[p] ELSE 0]
    /\ UNCHANGED <<keyTok, keyTTL, late, tok, gone, least>>

\* Refresh reports whether the token was still there.
Refreshed(p) ==
    /\ pc[p] = "refresh" /\ cmd[p] \in {"yes", "no"}
    /\ Return(p)
    /\ lease' = [lease EXCEPT ![p] = IF cmd[p] = "yes" /\ p \notin gone THEN left[p] ELSE 0]
    /\ UNCHANGED <<keyTok, keyTTL, late, tok, gone, least>>

\* Released, or "not owned by current token".
Unlocked(p) ==
    /\ pc[p] = "unlock" /\ cmd[p] \in {"yes", "no"}
    /\ Return(p)
    /\ UNCHANGED <<keyTok, keyTTL, late, tok, gone, least, lease>>

-----------------------------------------------------------------------------
Cancel(p) ==
    /\ pc[p] # "idle" /\ ctx[p] = "live"
    /\ ctx' = [ctx EXCEPT ![p] = "done"]
    /\ UNCHANGED <<keyTok, keyTTL, late, pc, tok, cmd, retries, ttl, interval, once, deadline, timer, gone, least, left, lease>>

Less(n) == IF n > 0 THEN n - 1 ELSE 0

\* Countdowns stop at their end; a deadline is only looked at by a waiting call.
Tick ==
    /\ keyTTL' = Less(keyTTL)
    /\ keyTok' = IF keyTTL <= 1 THEN NoToken ELSE keyTok
    /\ deadline' = [p \in Procs |-> IF p \notin once /\ deadline[p] >= 0 THEN deadline[p] - 1
                                    ELSE deadline[p]]
    /\ timer' = [p \in Procs |-> Less(timer[p])]
    /\ left' = [p \in Procs |-> Less(left[p])]
    /\ lease' = [p \in Procs |-> Less(lease[p])]
    /\ UNCHANGED <<late, pc, tok, cmd, retries, ctx, ttl, interval, once, gone, least>>

Call(p) ==
    \/ \E d \in TTLs : TryLock(p, d) \/ Refresh(p, d) \/ \E w \in Waits, i \in Intervals : LockWithWait(p, d, w, i)
    \/ Unlock(p)

\* What follows in a call without the caller.
Progress(p) ==
    \/ Acquired(p) \/ Refused(p) \/ Sleep(p) \/ WakeUp(p) \/ SleepCancelled(p) \/ Refreshed(p) \/ Unlocked(p)
    \/ RedisRetry(p) \/ CommandFails(p)

Next ==
    \/ \E p \in Procs : Call(p) \/ Progress(p) \/ RedisExec(p) \/ Cancel(p)
    \/ \E m \in late : LateExec(m) \/ LateLost(m)
    \/ Tick

Spec == Init /\ [][Next]_vars

\* Goroutines are scheduled, go-redis's read timeout ends an attempt, time passes.
FairSpec == Spec /\ (\A p \in Procs : WF_vars(Progress(p))) /\ WF_vars(Tick)

-----------------------------------------------------------------------------
(* Properties *)

Command == [kind : {"try", "refresh", "unlock"}, tok : Tokens, ttl : Int]

(***************************************************************************)
(* Type correctness: the key, the commands on the wire and the calls of    *)
(* lock.go; no countdown and no retry budget ever runs below zero.         *)
(***************************************************************************)
TypeOK ==
    /\ keyTok \in Tokens \cup {NoToken} /\ keyTTL \in Nat
    /\ late \subseteq Command
    /\ pc \in [Procs -> {"idle", "try", "sleep", "refresh", "unlock"}]
    /\ tok \in [Procs -> Tokens \cup {NoToken}]
    /\ cmd \in [Procs -> {"none", "sent", "yes", "no"}]
    /\ retries \in [Procs -> Nat]
    /\ ctx \in [Procs -> {"live", "done"}]
    /\ ttl \in [Procs -> Int]
    /\ interval \in [Procs -> Nat]
    /\ once \subseteq Procs
    /\ deadline \in [Procs -> Int]
    /\ timer \in [Procs -> Nat]
    /\ gone \subseteq Procs
    /\ least \in [Procs -> Int]
    /\ left \in [Procs -> Nat]
    /\ lease \in [Procs -> Nat]

(***************************************************************************)
(* Two holders never overlap, as long as each relies on its lock no longer *)
(* than the ttl in whole milliseconds, counted from before the call that   *)
(* gave or refreshed it, and not after it called Unlock; of the ttls that  *)
(* it has passed to Refresh, the shortest counts.  Whatever go-redis       *)
(* retried, whatever arrives late, whoever waits, with ttls that change    *)
(* from call to call.                                                      *)
(***************************************************************************)
LeaseExclusion == \A p, q \in Procs : lease[p] > 0 /\ lease[q] > 0 => p = q

(***************************************************************************)
(* Refresh that reports false is right: the lock it is called on had run   *)
(* out or been released; a lost reply and a retry never turn a live lease  *)
(* into a false answer.                                                    *)
(***************************************************************************)
RefusalIsRight == \A p \in Procs : pc[p] = "refresh" /\ cmd[p] = "no" => lease[p] = 0

\* The lock is the key, its owner whoever has the key's token.
Leases == INSTANCE LeaseLock
            WITH taken <- keyTok # NoToken,
                 owner <- {p \in Procs : tok[p] = keyTok /\ keyTok # NoToken},
                 busy <- {p \in Procs : pc[p] # "idle"}

(***************************************************************************)
(* lock.go implements the abstract lock with leases: a lock whose owner    *)
(* has time left is neither deleted nor expired nor taken over, by no late *)
(* command and by nobody's Unlock; TryLock, LockWithWait and Refresh give  *)
(* time to the owner only and never take any away by their answers.        *)
(***************************************************************************)
ImplementsLeaseLock == Leases!Spec

(***************************************************************************)
(* LockWithWait returns: it stops trying once its deadline has passed,     *)
(* whatever the other processes do with the lock.                          *)
(***************************************************************************)
LockWithWaitReturns == \A p \in Procs : pc[p] \in {"try", "sleep"} ~> pc[p] \notin {"try", "sleep"}

(***************************************************************************)
(* A token that nobody can release any more does not block the lock for    *)
(* ever: the key of a SETNX whose reply was lost expires, although others  *)
(* keep asking for the lock.                                               *)
(***************************************************************************)
OrphanExpires ==
    \A t \in Tokens : (keyTok = t /\ \A p \in Procs : tok[p] # t) ~> keyTok # t
=============================================================================
