------------------------------- MODULE Session -------------------------------
(***************************************************************************)
(* session.go: OAuth states (NewState, VerifyState) and the blacklist of   *)
(* tokens (RevokeToken, IsRevoked), each over the one key of module        *)
(* RedisKey: use says whether it is the key of a state or of a token.      *)
(*                                                                         *)
(* A state is a fresh random string: NewState is called once for its key,  *)
(* and nobody knows the state before NewState has returned it.             *)
(***************************************************************************)
EXTENDS RedisKey

CONSTANTS
    Subjects,       \* subject arguments of NewState
    Mark,           \* the value "1" of a blacklist entry
    StateTTL,       \* Config.StateTTL, after the default is filled in
    RevokeTTLs,     \* ttl arguments of RevokeToken, in ticks
    RevokeDefault   \* 24 hours, in ticks

ASSUME SessionAssumption ==
    /\ Subjects \cup {Mark} \subseteq Values
    /\ StateTTL \in Nat \ {0} /\ RevokeDefault \in Nat \ {0} /\ RevokeTTLs \subseteq Nat

VARIABLES
    use,            \* "state", "token", or a use that is not of this module
    made,           \* the state: "no", "pending", "known" or "failed"
    madeFor,        \* the subject NewState was called with
    fresh,          \* history: ticks left of the ttl of the state, from before NewState
    taken,          \* history: a GETDEL has found the state and deleted it
    revived,        \* history: a SET of the state was executed after NewState had returned
    accepted,       \* history: how often VerifyState accepted the state
    claim,          \* history: ticks for which the token has to count as revoked
    left,           \* history: ticks left of the ttl of c's RevokeToken, from before the call
    sure            \* history: IsRevoked calls whose token counted as revoked all the while

stateVars == <<made, madeFor, fresh, taken, revived, accepted>>
tokenVars == <<claim, left, sure>>
sessionVars == <<stateVars, tokenVars>>

SessionInit ==
    /\ made = "no" /\ madeFor = NoValue /\ fresh = 0
    /\ taken = FALSE /\ revived = FALSE /\ accepted = 0
    /\ claim = 0 /\ left = [c \in Clients |-> 0] /\ sure = {}

-----------------------------------------------------------------------------
(* OAuth states *)

NewState(c, s) ==
    /\ use = "state" /\ IsIdle(c) /\ made = "no"
    /\ Send(c, "NewState", "set", s, StateTTL)
    /\ made' = "pending" /\ madeFor' = s /\ fresh' = StateTTL
    /\ UNCHANGED <<taken, revived, accepted, tokenVars>>

NewStateDone(c) ==
    /\ HasReply(c, "NewState")
    /\ Return(c, "state", NoValue)
    /\ made' = "known"
    /\ UNCHANGED <<madeFor, fresh, taken, revived, accepted, tokenVars>>

\* Mutant: the state is read and left in place.
VerifyStateGet(c) ==
    /\ use = "state" /\ IsIdle(c) /\ made = "known"
    /\ Send(c, "VerifyState", "get", NoValue, 0)
    /\ UNCHANGED sessionVars

VerifyState(c) ==
    /\ use = "state" /\ IsIdle(c) /\ made = "known"
    /\ Send(c, "VerifyState", "getdel", NoValue, 0)
    /\ UNCHANGED sessionVars

\* A blank state is refused without a command.
VerifyBlank(c) ==
    /\ use = "state" /\ IsIdle(c)
    /\ Return(c, "blank", NoValue)
    /\ UNCHANGED sessionVars

Verified(c) ==
    /\ HasReply(c, "VerifyState")
    /\ IF call[c].reply = NoValue
       THEN Return(c, "mismatch", NoValue) /\ UNCHANGED accepted
       ELSE Return(c, "accepted", call[c].reply) /\ accepted' = accepted + 1
    /\ UNCHANGED <<made, madeFor, fresh, taken, revived, tokenVars>>

-----------------------------------------------------------------------------
(* Revoked tokens *)

RevokeTTL(d) == IF d <= 0 THEN RevokeDefault ELSE d

RevokeToken(c, d) ==
    /\ use = "token" /\ IsIdle(c)
    /\ Send(c, "RevokeToken", "set", Mark, RevokeTTL(d))
    /\ left' = [left EXCEPT ![c] = IF d <= 0 THEN RevokeDefault ELSE d]
    /\ UNCHANGED <<stateVars, claim, sure>>

Revoked(c) ==
    /\ HasReply(c, "RevokeToken")
    /\ Return(c, "revoked", NoValue)
    /\ claim' = IF left[c] > claim THEN left[c] ELSE claim
    /\ left' = [left EXCEPT ![c] = 0]
    /\ UNCHANGED <<stateVars, sure>>

IsRevoked(c) ==
    /\ use = "token" /\ IsIdle(c)
    /\ Send(c, "IsRevoked", "exists", NoValue, 0)
    /\ sure' = IF claim > 0 THEN sure \cup {c} ELSE sure \ {c}
    /\ UNCHANGED <<stateVars, claim, left>>

IsRevokedDone(c) ==
    /\ HasReply(c, "IsRevoked")
    /\ Return(c, IF call[c].reply = NoValue THEN "no" ELSE "yes", NoValue)
    /\ UNCHANGED sessionVars

\* A blank token is nobody's: nil without a command, and not revoked.
BlankToken(c) ==
    /\ use = "token" /\ IsIdle(c)
    /\ Return(c, "blank", NoValue)
    /\ UNCHANGED sessionVars

-----------------------------------------------------------------------------
\* Mutants: an error counts as a missing key, of the state or of the token.
SessionErrorMismatch(op) == IF op = "VerifyState" THEN "mismatch" ELSE "err"
SessionErrorNo(op) == IF op = "IsRevoked" THEN "no" ELSE "err"

\* What an operation returns when its command failed: the error.
SessionError(op) == "err"

SessionFails(c) ==
    /\ CommandFails(c, SessionError(call[c].op), NoValue)
    /\ made' = IF call[c].op = "NewState" THEN "failed" ELSE made
    /\ left' = [left EXCEPT ![c] = 0]
    /\ UNCHANGED <<madeFor, fresh, taken, revived, accepted, claim, sure>>

Smaller(n, m) == IF n < m THEN n ELSE m

\* What a command that Redis executes means for the histories: a SET with a shorter
\* ttl ends every revocation that was executed before it.
Noted(m, before) ==
    /\ taken' = (taken \/ (use = "state" /\ m.cmd = "getdel" /\ val # NoValue))
    /\ revived' = (revived \/ (use = "state" /\ m.cmd = "set" /\ made = "known"))
    /\ IF use = "token" /\ m.cmd = "set"
       THEN /\ claim' = Smaller(claim, m.exp)
            /\ left' = [c \in Clients |-> IF c \in before THEN Smaller(left[c], m.exp) ELSE left[c]]
       ELSE UNCHANGED <<claim, left>>
    /\ UNCHANGED <<made, madeFor, fresh, accepted, sure>>

Executed == {c \in Clients : call[c].stage = "done"}

SessionTick ==
    /\ Expire
    /\ fresh' = IF fresh > 0 THEN fresh - 1 ELSE 0
    /\ claim' = IF claim > 0 THEN claim - 1 ELSE 0
    /\ left' = [c \in Clients |-> IF left[c] > 0 THEN left[c] - 1 ELSE 0]
    /\ sure' = IF claim <= 1 THEN {} ELSE sure
    /\ UNCHANGED <<made, madeFor, taken, revived, accepted>>

SessionCall(c) ==
    \/ (\E s \in Subjects : NewState(c, s)) \/ NewStateDone(c) \/ VerifyState(c) \/ VerifyBlank(c) \/ Verified(c)
    \/ (\E d \in RevokeTTLs : RevokeToken(c, d)) \/ Revoked(c) \/ IsRevoked(c) \/ IsRevokedDone(c) \/ BlankToken(c)
    \/ SessionFails(c)

SessionNext ==
    \/ \E c \in Clients : \/ SessionCall(c)
                          \/ Execute(c) /\ Noted(call[c], Executed)
                          \/ Resend(c) /\ UNCHANGED sessionVars
    \/ \E m \in late : \/ LateExecute(m) /\ Noted(m, Executed)
                       \/ LateLost(m) /\ UNCHANGED sessionVars
    \/ SessionTick

-----------------------------------------------------------------------------
(* Properties *)

SessionOps == [state |-> {"NewState", "VerifyState"}, token |-> {"RevokeToken", "IsRevoked"}]

SessionTypeOK ==
    /\ made \in {"no", "pending", "known", "failed"}
    /\ madeFor \in Subjects \cup {NoValue}
    /\ fresh \in 0..StateTTL /\ claim \in Nat /\ left \in [Clients -> Nat]

(***************************************************************************)
(* VerifyState accepts a state once, for the subject that NewState was     *)
(* called with, though several callers compete for it and SET and GETDEL   *)
(* are sent again: a second acceptance needs a SET that Redis executes     *)
(* after NewState had returned.                                            *)
(***************************************************************************)
AcceptedOnce ==
    /\ accepted > 1 => revived
    /\ \A c \in Clients : call[c].ret = "accepted" => call[c].found = madeFor

(***************************************************************************)
(* VerifyState answers ErrStateMismatch on a state that NewState handed    *)
(* out only if a GETDEL has found and deleted it or its ttl has run out:   *)
(* no failing command, retry or late SET loses a login.                    *)
(***************************************************************************)
MismatchIsRight == \A c \in Clients : call[c].ret = "mismatch" => taken \/ fresh = 0

(***************************************************************************)
(* IsRevoked never says no, without an error, of a token whose revocation  *)
(* was acknowledged: it holds for its ttl, counted from before the call of *)
(* RevokeToken, or until a revocation with a shorter ttl overwrites it.    *)
(***************************************************************************)
RevokedIsSeen == \A c \in Clients : call[c].ret = "no" => c \notin sure
=============================================================================
