------------------------------ MODULE SdkCall -------------------------------
(***************************************************************************)
(* How the Casdoor adapter calls the Casdoor SDK: retry.Do around          *)
(* callWithContext around one SDK function.                                *)
(*                                                                         *)
(* callWithContext starts a goroutine for the SDK call and waits for it or *)
(* for the context; on cancellation it returns and leaves the goroutine    *)
(* running.  The SDK call is one HTTP request: the server may process it   *)
(* long after the caller stopped waiting, the reply may be lost after it   *)
(* was processed, and the HTTP client may time out while the request is    *)
(* still on its way.                                                       *)
(*                                                                         *)
(* This module has the caller's side and the life of a request; what the   *)
(* server does when it processes one (ServerApply) is for the module that  *)
(* extends this one.                                                       *)
(***************************************************************************)
EXTENDS Naturals, FiniteSets

CONSTANTS
    Clients,         \* goroutines of the application that call the adapter
    CallId,          \* names for SDK calls that are under way; bounds their number
    NoCall, NoClient, NoRequest,
    Attempts,        \* retry.Policy.Attempts
    BackoffPositive, \* retry.Policy.Backoff > 0
    MaxLate          \* bound: requests the HTTP client gave up on, still on their way

ASSUME SdkCallAssumption ==
    /\ IsFiniteSet(CallId)
    /\ NoCall \notin CallId
    /\ NoClient \notin Clients
    /\ Attempts \in Nat \ {0}
    /\ BackoffPositive \in BOOLEAN
    /\ MaxLate \in Nat

VARIABLES
    ctx,    \* ctx[c]: the context passed to the running operation
    do,     \* do[c]: the activation of retry.Do in client c
    calls   \* calls[id]: an SDK call: its goroutine and its HTTP request

callVars == <<ctx, do, calls>>

\* A nil context; one that may be cancelled; one that is; context.Background().
CtxState == {"nil", "live", "done", "background"}

(***************************************************************************)
(* do[c].pc follows retry.Do: "top" is the loop head, "call" the moment    *)
(* before fn is started, "wait" the select of callWithContext, "backoff"   *)
(* the select on the timer; "ok" and "err" are the returns, not yet seen   *)
(* by the caller.  do[c].done is the channel of the current call and       *)
(* do[c].val the variable the closure assigns (allowed, rules).            *)
(***************************************************************************)
DoPC == {"off", "top", "call", "wait", "backoff", "ok", "err", "panic"}

DoOff == [pc |-> "off", i |-> 0, cur |-> NoCall, done |-> "none", val |-> {}]

Stage == {"free", "sent", "applied", "late"}

Running(id) == calls[id].stage \in {"sent", "applied"}

\* Requests that the server may still process.
OnWire(id) == calls[id].stage \in {"sent", "late"}

\* SDK goroutines that belong to the operation client c is in, or was last in.
OwnRunning(c) == {id \in CallId : calls[id].owner = c /\ calls[id].mine /\ Running(id)}

Free == {id \in CallId : calls[id].stage = "free"}

FreeCall == [stage |-> "free", owner |-> NoClient, mine |-> FALSE, req |-> NoRequest, resp |-> {}]

\* Entering retry.Do.
DoStart == [DoOff EXCEPT !.pc = "top"]

\* The operation of c that starts now owns none of the calls of c's earlier ones.
Disowned(c) == [id \in CallId |-> IF calls[id].owner = c
                                  THEN [calls[id] EXCEPT !.mine = FALSE]
                                  ELSE calls[id]]

-----------------------------------------------------------------------------
(* retry.Do *)

\* Loop head: a context that is done ends the loop.
DoTop(c) ==
    /\ do[c].pc = "top"
    /\ do' = [do EXCEPT ![c].pc = IF ctx[c] = "done" THEN "err" ELSE "call"]
    /\ UNCHANGED <<ctx, calls>>

\* Mutant: the last error is lost.
AfterFailureLost(d) ==
    [d EXCEPT !.cur = NoCall, !.done = "none", !.i = IF d.i = Attempts - 1 THEN d.i ELSE d.i + 1,
              !.pc = IF d.i = Attempts - 1 THEN "ok" ELSE "top"]

\* What Do does after fn returned an error in iteration do[c].i.
AfterFailure(d) ==
    LET n == [d EXCEPT !.cur = NoCall, !.done = "none"]
    IN  CASE d.i = Attempts - 1 -> [n EXCEPT !.pc = "err"]
          [] d.i # Attempts - 1 /\ ~BackoffPositive -> [n EXCEPT !.pc = "top", !.i = d.i + 1]
          [] OTHER -> [n EXCEPT !.pc = "backoff"]

\* Mutant: the attempts are not counted.
BackoffUncounted(c) ==
    /\ do[c].pc = "backoff"
    /\ ctx[c] # "nil"
    /\ do' = [do EXCEPT ![c].pc = "top"]
    /\ UNCHANGED <<ctx, calls>>

\* The timer of the backoff fires.  With a nil context the select has already
\* panicked on ctx.Done().
BackoffElapsed(c) ==
    /\ do[c].pc = "backoff"
    /\ ctx[c] # "nil"
    /\ do' = [do EXCEPT ![c].pc = "top", ![c].i = do[c].i + 1]
    /\ UNCHANGED <<ctx, calls>>

BackoffCancelled(c) ==
    /\ do[c].pc = "backoff"
    /\ ctx[c] = "done"
    /\ do' = [do EXCEPT ![c].pc = "err"]
    /\ UNCHANGED <<ctx, calls>>

BackoffNilContext(c) ==
    /\ do[c].pc = "backoff"
    /\ ctx[c] = "nil"
    /\ do' = [do EXCEPT ![c].pc = "panic"]
    /\ UNCHANGED <<ctx, calls>>

-----------------------------------------------------------------------------
(* callWithContext *)

\* go func() { done <- fn() }(), or fn() itself when the context is nil.
CallStart(c, req) ==
    /\ do[c].pc = "call"
    /\ Free # {}
    /\ LET id == CHOOSE id \in Free : TRUE
       IN  /\ calls' = [calls EXCEPT ![id] =
                 [stage |-> "sent", owner |-> c, mine |-> TRUE, req |-> req, resp |-> {}]]
           /\ do' = [do EXCEPT ![c].pc = "wait", ![c].cur = id, ![c].done = "none"]
    /\ UNCHANGED ctx

\* Mutant: the error in the channel is ignored.
CallDoneUnchecked(c) ==
    /\ do[c].pc = "wait" /\ do[c].done # "none"
    /\ do' = [do EXCEPT ![c] = [do[c] EXCEPT !.pc = "ok", !.cur = NoCall, !.done = "none"]]
    /\ UNCHANGED <<ctx, calls>>

\* case err := <-done
CallDone(c) ==
    /\ do[c].pc = "wait"
    /\ do[c].done # "none"
    /\ do' = [do EXCEPT ![c] = IF do[c].done = "ok"
                               THEN [do[c] EXCEPT !.pc = "ok", !.cur = NoCall, !.done = "none"]
                               ELSE AfterFailure(do[c])]
    /\ UNCHANGED <<ctx, calls>>

\* Mutants: cancellation returns nil, or is not watched.
CallCancelledNil(c) ==
    /\ do[c].pc = "wait" /\ ctx[c] = "done"
    /\ do' = [do EXCEPT ![c] = [do[c] EXCEPT !.pc = "ok", !.cur = NoCall, !.done = "none"]]
    /\ UNCHANGED <<ctx, calls>>
CallNotCancelled(c) == FALSE /\ UNCHANGED <<ctx, do, calls>>

\* case <-ctx.Done(): the goroutine is abandoned.
CallCancelled(c) ==
    /\ do[c].pc = "wait"
    /\ ctx[c] = "done"
    /\ do' = [do EXCEPT ![c] = AfterFailure(do[c])]
    /\ UNCHANGED <<ctx, calls>>

-----------------------------------------------------------------------------
(* The SDK goroutine and its HTTP request *)

\* The closure assigns its captured variable, then done <- err.  An abandoned
\* goroutine still assigns the variable of the operation it belongs to; once
\* that operation has returned nothing can read it.
Delivered(id, outcome, v) ==
    LET c == calls[id].owner
    IN  [do EXCEPT ![c] =
            [do[c] EXCEPT !.val  = IF calls[id].mine /\ do[c].pc # "off" THEN v ELSE do[c].val,
                          !.done = IF do[c].cur = id THEN outcome ELSE do[c].done]]

\* The reply arrives.
SdkReturn(id) ==
    /\ calls[id].stage = "applied"
    /\ do' = Delivered(id, "ok", calls[id].resp)
    /\ calls' = [calls EXCEPT ![id] = FreeCall]
    /\ UNCHANGED ctx

\* The request was refused or lost, or its reply was lost: an error, and
\* the request is over.
SdkFail(id) ==
    /\ Running(id)
    /\ do' = Delivered(id, "err", {})
    /\ calls' = [calls EXCEPT ![id] = FreeCall]
    /\ UNCHANGED ctx

\* The HTTP client times out while the request is still on its way.
SdkTimeout(id) ==
    /\ calls[id].stage = "sent"
    /\ Cardinality({j \in CallId : calls[j].stage = "late"}) < MaxLate
    /\ do' = Delivered(id, "err", {})
    /\ calls' = [calls EXCEPT ![id].stage = "late"]
    /\ UNCHANGED ctx

\* A request that nobody waits for is lost.
LateLost(id) ==
    /\ calls[id].stage = "late"
    /\ calls' = [calls EXCEPT ![id] = FreeCall]
    /\ UNCHANGED <<ctx, do>>

\* The life of a request when the server processes it and answers v.
ServerAnswer(id, v) ==
    /\ OnWire(id)
    /\ calls' = [calls EXCEPT ![id] =
          IF calls[id].stage = "late" THEN FreeCall
          ELSE [calls[id] EXCEPT !.stage = "applied", !.resp = v]]
    /\ UNCHANGED <<ctx, do>>

\* The caller's context is cancelled or reaches its deadline.  Between two
\* operations that makes no difference.
Cancel(c) ==
    /\ do[c].pc # "off"
    /\ ctx[c] = "live"
    /\ ctx' = [ctx EXCEPT ![c] = "done"]
    /\ UNCHANGED <<do, calls>>

-----------------------------------------------------------------------------
(* Everything Do and callWithContext do on behalf of client c but CallStart, *)
(* which needs the request.                                                  *)
CallerStep(c) ==
    \/ DoTop(c)
    \/ CallDone(c)
    \/ CallCancelled(c)
    \/ BackoffElapsed(c)
    \/ BackoffCancelled(c)
    \/ BackoffNilContext(c)

GoroutineStep(id) ==
    \/ SdkReturn(id)
    \/ SdkFail(id)
    \/ SdkTimeout(id)
    \/ LateLost(id)
=============================================================================
