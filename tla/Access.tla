------------------------------- MODULE Access -------------------------------
(***************************************************************************)
(* Authentication, the access guard and the audit trail: authn.go,         *)
(* principal.go, authz.go, access.go, audit.go and the adapter's           *)
(* Authenticate, Authorize and Record (adapter.go), on top of the SDK      *)
(* calls of module SdkCall.                                                *)
(*                                                                         *)
(* RequireAndAudit runs retry.Do twice with one context: for the decision, *)
(* then for the record of it.  RecordAsync has a context of its own, with  *)
(* a timeout, and a slot of a channel that bounds how many run.            *)
(***************************************************************************)
EXTENDS SdkCall

CONSTANTS
    Tokens,          \* bearer tokens, "" for a request without one
    Claims,          \* Claims[t]: what ParseJwtToken makes of t (external)
    AllowAnonymous,
    Checks,          \* the access.Check arguments
    Requests,        \* Casbin requests that the policies may permit
    InitPermitted,
    Entries,         \* the entry points the clients use
    ContextKinds,
    HasAuthenticator, HasAuthorizer, HasRecorder, \* not nil
    HasSelector,     \* enforceSelectors finds one
    AsyncLimit,      \* cap(limit) of RecordAsync
    MaxOutstanding   \* bound: operations running and goroutines abandoned

Principal ==
    [type : {"", "user", "anonymous"},
     id : {"", "anonymous"} \cup {Claims[t].name : t \in Tokens \ {""}} \cup {Claims[t].subject : t \in Tokens \ {""}}]

\* What the guard asks Casdoor.
Request == [sub : Principal, obj : {q.obj : q \in Checks}, act : {q.act : q \in Checks},
            ext : {q.ext : q \in Checks} \cup {""}]

ASSUME AccessAssumption ==
    /\ NoRequest \notin Request
    /\ {AllowAnonymous, HasAuthenticator, HasAuthorizer, HasRecorder, HasSelector} \subseteq BOOLEAN
    /\ InitPermitted \subseteq Requests
    /\ AsyncLimit \in Nat /\ MaxOutstanding \in Nat
    /\ Cardinality(CallId) >= MaxOutstanding + MaxLate  \* no call waits for a name
    /\ ContextKinds \subseteq CtxState \ {"nil"}

VARIABLES
    who,       \* who[c]: the principal in the context of c's request
    permitted, \* what the policies allow (external)
    op,        \* op[c]: the operation of client c, or the one it last returned from
    slots,     \* len(limit)
    log        \* history of op[c]: see NewLog

vars == <<ctx, do, calls, who, permitted, op, slots, log>>

-----------------------------------------------------------------------------
(* Principals *)

NoPrincipal == [type |-> "", id |-> ""]  \* none in the context
Anonymous == [type |-> "anonymous", id |-> "anonymous"]

IsZero(p) == p.id = "" /\ p.type = ""

\* The principal that the adapter makes of a token it could parse.
PrincipalOf(t) ==
    [type |-> "user", id |-> IF Claims[t].name # "" THEN Claims[t].name ELSE Claims[t].subject]

\* The principal AuthenticateToken puts into the context; none on an error.
AuthenticateToken(t, cx) ==
    CASE ~HasAuthenticator \/ t = "" -> IF AllowAnonymous THEN Anonymous ELSE NoPrincipal
      [] OTHER -> IF Claims[t].ok /\ cx # "done" /\ ~IsZero(PrincipalOf(t))
                  THEN PrincipalOf(t) ELSE NoPrincipal

-----------------------------------------------------------------------------
(* Operations *)

(***************************************************************************)
(* op[c].phase is what retry.Do runs for: "enforce" or "record".           *)
(* op[c].decision is that of Authorize, op[c].saved what Adapter.Record    *)
(* returned, op[c].slot whether a slot of limit is held.                   *)
(***************************************************************************)
NewOp(kind, q) ==
    [kind |-> kind, check |-> q, asked |-> NoRequest, phase |-> "none", decision |-> "none",
     saved |-> "none", slot |-> FALSE, ret |-> "running"]

NoCheck == [obj |-> "", act |-> "", ext |-> ""]
NoOp == [NewOp("none", NoCheck) EXCEPT !.ret = "done"]

\* What the operation asks, and what its whole check would ask.
Scope(o) == IF o.asked = NoRequest THEN {}
            ELSE {o.asked, [o.asked EXCEPT !.ext = o.check.ext]}

\* What of it was permitted, and what was not, at some moment of the operation;
\* the AddRecord requests it sent and those that the server stored.
NewLog(o) == [yes |-> Scope(o) \cap permitted, no |-> Scope(o) \ permitted, sent |-> 0, stored |-> 0]

Init ==
    /\ ctx = [c \in Clients |-> "live"]
    /\ do = [c \in Clients |-> DoOff]
    /\ calls = [id \in CallId |-> FreeCall]
    /\ who = [c \in Clients |-> NoPrincipal]
    /\ permitted = InitPermitted
    /\ op = [c \in Clients |-> NoOp]
    /\ slots = 0
    /\ log = [c \in Clients |-> [yes |-> {}, no |-> {}, sent |-> 0, stored |-> 0]]

\* The operation goes on with retry.Do, or returns.
Enter(c, o) ==
    /\ op' = [op EXCEPT ![c] = o]
    /\ do' = [do EXCEPT ![c] = IF o.ret = "running" THEN DoStart ELSE DoOff]

Done(o) == [o EXCEPT !.phase = "none", !.ret = "done"]

\* Guard.Record and audit.Record do nothing without a recorder.
ToRecord(o) == IF HasRecorder THEN [o EXCEPT !.phase = "record"] ELSE Done(o)

\* Can, Require and RequireAndAudit once the decision is known.
Decided(o, d) ==
    LET n == [o EXCEPT !.decision = d]
    IN  IF o.kind = "audited" THEN ToRecord(n) ELSE Done(n)

\* The checks of Can, Require and Authorize that precede the SDK call.
Ready(p, q) ==
    ~IsZero(p) /\ HasAuthorizer /\ q.obj # "" /\ q.act # "" /\ HasSelector

\* Mutant: object and action change places.
CasbinRequestSwapped(kind, p, q) ==
    [sub |-> p, obj |-> q.act, act |-> q.obj, ext |-> IF kind = "can" THEN q.ext ELSE ""]

\* Can passes domain and extra values on; Require has no use for them.
CasbinRequest(kind, p, q) ==
    [sub |-> p, obj |-> q.obj, act |-> q.act, ext |-> IF kind = "can" THEN q.ext ELSE ""]

ToEnforce(p, o) ==
    IF Ready(p, o.check)
    THEN [o EXCEPT !.phase = "enforce", !.asked = CasbinRequest(o.kind, p, o.check)]
    ELSE Decided(o, "err")

Orphans == {id \in CallId : Running(id) /\ do[calls[id].owner].cur # id}

Begin(c, o, p, cx) ==
    /\ op[c].ret # "running"
    /\ Cardinality(Orphans) + Cardinality({d \in Clients : op[d].ret = "running"})
          < MaxOutstanding
    /\ Enter(c, o)
    /\ ctx' = [ctx EXCEPT ![c] = cx]
    /\ calls' = Disowned(c)
    /\ who' = [who EXCEPT ![c] = p]
    /\ log' = [log EXCEPT ![c] = NewLog(o)]
    /\ UNCHANGED permitted

\* A request is authenticated and guarded: Can, Require or RequireAndAudit.
Guard(c, kind, t, q, cx) ==
    LET p == AuthenticateToken(t, cx)
    IN  /\ Begin(c, ToEnforce(p, NewOp(kind, q)), p, cx)
        /\ UNCHANGED slots

\* Guard.Record.
Record(c, cx) ==
    /\ Begin(c, ToRecord(NewOp("record", NoCheck)), who[c], cx)
    /\ UNCHANGED slots

\* RecordAsync with a limit, and with none.
AsyncKind(limited) == IF limited THEN "async" ELSE "unlimited"

\* Mutant: the detached context has no timeout.
RecordAsyncNoTimeout(c, limited) ==
    LET o == NewOp(AsyncKind(limited), NoCheck)
    IN  IF ~HasRecorder \/ (limited /\ slots = AsyncLimit)
        THEN Begin(c, Done(o), who[c], "background") /\ UNCHANGED slots
        ELSE /\ Begin(c, [o EXCEPT !.phase = "record", !.slot = limited], who[c], "background")
             /\ slots' = IF limited THEN slots + 1 ELSE slots

\* The event is dropped when every slot is taken; without a channel (limit is
\* nil) none is asked for.  The context is detached from the caller's and ends
\* with the timeout.
RecordAsync(c, limited) ==
    LET o == NewOp(AsyncKind(limited), NoCheck)
    IN  IF ~HasRecorder \/ (limited /\ slots = AsyncLimit)
        THEN Begin(c, Done(o), who[c], "live") /\ UNCHANGED slots
        ELSE /\ Begin(c, [o EXCEPT !.phase = "record", !.slot = limited], who[c], "live")
             /\ slots' = IF limited THEN slots + 1 ELSE slots

-----------------------------------------------------------------------------
CurrentRequest(o) ==
    [kind |-> o.phase,
     rule |-> IF o.phase = "enforce" THEN o.asked ELSE NoRequest]

SdkCallStart(c) ==
    /\ CallStart(c, CurrentRequest(op[c]))
    /\ log' = [log EXCEPT ![c].sent = IF op[c].phase = "record" THEN @ + 1 ELSE @]
    /\ UNCHANGED <<who, permitted, op, slots>>

\* Authorize returns; RequirePrincipal turns a refusal into ErrDenied.
Authorized(c) ==
    /\ do[c].pc = "ok" /\ op[c].phase = "enforce"
    /\ Enter(c, Decided(op[c], IF do[c].val # {} THEN "allow" ELSE "deny"))
    /\ UNCHANGED <<ctx, calls, who, permitted, slots, log>>

\* Mutant: an error lets the request through.
AuthorizeFailedOpen(c) ==
    /\ do[c].pc = "err" /\ op[c].phase = "enforce"
    /\ Enter(c, Decided(op[c], "allow"))
    /\ UNCHANGED <<ctx, calls, who, permitted, slots, log>>

AuthorizeFailed(c) ==
    /\ do[c].pc = "err" /\ op[c].phase = "enforce"
    /\ Enter(c, Decided(op[c], "err"))
    /\ UNCHANGED <<ctx, calls, who, permitted, slots, log>>

\* Mutants: the slot is given back on success only; an error is not reported.
RecordedKeepsSlot(c) ==
    /\ do[c].pc \in {"ok", "err"} /\ op[c].phase = "record"
    /\ Enter(c, Done([op[c] EXCEPT !.saved = do[c].pc, !.slot = FALSE]))
    /\ slots' = IF op[c].slot /\ do[c].pc = "ok" THEN slots - 1 ELSE slots
    /\ UNCHANGED <<ctx, calls, who, permitted, log>>
RecordedUnchecked(c) ==
    /\ do[c].pc \in {"ok", "err"} /\ op[c].phase = "record"
    /\ Enter(c, Done([op[c] EXCEPT !.saved = "ok", !.slot = FALSE]))
    /\ slots' = IF op[c].slot THEN slots - 1 ELSE slots
    /\ UNCHANGED <<ctx, calls, who, permitted, log>>

\* Adapter.Record returns; RecordAsync gives its slot back whatever happened.
Recorded(c) ==
    /\ do[c].pc \in {"ok", "err"} /\ op[c].phase = "record"
    /\ Enter(c, Done([op[c] EXCEPT !.saved = do[c].pc, !.slot = FALSE]))
    /\ slots' = IF op[c].slot THEN slots - 1 ELSE slots
    /\ UNCHANGED <<ctx, calls, who, permitted, log>>

-----------------------------------------------------------------------------
(* Casdoor (external) *)

Answer(req) == IF req.kind = "enforce" THEN {req.rule} \cap permitted ELSE {}

Stores(id, c) == calls[id].req.kind = "record" /\ calls[id].owner = c /\ calls[id].mine

ServerApply(id) ==
    /\ ServerAnswer(id, Answer(calls[id].req))
    /\ log' = [c \in Clients |-> [log[c] EXCEPT !.stored = IF Stores(id, c) THEN @ + 1 ELSE @]]
    /\ UNCHANGED <<who, permitted, op, slots>>

\* An administrator permits r, or forbids it.
PolicyChange(r) ==
    /\ permitted' = IF r \in permitted THEN permitted \ {r} ELSE permitted \cup {r}
    /\ log' = [c \in Clients |-> IF op[c].ret # "running" THEN log[c]
                                 ELSE [log[c] EXCEPT !.yes = @ \cup (Scope(op[c]) \cap permitted'),
                                                     !.no = @ \cup (Scope(op[c]) \ permitted')]]
    /\ UNCHANGED <<ctx, do, calls, who, op, slots>>

-----------------------------------------------------------------------------
Lib(A) == A /\ UNCHANGED <<who, permitted, op, slots, log>>

Invoke(c) ==
    \/ \E kind \in Entries \cap {"can", "require", "audited"} :
          \E t \in Tokens, q \in Checks, cx \in ContextKinds : Guard(c, kind, t, q, cx)
    \/ "record" \in Entries /\ \E cx \in ContextKinds : Record(c, cx)
    \/ "async" \in Entries /\ \E limited \in BOOLEAN : RecordAsync(c, limited)

GuardStep(c) == SdkCallStart(c) \/ Authorized(c) \/ AuthorizeFailed(c) \/ Recorded(c)

Next ==
    \/ \E c \in Clients : Invoke(c) \/ GuardStep(c) \/ Lib(CallerStep(c)) \/ Lib(Cancel(c))
    \/ \E id \in CallId : Lib(GoroutineStep(id)) \/ ServerApply(id)
    \/ \E r \in Requests : PolicyChange(r)

Spec == Init /\ [][Next]_vars

\* Goroutines are scheduled, and context.WithTimeout ends RecordAsync's context.
FairSpec ==
    /\ Spec
    /\ \A c \in Clients : /\ WF_vars(GuardStep(c) \/ Lib(CallerStep(c)))
                          /\ WF_vars(op[c].kind \in {"async", "unlimited"} /\ Lib(Cancel(c)))

-----------------------------------------------------------------------------
(* Properties *)

Phase == {"none", "enforce", "record"}

(***************************************************************************)
(* Type correctness: principals, decisions and requests of access.go and   *)
(* audit.go; what is asked of Casdoor are resource and action of a check,  *)
(* and retry.Do and the channel of RecordAsync stay within their limits.   *)
(***************************************************************************)
TypeOK ==
    /\ ctx \in [Clients -> CtxState]
    /\ permitted \subseteq Requests
    /\ slots \in 0..AsyncLimit
    /\ \A c \in Clients :
          /\ do[c].pc \in DoPC /\ do[c].i \in 0..(Attempts - 1) /\ do[c].cur \in CallId \cup {NoCall}
          /\ who[c] \in Principal
          /\ op[c].kind \in {"none", "can", "require", "audited", "record", "async", "unlimited"}
          /\ op[c].phase \in Phase /\ op[c].ret \in {"running", "done"}
          /\ op[c].asked \in Request \cup {NoRequest}
          /\ op[c].decision \in {"none", "allow", "deny", "err"} /\ op[c].saved \in {"none", "ok", "err"}
          /\ log[c].sent \in 0..Attempts
    /\ \A id \in CallId : calls[id].stage \in Stage /\ calls[id].owner \in Clients \cup {NoClient}

(***************************************************************************)
(* Authorize answers with a decision that was true at some moment of the   *)
(* call: allowed only if the policies permitted the request meanwhile,     *)
(* refused only if they did not, whatever was retried, abandoned or late.  *)
(***************************************************************************)
DecisionIsCurrent ==
    \A c \in Clients :
        /\ op[c].decision = "allow" => op[c].asked \in log[c].yes
        /\ op[c].decision = "deny" => op[c].asked \in log[c].no

(***************************************************************************)
(* Nobody passes the guard without an identity: a request that was allowed *)
(* was decided for the principal of a token that Casdoor accepted, or for  *)
(* the anonymous one where anonymous requests are configured.              *)
(***************************************************************************)
AllowedIsAuthenticated ==
    \A c \in Clients : op[c].decision = "allow" =>
        \/ op[c].asked.sub = Anonymous /\ AllowAnonymous
        \/ \E t \in Tokens \ {""} : Claims[t].ok /\ op[c].asked.sub = PrincipalOf(t)

(***************************************************************************)
(* The guard is sound: what it lets pass has an identity, and Casdoor      *)
(* permitted it for that identity during the call.                         *)
(***************************************************************************)
GuardIsSound == AllowedIsAuthenticated /\ DecisionIsCurrent

(***************************************************************************)
(* An audit record that was acknowledged is in Casdoor, and the retries of *)
(* one operation store it at most once per attempt.                        *)
(***************************************************************************)
AuditIsStored ==
    \A c \in Clients :
        /\ op[c].saved = "ok" => log[c].stored > 0
        /\ log[c].stored <= Attempts

(***************************************************************************)
(* The channel of RecordAsync holds one slot for each RecordAsync that was *)
(* given it and is running, and none for one that returned, failed or was  *)
(* dropped.                                                                *)
(***************************************************************************)
SlotsAreHeld ==
    slots = Cardinality({c \in Clients : op[c].kind = "async" /\ op[c].ret = "running"})

(***************************************************************************)
(* RecordAsync comes to an end, with a slot to give back or without, even  *)
(* if Casdoor never answers and the caller's context is never cancelled.   *)
(***************************************************************************)
AsyncReturns ==
    \A c \in Clients :
        op[c].kind \in {"async", "unlimited"} /\ op[c].ret = "running" ~> op[c].ret = "done"

(***************************************************************************)
(* Require passes only what the policies permit for the whole check, as    *)
(* Can does: "Check describes one authorization decision" (access.go).     *)
(***************************************************************************)
WholeCheckIsDecided ==
    \A c \in Clients : op[c].decision = "allow" =>
        [op[c].asked EXCEPT !.ext = op[c].check.ext] \in log[c].yes

(***************************************************************************)
(* RequireAndAudit "performs an authorization check and records the        *)
(* result" (access.go), a refusal and an error too: it returns without     *)
(* having sent a record only when the context of its request has ended,    *)
(* with which the record is sent.                                          *)
(***************************************************************************)
ResultIsRecorded ==
    \A c \in Clients :
        op[c].kind = "audited" /\ op[c].ret = "done" /\ HasRecorder /\ ctx[c] # "done" => log[c].sent > 0

(***************************************************************************)
(* The audit trail: a result is recorded, and a record that was            *)
(* acknowledged is stored.                                                 *)
(***************************************************************************)
AuditTrail == AuditIsStored /\ ResultIsRecorded
=============================================================================
