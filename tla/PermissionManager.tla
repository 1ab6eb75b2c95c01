------------------------- MODULE PermissionManager --------------------------
(***************************************************************************)
(* The permission manager of package casdoor (policy.go): Grant,           *)
(* GrantRole, Share, Revoke, Check, List and DeleteResourcePolicies on     *)
(* top of the SDK calls of module SdkCall and the pure rules of module     *)
(* Permission, against the policy set that the Casdoor server keeps.       *)
(*                                                                         *)
(* One manager operation is a sequence of SDK calls, each of them retried, *)
(* each of them interleaved with the calls of other clients and with late  *)
(* requests of operations that have already returned.                      *)
(***************************************************************************)
EXTENDS Permission, SdkCall

CONSTANTS
    Subjects, Resources, ActionNames, \* what policies are made of
    InitPolicies,      \* Casbin rules stored before the first call
    GrantRequests, ShareRequests, RevokeRequests,
    CheckRequests, ListFilters, DeleteRequests,
    Mappers,           \* mappers the application may install
    ContextKinds,      \* contexts that operations are called with
    HasPolicyTarget,   \* policy_enforcer or enforcer_id is configured
    MaxOutstanding     \* bound: operations running and goroutines abandoned

Rule == [ptype : {"p", "g"}, sub : Subjects, obj : Resources, act : ActionNames]

NoRule == [ptype |-> "", sub |-> "", obj |-> "", act |-> ""]

ReqKind == {"add", "remove", "enforce", "enforceWide", "list"}

ListRequest == [kind |-> "list", rule |-> NoRule]

Request == [kind : ReqKind \ {"list"}, rule : Rule] \cup {ListRequest}

\* What List selects by; an empty field matches everything.
Filter == [ptype : {""}, sub : Subjects \cup {""},
           obj : Resources \cup {""}, act : ActionNames \cup {""}]

\* The subject and the actions that a request comes down to are known ones.
Expands(e, res) ==
    e.err = "" => e.subject \in Subjects /\ res \in Resources /\ e.actions \in Seq(ActionNames)

\* The subject is taken from the request or, if that is blank, from the principal.
CheckError(q) ==
    LET sub == IF TrimSpace(q.subject) = "" THEN q.principal ELSE TrimSpace(q.subject)
    IN  [sub |-> sub,
         err |-> FirstError(<< <<sub = "", "ErrEmptySubject">>,
                               <<q.resource = "", "ErrEmptyResource">>,
                               <<q.action = "", "ErrEmptyAction">> >>)]

ASSUME RequestAssumption ==
    /\ \A fn \in Mappers \cup {DefaultMapper} :
          /\ \A g \in GrantRequests : /\ Expands(GrantActions(fn, g), g.resource)
                                      /\ Expands(GrantRoleActions(fn, g), g.resource)
          /\ \A r \in ShareRequests : Expands(ShareActions(fn, r), r.resource)
          /\ \A g \in RevokeRequests : Expands(RevokeActions(fn, g), g.resource)
    /\ \A q \in CheckRequests :
          CheckError(q).err = "" => /\ CheckError(q).sub \in Subjects
                                    /\ q.resource \in Resources
                                    /\ q.action \in ActionNames
    /\ ListFilters \subseteq Filter
    /\ DeleteRequests \subseteq Resources \cup {""}

ASSUME PermissionAssumption ==
    /\ InitPolicies \subseteq Rule
    /\ IsFiniteSet(Rule)
    /\ HasPolicyTarget \in BOOLEAN
    /\ MaxOutstanding \in Nat
    /\ Cardinality(CallId) >= MaxOutstanding + MaxLate  \* no call waits for a name
    /\ ContextKinds \subseteq CtxState

VARIABLES
    policies,   \* the rules Casdoor stores (external)
    mapper,     \* roleMapper.fn
    op,         \* op[c]: the operation of client c, or the one it last returned from
    log         \* history for the properties: see below

vars == <<ctx, do, calls, policies, mapper, op, log>>

(***************************************************************************)
(* op[c].rules are the rules the operation works on, in order, op[c].k how *)
(* many of them are acknowledged, op[c].ret "running" or the return value, *)
(* op[c].out the grants that List collected or the answer of Check.        *)
(***************************************************************************)
NewOp(kind, rules, filter, ret) ==
    [kind |-> kind, rules |-> rules, k |-> 0, filter |-> filter, ret |-> ret, out |-> {}]

NoOp == NewOp("none", <<>>, NoRule, "ok")

WriteKinds == {"grant", "revoke", "purge"}

(***************************************************************************)
(* log[c], the history of c's operation, which no action reads: the rules  *)
(* in its scope that were stored when it began (base, for the operations   *)
(* that only read), and those that requests of other operations, whoever   *)
(* issued them, have changed against it since (foe): added for a revoke or *)
(* a delete, removed for a grant, either for a read.                       *)
(***************************************************************************)
Matches(f, r) ==
    /\ r.ptype = "p"
    /\ f.sub \in {"", r.sub}
    /\ f.obj \in {"", r.obj}
    /\ f.act \in {"", r.act}

Selected(f, rules) == {r \in rules : Matches(f, r)}

InScope(o, rules) ==
    IF o.kind \in {"list", "delete", "purge"} THEN Selected(o.filter, rules)
    ELSE rules \cap Range(o.rules)

Against(o, before, after) ==
    InScope(o, CASE o.kind = "grant" -> before \ after
                 [] o.kind \in {"revoke", "delete", "purge"} -> after \ before
                 [] OTHER -> (after \ before) \cup (before \ after))

ReadKinds == {"check", "checkWide", "list"}

NewLog(o) == [base |-> IF o.kind \in ReadKinds THEN InScope(o, policies) ELSE {}, foe |-> {}]

Init ==
    /\ ctx = [c \in Clients |-> "live"]
    /\ do = [c \in Clients |-> DoOff]
    /\ calls = [id \in CallId |-> FreeCall]
    /\ policies = InitPolicies
    /\ mapper = DefaultMapper
    /\ op = [c \in Clients |-> NoOp]
    /\ log = [c \in Clients |-> [base |-> {}, foe |-> {}]]

-----------------------------------------------------------------------------
(* Starting an operation *)

\* Mutant: subject and object of the rule are swapped.
RulesForSwapped(sub, res, acts) ==
    [i \in DOMAIN acts |-> [ptype |-> "p", sub |-> res, obj |-> sub, act |-> acts[i]]]

RulesFor(sub, res, acts) ==
    [i \in DOMAIN acts |-> [ptype |-> "p", sub |-> sub, obj |-> res, act |-> acts[i]]]

Orphans == {id \in CallId : Running(id) /\ do[calls[id].owner].cur # id}

\* o is the operation as it is after its checks; it enters retry.Do when it has
\* not returned at once.
Begin(c, o, cx) ==
    /\ op[c].ret # "running"
    /\ Cardinality(Orphans) + Cardinality({d \in Clients : op[d].ret = "running"})
          < MaxOutstanding
    /\ op' = [op EXCEPT ![c] = o]
    /\ do' = [do EXCEPT ![c] = IF o.ret = "running" THEN DoStart ELSE DoOff]
    /\ ctx' = [ctx EXCEPT ![c] = cx]
    /\ calls' = Disowned(c)
    /\ log' = [log EXCEPT ![c] = NewLog(o)]
    /\ UNCHANGED <<policies, mapper>>

(***************************************************************************)
(* A loop over actions: an expansion that failed is an error, an empty one *)
(* is success without any call, and addPolicy / removePolicy fail on the   *)
(* first action when no policy target is configured.                       *)
(***************************************************************************)
WriteOp(kind, res, e) ==
    IF e.err # "" THEN NewOp(kind, <<>>, NoRule, "err")
    ELSE NewOp(kind, RulesFor(e.subject, res, e.actions), NoRule,
               IF e.actions = <<>> THEN "ok" ELSE IF HasPolicyTarget THEN "running" ELSE "err")

Grant(c, g, cx) == Begin(c, WriteOp("grant", g.resource, GrantActions(mapper, g)), cx)

GrantRole(c, g, cx) == Begin(c, WriteOp("grant", g.resource, GrantRoleActions(mapper, g)), cx)

Share(c, s, cx) == Begin(c, WriteOp("grant", s.resource, ShareActions(mapper, s)), cx)

Revoke(c, g, cx) == Begin(c, WriteOp("revoke", g.resource, RevokeActions(mapper, g)), cx)

Check(c, q, cx) ==
    LET e == CheckError(q)
    IN  Begin(c,
              IF e.err # "" THEN NewOp("check", <<>>, NoRule, "err")
              ELSE NewOp(IF q.wide THEN "checkWide" ELSE "check",
                         RulesFor(e.sub, q.resource, <<q.action>>), NoRule, "running"),
              cx)

ListOp(kind, f) ==
    NewOp(kind, <<>>, f, IF HasPolicyTarget THEN "running" ELSE "err")

List(c, f, cx) == Begin(c, ListOp("list", f), cx)

DeleteResourcePoliciesEx(c, res, cx) ==
    Begin(c,
          IF res = "" THEN NewOp("delete", <<>>, NoRule, "err")
          ELSE ListOp("delete", [NoRule EXCEPT !.obj = res]),
          cx)

\* nil, modelled as DefaultMapper, restores the default.
SetRoleActionMapper(fn) ==
    /\ mapper' = fn
    /\ UNCHANGED <<ctx, do, calls, policies, op, log>>

-----------------------------------------------------------------------------
(* Running it *)

\* A delete is in its List phase until it has got the rules to purge.
InList(o) == o.kind \in {"list", "delete"}

CurrentRequest(o) ==
    IF InList(o) THEN ListRequest
    ELSE [kind |-> CASE o.kind = "grant" -> "add"
                     [] o.kind \in {"revoke", "purge"} -> "remove"
                     [] o.kind = "check" -> "enforce"
                     [] o.kind = "checkWide" -> "enforceWide",
          rule |-> o.rules[o.k + 1]]

SdkCallStart(c) ==
    /\ CallStart(c, CurrentRequest(op[c]))
    /\ UNCHANGED <<policies, mapper, op, log>>

\* The order in which the server listed the rules is not known.
Orderings(S) ==
    {s \in [1..Cardinality(S) -> S] : \A x \in S : \E i \in DOMAIN s : s[i] = x}

Return(c, o) ==
    /\ op' = [op EXCEPT ![c] = o]
    /\ do' = [do EXCEPT ![c] = DoOff]

\* Mutant: the loop ends before the last rule.
RuleDoneEarly(c) ==
    /\ do[c].pc = "ok" /\ op[c].kind \in WriteKinds
    /\ LET o == [op[c] EXCEPT !.k = op[c].k + 1]
       IN  IF o.k >= Len(o.rules) - 1 THEN Return(c, [o EXCEPT !.ret = "ok"])
           ELSE op' = [op EXCEPT ![c] = o] /\ do' = [do EXCEPT ![c] = DoStart]
    /\ UNCHANGED <<ctx, calls, policies, mapper, log>>

\* addPolicy or removePolicy returned nil: on to the next rule.
RuleDone(c) ==
    /\ do[c].pc = "ok"
    /\ op[c].kind \in WriteKinds
    /\ LET o == [op[c] EXCEPT !.k = op[c].k + 1]
       IN  IF o.k = Len(o.rules) THEN Return(c, [o EXCEPT !.ret = "ok"])
           ELSE op' = [op EXCEPT ![c] = o] /\ do' = [do EXCEPT ![c] = DoStart]
    /\ UNCHANGED <<ctx, calls, policies, mapper, log>>

CheckDone(c) ==
    /\ do[c].pc = "ok"
    /\ op[c].kind \in {"check", "checkWide"}
    /\ Return(c, [op[c] EXCEPT !.ret = "ok", !.out = do[c].val])
    /\ UNCHANGED <<ctx, calls, policies, mapper, log>>

\* Mutant: what the server lists is returned unfiltered.
ListDoneUnfiltered(c) ==
    /\ do[c].pc = "ok" /\ op[c].kind = "list"
    /\ Return(c, [op[c] EXCEPT !.ret = "ok", !.out = do[c].val])
    /\ UNCHANGED <<ctx, calls, policies, mapper, log>>

ListDone(c) ==
    /\ do[c].pc = "ok"
    /\ op[c].kind = "list"
    /\ Return(c, [op[c] EXCEPT !.ret = "ok", !.out = Selected(op[c].filter, do[c].val)])
    /\ UNCHANGED <<ctx, calls, policies, mapper, log>>

\* DeleteResourcePoliciesEx has its list and removes the rules one by one.
DeleteListed(c) ==
    /\ do[c].pc = "ok"
    /\ op[c].kind = "delete"
    /\ LET found == Selected(op[c].filter, do[c].val)
       IN  \/ found = {} /\ Return(c, [op[c] EXCEPT !.kind = "purge", !.ret = "ok"])
           \/ \E s \in Orderings(found) :
                 /\ found # {}
                 /\ op' = [op EXCEPT ![c].kind = "purge", ![c].rules = s]
                 /\ do' = [do EXCEPT ![c] = DoStart]
    /\ UNCHANGED <<ctx, calls, policies, mapper, log>>

\* retry.Do returned an error: every operation gives up at the first one.
OpFailed(c) ==
    /\ do[c].pc = "err"
    /\ Return(c, [op[c] EXCEPT !.ret = "err"])
    /\ UNCHANGED <<ctx, calls, policies, mapper, log>>

-----------------------------------------------------------------------------
(* The Casdoor server (external) *)

Effect(req) ==
    CASE req.kind = "add" -> policies \cup {req.rule}
      [] req.kind = "remove" -> policies \ {req.rule}
      [] OTHER -> policies

\* A request with a domain or extra values has more fields than the three of
\* the stored rules and matches none of them.
Answer(req) ==
    CASE req.kind = "enforce" -> {req.rule} \cap policies
      [] req.kind = "list" -> policies
      [] OTHER -> {}

ServerApply(id) ==
    /\ ServerAnswer(id, Answer(calls[id].req))
    /\ policies' = Effect(calls[id].req)
    /\ log' = [c \in Clients |->
                 IF calls[id].owner = c /\ calls[id].mine THEN log[c]
                 ELSE [log[c] EXCEPT !.foe = @ \cup Against(op[c], policies, policies')]]
    /\ UNCHANGED <<mapper, op>>

-----------------------------------------------------------------------------
Lib(A) == A /\ UNCHANGED <<policies, mapper, op, log>>

ManagerStep(c) ==
    \/ SdkCallStart(c)
    \/ RuleDone(c)
    \/ CheckDone(c)
    \/ ListDone(c)
    \/ DeleteListed(c)
    \/ OpFailed(c)

Invoke(c) ==
    \E cx \in ContextKinds :
        \/ \E g \in GrantRequests : Grant(c, g, cx) \/ GrantRole(c, g, cx)
        \/ \E s \in ShareRequests : Share(c, s, cx)
        \/ \E g \in RevokeRequests : Revoke(c, g, cx)
        \/ \E q \in CheckRequests : Check(c, q, cx)
        \/ \E f \in ListFilters : List(c, f, cx)
        \/ \E r \in DeleteRequests : DeleteResourcePoliciesEx(c, r, cx)

Next ==
    \/ \E c \in Clients : Invoke(c) \/ ManagerStep(c) \/ Lib(CallerStep(c)) \/ Lib(Cancel(c))
    \/ \E id \in CallId : Lib(GoroutineStep(id)) \/ ServerApply(id)
    \/ \E fn \in Mappers : SetRoleActionMapper(fn)

Spec == Init /\ [][Next]_vars

-----------------------------------------------------------------------------
(* Properties *)

OpKind == {"none", "grant", "revoke", "check", "checkWide", "list", "delete", "purge"}

OpRecord == [kind : OpKind, rules : Seq(Rule), k : Nat, filter : Filter,
             ret : {"running", "ok", "err"}, out : SUBSET Rule]

DoRecord == [pc : DoPC, i : Nat, cur : CallId \cup {NoCall},
             done : {"none", "ok", "err"}, val : SUBSET Rule]

CallRecord == [stage : Stage, owner : Clients \cup {NoClient}, mine : BOOLEAN,
               req : Request \cup {NoRequest}, resp : SUBSET Rule]

(***************************************************************************)
(* Type correctness: the variables of policy.go's operations, of retry.Do  *)
(* and of the SDK calls, and rules built from known subjects, resources    *)
(* and actions only.                                                       *)
(***************************************************************************)
TypeOK ==
    /\ ctx \in [Clients -> CtxState]
    /\ do \in [Clients -> DoRecord]
    /\ calls \in [CallId -> CallRecord]
    /\ policies \subseteq Rule
    /\ mapper \in Mappers \cup {DefaultMapper}
    /\ op \in [Clients -> OpRecord]
    /\ log \in [Clients -> [base : SUBSET Rule, foe : SUBSET Rule]]

(***************************************************************************)
(* The closures of Check and List assign a variable of the operation from  *)
(* the SDK goroutine, and callWithContext may leave that goroutine behind. *)
(* The operation reads the variable only after retry.Do succeeded: at that *)
(* moment no goroutine of the operation is still running, so the read is   *)
(* never concurrent with a write.  One operation never has two SDK         *)
(* goroutines at a time either, whatever the retries.                      *)
(***************************************************************************)
NoSharedVariableRace ==
    \A c \in Clients :
        /\ do[c].pc = "ok" => OwnRunning(c) = {}
        /\ \A i, j \in OwnRunning(c) : i = j

\* Rule r is as the operation of c wants it, or another operation changed it.
Held(c, r) ==
    /\ op[c].kind = "grant" => r \in policies \cup log[c].foe
    /\ op[c].kind \in {"revoke", "purge"} => r \notin policies \/ r \in log[c].foe

(***************************************************************************)
(* A rule that Grant, Revoke or a purge has moved past is as the operation *)
(* wants it, now and until the client's next operation, unless a request   *)
(* of another operation changed it after this one began.                   *)
(***************************************************************************)
AcknowledgedRulesHold ==
    \A c \in Clients : \A j \in 1..op[c].k : Held(c, op[c].rules[j])

(***************************************************************************)
(* What Check and List answer was true at some moment of the call: a rule  *)
(* that no other operation touched meanwhile is reported exactly when it   *)
(* was stored when the call began, whatever retries and lost replies lie   *)
(* between.                                                                *)
(***************************************************************************)
ReadsAreCurrent ==
    \A c \in Clients :
        op[c].kind \in {"check", "list"} /\ op[c].ret = "ok" =>
            op[c].out \ log[c].foe = log[c].base \ log[c].foe

(***************************************************************************)
(* DeleteResourcePolicies that returned nil left no policy of the resource *)
(* behind, but for those that other operations added after it began: the   *)
(* list it works from cannot miss an older one.                            *)
(***************************************************************************)
DeleteIsComplete ==
    \A c \in Clients :
        op[c].kind = "purge" /\ op[c].ret = "ok" =>
            Selected(op[c].filter, policies) \subseteq log[c].foe

-----------------------------------------------------------------------------
(* The inductive invariant behind the three safety properties. *)

\* Operation and retry.Do run together, and there is always a rule to work on.
Shape ==
    \A c \in Clients :
        /\ op[c].ret = "running" <=> do[c].pc # "off"
        /\ op[c].k <= Len(op[c].rules)
        /\ InList(op[c]) => Len(op[c].rules) = 0
        /\ op[c].ret = "running" => op[c].kind # "none"
        /\ op[c].ret = "running" /\ ~InList(op[c]) => op[c].k < Len(op[c].rules)
        /\ op[c].kind = "purge" =>
              \A j \in DOMAIN op[c].rules : Matches(op[c].filter, op[c].rules[j])

\* A call under way has an owner and a request, and a call of the running
\* operation asks for nothing that works against the operation.
CallShape ==
    \A id \in CallId : calls[id].stage # "free" =>
        /\ calls[id].owner \in Clients
        /\ calls[id].req \in Request
        /\ calls[id].mine =>
              /\ op[calls[id].owner].kind = "grant" => calls[id].req.kind # "remove"
              /\ op[calls[id].owner].kind \in {"revoke", "delete", "purge"} =>
                    calls[id].req.kind # "add"

\* Which goroutines of its own an operation may have, by the state of retry.Do.
GoroutineShapeOf(c) ==
    /\ do[c].pc # "wait" => do[c].cur = NoCall /\ do[c].done = "none"
    /\ do[c].pc = "wait" => do[c].cur \in CallId
    /\ do[c].pc = "wait" /\ do[c].done = "none" =>
          /\ OwnRunning(c) = {do[c].cur}
          /\ calls[do[c].cur].req = CurrentRequest(op[c])
    /\ do[c].pc = "wait" /\ do[c].done # "none" =>
          /\ OwnRunning(c) = {}
          /\ ~(Running(do[c].cur) /\ calls[do[c].cur].owner = c)
    /\ do[c].pc \in {"call", "ok", "panic"} => OwnRunning(c) = {}
    /\ do[c].pc \in {"top", "backoff"} => OwnRunning(c) = {} \/ ctx[c] = "done"
    /\ \A i, j \in OwnRunning(c) : i = j

GoroutineShape == \A c \in Clients : GoroutineShapeOf(c)

\* From the moment the server processed the current request its rule is held.
CurrentHeld ==
    \A c \in Clients :
        op[c].kind \in WriteKinds =>
            /\ (/\ do[c].pc = "wait" /\ do[c].done = "none"
                /\ calls[do[c].cur].stage = "applied") => Held(c, op[c].rules[op[c].k + 1])
            /\ do[c].pc = "wait" /\ do[c].done = "ok" => Held(c, op[c].rules[op[c].k + 1])
            /\ do[c].pc = "ok" => Held(c, op[c].rules[op[c].k + 1])

-----------------------------------------------------------------------------
(* Liveness *)

\* The client goroutine is scheduled.
CallerFairness == \A c \in Clients : WF_vars(ManagerStep(c) \/ Lib(CallerStep(c)))

\* http.Client.Timeout ends every SDK call.
SdkFairness == \A id \in CallId : WF_vars(Running(id) /\ Lib(GoroutineStep(id)))

CallerFairSpec == Spec /\ CallerFairness

(***************************************************************************)
(* Once its context is cancelled an operation returns, even if no SDK call *)
(* ever does: callWithContext and the backoff both watch the context.      *)
(***************************************************************************)
CancelledOperationReturns ==
    \A c \in Clients :
        (op[c].ret = "running" /\ ctx[c] = "done") ~> (op[c].ret # "running")

(***************************************************************************)
(* With the HTTP timeout every operation returns, cancelled or not, but    *)
(* for the panic of a backoff without a context: the retries are bounded   *)
(* and no operation waits for another one.                                 *)
(***************************************************************************)
EveryOperationReturns ==
    SdkFairness => \A c \in Clients : (op[c].ret = "running") ~> (op[c].ret # "running" \/ do[c].pc = "panic")
=============================================================================
