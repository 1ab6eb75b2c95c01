----------------------- MODULE PermissionManagerProofs -----------------------
(***************************************************************************)
(* Safety of PermissionManager for any number of clients, calls, retries   *)
(* and rules.                                                              *)
(***************************************************************************)
EXTENDS PermissionManager, FiniteSetTheorems, TLAPS

-----------------------------------------------------------------------------
(* Facts about the operators *)

\* The rules of an expansion are as many as its actions, and well formed.
LEMMA RulesForType ==
    ASSUME NEW sub \in Subjects, NEW res \in Resources, NEW acts \in Seq(ActionNames)
    PROVE  /\ RulesFor(sub, res, acts) \in Seq(Rule)
           /\ Len(RulesFor(sub, res, acts)) = Len(acts)
  <1>1. \A i \in DOMAIN acts :
          [ptype |-> "p", sub |-> sub, obj |-> res, act |-> acts[i]] \in Rule
    BY DEF Rule
  <1> QED
    BY <1>1 DEF RulesFor

\* Every ordering of a set of rules is a sequence of rules of the set.
LEMMA OrderingsType ==
    ASSUME NEW S \in SUBSET Rule, NEW s \in Orderings(S)
    PROVE  /\ s \in Seq(Rule)
           /\ Cardinality(S) \in Nat
           /\ Len(s) = Cardinality(S)
           /\ \A i \in DOMAIN s : s[i] \in S
           /\ S # {} => Len(s) > 0
  <1>1. IsFiniteSet(S)
    BY FS_Subset, PermissionAssumption
  <1>2. Cardinality(S) \in Nat
    BY <1>1, FS_CardinalityType
  <1>3. S # {} => Cardinality(S) # 0
    BY <1>1, FS_EmptySet
  <1> QED
    BY <1>2, <1>3 DEF Orderings

\* A new operation is well formed and has the fields it was given.
LEMMA NewOpType ==
    ASSUME NEW kind \in OpKind, NEW rules \in Seq(Rule), NEW filter \in Filter,
           NEW ret \in {"running", "ok", "err"}
    PROVE  /\ NewOp(kind, rules, filter, ret) \in OpRecord
           /\ NewOp(kind, rules, filter, ret).kind = kind
           /\ NewOp(kind, rules, filter, ret).rules = rules
           /\ NewOp(kind, rules, filter, ret).k = 0
           /\ NewOp(kind, rules, filter, ret).ret = ret
  BY DEF NewOp, OpRecord

\* The empty filter is a filter.
LEMMA NoRuleType == NoRule \in Filter
  BY DEF NoRule, Filter

\* An operation on entry: well formed, nothing acknowledged, and with a rule to
\* work on when it goes on; a check has one, and no read returns at once but with
\* an error.
Fresh(o) ==
    /\ o \in OpRecord
    /\ o.kind \notin {"none", "purge"}
    /\ o.k = 0
    /\ InList(o) => Len(o.rules) = 0
    /\ o.ret = "running" /\ ~InList(o) => Len(o.rules) > 0
    /\ o.kind \in {"check", "list"} => o.ret # "ok"
    /\ o.kind = "check" /\ o.ret = "running" => Len(o.rules) = 1

\* An operation without rules that returns at once or goes on to list is fresh.
LEMMA EmptyOpFresh ==
    ASSUME NEW kind \in OpKind \ {"none", "purge"}, NEW filter \in Filter,
           NEW ret \in {"running", "err"}, ret # "running" \/ kind \in {"list", "delete"}
    PROVE  Fresh(NewOp(kind, <<>>, filter, ret))
  <1> DEFINE rules == <<>>
  <1>1. rules \in Seq(Rule) /\ Len(rules) = 0
    OBVIOUS
  <1> HIDE DEF rules
  <1>2. Fresh(NewOp(kind, rules, filter, ret))
    <2> DEFINE o == NewOp(kind, rules, filter, ret)
    <2>0. kind \in OpKind
      OBVIOUS
    <2>1. o \in OpRecord /\ o.kind = kind /\ o.rules = rules /\ o.k = 0 /\ o.ret = ret
      BY <1>1, <2>0 DEF NewOp, OpRecord
    <2> HIDE DEF o
    <2>2. Fresh(o)
      BY <1>1, <2>1 DEF Fresh, InList
    <2> QED
      BY <2>2 DEF o
  <1> QED
    BY <1>2 DEF rules

\* A write operation whose expansion is well formed is a well-formed operation.
LEMMA WriteOpFresh ==
    ASSUME NEW kind \in {"grant", "revoke"}, NEW res, NEW e, Expands(e, res)
    PROVE  Fresh(WriteOp(kind, res, e))
  <1>1. kind \in OpKind
    BY DEF OpKind
  <1>2. CASE e.err # ""
    <2>1. WriteOp(kind, res, e) = NewOp(kind, <<>>, NoRule, "err")
      BY <1>2 DEF WriteOp
    <2> QED
      BY <1>1, <2>1, EmptyOpFresh, NoRuleType
  <1>3. CASE e.err = ""
    <2> DEFINE rules == RulesFor(e.subject, res, e.actions)
    <2>1. e.subject \in Subjects /\ res \in Resources /\ e.actions \in Seq(ActionNames)
      BY <1>3 DEF Expands
    <2>2. rules \in Seq(Rule) /\ Len(rules) = Len(e.actions)
      BY <2>1, RulesForType
    <2> HIDE DEF rules
    <2>3. PICK ret \in {"running", "ok", "err"} :
             /\ WriteOp(kind, res, e) = NewOp(kind, rules, NoRule, ret)
             /\ ret = "running" => e.actions # <<>>
      BY <1>3 DEF WriteOp, rules
    <2> QED
      BY <1>1, <2>1, <2>2, <2>3, NewOpType, NoRuleType DEF Fresh, InList
  <1> QED
    BY <1>2, <1>3

\* Every operation is fresh when it is invoked.
LEMMA InvokeFresh ==
    ASSUME TypeOK, NEW c \in Clients, Invoke(c)
    PROVE  \E o, cx : Fresh(o) /\ cx \in CtxState /\ Begin(c, o, cx)
  <1>1. PICK cx \in ContextKinds :
          \/ \E g \in GrantRequests : Grant(c, g, cx) \/ GrantRole(c, g, cx)
          \/ \E s \in ShareRequests : Share(c, s, cx)
          \/ \E g \in RevokeRequests : Revoke(c, g, cx)
          \/ \E q \in CheckRequests : Check(c, q, cx)
          \/ \E f \in ListFilters : List(c, f, cx)
          \/ \E r \in DeleteRequests : DeleteResourcePoliciesEx(c, r, cx)
    BY DEF Invoke
  <1>2. cx \in CtxState
    BY PermissionAssumption
  <1>3. mapper \in Mappers \cup {DefaultMapper}
    BY DEF TypeOK
  <1>5. CASE \E g \in GrantRequests : Grant(c, g, cx) \/ GrantRole(c, g, cx)
    <2>1. PICK g \in GrantRequests : Grant(c, g, cx) \/ GrantRole(c, g, cx)
      BY <1>5
    <2>2. /\ Fresh(WriteOp("grant", g.resource, GrantActions(mapper, g)))
          /\ Fresh(WriteOp("grant", g.resource, GrantRoleActions(mapper, g)))
      BY <1>3, WriteOpFresh, RequestAssumption
    <2> QED
      BY <1>2, <2>1, <2>2 DEF Grant, GrantRole
  <1>6. CASE \E s \in ShareRequests : Share(c, s, cx)
    <2>1. PICK s \in ShareRequests : Share(c, s, cx)
      BY <1>6
    <2>2. Fresh(WriteOp("grant", s.resource, ShareActions(mapper, s)))
      BY <1>3, WriteOpFresh, RequestAssumption
    <2> QED
      BY <1>2, <2>1, <2>2 DEF Share
  <1>7. CASE \E g \in RevokeRequests : Revoke(c, g, cx)
    <2>1. PICK g \in RevokeRequests : Revoke(c, g, cx)
      BY <1>7
    <2>2. Fresh(WriteOp("revoke", g.resource, RevokeActions(mapper, g)))
      BY <1>3, WriteOpFresh, RequestAssumption
    <2> QED
      BY <1>2, <2>1, <2>2 DEF Revoke
  <1>8. CASE \E q \in CheckRequests : Check(c, q, cx)
    <2>1. PICK q \in CheckRequests : Check(c, q, cx)
      BY <1>8
    <2> DEFINE e == CheckError(q)
               rules == RulesFor(e.sub, q.resource, <<q.action>>)
    <2>2. CASE e.err # ""
      <3>1. Begin(c, NewOp("check", <<>>, NoRule, "err"), cx)
        BY <2>1, <2>2 DEF Check
      <3>2. Fresh(NewOp("check", <<>>, NoRule, "err"))
        BY EmptyOpFresh, NoRuleType DEF OpKind
      <3> QED
        BY <1>2, <3>1, <3>2
    <2>3. CASE e.err = ""
      <3>1. e.sub \in Subjects /\ q.resource \in Resources /\ q.action \in ActionNames
        BY <2>3, RequestAssumption
      <3>2. <<q.action>> \in Seq(ActionNames) /\ Len(<<q.action>>) = 1
        BY <3>1
      <3>3. rules \in Seq(Rule) /\ Len(rules) = 1
        BY <3>1, <3>2, RulesForType
      <3>4. PICK kind \in {"check", "checkWide"} : Begin(c, NewOp(kind, rules, NoRule, "running"), cx)
        BY <2>1, <2>3 DEF Check
      <3> HIDE DEF rules
      <3>5. Fresh(NewOp(kind, rules, NoRule, "running"))
        BY <3>3, NewOpType, NoRuleType DEF Fresh, OpKind, InList
      <3> QED
        BY <1>2, <3>4, <3>5
    <2> QED
      BY <2>2, <2>3
  <1>9. ASSUME NEW kind \in {"list", "delete"}, NEW f \in Filter
        PROVE  Fresh(ListOp(kind, f))
    <2>1. PICK ret \in {"running", "err"} : ListOp(kind, f) = NewOp(kind, <<>>, f, ret)
      BY DEF ListOp
    <2> QED
      BY <2>1, EmptyOpFresh DEF OpKind
  <1>10. CASE \E f \in ListFilters : List(c, f, cx)
    BY <1>2, <1>9, <1>10, RequestAssumption DEF List
  <1>11. CASE \E r \in DeleteRequests : DeleteResourcePoliciesEx(c, r, cx)
    <2>1. PICK r \in DeleteRequests : DeleteResourcePoliciesEx(c, r, cx)
      BY <1>11
    <2>2. CASE r = ""
      <3>1. Begin(c, NewOp("delete", <<>>, NoRule, "err"), cx)
        BY <2>1, <2>2 DEF DeleteResourcePoliciesEx
      <3>2. Fresh(NewOp("delete", <<>>, NoRule, "err"))
        BY EmptyOpFresh, NoRuleType DEF OpKind
      <3> QED
        BY <1>2, <3>1, <3>2
    <2>3. CASE r # ""
      <3>1. Begin(c, ListOp("delete", [NoRule EXCEPT !.obj = r]), cx)
        BY <2>1, <2>3 DEF DeleteResourcePoliciesEx
      <3>2. [NoRule EXCEPT !.obj = r] \in Filter
        BY RequestAssumption DEF Filter, NoRule
      <3> QED
        BY <1>2, <1>9, <3>1, <3>2
    <2> QED
      BY <2>2, <2>3
  <1> QED
    BY <1>1, <1>5, <1>6, <1>7, <1>8, <1>10, <1>11

-----------------------------------------------------------------------------
(* Types *)

\* The library steps, with what they leave alone.
LibStep ==
    \/ \E c \in Clients : CallerStep(c) \/ Cancel(c)
    \/ \E id \in CallId : GoroutineStep(id)

\* The program counters, for use where DoPC is better left unexpanded.
LEMMA PCs == /\ "off" \in DoPC /\ "top" \in DoPC /\ "call" \in DoPC /\ "wait" \in DoPC
             /\ "backoff" \in DoPC /\ "ok" \in DoPC /\ "err" \in DoPC /\ "panic" \in DoPC
  BY DEF DoPC

\* retry.Do stays well formed when it moves on.
LEMMA DoUpdate ==
    ASSUME NEW d \in DoRecord, NEW pc \in DoPC, NEW i \in Nat
    PROVE  [d EXCEPT !.pc = pc] \in DoRecord /\ [d EXCEPT !.pc = pc, !.i = i] \in DoRecord
  BY DEF DoRecord

\* After an error retry.Do retries, backs off or gives up, and forgets the call.
LEMMA AfterFailureType ==
    ASSUME NEW d \in DoRecord
    PROVE  /\ AfterFailure(d) \in DoRecord
           /\ AfterFailure(d).pc \in {"err", "top", "backoff"}
           /\ AfterFailure(d).cur = NoCall
           /\ AfterFailure(d).done = "none"
           /\ AfterFailure(d).val = d.val
  <1> DEFINE n == [d EXCEPT !.cur = NoCall, !.done = "none"]
  <1>1. n \in DoRecord /\ n.cur = NoCall /\ n.done = "none" /\ n.val = d.val
    BY DEF DoRecord
  <1>2. d.i \in Nat
    BY DEF DoRecord
  <1>3. \/ AfterFailure(d) = [n EXCEPT !.pc = "err"]
        \/ AfterFailure(d) = [n EXCEPT !.pc = "top", !.i = d.i + 1]
        \/ AfterFailure(d) = [n EXCEPT !.pc = "backoff"]
    BY SdkCallAssumption DEF AfterFailure
  <1> HIDE DEF n
  <1>4. [n EXCEPT !.pc = "err"] \in DoRecord /\ [n EXCEPT !.pc = "backoff"] \in DoRecord
    BY <1>1, PCs DEF DoRecord
  <1>5. [n EXCEPT !.pc = "top", !.i = d.i + 1] \in DoRecord
    <2>1. d.i + 1 \in Nat
      BY <1>2
    <2> QED
      BY <1>1, <2>1, PCs, DoUpdate
  <1> QED
    BY <1>1, <1>3, <1>4, <1>5 DEF DoRecord

\* A running operation has a request to send.
LEMMA CurrentRequestType ==
    ASSUME TypeOK, Shape, NEW c \in Clients, op[c].ret = "running"
    PROVE  CurrentRequest(op[c]) \in Request
  <1>1. CASE InList(op[c])
    BY <1>1 DEF CurrentRequest, Request
  <1>2. CASE ~InList(op[c])
    <2>1. op[c] \in OpRecord
      BY DEF TypeOK
    <2>2. op[c].k + 1 \in DOMAIN op[c].rules /\ op[c].kind # "none"
      BY <1>2, <2>1 DEF Shape, OpRecord
    <2>3. op[c].rules[op[c].k + 1] \in Rule
      BY <2>1, <2>2 DEF OpRecord
    <2>4. op[c].kind \in {"grant", "revoke", "purge", "check", "checkWide"}
      BY <1>2, <2>1, <2>2 DEF OpRecord, OpKind, InList
    <2> DEFINE kind == CASE op[c].kind = "grant" -> "add"
                         [] op[c].kind \in {"revoke", "purge"} -> "remove"
                         [] op[c].kind = "check" -> "enforce"
                         [] op[c].kind = "checkWide" -> "enforceWide"
    <2>5. kind \in ReqKind \ {"list"}
      BY <2>4 DEF ReqKind
    <2>6. CurrentRequest(op[c]) = [kind |-> kind, rule |-> op[c].rules[op[c].k + 1]]
      BY <1>2 DEF CurrentRequest
    <2> HIDE DEF kind
    <2> QED
      BY <2>3, <2>5, <2>6 DEF Request
  <1> QED
    BY <1>1, <1>2

\* The steps of SdkCall keep its variables well formed.
LEMMA LibTypes ==
    ASSUME TypeOK, LibStep
    PROVE  /\ ctx' \in [Clients -> CtxState]
           /\ do' \in [Clients -> DoRecord]
           /\ calls' \in [CallId -> CallRecord]
  <1> USE DEF TypeOK
  <1>1. FreeCall \in CallRecord
    BY DEF FreeCall, CallRecord, Stage
  <1>2. ASSUME NEW c \in Clients, CallerStep(c)
        PROVE  /\ ctx' \in [Clients -> CtxState]
               /\ do' \in [Clients -> DoRecord]
               /\ calls' \in [CallId -> CallRecord]
    <2>0. do[c] \in DoRecord
      OBVIOUS
    <2>1. ASSUME NEW d \in DoRecord, do' = [do EXCEPT ![c] = d], UNCHANGED <<ctx, calls>>
          PROVE  /\ ctx' \in [Clients -> CtxState]
                 /\ do' \in [Clients -> DoRecord]
                 /\ calls' \in [CallId -> CallRecord]
      BY <2>1
    <2>2. CASE DoTop(c)
      <3>1. PICK pc \in DoPC : do' = [do EXCEPT ![c].pc = pc]
        BY <2>2 DEF DoTop, DoPC
      <3>2. [do[c] EXCEPT !.pc = pc] \in DoRecord
        BY <2>0 DEF DoRecord
      <3> QED
        BY <2>1, <2>2, <3>1, <3>2 DEF DoTop
    <2>3. CASE CallDone(c)
      <3>1. [do[c] EXCEPT !.pc = "ok", !.cur = NoCall, !.done = "none"] \in DoRecord
        BY <2>0, PCs DEF DoRecord
      <3> QED
        BY <2>0, <2>1, <2>3, <3>1, AfterFailureType DEF CallDone
    <2>4. CASE CallCancelled(c)
      BY <2>0, <2>1, <2>4, AfterFailureType DEF CallCancelled
    <2>5. CASE BackoffElapsed(c)
      <3>1. [do[c] EXCEPT !.pc = "top", !.i = do[c].i + 1] \in DoRecord
        <4>1. do[c].i + 1 \in Nat
          BY <2>0 DEF DoRecord
        <4> QED
          BY <2>0, <4>1, PCs, DoUpdate
      <3>2. do' = [do EXCEPT ![c] = [do[c] EXCEPT !.pc = "top", !.i = do[c].i + 1]]
        BY <2>5 DEF BackoffElapsed
      <3> QED
        BY <2>1, <2>5, <3>1, <3>2 DEF BackoffElapsed
    <2>6. CASE BackoffCancelled(c) \/ BackoffNilContext(c)
      <3>1. PICK pc \in DoPC : do' = [do EXCEPT ![c] = [do[c] EXCEPT !.pc = pc]]
        BY <2>6, PCs DEF BackoffCancelled, BackoffNilContext
      <3> QED
        BY <2>0, <2>1, <2>6, <3>1, DoUpdate DEF BackoffCancelled, BackoffNilContext
    <2> QED
      BY <1>2, <2>2, <2>3, <2>4, <2>5, <2>6 DEF CallerStep
  <1>3. ASSUME NEW c \in Clients, Cancel(c)
        PROVE  /\ ctx' \in [Clients -> CtxState]
               /\ do' \in [Clients -> DoRecord]
               /\ calls' \in [CallId -> CallRecord]
    BY <1>3 DEF Cancel, CtxState
  <1>4. ASSUME NEW id \in CallId, GoroutineStep(id)
        PROVE  /\ ctx' \in [Clients -> CtxState]
               /\ do' \in [Clients -> DoRecord]
               /\ calls' \in [CallId -> CallRecord]
    <2>1. calls[id] \in CallRecord
      OBVIOUS
    <2>2. ASSUME NEW outcome \in {"ok", "err"}, NEW v \in SUBSET Rule
          PROVE  Delivered(id, outcome, v) \in [Clients -> DoRecord]
      <3> DEFINE c == calls[id].owner
                 w == IF calls[id].mine /\ do[c].pc # "off" THEN v ELSE do[c].val
                 r == IF do[c].cur = id THEN outcome ELSE do[c].done
                 d == [do[c] EXCEPT !.val = w, !.done = r]
      <3>1. Delivered(id, outcome, v) = [do EXCEPT ![c] = d]
        BY DEF Delivered
      <3>2. CASE c \in Clients
        <4>1. do[c] \in DoRecord
          BY <3>2
        <4>2. w \in SUBSET Rule /\ r \in {"none", "ok", "err"}
          BY <4>1 DEF DoRecord
        <4> HIDE DEF w, r
        <4>3. d \in DoRecord
          BY <4>1, <4>2 DEF DoRecord
        <4> HIDE DEF d
        <4> QED
          BY <3>1, <3>2, <4>3
      <3>3. CASE c \notin Clients
        BY <3>1, <3>3
      <3> QED
        BY <3>2, <3>3
    <2>3. calls[id].resp \in SUBSET Rule
      BY <2>1 DEF CallRecord
    <2>4. CASE SdkReturn(id)
      BY <1>1, <2>2, <2>3, <2>4 DEF SdkReturn
    <2>5. CASE SdkFail(id)
      BY <1>1, <2>2, <2>5 DEF SdkFail
    <2>6. CASE SdkTimeout(id)
      <3>1. [calls[id] EXCEPT !.stage = "late"] \in CallRecord
        BY <2>1 DEF CallRecord, Stage
      <3> QED
        BY <2>2, <2>6, <3>1 DEF SdkTimeout
    <2>7. CASE LateLost(id)
      BY <1>1, <2>7 DEF LateLost
    <2> QED
      BY <1>4, <2>4, <2>5, <2>6, <2>7 DEF GoroutineStep
  <1> QED
    BY <1>2, <1>3, <1>4 DEF LibStep

\* The two resting places of retry.Do.
LEMMA DoConstants == DoOff \in DoRecord /\ DoStart \in DoRecord /\ DoOff.pc = "off" /\ DoStart.pc = "top"
                     /\ DoOff.cur = NoCall /\ DoStart.cur = NoCall
                     /\ DoOff.done = "none" /\ DoStart.done = "none"
  <1>1. DoOff \in DoRecord
    BY PCs DEF DoOff, DoRecord
  <1> QED
    BY <1>1, PCs, DoUpdate DEF DoStart, DoOff, DoRecord

\* The history only names rules it was shown.
LEMMA InScopeSubset == \A o, S : InScope(o, S) \subseteq S
  BY DEF InScope, Selected

\* What works against an operation are rules.
LEMMA AgainstSubset ==
    ASSUME NEW o, NEW S \in SUBSET Rule, NEW T \in SUBSET Rule
    PROVE  Against(o, S, T) \subseteq Rule
  BY InScopeSubset DEF Against

\* Every step keeps the state well formed.
LEMMA TypeStep ==
    ASSUME TypeOK, Shape, CallShape, [Next]_vars
    PROVE  TypeOK'
  <1> USE DEF TypeOK
  <1>1. ASSUME NEW c \in Clients, Invoke(c)
        PROVE  TypeOK'
    <2>1. PICK o, cx : Fresh(o) /\ cx \in CtxState /\ Begin(c, o, cx)
      BY <1>1, InvokeFresh
    <2>2. op' \in [Clients -> OpRecord] /\ ctx' \in [Clients -> CtxState]
      BY <2>1 DEF Begin, Fresh
    <2>3. do' \in [Clients -> DoRecord]
      BY <2>1, DoConstants DEF Begin
    <2>4. calls' \in [CallId -> CallRecord]
      <3>1. \A id \in CallId : [calls[id] EXCEPT !.mine = FALSE] \in CallRecord
        BY DEF CallRecord
      <3> QED
        BY <2>1, <3>1 DEF Begin, Disowned
    <2>5. log' \in [Clients -> [base : SUBSET Rule, foe : SUBSET Rule]]
      <3>1. NewLog(o).base \subseteq Rule /\ NewLog(o).foe = {}
        BY InScopeSubset DEF NewLog
      <3>2. NewLog(o) \in [base : SUBSET Rule, foe : SUBSET Rule]
        BY <3>1 DEF NewLog
      <3> QED
        BY <2>1, <3>2 DEF Begin
    <2> QED
      BY <2>1, <2>2, <2>3, <2>4, <2>5 DEF Begin
  <1>2. ASSUME NEW c \in Clients, SdkCallStart(c)
        PROVE  TypeOK'
    <2>1. op[c].ret = "running"
      BY <1>2 DEF SdkCallStart, CallStart, Shape
    <2>2. CurrentRequest(op[c]) \in Request
      BY <2>1, CurrentRequestType
    <2>3. PICK id \in CallId :
             /\ calls' = [calls EXCEPT ![id] = [stage |-> "sent", owner |-> c, mine |-> TRUE,
                                               req |-> CurrentRequest(op[c]), resp |-> {}]]
             /\ do' = [do EXCEPT ![c].pc = "wait", ![c].cur = id, ![c].done = "none"]
      BY <1>2 DEF SdkCallStart, CallStart, Free
    <2>4. calls' \in [CallId -> CallRecord]
      BY <2>2, <2>3 DEF CallRecord, Stage
    <2>5. do' \in [Clients -> DoRecord]
      <3>1. [do[c] EXCEPT !.pc = "wait", !.cur = id, !.done = "none"] \in DoRecord
        BY PCs DEF DoRecord
      <3>2. do' = [do EXCEPT ![c] = [do[c] EXCEPT !.pc = "wait", !.cur = id, !.done = "none"]]
        BY <2>3
      <3> QED
        BY <3>1, <3>2
    <2> QED
      BY <1>2, <2>4, <2>5 DEF SdkCallStart, CallStart
  <1>3. ASSUME NEW c \in Clients, RuleDone(c)
        PROVE  TypeOK'
    <2>1. op[c] \in OpRecord
      OBVIOUS
    <2> DEFINE o == [op[c] EXCEPT !.k = op[c].k + 1]
    <2>2. o \in OpRecord /\ [o EXCEPT !.ret = "ok"] \in OpRecord
      <3>1. PICK k \in Nat : k = op[c].k + 1
        BY <2>1 DEF OpRecord
      <3>2. [op[c] EXCEPT !.k = k] \in OpRecord
        BY <2>1 DEF OpRecord
      <3>3. o \in OpRecord
        BY <3>1, <3>2
      <3> HIDE DEF o
      <3> QED
        BY <3>3 DEF OpRecord
    <2> HIDE DEF o
    <2>3. PICK p \in OpRecord, d \in DoRecord :
             op' = [op EXCEPT ![c] = p] /\ do' = [do EXCEPT ![c] = d]
      BY <1>3, <2>2, DoConstants DEF RuleDone, Return, o
    <2> QED
      BY <1>3, <2>3 DEF RuleDone
  <1>4. ASSUME NEW c \in Clients, CheckDone(c) \/ ListDone(c) \/ OpFailed(c)
        PROVE  TypeOK'
    <2>1. op[c] \in OpRecord /\ do[c].val \in SUBSET Rule
      BY DEF DoRecord
    <2>2. Selected(op[c].filter, do[c].val) \in SUBSET Rule
      BY <2>1 DEF Selected
    <2>3. \A v \in SUBSET Rule : [op[c] EXCEPT !.ret = "ok", !.out = v] \in OpRecord
      BY <2>1 DEF OpRecord
    <2>4. [op[c] EXCEPT !.ret = "err"] \in OpRecord
      BY <2>1 DEF OpRecord
    <2>5. PICK p \in OpRecord : op' = [op EXCEPT ![c] = p] /\ do' = [do EXCEPT ![c] = DoOff]
      BY <1>4, <2>1, <2>2, <2>3, <2>4 DEF CheckDone, ListDone, OpFailed, Return
    <2> QED
      BY <1>4, <2>5, DoConstants DEF CheckDone, ListDone, OpFailed
  <1>5. ASSUME NEW c \in Clients, DeleteListed(c)
        PROVE  TypeOK'
    <2> DEFINE found == Selected(op[c].filter, do[c].val)
    <2>1. op[c] \in OpRecord /\ found \in SUBSET Rule
      BY DEF DoRecord, Selected
    <2>2. [op[c] EXCEPT !.kind = "purge", !.ret = "ok"] \in OpRecord
      BY <2>1 DEF OpRecord, OpKind
    <2>3. \A s \in Orderings(found) : [op[c] EXCEPT !.kind = "purge", !.rules = s] \in OpRecord
      <3>1. \A s \in Orderings(found) : s \in Seq(Rule)
        BY <2>1, OrderingsType
      <3>2. \A s \in Seq(Rule) : [op[c] EXCEPT !.kind = "purge", !.rules = s] \in OpRecord
        BY <2>1 DEF OpRecord, OpKind
      <3> QED
        BY <3>1, <3>2
    <2>4. PICK p \in OpRecord, d \in DoRecord :
             op' = [op EXCEPT ![c] = p] /\ do' = [do EXCEPT ![c] = d]
      <3>1. CASE found = {} /\ Return(c, [op[c] EXCEPT !.kind = "purge", !.ret = "ok"])
        BY <2>2, <3>1, DoConstants DEF Return
      <3>2. ASSUME NEW s \in Orderings(found),
                   op' = [op EXCEPT ![c].kind = "purge", ![c].rules = s],
                   do' = [do EXCEPT ![c] = DoStart]
            PROVE  \E p \in OpRecord, d \in DoRecord :
                      op' = [op EXCEPT ![c] = p] /\ do' = [do EXCEPT ![c] = d]
        BY <2>3, <3>2, DoConstants
      <3> QED
        BY <1>5, <3>1, <3>2 DEF DeleteListed
    <2> QED
      BY <1>5, <2>4 DEF DeleteListed
  <1>6. ASSUME NEW c \in Clients, Lib(CallerStep(c)) \/ Lib(Cancel(c))
        PROVE  TypeOK'
    BY <1>6, LibTypes DEF Lib, LibStep
  <1>7. ASSUME NEW id \in CallId, Lib(GoroutineStep(id))
        PROVE  TypeOK'
    BY <1>7, LibTypes DEF Lib, LibStep
  <1>8. ASSUME NEW id \in CallId, ServerApply(id)
        PROVE  TypeOK'
    <2>1. calls[id].req \in Request /\ calls[id].owner \in Clients
      BY <1>8 DEF ServerApply, ServerAnswer, OnWire, CallShape
    <2>2. policies' \in SUBSET Rule
      BY <1>8, <2>1 DEF ServerApply, Effect, Request, ListRequest
    <2>3. Answer(calls[id].req) \in SUBSET Rule
      BY DEF Answer
    <2>4. calls' \in [CallId -> CallRecord]
      <3>1. FreeCall \in CallRecord
        BY DEF FreeCall, CallRecord, Stage
      <3>2. \A v \in SUBSET Rule : [calls[id] EXCEPT !.stage = "applied", !.resp = v] \in CallRecord
        BY DEF CallRecord, Stage
      <3> QED
        BY <1>8, <2>3, <3>1, <3>2 DEF ServerApply, ServerAnswer
    <2>5. log' \in [Clients -> [base : SUBSET Rule, foe : SUBSET Rule]]
      <3>1. \A c \in Clients : log[c].foe \cup Against(op[c], policies, policies') \in SUBSET Rule
        BY <2>2, AgainstSubset
      <3>2. \A c \in Clients : [log[c] EXCEPT !.foe = log[c].foe \cup Against(op[c], policies, policies')]
                               \in [base : SUBSET Rule, foe : SUBSET Rule]
        BY <3>1
      <3> QED
        BY <1>8, <3>2 DEF ServerApply
    <2> QED
      BY <1>8, <2>2, <2>4, <2>5 DEF ServerApply, ServerAnswer
  <1>9. ASSUME NEW fn \in Mappers, SetRoleActionMapper(fn)
        PROVE  TypeOK'
    BY <1>9 DEF SetRoleActionMapper
  <1>10. CASE UNCHANGED vars
    BY <1>10 DEF vars
  <1> QED
    BY <1>1, <1>2, <1>3, <1>4, <1>5, <1>6, <1>7, <1>8, <1>9, <1>10 DEF Next, ManagerStep

-----------------------------------------------------------------------------
(* Shape *)

\* What an SDK goroutine that ends changes in the activations of retry.Do.
LEMMA DeliveredFacts ==
    ASSUME TypeOK, NEW id \in CallId, NEW outcome, NEW v, do' = Delivered(id, outcome, v)
    PROVE  \A c \in Clients :
              /\ do'[c].pc = do[c].pc
              /\ do'[c].cur = do[c].cur
              /\ do'[c].done = IF calls[id].owner = c /\ do[c].cur = id
                               THEN outcome ELSE do[c].done
  <1> TAKE c \in Clients
  <1>1. do[c] \in DoRecord
    BY DEF TypeOK
  <1>2. CASE calls[id].owner = c
    <2> DEFINE w == IF calls[id].mine /\ do[c].pc # "off" THEN v ELSE do[c].val
               r == IF do[c].cur = id THEN outcome ELSE do[c].done
    <2>1. do'[c] = [do[c] EXCEPT !.val = w, !.done = r]
      BY <1>2 DEF Delivered, TypeOK
    <2> HIDE DEF w
    <2> QED
      BY <1>1, <1>2, <2>1 DEF DoRecord
  <1>3. CASE calls[id].owner # c
    BY <1>3 DEF Delivered, TypeOK
  <1> QED
    BY <1>2, <1>3

\* No library step starts or ends an activation of retry.Do.
LEMMA LibKeepsActivation ==
    ASSUME TypeOK, LibStep
    PROVE  \A c \in Clients : do'[c].pc = "off" <=> do[c].pc = "off"
  <1>1. ASSUME NEW c \in Clients, CallerStep(c)
        PROVE  \A b \in Clients : do'[b].pc = "off" <=> do[b].pc = "off"
    <2>1. do[c] \in DoRecord
      BY DEF TypeOK
    <2>2. PICK d : do' = [do EXCEPT ![c] = d] /\ d.pc # "off" /\ do[c].pc # "off"
      <3>1. CASE DoTop(c)
        <4>1. PICK pc \in {"err", "call"} : do' = [do EXCEPT ![c] = [do[c] EXCEPT !.pc = pc]]
          BY <3>1 DEF DoTop
        <4> QED
          BY <2>1, <3>1, <4>1 DEF DoTop, DoRecord
      <3>2. CASE CallDone(c) \/ CallCancelled(c)
        <4>1. [do[c] EXCEPT !.pc = "ok", !.cur = NoCall, !.done = "none"].pc # "off"
          BY <2>1 DEF DoRecord
        <4>2. AfterFailure(do[c]).pc # "off"
          BY <2>1, AfterFailureType
        <4> QED
          BY <3>2, <4>1, <4>2 DEF CallDone, CallCancelled
      <3>3. CASE BackoffElapsed(c)
        <4>1. do' = [do EXCEPT ![c] = [do[c] EXCEPT !.pc = "top", !.i = do[c].i + 1]]
          BY <3>3 DEF BackoffElapsed
        <4>2. \A i : [do[c] EXCEPT !.pc = "top", !.i = i].pc # "off"
          BY <2>1 DEF DoRecord
        <4> QED
          BY <3>3, <4>1, <4>2 DEF BackoffElapsed
      <3>4. CASE BackoffCancelled(c) \/ BackoffNilContext(c)
        <4>1. PICK pc \in {"err", "panic"} : do' = [do EXCEPT ![c] = [do[c] EXCEPT !.pc = pc]]
          BY <3>4 DEF BackoffCancelled, BackoffNilContext
        <4>2. [do[c] EXCEPT !.pc = pc].pc = pc
          BY <2>1 DEF DoRecord
        <4> QED
          BY <3>4, <4>1, <4>2 DEF BackoffCancelled, BackoffNilContext
      <3> QED
        BY <1>1, <3>1, <3>2, <3>3, <3>4 DEF CallerStep
    <2> QED
      BY <2>2 DEF TypeOK
  <1>2. ASSUME NEW c \in Clients, Cancel(c)
        PROVE  do' = do
    BY <1>2 DEF Cancel
  <1>3. ASSUME NEW id \in CallId, GoroutineStep(id)
        PROVE  do' = do \/ \E outcome, v : do' = Delivered(id, outcome, v)
    BY <1>3 DEF GoroutineStep, SdkReturn, SdkFail, SdkTimeout, LateLost
  <1> QED
    BY <1>1, <1>2, <1>3, DeliveredFacts DEF LibStep

\* Moving on to the next rule, and returning.
LEMMA OpAdvance ==
    ASSUME NEW o \in OpRecord
    PROVE  LET n == [o EXCEPT !.k = o.k + 1]
               r == [n EXCEPT !.ret = "ok"]
           IN  /\ n.kind = o.kind /\ n.ret = o.ret /\ n.k = o.k + 1
               /\ n.rules = o.rules /\ n.filter = o.filter
               /\ r.kind = o.kind /\ r.ret = "ok" /\ r.k = o.k + 1
               /\ r.rules = o.rules /\ r.filter = o.filter
  <1>1. PICK k \in Nat : k = o.k + 1
    BY DEF OpRecord
  <1> DEFINE n == [o EXCEPT !.k = k]
  <1>2. /\ n \in OpRecord /\ n.kind = o.kind /\ n.ret = o.ret /\ n.k = k
        /\ n.rules = o.rules /\ n.filter = o.filter
    BY DEF OpRecord
  <1>3. LET r == [n EXCEPT !.ret = "ok"]
        IN  /\ r.kind = n.kind /\ r.ret = "ok" /\ r.k = n.k
            /\ r.rules = n.rules /\ r.filter = n.filter
    <2> HIDE DEF n
    <2> QED
      BY <1>2 DEF OpRecord
  <1> QED
    BY <1>1, <1>2, <1>3

\* Every step keeps operation and retry.Do in step with each other.
LEMMA ShapeStep ==
    ASSUME TypeOK, TypeOK', Shape, CallShape, [Next]_vars
    PROVE  Shape'
  <1> DEFINE S(c, o, d) ==
        /\ o.ret = "running" <=> d.pc # "off"
        /\ o.k <= Len(o.rules)
        /\ InList(o) => Len(o.rules) = 0
        /\ o.ret = "running" => o.kind # "none"
        /\ o.ret = "running" /\ ~InList(o) => o.k < Len(o.rules)
        /\ o.kind = "purge" => \A j \in DOMAIN o.rules : Matches(o.filter, o.rules[j])
  <1>a. Shape <=> \A c \in Clients : S(c, op[c], do[c])
    BY DEF Shape
  <1>b. Shape' <=> \A c \in Clients : S(c, op'[c], do'[c])
    BY DEF Shape, InList, Matches
  <1>c. ASSUME NEW c \in Clients, NEW o, NEW d, S(c, o, d),
               op' = [op EXCEPT ![c] = o], do' = [do EXCEPT ![c] = d]
        PROVE  Shape'
    <2> HIDE DEF S
    <2> QED
      BY <1>a, <1>b, <1>c DEF TypeOK
  <1>1. ASSUME NEW c \in Clients, Invoke(c)
        PROVE  Shape'
    <2>1. PICK o, cx : Fresh(o) /\ Begin(c, o, cx)
      BY <1>1, InvokeFresh
    <2>2. S(c, o, IF o.ret = "running" THEN DoStart ELSE DoOff)
      BY <2>1, DoConstants DEF Fresh, OpRecord
    <2> HIDE DEF S
    <2> QED
      BY <1>c, <2>1, <2>2 DEF Begin
  <1>2. ASSUME NEW c \in Clients, SdkCallStart(c)
        PROVE  Shape'
    <2>1. PICK id : do' = [do EXCEPT ![c] = [do[c] EXCEPT !.pc = "wait", !.cur = id, !.done = "none"]]
      BY <1>2 DEF SdkCallStart, CallStart
    <2>2. \A b \in Clients : do'[b].pc = "off" <=> do[b].pc = "off"
      <3>1. do[c] \in DoRecord
        BY DEF TypeOK
      <3>2. [do[c] EXCEPT !.pc = "wait", !.cur = id, !.done = "none"].pc = "wait"
        BY <3>1 DEF DoRecord
      <3> QED
        BY <1>2, <2>1, <3>2 DEF SdkCallStart, CallStart, TypeOK
    <2> QED
      BY <1>2, <2>2 DEF Shape, SdkCallStart, InList, Matches
  <1>3. ASSUME NEW c \in Clients, RuleDone(c)
        PROVE  Shape'
    <2> DEFINE o == [op[c] EXCEPT !.k = op[c].k + 1]
    <2>1. op[c] \in OpRecord
      BY DEF TypeOK
    <2>2. /\ o.kind = op[c].kind /\ o.ret = op[c].ret /\ o.k = op[c].k + 1
          /\ o.rules = op[c].rules /\ o.filter = op[c].filter
          /\ [o EXCEPT !.ret = "ok"].kind = op[c].kind
          /\ [o EXCEPT !.ret = "ok"].ret = "ok"
          /\ [o EXCEPT !.ret = "ok"].k = op[c].k + 1
          /\ [o EXCEPT !.ret = "ok"].rules = op[c].rules
          /\ [o EXCEPT !.ret = "ok"].filter = op[c].filter
      BY <2>1, OpAdvance
    <2>3. op[c].ret = "running" /\ op[c].k < Len(op[c].rules) /\ ~InList(op[c]) /\ op[c].kind # "none"
      BY <1>3 DEF RuleDone, Shape, InList, WriteKinds
    <2>4. Len(op[c].rules) \in Nat /\ op[c].k \in Nat
      BY <2>1 DEF OpRecord
    <2>5. CASE o.k = Len(o.rules)
      <3>1. S(c, [o EXCEPT !.ret = "ok"], DoOff)
        <4> DEFINE p == [o EXCEPT !.ret = "ok"]
        <4>1. /\ p.kind = op[c].kind /\ p.ret = "ok" /\ p.k = op[c].k + 1
              /\ p.rules = op[c].rules /\ p.filter = op[c].filter
          BY <2>2
        <4>2. S(c, op[c], do[c])
          BY <1>a
        <4>3. p.k <= Len(p.rules)
          BY <2>2, <2>4, <2>5, <4>1
        <4>4. \A j \in DOMAIN p.rules : p.kind = "purge" => Matches(p.filter, p.rules[j])
          BY <4>1, <4>2
        <4>5. ~InList(p)
          BY <2>3, <4>1 DEF InList
        <4> HIDE DEF p, o
        <4>6. S(c, p, DoOff)
          BY <4>1, <4>3, <4>4, <4>5, DoConstants
        <4> HIDE DEF S
        <4> QED
          BY <4>6 DEF p
      <3> HIDE DEF S
      <3> QED
        BY <1>3, <1>c, <2>5, <3>1 DEF RuleDone, Return
    <2>6. CASE o.k # Len(o.rules)
      <3>1. S(c, o, DoStart)
        <4> HIDE DEF o
        <4> QED
          BY <1>a, <2>2, <2>3, <2>4, <2>6, DoConstants DEF InList
      <3> HIDE DEF S
      <3> QED
        BY <1>3, <1>c, <2>6, <3>1 DEF RuleDone
    <2> QED
      BY <2>5, <2>6
  <1>4. ASSUME NEW c \in Clients, CheckDone(c) \/ ListDone(c) \/ OpFailed(c)
        PROVE  Shape'
    <2>1. op[c] \in OpRecord
      BY DEF TypeOK
    <2>2. PICK ret \in {"ok", "err"},
               out \in {do[c].val, Selected(op[c].filter, do[c].val), op[c].out} :
             /\ op' = [op EXCEPT ![c] = [op[c] EXCEPT !.ret = ret, !.out = out]]
             /\ do' = [do EXCEPT ![c] = DoOff]
      <3>1. [op[c] EXCEPT !.ret = "err"] = [op[c] EXCEPT !.ret = "err", !.out = op[c].out]
        BY <2>1 DEF OpRecord
      <3> QED
        BY <1>4, <3>1 DEF CheckDone, ListDone, OpFailed, Return
    <2> DEFINE p == [op[c] EXCEPT !.ret = ret, !.out = out]
    <2>3. /\ p.kind = op[c].kind /\ p.ret = ret /\ p.k = op[c].k
          /\ p.rules = op[c].rules /\ p.filter = op[c].filter
      BY <2>1 DEF OpRecord
    <2>4. op' = [op EXCEPT ![c] = p]
      BY <2>2
    <2> HIDE DEF p
    <2>5. S(c, p, DoOff)
      <3>1. S(c, op[c], do[c])
        BY <1>a
      <3> QED
        BY <2>3, <3>1, DoConstants DEF InList
    <2> HIDE DEF S
    <2> QED
      BY <1>c, <2>2, <2>4, <2>5
  <1>5. ASSUME NEW c \in Clients, DeleteListed(c)
        PROVE  Shape'
    <2> DEFINE found == Selected(op[c].filter, do[c].val)
    <2>1. op[c] \in OpRecord /\ found \in SUBSET Rule
      BY DEF TypeOK, DoRecord, Selected
    <2>2. CASE found = {} /\ Return(c, [op[c] EXCEPT !.kind = "purge", !.ret = "ok"])
      <3> DEFINE p == [op[c] EXCEPT !.kind = "purge", !.ret = "ok"]
      <3>1. /\ p.kind = "purge" /\ p.ret = "ok" /\ p.k = op[c].k
            /\ p.rules = op[c].rules /\ p.filter = op[c].filter
        BY <2>1 DEF OpRecord
      <3>2. op[c].kind = "delete" /\ Len(op[c].rules) = 0 /\ op[c].k <= Len(op[c].rules)
        BY <1>5 DEF DeleteListed, Shape, InList
      <3>3. op[c].rules \in Seq(Rule) /\ op[c].k \in Nat
        BY <2>1 DEF OpRecord
      <3>4. op' = [op EXCEPT ![c] = p] /\ do' = [do EXCEPT ![c] = DoOff]
        BY <2>2 DEF Return
      <3> HIDE DEF p
      <3>5. S(c, p, DoOff)
        BY <3>1, <3>2, <3>3, DoConstants DEF InList
      <3> HIDE DEF S
      <3> QED
        BY <1>c, <3>4, <3>5
    <2>3. ASSUME NEW s \in Orderings(found), found # {},
                 op' = [op EXCEPT ![c].kind = "purge", ![c].rules = s],
                 do' = [do EXCEPT ![c] = DoStart]
          PROVE  Shape'
      <3> DEFINE p == [op[c] EXCEPT !.kind = "purge", !.rules = s]
      <3>1. /\ p.kind = "purge" /\ p.ret = op[c].ret /\ p.k = op[c].k
            /\ p.rules = s /\ p.filter = op[c].filter
        BY <2>1 DEF OpRecord
      <3>2. /\ op[c].kind = "delete" /\ op[c].ret = "running"
            /\ Len(op[c].rules) = 0 /\ op[c].k <= Len(op[c].rules)
        BY <1>5 DEF DeleteListed, Shape, InList
      <3>3. op[c].k \in Nat
        BY <2>1 DEF OpRecord
      <3>4. op' = [op EXCEPT ![c] = p]
        BY <2>3
      <3>5. s \in Seq(Rule) /\ Len(s) > 0 /\ \A i \in DOMAIN s : s[i] \in found
        BY <2>1, <2>3, OrderingsType
      <3>6. \A i \in DOMAIN s : Matches(op[c].filter, s[i])
        BY <3>5 DEF Selected
      <3> HIDE DEF p, found
      <3>7. S(c, p, DoStart)
        BY <3>1, <3>2, <3>3, <3>5, <3>6, DoConstants DEF InList
      <3> HIDE DEF S
      <3> QED
        BY <1>c, <2>3, <3>4, <3>7
    <2> QED
      BY <1>5, <2>2, <2>3 DEF DeleteListed
  <1>6. ASSUME LibStep, UNCHANGED op
        PROVE  Shape'
    <2>1. \A c \in Clients : do'[c].pc = "off" <=> do[c].pc = "off"
      BY <1>6, LibKeepsActivation
    <2> QED
      BY <1>6, <2>1 DEF Shape, InList, Matches
  <1>7. ASSUME UNCHANGED <<op, do>>
        PROVE  Shape'
    BY <1>7 DEF Shape, InList, Matches
  <1>8. ASSUME NEW id \in CallId, ServerApply(id)
        PROVE  UNCHANGED <<op, do>>
    BY <1>8 DEF ServerApply, ServerAnswer
  <1>9. ASSUME NEW fn \in Mappers, SetRoleActionMapper(fn)
        PROVE  UNCHANGED <<op, do>>
    BY <1>9 DEF SetRoleActionMapper
  <1>10. ASSUME UNCHANGED vars
         PROVE  UNCHANGED <<op, do>>
    BY <1>10 DEF vars
  <1> QED
    BY <1>1, <1>2, <1>3, <1>4, <1>5, <1>6, <1>7, <1>8, <1>9, <1>10
       DEF Next, ManagerStep, Lib, LibStep

-----------------------------------------------------------------------------
(* Calls *)

\* The request a running operation sends, by its kind.
LEMMA CurrentRequestKind ==
    ASSUME NEW o
    PROVE  /\ o.kind = "grant" => CurrentRequest(o).kind = "add"
           /\ o.kind \in {"revoke", "purge"} => CurrentRequest(o).kind = "remove"
           /\ InList(o) => CurrentRequest(o).kind = "list"
           /\ o.kind \in WriteKinds => CurrentRequest(o).rule = o.rules[o.k + 1]
  BY DEF CurrentRequest, InList, ListRequest, WriteKinds

\* What SdkCallStart does, with the name of the new call.
LEMMA CallStartFacts ==
    ASSUME TypeOK, NEW c \in Clients, SdkCallStart(c)
    PROVE  \E id \in CallId :
              /\ calls[id].stage = "free"
              /\ calls' = [calls EXCEPT ![id] = [stage |-> "sent", owner |-> c, mine |-> TRUE,
                                                req |-> CurrentRequest(op[c]), resp |-> {}]]
              /\ do'[c].pc = "wait" /\ do'[c].cur = id /\ do'[c].done = "none"
              /\ \A b \in Clients \ {c} : do'[b] = do[b]
              /\ do[c].pc = "call"
              /\ UNCHANGED <<ctx, policies, mapper, op, log>>
  <1>1. PICK id \in CallId :
          /\ calls[id].stage = "free"
          /\ calls' = [calls EXCEPT ![id] = [stage |-> "sent", owner |-> c, mine |-> TRUE,
                                            req |-> CurrentRequest(op[c]), resp |-> {}]]
          /\ do' = [do EXCEPT ![c] = [do[c] EXCEPT !.pc = "wait", !.cur = id, !.done = "none"]]
    BY DEF SdkCallStart, CallStart, Free
  <1>2. do[c] \in DoRecord
    BY DEF TypeOK
  <1>3. /\ do'[c] = [do[c] EXCEPT !.pc = "wait", !.cur = id, !.done = "none"]
        /\ \A b \in Clients \ {c} : do'[b] = do[b]
    BY <1>1 DEF TypeOK
  <1>4. do'[c].pc = "wait" /\ do'[c].cur = id /\ do'[c].done = "none"
    BY <1>2, <1>3 DEF DoRecord
  <1> QED
    BY <1>1, <1>3, <1>4 DEF SdkCallStart, CallStart

\* How an SDK goroutine, or a request nobody waits for, changes the calls.
LEMMA GoroutineFacts ==
    ASSUME TypeOK, CallShape, NEW id \in CallId, GoroutineStep(id)
    PROVE  /\ calls[id].stage # "free"
           /\ calls[id].owner \in Clients
           /\ \A j \in CallId \ {id} : calls'[j] = calls[j]
           /\ \/ calls'[id] = FreeCall
              \/ calls'[id] = [calls[id] EXCEPT !.stage = "late"]
           /\ UNCHANGED ctx
           /\ \/ calls[id].stage = "late" /\ UNCHANGED do
              \/ /\ Running(id)
                 /\ \E outcome \in {"ok", "err"}, v \in {calls[id].resp, {}} :
                      /\ do' = Delivered(id, outcome, v)
                      /\ outcome = "ok" => calls[id].stage = "applied"
  <1>1. calls[id].stage # "free"
    BY DEF GoroutineStep, SdkReturn, SdkFail, SdkTimeout, LateLost, Running
  <1>2. calls[id].owner \in Clients
    BY <1>1 DEF CallShape
  <1>3. \/ calls' = [calls EXCEPT ![id] = FreeCall]
        \/ calls' = [calls EXCEPT ![id] = [calls[id] EXCEPT !.stage = "late"]]
    BY DEF GoroutineStep, SdkReturn, SdkFail, SdkTimeout, LateLost
  <1>4. /\ \A j \in CallId \ {id} : calls'[j] = calls[j]
        /\ \/ calls'[id] = FreeCall
           \/ calls'[id] = [calls[id] EXCEPT !.stage = "late"]
    BY <1>3 DEF TypeOK
  <1> QED
    BY <1>1, <1>2, <1>4 DEF GoroutineStep, SdkReturn, SdkFail, SdkTimeout, LateLost, Running

\* How the server's step changes the calls.
LEMMA ServerFacts ==
    ASSUME TypeOK, CallShape, NEW id \in CallId, ServerApply(id)
    PROVE  /\ OnWire(id)
           /\ calls[id].owner \in Clients
           /\ calls[id].req \in Request
           /\ \A j \in CallId \ {id} : calls'[j] = calls[j]
           /\ \/ calls[id].stage = "late" /\ calls'[id] = FreeCall
              \/ /\ calls[id].stage = "sent" /\ calls'[id].stage = "applied"
                 /\ calls'[id].owner = calls[id].owner /\ calls'[id].mine = calls[id].mine
                 /\ calls'[id].req = calls[id].req
           /\ UNCHANGED <<ctx, do, op>>
  <1>1. OnWire(id) /\ UNCHANGED <<ctx, do, op>>
    BY DEF ServerApply, ServerAnswer
  <1>2. calls[id].owner \in Clients /\ calls[id].req \in Request
    BY <1>1 DEF CallShape, OnWire
  <1>3. PICK v : calls' = [calls EXCEPT ![id] =
                    IF calls[id].stage = "late" THEN FreeCall
                    ELSE [calls[id] EXCEPT !.stage = "applied", !.resp = v]]
    BY DEF ServerApply, ServerAnswer
  <1>4. calls[id] \in CallRecord
    BY DEF TypeOK
  <1>5. LET n == [calls[id] EXCEPT !.stage = "applied", !.resp = v]
        IN  /\ n.stage = "applied" /\ n.owner = calls[id].owner
            /\ n.mine = calls[id].mine /\ n.req = calls[id].req
    BY <1>4 DEF CallRecord
  <1> QED
    BY <1>1, <1>2, <1>3, <1>5 DEF OnWire, TypeOK

\* The late form and the free form of a call are not running; the late form
\* keeps its owner and its request.
LEMMA LateAndFree ==
    ASSUME TypeOK, NEW id \in CallId
    PROVE  /\ FreeCall.stage = "free" /\ FreeCall.owner = NoClient /\ NoClient \notin Clients
           /\ [calls[id] EXCEPT !.stage = "late"].stage = "late"
           /\ [calls[id] EXCEPT !.stage = "late"].owner = calls[id].owner
           /\ [calls[id] EXCEPT !.stage = "late"].mine = calls[id].mine
           /\ [calls[id] EXCEPT !.stage = "late"].req = calls[id].req
  BY SdkCallAssumption DEF TypeOK, CallRecord, FreeCall

\* What Begin does to the calls of its client and of the others.
LEMMA DisownedFacts ==
    ASSUME TypeOK, NEW c \in Clients
    PROVE  \A id \in CallId :
              /\ Disowned(c)[id].stage = calls[id].stage
              /\ Disowned(c)[id].owner = calls[id].owner
              /\ Disowned(c)[id].req = calls[id].req
              /\ calls[id].owner = c => Disowned(c)[id].mine = FALSE
              /\ calls[id].owner # c => Disowned(c)[id].mine = calls[id].mine
  BY DEF Disowned, TypeOK, CallRecord

\* What the steps that follow a return of retry.Do leave behind.
LEMMA RuleDoneFacts ==
    ASSUME TypeOK, NEW c \in Clients, RuleDone(c)
    PROVE  /\ do[c].pc = "ok" /\ op[c].kind \in WriteKinds
           /\ op'[c].kind = op[c].kind /\ op'[c].rules = op[c].rules
           /\ op'[c].k = op[c].k + 1
           /\ \A b \in Clients \ {c} : op'[b] = op[b] /\ do'[b] = do[b]
           /\ do'[c] \in {DoOff, DoStart}
           /\ UNCHANGED <<ctx, calls, policies, log>>
  <1>1. op[c] \in OpRecord
    BY DEF TypeOK
  <1> DEFINE n == [op[c] EXCEPT !.k = op[c].k + 1]
             r == [n EXCEPT !.ret = "ok"]
  <1>2. \/ op' = [op EXCEPT ![c] = n] /\ do' = [do EXCEPT ![c] = DoStart]
        \/ op' = [op EXCEPT ![c] = r] /\ do' = [do EXCEPT ![c] = DoOff]
    BY DEF RuleDone, Return
  <1>3. /\ n.kind = op[c].kind /\ n.rules = op[c].rules /\ n.k = op[c].k + 1
        /\ r.kind = op[c].kind /\ r.rules = op[c].rules /\ r.k = op[c].k + 1
    BY <1>1, OpAdvance
  <1> HIDE DEF n, r
  <1>4. /\ op'[c] \in {n, r} /\ do'[c] \in {DoOff, DoStart}
        /\ \A b \in Clients \ {c} : op'[b] = op[b] /\ do'[b] = do[b]
    BY <1>2 DEF TypeOK
  <1> QED
    BY <1>3, <1>4 DEF RuleDone

\* How an operation returns.
LEMMA ReturnFacts ==
    ASSUME TypeOK, NEW c \in Clients, CheckDone(c) \/ ListDone(c) \/ OpFailed(c)
    PROVE  /\ op'[c].kind = op[c].kind /\ op'[c].rules = op[c].rules
           /\ op'[c].k = op[c].k
           /\ \A b \in Clients \ {c} : op'[b] = op[b] /\ do'[b] = do[b]
           /\ do'[c] = DoOff
           /\ UNCHANGED <<ctx, calls, policies, log>>
  <1>1. op[c] \in OpRecord
    BY DEF TypeOK
  <1>2. PICK r, v : op' = [op EXCEPT ![c] = [op[c] EXCEPT !.ret = r, !.out = v]]
    <2>1. CASE CheckDone(c) \/ ListDone(c)
      BY <2>1 DEF CheckDone, ListDone, Return
    <2>2. CASE OpFailed(c)
      <3>1. [op[c] EXCEPT !.ret = "err"] = [op[c] EXCEPT !.ret = "err", !.out = op[c].out]
        BY <1>1 DEF OpRecord
      <3> QED
        BY <2>2, <3>1 DEF OpFailed, Return
    <2> QED
      BY <2>1, <2>2
  <1> DEFINE n == [op[c] EXCEPT !.ret = r, !.out = v]
  <1>3. n.kind = op[c].kind /\ n.rules = op[c].rules /\ n.k = op[c].k
    BY <1>1 DEF OpRecord
  <1> HIDE DEF n
  <1>4. op'[c] = n /\ \A b \in Clients \ {c} : op'[b] = op[b]
    BY <1>2 DEF TypeOK, n
  <1>5. /\ do' = [do EXCEPT ![c] = DoOff]
        /\ UNCHANGED <<ctx, calls, policies, log>>
    BY DEF CheckDone, ListDone, OpFailed, Return
  <1> QED
    BY <1>3, <1>4, <1>5 DEF TypeOK

\* How a delete passes from its list to its purge.
LEMMA DeleteListedFacts ==
    ASSUME TypeOK, NEW c \in Clients, DeleteListed(c)
    PROVE  /\ do[c].pc = "ok" /\ op[c].kind = "delete"
           /\ op'[c].kind = "purge" /\ op'[c].k = op[c].k
           /\ \A b \in Clients \ {c} : op'[b] = op[b] /\ do'[b] = do[b]
           /\ do'[c] \in {DoOff, DoStart}
           /\ UNCHANGED <<ctx, calls, policies, log>>
  <1>1. op[c] \in OpRecord
    BY DEF TypeOK
  <1>2. /\ op'[c].kind = "purge" /\ op'[c].k = op[c].k
        /\ \A b \in Clients \ {c} : op'[b] = op[b]
    <2>1. CASE op' = [op EXCEPT ![c] = [op[c] EXCEPT !.kind = "purge", !.ret = "ok"]]
      <3>1. /\ op'[c] = [op[c] EXCEPT !.kind = "purge", !.ret = "ok"]
            /\ \A b \in Clients \ {c} : op'[b] = op[b]
        BY <2>1 DEF TypeOK
      <3>2. op'[c].kind = "purge" /\ op'[c].k = op[c].k
        BY <1>1, <3>1 DEF OpRecord
      <3> QED
        BY <3>1, <3>2
    <2>2. ASSUME NEW s, op' = [op EXCEPT ![c] = [op[c] EXCEPT !.kind = "purge", !.rules = s]]
          PROVE  /\ op'[c].kind = "purge" /\ op'[c].k = op[c].k
                 /\ \A b \in Clients \ {c} : op'[b] = op[b]
      <3>1. /\ op'[c] = [op[c] EXCEPT !.kind = "purge", !.rules = s]
            /\ \A b \in Clients \ {c} : op'[b] = op[b]
        BY <2>2 DEF TypeOK
      <3>2. op'[c].kind = "purge" /\ op'[c].k = op[c].k
        BY <1>1, <3>1 DEF OpRecord
      <3> QED
        BY <3>1, <3>2
    <2> QED
      BY <2>1, <2>2 DEF DeleteListed, Return
  <1>5. \/ do' = [do EXCEPT ![c] = DoOff]
        \/ do' = [do EXCEPT ![c] = DoStart]
    BY DEF DeleteListed, Return
  <1>6. do[c].pc = "ok" /\ op[c].kind = "delete" /\ UNCHANGED <<ctx, calls, policies, log>>
    BY DEF DeleteListed
  <1> QED
    BY <1>2, <1>5, <1>6 DEF TypeOK

\* A request of this kind does not work against an operation of that kind.
Helps(opKind, reqKind) ==
    /\ opKind = "grant" => reqKind # "remove"
    /\ opKind \in {"revoke", "delete", "purge"} => reqKind # "add"

\* No step lets a call work against the operation it belongs to.
LEMMA CallShapeStep ==
    ASSUME TypeOK, TypeOK', Shape, CallShape, [Next]_vars
    PROVE  CallShape'
  <1>1. ASSUME NEW c \in Clients, Invoke(c)
        PROVE  CallShape'
    <2>1. PICK o, cx : Fresh(o) /\ Begin(c, o, cx)
      BY <1>1, InvokeFresh
    <2>2. calls' = Disowned(c) /\ \A b \in Clients \ {c} : op'[b] = op[b]
      BY <2>1 DEF Begin, TypeOK
    <2>3. SUFFICES ASSUME NEW id \in CallId, calls'[id].stage # "free"
                   PROVE  /\ calls'[id].owner \in Clients
                          /\ calls'[id].req \in Request
                          /\ calls'[id].mine => Helps(op'[calls'[id].owner].kind, calls'[id].req.kind)
      BY DEF CallShape, Helps
    <2>4. /\ calls'[id].stage = calls[id].stage /\ calls'[id].owner = calls[id].owner
          /\ calls'[id].req = calls[id].req
          /\ calls[id].owner = c => calls'[id].mine = FALSE
          /\ calls[id].owner # c => calls'[id].mine = calls[id].mine
      BY <2>2, DisownedFacts
    <2>5. /\ calls[id].owner \in Clients /\ calls[id].req \in Request
          /\ calls[id].mine => Helps(op[calls[id].owner].kind, calls[id].req.kind)
      BY <2>3, <2>4 DEF CallShape, Helps
    <2>6. CASE calls[id].owner = c
      BY <2>4, <2>5, <2>6
    <2>7. CASE calls[id].owner # c
      BY <2>2, <2>4, <2>5, <2>7
    <2> QED
      BY <2>6, <2>7
  <1>2. ASSUME NEW c \in Clients, SdkCallStart(c)
        PROVE  CallShape'
    <2>1. PICK id \in CallId :
            /\ calls' = [calls EXCEPT ![id] = [stage |-> "sent", owner |-> c, mine |-> TRUE,
                                              req |-> CurrentRequest(op[c]), resp |-> {}]]
            /\ do[c].pc = "call" /\ op' = op
      BY <1>2, CallStartFacts
    <2>2. CurrentRequest(op[c]) \in Request
      BY <2>1, CurrentRequestType DEF Shape
    <2>3. /\ calls'[id].owner = c
          /\ calls'[id].req = CurrentRequest(op[c])
          /\ \A j \in CallId \ {id} : calls'[j] = calls[j]
      BY <2>1 DEF TypeOK
    <2>4. /\ op[c].kind = "grant" => CurrentRequest(op[c]).kind # "remove"
          /\ op[c].kind \in {"revoke", "delete", "purge"} => CurrentRequest(op[c]).kind # "add"
      BY CurrentRequestKind DEF InList
    <2> QED
      BY <2>1, <2>2, <2>3, <2>4 DEF CallShape
  <1>3. ASSUME NEW c \in Clients, RuleDone(c) \/ CheckDone(c) \/ ListDone(c) \/ OpFailed(c)
        PROVE  CallShape'
    <2>1. calls' = calls /\ \A b \in Clients : op'[b].kind = op[b].kind
      BY <1>3, RuleDoneFacts, ReturnFacts
    <2> QED
      BY <2>1 DEF CallShape
  <1>4. ASSUME NEW c \in Clients, DeleteListed(c)
        PROVE  CallShape'
    <2>1. calls' = calls /\ op[c].kind = "delete" /\ op'[c].kind = "purge"
          /\ \A b \in Clients \ {c} : op'[b] = op[b]
      BY <1>4, DeleteListedFacts
    <2> QED
      BY <2>1 DEF CallShape
  <1>5. ASSUME NEW c \in Clients, CallerStep(c) \/ Cancel(c), UNCHANGED op
        PROVE  UNCHANGED <<op, calls>>
    BY <1>5 DEF CallerStep, DoTop, CallDone, CallCancelled, BackoffElapsed, BackoffCancelled,
                BackoffNilContext, Cancel
  <1>6. ASSUME NEW id \in CallId, GoroutineStep(id), UNCHANGED op
        PROVE  CallShape'
    <2>1. /\ calls[id].stage # "free"
          /\ \A j \in CallId \ {id} : calls'[j] = calls[j]
          /\ \/ calls'[id] = FreeCall
             \/ calls'[id] = [calls[id] EXCEPT !.stage = "late"]
      BY <1>6, GoroutineFacts
    <2>2. \/ calls'[id].stage = "free"
          \/ /\ calls'[id].owner = calls[id].owner /\ calls'[id].mine = calls[id].mine
             /\ calls'[id].req = calls[id].req
      BY <2>1, LateAndFree
    <2> QED
      BY <1>6, <2>1, <2>2 DEF CallShape
  <1>7. ASSUME NEW id \in CallId, ServerApply(id)
        PROVE  CallShape'
    BY <1>7, ServerFacts, LateAndFree DEF CallShape
  <1>8. ASSUME UNCHANGED <<op, calls>>
        PROVE  CallShape'
    BY <1>8 DEF CallShape
  <1>9. ASSUME NEW fn \in Mappers, SetRoleActionMapper(fn)
        PROVE  UNCHANGED <<op, calls>>
    BY <1>9 DEF SetRoleActionMapper
  <1>10. ASSUME UNCHANGED vars
         PROVE  UNCHANGED <<op, calls>>
    BY <1>10 DEF vars
  <1> QED
    BY <1>1, <1>2, <1>3, <1>4, <1>5, <1>6, <1>7, <1>8, <1>9, <1>10 DEF Next, ManagerStep, Lib

-----------------------------------------------------------------------------
(* Goroutines *)

\* The steps of retry.Do and callWithContext, by the program counter they leave.
LEMMA CallerStepFacts ==
    ASSUME TypeOK, NEW c \in Clients, CallerStep(c)
    PROVE  /\ UNCHANGED <<ctx, calls>>
           /\ \A b \in Clients \ {c} : do'[b] = do[b]
           /\ \/ /\ do[c].pc = "top" /\ do'[c].pc \in {"call", "err"}
                 /\ do'[c].pc = "call" => ctx[c] # "done"
                 /\ do'[c].cur = do[c].cur /\ do'[c].done = do[c].done
              \/ /\ do[c].pc = "wait" /\ do[c].done = "ok" /\ do'[c].pc = "ok"
                 /\ do'[c].cur = NoCall /\ do'[c].done = "none"
              \/ /\ do[c].pc = "wait" /\ (do[c].done = "err" \/ ctx[c] = "done")
                 /\ do'[c].pc \in {"err", "top", "backoff"}
                 /\ do'[c].cur = NoCall /\ do'[c].done = "none"
              \/ /\ do[c].pc = "backoff" /\ do'[c].pc \in {"top", "err", "panic"}
                 /\ do'[c].pc = "panic" => ctx[c] = "nil"
                 /\ do'[c].cur = do[c].cur /\ do'[c].done = do[c].done
  <1>1. do[c] \in DoRecord
    BY DEF TypeOK
  <1>2. UNCHANGED <<ctx, calls>>
    BY DEF CallerStep, DoTop, CallDone, CallCancelled, BackoffElapsed, BackoffCancelled,
           BackoffNilContext
  <1>3. CASE DoTop(c)
    <2> DEFINE pc == IF ctx[c] = "done" THEN "err" ELSE "call"
    <2>1. do' = [do EXCEPT ![c] = [do[c] EXCEPT !.pc = pc]]
      BY <1>3 DEF DoTop
    <2>a. pc \in {"call", "err"} /\ (pc = "call" => ctx[c] # "done")
      OBVIOUS
    <2> HIDE DEF pc
    <2>2. do'[c] = [do[c] EXCEPT !.pc = pc] /\ \A b \in Clients \ {c} : do'[b] = do[b]
      BY <2>1 DEF TypeOK
    <2>3. do'[c].pc = pc /\ do'[c].cur = do[c].cur /\ do'[c].done = do[c].done
      BY <1>1, <2>2 DEF DoRecord
    <2> QED
      BY <1>2, <1>3, <2>a, <2>2, <2>3 DEF DoTop
  <1>4. CASE CallDone(c) /\ do[c].done = "ok"
    <2>1. /\ do'[c] = [do[c] EXCEPT !.pc = "ok", !.cur = NoCall, !.done = "none"]
          /\ \A b \in Clients \ {c} : do'[b] = do[b]
      BY <1>4 DEF CallDone, TypeOK
    <2>2. do'[c].pc = "ok" /\ do'[c].cur = NoCall /\ do'[c].done = "none"
      BY <1>1, <2>1 DEF DoRecord
    <2> QED
      BY <1>2, <1>4, <2>1, <2>2 DEF CallDone
  <1>5. CASE (CallDone(c) /\ do[c].done # "ok") \/ CallCancelled(c)
    <2>1. /\ do'[c] = AfterFailure(do[c])
          /\ \A b \in Clients \ {c} : do'[b] = do[b]
      BY <1>5 DEF CallDone, CallCancelled, TypeOK
    <2>2. do[c].done # "none" /\ do[c].done # "ok" => do[c].done = "err"
      BY <1>1 DEF DoRecord
    <2> QED
      BY <1>1, <1>2, <1>5, <2>1, <2>2, AfterFailureType DEF CallDone, CallCancelled
  <1>6. CASE BackoffElapsed(c)
    <2>1. PICK i : i = do[c].i + 1
      OBVIOUS
    <2>2. /\ do'[c] = [do[c] EXCEPT !.pc = "top", !.i = i]
          /\ \A b \in Clients \ {c} : do'[b] = do[b]
      BY <1>6, <2>1 DEF BackoffElapsed, TypeOK
    <2>3. do'[c].pc = "top" /\ do'[c].cur = do[c].cur /\ do'[c].done = do[c].done
      BY <1>1, <2>2 DEF DoRecord
    <2> QED
      BY <1>2, <1>6, <2>2, <2>3 DEF BackoffElapsed
  <1>7. CASE BackoffCancelled(c) \/ BackoffNilContext(c)
    <2>1. PICK pc : /\ do' = [do EXCEPT ![c] = [do[c] EXCEPT !.pc = pc]]
                    /\ pc \in {"err", "panic"} /\ (pc = "panic" => ctx[c] = "nil")
      BY <1>7 DEF BackoffCancelled, BackoffNilContext
    <2>2. do'[c] = [do[c] EXCEPT !.pc = pc] /\ \A b \in Clients \ {c} : do'[b] = do[b]
      BY <2>1 DEF TypeOK
    <2>3. do'[c].pc = pc /\ do'[c].cur = do[c].cur /\ do'[c].done = do[c].done
      BY <1>1, <2>2 DEF DoRecord
    <2> QED
      BY <1>2, <1>7, <2>1, <2>2, <2>3 DEF BackoffCancelled, BackoffNilContext
  <1> QED
    BY <1>3, <1>4, <1>5, <1>6, <1>7 DEF CallerStep

\* A client whose activation, operation and calls a step leaves alone.
LEMMA GoroutineShapeFrame ==
    ASSUME NEW c \in Clients, GoroutineShapeOf(c),
           do'[c] = do[c], op'[c] = op[c], ctx[c] = "done" => ctx'[c] = "done",
           OwnRunning(c)' = OwnRunning(c),
           \A id \in CallId :
              /\ id \in OwnRunning(c) => calls'[id].req = calls[id].req
              /\ Running(id)' /\ calls'[id].owner = c => Running(id) /\ calls[id].owner = c
    PROVE  GoroutineShapeOf(c)'
  BY DEF GoroutineShapeOf

\* Where the calls of client c stand as they did, so does OwnRunning(c).
LEMMA OwnRunningFrame ==
    ASSUME NEW c \in Clients,
           \A id \in CallId :
              (calls'[id].owner = c /\ calls'[id].mine /\ Running(id)')
                <=> (calls[id].owner = c /\ calls[id].mine /\ Running(id))
    PROVE  OwnRunning(c)' = OwnRunning(c)
  BY DEF OwnRunning

\* No step takes the goroutines of an operation out of the shape above.
LEMMA GoroutineShapeStep ==
    ASSUME TypeOK, TypeOK', Shape, CallShape, GoroutineShape, [Next]_vars
    PROVE  GoroutineShape'
  <1>a. \A c \in Clients : GoroutineShapeOf(c)
    BY DEF GoroutineShape
  <1>b. /\ NoCall \notin CallId
        /\ DoOff.cur = NoCall /\ DoOff.done = "none" /\ DoOff.pc = "off"
        /\ DoStart.cur = NoCall /\ DoStart.done = "none" /\ DoStart.pc = "top"
    BY SdkCallAssumption DEF DoOff, DoStart
  <1>c. ASSUME NEW c \in Clients, do'[c] \in {DoOff, DoStart},
               do'[c] = DoOff \/ OwnRunning(c)' = {},
               OwnRunning(c)' \subseteq OwnRunning(c)
        PROVE  GoroutineShapeOf(c)'
    BY <1>a, <1>b, <1>c DEF GoroutineShapeOf
  <1>1. ASSUME NEW c \in Clients, Invoke(c)
        PROVE  GoroutineShape'
    <2>1. PICK o, cx : Fresh(o) /\ Begin(c, o, cx)
      BY <1>1, InvokeFresh
    <2>2. /\ calls' = Disowned(c) /\ do'[c] \in {DoOff, DoStart} /\ ctx' = [ctx EXCEPT ![c] = cx]
          /\ \A b \in Clients \ {c} : op'[b] = op[b] /\ do'[b] = do[b]
      BY <2>1 DEF Begin, TypeOK
    <2>3. \A id \in CallId :
             /\ calls'[id].stage = calls[id].stage
             /\ calls'[id].owner = calls[id].owner
             /\ calls'[id].req = calls[id].req
             /\ calls[id].owner = c => calls'[id].mine = FALSE
             /\ calls[id].owner # c => calls'[id].mine = calls[id].mine
      BY <2>2, DisownedFacts
    <2>4. OwnRunning(c)' = {}
      BY <2>3 DEF OwnRunning
    <2>5. ASSUME NEW b \in Clients \ {c}
          PROVE  GoroutineShapeOf(b)'
      <3>1. OwnRunning(b)' = OwnRunning(b)
        BY <2>3, OwnRunningFrame DEF Running
      <3>2. ctx'[b] = ctx[b]
        BY <2>2 DEF TypeOK
      <3> QED
        BY <1>a, <2>2, <2>3, <3>1, <3>2, GoroutineShapeFrame DEF Running
    <2>6. GoroutineShapeOf(c)'
      BY <1>c, <2>2, <2>4
    <2> QED
      BY <2>5, <2>6 DEF GoroutineShape
  <1>2. ASSUME NEW c \in Clients, SdkCallStart(c)
        PROVE  GoroutineShape'
    <2>1. PICK id \in CallId :
            /\ calls[id].stage = "free"
            /\ calls' = [calls EXCEPT ![id] = [stage |-> "sent", owner |-> c, mine |-> TRUE,
                                              req |-> CurrentRequest(op[c]), resp |-> {}]]
            /\ do'[c].pc = "wait" /\ do'[c].cur = id /\ do'[c].done = "none"
            /\ \A b \in Clients \ {c} : do'[b] = do[b]
            /\ do[c].pc = "call"
            /\ UNCHANGED <<ctx, policies, mapper, op, log>>
      BY <1>2, CallStartFacts
    <2>2. /\ calls'[id].stage = "sent" /\ calls'[id].owner = c /\ calls'[id].mine
          /\ calls'[id].req = CurrentRequest(op[c])
          /\ \A j \in CallId \ {id} : calls'[j] = calls[j]
      BY <2>1 DEF TypeOK
    <2>3. OwnRunning(c) = {}
      BY <1>a, <2>1 DEF GoroutineShapeOf
    <2>4. OwnRunning(c)' = {id}
      BY <2>2, <2>3 DEF OwnRunning, Running
    <2>5. CurrentRequest(op[c])' = CurrentRequest(op[c])
      BY <2>1
    <2>6. GoroutineShapeOf(c)'
      BY <2>1, <2>2, <2>4, <2>5 DEF GoroutineShapeOf
    <2>7. ASSUME NEW b \in Clients \ {c}
          PROVE  GoroutineShapeOf(b)'
      <3>1. OwnRunning(b)' = OwnRunning(b) /\ id \notin OwnRunning(b)
        BY <2>1, <2>2, OwnRunningFrame DEF Running, OwnRunning
      <3> QED
        BY <1>a, <2>1, <2>2, <3>1, GoroutineShapeFrame DEF Running
    <2> QED
      BY <2>6, <2>7 DEF GoroutineShape
  <1>3. ASSUME NEW c \in Clients,
               RuleDone(c) \/ CheckDone(c) \/ ListDone(c) \/ OpFailed(c) \/ DeleteListed(c)
        PROVE  GoroutineShape'
    <2>1. /\ \A b \in Clients \ {c} : op'[b] = op[b] /\ do'[b] = do[b]
          /\ UNCHANGED <<ctx, calls>>
          /\ do'[c] \in {DoOff, DoStart}
          /\ do[c].pc = "ok" \/ do'[c] = DoOff
      BY <1>3, RuleDoneFacts, ReturnFacts, DeleteListedFacts
    <2>2. \A b \in Clients : OwnRunning(b)' = OwnRunning(b)
      BY <2>1 DEF OwnRunning, Running
    <2>3. do[c].pc = "ok" => OwnRunning(c) = {}
      BY <1>a DEF GoroutineShapeOf
    <2>4. GoroutineShapeOf(c)'
      BY <1>c, <2>1, <2>2, <2>3
    <2>5. ASSUME NEW b \in Clients \ {c}
          PROVE  GoroutineShapeOf(b)'
      BY <1>a, <2>1, <2>2, GoroutineShapeFrame DEF Running
    <2> QED
      BY <2>4, <2>5 DEF GoroutineShape
  <1>4. ASSUME NEW c \in Clients, CallerStep(c), UNCHANGED op
        PROVE  GoroutineShape'
    <2>1. UNCHANGED <<ctx, calls>> /\ \A b \in Clients \ {c} : do'[b] = do[b]
      BY <1>4, CallerStepFacts
    <2>2. \A b \in Clients : OwnRunning(b)' = OwnRunning(b)
      BY <2>1 DEF OwnRunning, Running
    <2>3. GoroutineShapeOf(c)'
      <3>1. GoroutineShapeOf(c) /\ ctx'[c] = ctx[c] /\ OwnRunning(c)' = OwnRunning(c)
        BY <1>a, <2>1, <2>2
      <3>2. do[c].done \in {"none", "ok", "err"}
        BY DEF TypeOK, DoRecord
      <3> QED
        BY <1>4, <3>1, <3>2, CallerStepFacts DEF GoroutineShapeOf
    <2>4. ASSUME NEW b \in Clients \ {c}
          PROVE  GoroutineShapeOf(b)'
      BY <1>a, <1>4, <2>1, <2>2, GoroutineShapeFrame DEF Running
    <2> QED
      BY <2>3, <2>4 DEF GoroutineShape
  <1>5. ASSUME NEW c \in Clients, Cancel(c), UNCHANGED op
        PROVE  GoroutineShape'
    <2>1. UNCHANGED <<do, calls>> /\ \A b \in Clients : ctx[b] = "done" => ctx'[b] = "done"
      BY <1>5 DEF Cancel, TypeOK
    <2>2. \A b \in Clients : OwnRunning(b)' = OwnRunning(b)
      BY <2>1 DEF OwnRunning, Running
    <2>3. ASSUME NEW b \in Clients
          PROVE  GoroutineShapeOf(b)'
      BY <1>a, <1>5, <2>1, <2>2, GoroutineShapeFrame DEF Running
    <2> QED
      BY <2>3 DEF GoroutineShape
  <1>6. ASSUME NEW id \in CallId, GoroutineStep(id), UNCHANGED op
        PROVE  GoroutineShape'
    <2>1. /\ calls[id].stage # "free"
          /\ \A j \in CallId \ {id} : calls'[j] = calls[j]
          /\ ctx' = ctx
          /\ \/ calls[id].stage = "late" /\ do' = do
             \/ /\ Running(id)
                /\ \E outcome \in {"ok", "err"}, v \in {calls[id].resp, {}} : do' = Delivered(id, outcome, v)
      BY <1>6, GoroutineFacts
    <2>2. ~Running(id)'
      BY <1>6, GoroutineFacts, LateAndFree DEF Running
    <2>3. \A c \in Clients : OwnRunning(c)' = OwnRunning(c) \ {id}
      BY <2>1, <2>2 DEF OwnRunning, Running
    <2>4. ASSUME NEW c \in Clients
          PROVE  /\ do'[c].pc = do[c].pc /\ do'[c].cur = do[c].cur
                 /\ do[c].cur # id => do'[c].done = do[c].done
                 /\ ~(Running(id) /\ calls[id].owner = c) => do'[c].done = do[c].done
                 /\ Running(id) /\ calls[id].owner = c /\ do[c].cur = id => do'[c].done # "none"
      <3>1. CASE calls[id].stage = "late" /\ do' = do
        BY <3>1 DEF Running
      <3>2. CASE Running(id) /\ \E outcome \in {"ok", "err"}, v \in {calls[id].resp, {}} : do' = Delivered(id, outcome, v)
        <4>1. PICK outcome \in {"ok", "err"}, v \in {calls[id].resp, {}} : do' = Delivered(id, outcome, v)
          BY <3>2
        <4>2. /\ do'[c].pc = do[c].pc
              /\ do'[c].cur = do[c].cur
              /\ do'[c].done = IF calls[id].owner = c /\ do[c].cur = id
                               THEN outcome ELSE do[c].done
          BY <4>1, DeliveredFacts
        <4> QED
          BY <3>2, <4>2
      <3> QED
        BY <2>1, <3>1, <3>2
    <2>5. ASSUME NEW c \in Clients
          PROVE  GoroutineShapeOf(c)'
      <3>1. GoroutineShapeOf(c) /\ OwnRunning(c)' = OwnRunning(c) \ {id}
        BY <1>a, <2>3
      <3>2. ctx'[c] = ctx[c] /\ CurrentRequest(op[c])' = CurrentRequest(op[c])
        BY <1>6, <2>1
      <3>3. \A j \in CallId :
               Running(j)' => j # id /\ Running(j) /\ calls'[j] = calls[j]
        BY <2>1, <2>2 DEF Running
      <3>4. CASE do[c].pc = "wait" /\ do[c].cur = id
        <4>1. do[c].done = "none" => Running(id) /\ calls[id].owner = c
          BY <3>1, <3>4 DEF GoroutineShapeOf, OwnRunning
        <4>2. do'[c].done # "none" /\ do'[c].pc = "wait" /\ do'[c].cur = id
          BY <2>4, <3>4, <4>1
        <4>3. OwnRunning(c)' = {}
          BY <3>1, <3>4 DEF GoroutineShapeOf
        <4> QED
          BY <2>2, <4>2, <4>3 DEF GoroutineShapeOf
      <3>5. CASE ~(do[c].pc = "wait" /\ do[c].cur = id)
        <4>1. do'[c].pc = do[c].pc /\ do'[c].cur = do[c].cur /\ do'[c].done = do[c].done
          BY <1>b, <2>4, <3>1, <3>5 DEF GoroutineShapeOf
        <4>2. CASE do[c].pc = "wait"
          <5>1. do[c].cur \in CallId /\ do[c].cur # id /\ calls'[do[c].cur] = calls[do[c].cur]
            BY <2>1, <3>1, <3>5, <4>2 DEF GoroutineShapeOf
          <5>2. OwnRunning(c)' = OwnRunning(c)
            BY <3>1, <4>2, <5>1 DEF GoroutineShapeOf
          <5> QED
            BY <3>1, <3>2, <3>3, <4>1, <4>2, <5>1, <5>2 DEF GoroutineShapeOf
        <4>3. CASE do[c].pc # "wait"
          BY <3>1, <3>2, <4>1, <4>3 DEF GoroutineShapeOf
        <4> QED
          BY <4>2, <4>3
      <3> QED
        BY <3>4, <3>5
    <2> QED
      BY <2>5 DEF GoroutineShape
  <1>7. ASSUME NEW id \in CallId, ServerApply(id)
        PROVE  GoroutineShape'
    <2>1. /\ \A j \in CallId \ {id} : calls'[j] = calls[j]
          /\ \/ calls[id].stage = "late" /\ calls'[id] = FreeCall
             \/ /\ calls[id].stage = "sent" /\ calls'[id].stage = "applied"
                /\ calls'[id].owner = calls[id].owner /\ calls'[id].mine = calls[id].mine
                /\ calls'[id].req = calls[id].req
          /\ UNCHANGED <<ctx, do, op>>
      BY <1>7, ServerFacts
    <2>2. \/ ~Running(id) /\ ~Running(id)'
          \/ /\ Running(id) /\ Running(id)'
             /\ calls'[id].owner = calls[id].owner /\ calls'[id].mine = calls[id].mine
             /\ calls'[id].req = calls[id].req
      BY <2>1, LateAndFree DEF Running
    <2>3. ASSUME NEW b \in Clients
          PROVE  GoroutineShapeOf(b)'
      <3>1. OwnRunning(b)' = OwnRunning(b)
        BY <2>1, <2>2, OwnRunningFrame DEF Running
      <3>2. \A j \in OwnRunning(b) : calls'[j].req = calls[j].req
        BY <2>1, <2>2 DEF OwnRunning
      <3>3. \A j \in CallId : Running(j)' /\ calls'[j].owner = b => Running(j) /\ calls[j].owner = b
        BY <2>1, <2>2 DEF Running
      <3> QED
        BY <1>a, <2>1, <3>1, <3>2, <3>3, GoroutineShapeFrame
    <2> QED
      BY <2>3 DEF GoroutineShape
  <1>8. ASSUME UNCHANGED <<ctx, do, op, calls>>
        PROVE  GoroutineShape'
    <2>1. ASSUME NEW b \in Clients
          PROVE  GoroutineShapeOf(b)'
      <3>1. OwnRunning(b)' = OwnRunning(b)
        BY <1>8 DEF OwnRunning, Running
      <3> QED
        BY <1>a, <1>8, <3>1, GoroutineShapeFrame DEF Running
    <2> QED
      BY <2>1 DEF GoroutineShape
  <1>9. ASSUME NEW fn \in Mappers, SetRoleActionMapper(fn)
        PROVE  UNCHANGED <<ctx, do, op, calls>>
    BY <1>9 DEF SetRoleActionMapper
  <1>10. ASSUME UNCHANGED vars
         PROVE  UNCHANGED <<ctx, do, op, calls>>
    BY <1>10 DEF vars
  <1> QED
    BY <1>1, <1>2, <1>3, <1>4, <1>5, <1>6, <1>7, <1>8, <1>9, <1>10 DEF Next, ManagerStep, Lib

-----------------------------------------------------------------------------
(* Held *)

\* What a request does to the stored rules, by its kind.
LEMMA EffectFacts ==
    ASSUME NEW id \in CallId, ServerApply(id)
    PROVE  /\ calls[id].req.kind # "remove" => policies \subseteq policies'
           /\ calls[id].req.kind # "add" => policies' \subseteq policies
           /\ calls[id].req.kind = "add" => calls[id].req.rule \in policies'
           /\ calls[id].req.kind = "remove" => calls[id].req.rule \notin policies'
  BY DEF ServerApply, Effect

\* The server's step takes nothing from a rule that the operation of c had: it
\* helps, or it is another operation's and the change is on record.
LEMMA HeldServer ==
    ASSUME TypeOK, Shape, CallShape, NEW id \in CallId, ServerApply(id),
           NEW c \in Clients, NEW j \in DOMAIN op[c].rules, Held(c, op[c].rules[j])
    PROVE  Held(c, op[c].rules[j])'
  <1> DEFINE r == op[c].rules[j]
  <1>1. op' = op
    BY DEF ServerApply
  <1>2. CASE calls[id].owner = c /\ calls[id].mine
    <2>1. log'[c] = log[c]
      BY <1>2 DEF ServerApply
    <2>2. calls[id].stage # "free"
      BY DEF ServerApply, ServerAnswer, OnWire
    <2>3. /\ op[c].kind = "grant" => calls[id].req.kind # "remove"
          /\ op[c].kind \in {"revoke", "purge"} => calls[id].req.kind # "add"
      BY <1>2, <2>2 DEF CallShape
    <2> QED
      BY <1>1, <2>1, <2>3, EffectFacts DEF Held
  <1>3. CASE ~(calls[id].owner = c /\ calls[id].mine)
    <2>1. log'[c] = [log[c] EXCEPT !.foe = @ \cup Against(op[c], policies, policies')]
      BY <1>3 DEF ServerApply
    <2>2. log'[c].foe = log[c].foe \cup Against(op[c], policies, policies')
      BY <2>1 DEF TypeOK
    <2>3. r \in Range(op[c].rules)
      BY DEF Range
    <2>4. CASE op[c].kind = "grant"
      <3>1. r \in policies \ policies' => r \in Against(op[c], policies, policies')
        BY <2>3, <2>4 DEF Against, InScope
      <3> QED
        BY <1>1, <2>2, <2>4, <3>1 DEF Held
    <2>5. CASE op[c].kind \in {"revoke", "purge"}
      <3>1. op[c].kind = "purge" => Matches(op[c].filter, r)
        BY DEF Shape
      <3>2. r \in policies' \ policies => r \in Against(op[c], policies, policies')
        BY <2>3, <2>5, <3>1 DEF Against, InScope, Selected
      <3> QED
        BY <1>1, <2>2, <2>5, <3>2 DEF Held
    <2> QED
      BY <1>1, <2>4, <2>5 DEF Held
  <1> QED
    BY <1>2, <1>3

\* The parts of AcknowledgedRulesHold and CurrentHeld that concern one client.
AcknowledgedOf(c) == \A j \in 1..op[c].k : Held(c, op[c].rules[j])

CurrentOf(c) ==
    op[c].kind \in WriteKinds =>
        /\ (/\ do[c].pc = "wait" /\ do[c].done = "none"
            /\ calls[do[c].cur].stage = "applied") => Held(c, op[c].rules[op[c].k + 1])
        /\ do[c].pc = "wait" /\ do[c].done = "ok" => Held(c, op[c].rules[op[c].k + 1])
        /\ do[c].pc = "ok" => Held(c, op[c].rules[op[c].k + 1])

\* A client whose operation, activation and current call a step leaves alone.
LEMMA HeldFrame ==
    ASSUME NEW c \in Clients, AcknowledgedOf(c), CurrentOf(c), GoroutineShapeOf(c),
           op'[c] = op[c], do'[c] = do[c], log'[c] = log[c], policies' = policies,
           \A id \in OwnRunning(c) : calls'[id].stage = calls[id].stage
    PROVE  AcknowledgedOf(c)' /\ CurrentOf(c)'
  <1>1. \A r : Held(c, r)' <=> Held(c, r)
    BY DEF Held
  <1>2. do[c].pc = "wait" /\ do[c].done = "none" => do[c].cur \in OwnRunning(c)
    BY DEF GoroutineShapeOf
  <1> QED
    BY <1>1, <1>2 DEF AcknowledgedOf, CurrentOf

\* An operation that is not waiting and has not got a result owes no current rule.
LEMMA CurrentIdle ==
    ASSUME NEW c \in Clients, do'[c].pc \notin {"wait", "ok"}
    PROVE  CurrentOf(c)'
  BY DEF CurrentOf

\* No step takes away what an operation has been acknowledged.
LEMMA HeldStep ==
    ASSUME TypeOK, TypeOK', Shape, CallShape, GoroutineShape,
           AcknowledgedRulesHold, CurrentHeld, [Next]_vars
    PROVE  AcknowledgedRulesHold' /\ CurrentHeld'
  <1>a. \A c \in Clients : AcknowledgedOf(c) /\ CurrentOf(c) /\ GoroutineShapeOf(c)
    BY DEF AcknowledgedRulesHold, CurrentHeld, GoroutineShape, AcknowledgedOf, CurrentOf
  <1>b. SUFFICES \A c \in Clients : AcknowledgedOf(c)' /\ CurrentOf(c)'
    BY DEF AcknowledgedRulesHold, CurrentHeld, AcknowledgedOf, CurrentOf
  <1>c. DoOff.pc = "off" /\ DoStart.pc = "top"
    BY DoConstants
  <1>1. ASSUME NEW c \in Clients, Invoke(c)
        PROVE  \A b \in Clients : AcknowledgedOf(b)' /\ CurrentOf(b)'
    <2>1. PICK o, cx : Fresh(o) /\ Begin(c, o, cx)
      BY <1>1, InvokeFresh
    <2>2. /\ calls' = Disowned(c) /\ do'[c] \in {DoOff, DoStart} /\ op'[c] = o
          /\ \A b \in Clients \ {c} : op'[b] = op[b] /\ do'[b] = do[b] /\ log'[b] = log[b]
          /\ policies' = policies
      BY <2>1 DEF Begin, TypeOK
    <2>3. \A id \in CallId : calls'[id].stage = calls[id].stage
      BY <2>2, DisownedFacts
    <2>4. AcknowledgedOf(c)'
      BY <2>1, <2>2 DEF AcknowledgedOf, Fresh
    <2>5. CurrentOf(c)'
      BY <1>c, <2>2, CurrentIdle
    <2>6. ASSUME NEW b \in Clients \ {c}
          PROVE  AcknowledgedOf(b)' /\ CurrentOf(b)'
      <3>1. \A id \in OwnRunning(b) : calls'[id].stage = calls[id].stage
        BY <2>3 DEF OwnRunning
      <3> QED
        BY <1>a, <2>2, <3>1, HeldFrame
    <2> QED
      BY <2>4, <2>5, <2>6
  <1>2. ASSUME NEW c \in Clients, SdkCallStart(c)
        PROVE  \A b \in Clients : AcknowledgedOf(b)' /\ CurrentOf(b)'
    <2>1. PICK id \in CallId :
            /\ calls[id].stage = "free"
            /\ calls' = [calls EXCEPT ![id] = [stage |-> "sent", owner |-> c, mine |-> TRUE,
                                              req |-> CurrentRequest(op[c]), resp |-> {}]]
            /\ do'[c].pc = "wait" /\ do'[c].cur = id /\ do'[c].done = "none"
            /\ \A b \in Clients \ {c} : do'[b] = do[b]
            /\ UNCHANGED <<policies, op, log>>
      BY <1>2, CallStartFacts
    <2>2. calls'[id].stage = "sent" /\ \A j \in CallId \ {id} : calls'[j] = calls[j]
      BY <2>1 DEF TypeOK
    <2>3. CurrentOf(c)'
      BY <2>1, <2>2 DEF CurrentOf
    <2>4. AcknowledgedOf(c)'
      BY <1>a, <2>1 DEF AcknowledgedOf, Held
    <2>5. ASSUME NEW b \in Clients \ {c}
          PROVE  AcknowledgedOf(b)' /\ CurrentOf(b)'
      <3>1. \A j \in OwnRunning(b) : calls'[j].stage = calls[j].stage
        BY <2>1, <2>2 DEF OwnRunning, Running
      <3> QED
        BY <1>a, <2>1, <3>1, HeldFrame
    <2> QED
      BY <2>3, <2>4, <2>5
  <1>3. ASSUME NEW c \in Clients,
               RuleDone(c) \/ CheckDone(c) \/ ListDone(c) \/ OpFailed(c) \/ DeleteListed(c)
        PROVE  \A b \in Clients : AcknowledgedOf(b)' /\ CurrentOf(b)'
    <2>1. /\ \A b \in Clients \ {c} : op'[b] = op[b] /\ do'[b] = do[b]
          /\ UNCHANGED <<calls, policies, log>>
          /\ do'[c] \in {DoOff, DoStart}
      BY <1>3, RuleDoneFacts, ReturnFacts, DeleteListedFacts
    <2>2. CurrentOf(c)'
      BY <1>c, <2>1, CurrentIdle
    <2>3. op[c].k \in Nat
      BY DEF TypeOK, OpRecord
    <2>4. op'[c].kind = op[c].kind => \A r : Held(c, r)' <=> Held(c, r)
      BY <2>1 DEF Held
    <2>5. AcknowledgedOf(c)'
      <3>1. CASE RuleDone(c)
        <4>1. /\ do[c].pc = "ok" /\ op[c].kind \in WriteKinds
              /\ op'[c].kind = op[c].kind /\ op'[c].rules = op[c].rules
              /\ op'[c].k = op[c].k + 1
          BY <3>1, RuleDoneFacts
        <4>2. Held(c, op[c].rules[op[c].k + 1]) /\ \A j \in 1..op[c].k : Held(c, op[c].rules[j])
          BY <1>a, <4>1 DEF CurrentOf, AcknowledgedOf
        <4>3. \A j \in 1..(op[c].k + 1) : j = op[c].k + 1 \/ j \in 1..op[c].k
          BY <2>3
        <4>4. \A j \in 1..(op[c].k + 1) : Held(c, op[c].rules[j])
          BY <4>2, <4>3
        <4> QED
          BY <2>4, <4>1, <4>4 DEF AcknowledgedOf
      <3>2. CASE CheckDone(c) \/ ListDone(c) \/ OpFailed(c)
        <4>1. op'[c].kind = op[c].kind /\ op'[c].rules = op[c].rules /\ op'[c].k = op[c].k
          BY <3>2, ReturnFacts
        <4>2. \A j \in 1..op[c].k : Held(c, op[c].rules[j])
          BY <1>a DEF AcknowledgedOf
        <4> QED
          BY <2>4, <4>1, <4>2 DEF AcknowledgedOf
      <3>3. CASE DeleteListed(c)
        <4>1. op[c].kind = "delete" /\ op'[c].k = op[c].k
          BY <3>3, DeleteListedFacts
        <4>2. op[c].k = 0
          BY <2>3, <4>1 DEF Shape, InList
        <4> QED
          BY <4>1, <4>2 DEF AcknowledgedOf
      <3> QED
        BY <1>3, <3>1, <3>2, <3>3
    <2>6. ASSUME NEW b \in Clients \ {c}
          PROVE  AcknowledgedOf(b)' /\ CurrentOf(b)'
      BY <1>a, <2>1, HeldFrame
    <2> QED
      BY <2>2, <2>5, <2>6
  <1>4. ASSUME NEW c \in Clients, CallerStep(c), UNCHANGED <<policies, op, log>>
        PROVE  \A b \in Clients : AcknowledgedOf(b)' /\ CurrentOf(b)'
    <2>1. calls' = calls /\ \A b \in Clients \ {c} : do'[b] = do[b]
      BY <1>4, CallerStepFacts
    <2>2. \A r : Held(c, r)' <=> Held(c, r)
      BY <1>4 DEF Held
    <2>3. do'[c].pc \in {"wait", "ok"} => /\ do'[c].pc = "ok"
                                         /\ do[c].pc = "wait" /\ do[c].done = "ok"
      BY <1>4, CallerStepFacts
    <2>4. CurrentOf(c)'
      BY <1>a, <1>4, <2>2, <2>3 DEF CurrentOf
    <2>5. AcknowledgedOf(c)'
      BY <1>a, <1>4, <2>2 DEF AcknowledgedOf
    <2>6. ASSUME NEW b \in Clients \ {c}
          PROVE  AcknowledgedOf(b)' /\ CurrentOf(b)'
      BY <1>a, <1>4, <2>1, HeldFrame
    <2> QED
      BY <2>4, <2>5, <2>6
  <1>5. ASSUME NEW id \in CallId, GoroutineStep(id), UNCHANGED <<policies, op, log>>
        PROVE  \A c \in Clients : AcknowledgedOf(c)' /\ CurrentOf(c)'
    <2> TAKE c \in Clients
    <2>1. /\ \A j \in CallId \ {id} : calls'[j] = calls[j]
          /\ \/ calls[id].stage = "late" /\ do' = do
             \/ /\ Running(id)
                /\ \E outcome \in {"ok", "err"}, v \in {calls[id].resp, {}} :
                     /\ do' = Delivered(id, outcome, v)
                     /\ outcome = "ok" => calls[id].stage = "applied"
      BY <1>5, GoroutineFacts
    <2>2. \A r : Held(c, r)' <=> Held(c, r)
      BY <1>5 DEF Held
    <2>3. AcknowledgedOf(c)'
      BY <1>a, <1>5, <2>2 DEF AcknowledgedOf
    <2>4. AcknowledgedOf(c) /\ CurrentOf(c) /\ GoroutineShapeOf(c)
      BY <1>a
    <2>5. CASE calls[id].stage = "late" /\ do' = do
      <3>1. \A j \in OwnRunning(c) : calls'[j].stage = calls[j].stage
        BY <2>1, <2>5 DEF OwnRunning, Running
      <3> QED
        BY <1>5, <2>4, <2>5, <3>1, HeldFrame
    <2>6. ASSUME Running(id), NEW outcome \in {"ok", "err"}, NEW v,
                 do' = Delivered(id, outcome, v),
                 outcome = "ok" => calls[id].stage = "applied"
          PROVE  CurrentOf(c)'
      <3>1. /\ do'[c].pc = do[c].pc /\ do'[c].cur = do[c].cur
            /\ do'[c].done = IF calls[id].owner = c /\ do[c].cur = id
                             THEN outcome ELSE do[c].done
        BY <2>6, DeliveredFacts
      <3>2. CASE do[c].pc = "wait" /\ do[c].cur = id /\ calls[id].owner = c
        <4>1. do[c].done = "none"
          BY <2>4, <2>6, <3>2 DEF GoroutineShapeOf
        <4>2. op[c].kind \in WriteKinds /\ outcome = "ok" => Held(c, op[c].rules[op[c].k + 1])
          BY <2>4, <2>6, <3>2, <4>1 DEF CurrentOf
        <4> QED
          BY <1>5, <2>2, <3>1, <3>2, <4>2 DEF CurrentOf
      <3>3. CASE do[c].pc = "wait" /\ ~(do[c].cur = id /\ calls[id].owner = c)
        <4>1. do[c].done = "none" => do[c].cur \in CallId /\ do[c].cur # id
          BY <2>4, <3>3 DEF GoroutineShapeOf, OwnRunning
        <4>2. do'[c].done = do[c].done
          BY <3>1, <3>3
        <4> QED
          BY <1>5, <2>1, <2>2, <2>4, <3>1, <3>3, <4>1, <4>2 DEF CurrentOf
      <3>4. CASE do[c].pc # "wait"
        BY <1>5, <2>2, <2>4, <3>1, <3>4 DEF CurrentOf
      <3> QED
        BY <3>2, <3>3, <3>4
    <2> QED
      BY <2>1, <2>3, <2>5, <2>6
  <1>6. ASSUME NEW id \in CallId, ServerApply(id)
        PROVE  \A c \in Clients : AcknowledgedOf(c)' /\ CurrentOf(c)'
    <2> TAKE c \in Clients
    <2>1. /\ \A j \in CallId \ {id} : calls'[j] = calls[j]
          /\ UNCHANGED <<do, op>>
      BY <1>6, ServerFacts
    <2>2. op[c].rules \in Seq(Rule) /\ op[c].k \in Nat /\ op[c].k <= Len(op[c].rules)
      BY DEF TypeOK, OpRecord, Shape
    <2>3. AcknowledgedOf(c)'
      <3>1. \A j \in 1..op[c].k : j \in DOMAIN op[c].rules
        BY <2>2
      <3> QED
        BY <1>a, <1>6, <2>1, <3>1, HeldServer DEF AcknowledgedOf
    <2>4. CurrentOf(c)'
      <3>1. SUFFICES ASSUME op[c].kind \in WriteKinds, do[c].pc \in {"wait", "ok"},
                            \/ do[c].pc = "ok" \/ do[c].done = "ok"
                            \/ do[c].done = "none" /\ calls'[do[c].cur].stage = "applied"
                     PROVE  Held(c, op[c].rules[op[c].k + 1])'
        BY <2>1 DEF CurrentOf
      <3>2. op[c].k + 1 \in DOMAIN op[c].rules
        <4>1. op[c].ret = "running" /\ ~InList(op[c])
          BY <3>1 DEF Shape, WriteKinds, InList
        <4> QED
          BY <2>2, <4>1 DEF Shape
      <3>3. CASE Held(c, op[c].rules[op[c].k + 1])
        <4>1. PICK j \in DOMAIN op[c].rules : j = op[c].k + 1
          BY <3>2
        <4>2. Held(c, op[c].rules[j])'
          BY <1>6, <3>3, <4>1, HeldServer
        <4> QED
          BY <2>1, <4>1, <4>2
      <3>4. CASE ~Held(c, op[c].rules[op[c].k + 1])
        <4>1. /\ do[c].pc = "wait" /\ do[c].done = "none"
              /\ calls'[do[c].cur].stage = "applied" /\ calls[do[c].cur].stage # "applied"
          BY <1>a, <3>1, <3>4 DEF CurrentOf
        <4>2. do[c].cur = id /\ calls[id].req = CurrentRequest(op[c])
          BY <1>a, <2>1, <4>1 DEF GoroutineShapeOf
        <4>3. /\ op[c].kind = "grant" => calls[id].req.kind = "add"
              /\ op[c].kind \in {"revoke", "purge"} => calls[id].req.kind = "remove"
              /\ calls[id].req.rule = op[c].rules[op[c].k + 1]
          BY <3>1, <4>2, CurrentRequestKind
        <4> QED
          BY <1>6, <2>1, <4>3, EffectFacts DEF Held
      <3> QED
        BY <3>3, <3>4
    <2> QED
      BY <2>3, <2>4
  <1>7. ASSUME UNCHANGED <<do, op, calls, policies, log>>
        PROVE  \A c \in Clients : AcknowledgedOf(c)' /\ CurrentOf(c)'
    BY <1>a, <1>7, HeldFrame
  <1>8. ASSUME NEW c \in Clients, Cancel(c)
        PROVE  UNCHANGED <<do, calls>>
    BY <1>8 DEF Cancel
  <1>9. ASSUME NEW fn \in Mappers, SetRoleActionMapper(fn)
        PROVE  UNCHANGED <<do, op, calls, policies, log>>
    BY <1>9 DEF SetRoleActionMapper
  <1>10. ASSUME UNCHANGED vars
         PROVE  UNCHANGED <<do, op, calls, policies, log>>
    BY <1>10 DEF vars
  <1> QED
    BY <1>1, <1>2, <1>3, <1>4, <1>5, <1>6, <1>7, <1>8, <1>9, <1>10 DEF Next, ManagerStep, Lib

-----------------------------------------------------------------------------
(* The theorems *)

\* The inductive invariant.
Inv ==
    /\ TypeOK
    /\ Shape
    /\ CallShape
    /\ GoroutineShape
    /\ CurrentHeld
    /\ AcknowledgedRulesHold

\* The invariant holds before the first operation.
LEMMA InvInit == Init => Inv
  <1> SUFFICES ASSUME Init PROVE Inv
    OBVIOUS
  <1>1. DoOff \in DoRecord /\ DoOff.pc = "off" /\ DoOff.cur = NoCall /\ DoOff.done = "none"
    BY DoConstants DEF DoOff
  <1>2. FreeCall \in CallRecord /\ FreeCall.stage = "free"
    BY DEF FreeCall, CallRecord, Stage
  <1>3. NoOp \in OpRecord /\ NoOp.kind = "none" /\ NoOp.k = 0 /\ NoOp.ret = "ok"
        /\ NoOp.rules \in Seq(Rule)
    <2> DEFINE rules == <<>>
    <2>1. rules \in Seq(Rule)
      OBVIOUS
    <2> HIDE DEF rules
    <2>2. "none" \in OpKind
      BY DEF OpKind
    <2>3. NoOp = NewOp("none", rules, NoRule, "ok")
      BY DEF NoOp, rules
    <2> QED
      BY <2>1, <2>2, <2>3, NoRuleType, NewOpType
  <1> HIDE DEF DoOff, FreeCall, NoOp
  <1>4. /\ \A c \in Clients : op[c] = NoOp /\ do[c] = DoOff
        /\ \A id \in CallId : calls[id] = FreeCall
    BY DEF Init
  <1>5. TypeOK
    BY <1>1, <1>2, <1>3, PermissionAssumption DEF Init, TypeOK, CtxState
  <1>6. Shape
    BY <1>1, <1>3, <1>4 DEF Shape, InList
  <1>7. CallShape
    BY <1>2, <1>4 DEF CallShape
  <1>8. GoroutineShape
    BY <1>1, <1>2, <1>4 DEF GoroutineShape, GoroutineShapeOf, OwnRunning, Running
  <1>9. CurrentHeld
    BY <1>1, <1>4 DEF CurrentHeld
  <1>10. AcknowledgedRulesHold
    BY <1>3, <1>4 DEF AcknowledgedRulesHold
  <1> QED
    BY <1>5, <1>6, <1>7, <1>8, <1>9, <1>10 DEF Inv

\* Every step preserves it.
LEMMA InvStep == Inv /\ [Next]_vars => Inv'
  <1> SUFFICES ASSUME Inv, [Next]_vars PROVE Inv'
    OBVIOUS
  <1>0. TypeOK /\ Shape /\ CallShape /\ GoroutineShape /\ CurrentHeld /\ AcknowledgedRulesHold
    BY DEF Inv
  <1>1. TypeOK'
    BY <1>0, TypeStep
  <1>2. Shape'
    BY <1>0, <1>1, ShapeStep
  <1>3. CallShape'
    BY <1>0, <1>1, CallShapeStep
  <1>4. GoroutineShape'
    BY <1>0, <1>1, GoroutineShapeStep
  <1>5. CurrentHeld' /\ AcknowledgedRulesHold'
    BY <1>0, <1>1, HeldStep
  <1> QED
    BY <1>1, <1>2, <1>3, <1>4, <1>5 DEF Inv

\* It holds throughout every behaviour.
THEOREM Invariance == Spec => []Inv
  <1>1. Init => Inv
    BY InvInit
  <1>2. Inv /\ [Next]_vars => Inv'
    BY InvStep
  <1> QED
    BY <1>1, <1>2, PTL DEF Spec

\* The state of the manager, of retry.Do and of the SDK calls is always well formed.
THEOREM TypeCorrectness == Spec => []TypeOK
  <1>1. Inv => TypeOK
    BY DEF Inv
  <1> QED
    BY <1>1, Invariance, PTL

\* Check and List never read the variable that their SDK goroutines assign while
\* one of those is running, and never have two of them running, for every retry
\* policy and whatever is cancelled, lost or late.
THEOREM SharedVariableSafety == Spec => []NoSharedVariableRace
  <1>1. Inv => NoSharedVariableRace
    BY DEF Inv, GoroutineShape, GoroutineShapeOf, NoSharedVariableRace
  <1> QED
    BY <1>1, Invariance, PTL

\* The rules a Grant, Revoke or DeleteResourcePolicies has moved past stay as it
\* left them until a request of another operation changes them.
THEOREM AcknowledgementSafety == Spec => []AcknowledgedRulesHold
  <1>1. Inv => AcknowledgedRulesHold
    BY DEF Inv
  <1> QED
    BY <1>1, Invariance, PTL
=============================================================================
