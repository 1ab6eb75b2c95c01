------------------------ MODULE PermissionReadProofs -------------------------
(***************************************************************************)
(* What Check, List and DeleteResourcePolicies tell their callers, for any *)
(* number of clients, calls, retries and rules.  The invariant of          *)
(* PermissionManagerProofs says which call an answer belongs to; here it   *)
(* is joined by what the answer says.                                      *)
(***************************************************************************)
EXTENDS PermissionManagerProofs

-----------------------------------------------------------------------------
(* The invariant *)

\* What an operation makes of the answer v of the server.
Reported(o, v) == IF o.kind = "check" THEN v ELSE Selected(o.filter, v)

\* The operation of c may report v: a read what was stored when it began, a delete
\* all that is stored, but for what other operations changed since.
Reportable(c, v) ==
    /\ op[c].kind \in {"check", "list"} => Reported(op[c], v) \ log[c].foe = log[c].base \ log[c].foe
    /\ op[c].kind = "delete" =>
          Selected(op[c].filter, policies) \subseteq Selected(op[c].filter, v) \cup log[c].foe

\* Every answer that retry.Do may hand to the operation is reportable.
AnswerOf(c) ==
    /\ do[c].pc = "wait" /\ do[c].done = "none" /\ calls[do[c].cur].stage = "applied" =>
          Reportable(c, calls[do[c].cur].resp)
    /\ do[c].pc = "wait" /\ do[c].done = "ok" => Reportable(c, do[c].val)
    /\ do[c].pc = "ok" => Reportable(c, do[c].val)

\* While a read runs, what it asks for is as it was, but for what others changed.
SteadyOf(c) ==
    op[c].kind \in {"check", "list"} /\ op[c].ret = "running" =>
        /\ InScope(op[c], policies) \ log[c].foe = log[c].base \ log[c].foe
        /\ op[c].kind = "check" => op[c].k = 0 /\ Len(op[c].rules) = 1

\* What a read has returned.
ReturnedOf(c) ==
    op[c].kind \in {"check", "list"} /\ op[c].ret = "ok" => op[c].out \ log[c].foe = log[c].base \ log[c].foe

\* A purge has on its list all that is left to remove, and ends with its list.
PurgeOf(c) ==
    op[c].kind = "purge" =>
        /\ Selected(op[c].filter, policies) \subseteq Range(op[c].rules) \cup log[c].foe
        /\ op[c].ret = "ok" => op[c].k = Len(op[c].rules)

\* A read's own requests change nothing.
HarmlessOf(c) ==
    op[c].kind \in {"check", "list"} =>
        \A id \in CallId : calls[id].stage # "free" /\ calls[id].owner = c /\ calls[id].mine =>
            calls[id].req.kind \notin {"add", "remove"}

ReadInvOf(c) == AnswerOf(c) /\ SteadyOf(c) /\ ReturnedOf(c) /\ PurgeOf(c) /\ HarmlessOf(c)

ReadInv == \A c \in Clients : ReadInvOf(c)
-----------------------------------------------------------------------------
(* Facts about the steps *)

\* Which rules are in the scope of an operation.
LEMMA ScopeFacts ==
    ASSUME NEW o, NEW S, NEW r
    PROVE  /\ r \in Selected(o.filter, S) <=> r \in S /\ Matches(o.filter, r)
           /\ o.kind \in {"list", "delete", "purge"} => InScope(o, S) = Selected(o.filter, S)
           /\ o.kind = "check" => InScope(o, S) = S \cap Range(o.rules)
  BY DEF Selected, InScope

\* What the server's step adds to the history of an operation: what other
\* operations changed against it, and nothing of its own.
LEMMA HistoryFacts ==
    ASSUME TypeOK, NEW id \in CallId, ServerApply(id), NEW c \in Clients
    PROVE  /\ log'[c].base = log[c].base
           /\ calls[id].owner = c /\ calls[id].mine => log'[c].foe = log[c].foe
           /\ ~(calls[id].owner = c /\ calls[id].mine) =>
                 log'[c].foe = log[c].foe \cup Against(op[c], policies, policies')
  <1>1. log \in [Clients -> [base : SUBSET Rule, foe : SUBSET Rule]]
    BY DEF TypeOK
  <1> DEFINE a == Against(op[c], policies, policies')
  <1>2. log'[c] = IF calls[id].owner = c /\ calls[id].mine THEN log[c]
                  ELSE [log[c] EXCEPT !.foe = log[c].foe \cup a]
    BY DEF ServerApply
  <1> HIDE DEF a
  <1>3. /\ [log[c] EXCEPT !.foe = log[c].foe \cup a].foe = log[c].foe \cup a
        /\ [log[c] EXCEPT !.foe = log[c].foe \cup a].base = log[c].base
    BY <1>1
  <1> QED
    BY <1>2, <1>3 DEF a

\* Whatever the server does, a rule in the scope of a running read changes only
\* on record, and for a delete or a purge none is added off the record.
LEMMA ScopeServer ==
    ASSUME TypeOK, CallShape, NEW id \in CallId, ServerApply(id), NEW c \in Clients, HarmlessOf(c), NEW r
    PROVE  /\ op[c].kind \in {"check", "list"} /\ r \notin log'[c].foe =>
                 (r \in InScope(op[c], policies') <=> r \in InScope(op[c], policies))
           /\ op[c].kind \in {"delete", "purge"} /\ r \notin log'[c].foe =>
                 (r \in Selected(op[c].filter, policies') => r \in Selected(op[c].filter, policies))
  <1>1. OnWire(id) /\ calls[id].stage # "free"
    BY DEF ServerApply, ServerAnswer, OnWire
  <1>2. CASE calls[id].owner = c /\ calls[id].mine
    <2>1. op[c].kind \in {"check", "list"} => calls[id].req.kind \notin {"add", "remove"}
      BY <1>1, <1>2 DEF HarmlessOf
    <2>2. op[c].kind \in {"delete", "purge"} => calls[id].req.kind # "add"
      BY <1>1, <1>2 DEF CallShape
    <2>3. op[c].kind \in {"check", "list"} => policies' = policies
      BY <2>1, EffectFacts
    <2>4. op[c].kind \in {"delete", "purge"} => policies' \subseteq policies
      BY <2>2, EffectFacts
    <2> QED
      BY <2>3, <2>4, ScopeFacts
  <1>3. CASE ~(calls[id].owner = c /\ calls[id].mine)
    <2>1. r \notin log'[c].foe => r \notin Against(op[c], policies, policies')
      BY <1>3, HistoryFacts
    <2>2. CASE op[c].kind \in {"check", "list"}
      <3>1. Against(op[c], policies, policies') = InScope(op[c], (policies' \ policies) \cup (policies \ policies'))
        BY <2>2 DEF Against
      <3> QED
        BY <2>1, <2>2, <3>1, ScopeFacts
    <2>3. CASE op[c].kind \in {"delete", "purge"}
      <3>1. Against(op[c], policies, policies') = Selected(op[c].filter, policies' \ policies)
        BY <2>3 DEF Against, InScope
      <3> QED
        BY <2>1, <2>3, <3>1 DEF Selected
    <2> QED
      BY <2>2, <2>3
  <1> QED
    BY <1>2, <1>3

\* The history of an operation only grows.
LEMMA HistoryGrows ==
    ASSUME TypeOK, NEW id \in CallId, ServerApply(id), NEW c \in Clients
    PROVE  log'[c].base = log[c].base /\ log[c].foe \subseteq log'[c].foe
  BY HistoryFacts

\* What an SDK goroutine that ends leaves in the operation's variable.
LEMMA DeliveredVal ==
    ASSUME TypeOK, NEW id \in CallId, NEW outcome, NEW v, do' = Delivered(id, outcome, v), NEW c \in Clients
    PROVE  do'[c].val = IF calls[id].owner = c /\ calls[id].mine /\ do[c].pc # "off" THEN v ELSE do[c].val
  <1>1. do[c] \in DoRecord
    BY DEF TypeOK
  <1>2. CASE calls[id].owner = c
    <2> DEFINE w == IF calls[id].mine /\ do[c].pc # "off" THEN v ELSE do[c].val
               r == IF do[c].cur = id THEN outcome ELSE do[c].done
    <2>1. do'[c] = [do[c] EXCEPT !.val = w, !.done = r]
      BY <1>2 DEF Delivered, TypeOK
    <2>2. do'[c].val = w
      <3> HIDE DEF w, r
      <3> QED
        BY <1>1, <2>1 DEF DoRecord
    <2> QED
      BY <1>2, <2>2
  <1>3. CASE calls[id].owner # c
    BY <1>3 DEF Delivered, TypeOK
  <1> QED
    BY <1>2, <1>3

\* A goroutine that reports success hands over the answer to its request.
LEMMA GoroutineDelivers ==
    ASSUME NEW id \in CallId, GoroutineStep(id)
    PROVE  \/ calls[id].stage = "late" /\ do' = do
           \/ /\ Running(id)
              /\ \E outcome \in {"ok", "err"}, v \in {calls[id].resp, {}} :
                    /\ do' = Delivered(id, outcome, v)
                    /\ outcome = "ok" => calls[id].stage = "applied" /\ v = calls[id].resp
  BY DEF GoroutineStep, SdkReturn, SdkFail, SdkTimeout, LateLost, Running

\* retry.Do hands on the variable as the goroutine left it.
LEMMA CallerKeepsVal ==
    ASSUME TypeOK, NEW c \in Clients, CallerStep(c), do'[c].pc \in {"wait", "ok"}
    PROVE  do'[c].pc = "ok" /\ do[c].pc = "wait" /\ do[c].done = "ok" /\ do'[c].val = do[c].val
  <1>1. do[c] \in DoRecord
    BY DEF TypeOK
  <1>2. do'[c].pc = "ok" /\ do[c].pc = "wait" /\ do[c].done = "ok"
    BY CallerStepFacts
  <1>3. do'[c] = [do[c] EXCEPT !.pc = "ok", !.cur = NoCall, !.done = "none"] \/ do'[c] = AfterFailure(do[c])
    BY <1>2 DEF CallerStep, DoTop, CallDone, CallCancelled, BackoffElapsed, BackoffCancelled, BackoffNilContext, TypeOK
  <1>4. AfterFailure(do[c]).pc # "ok"
    BY <1>1, AfterFailureType
  <1>5. do'[c] = [do[c] EXCEPT !.pc = "ok", !.cur = NoCall, !.done = "none"]
    BY <1>2, <1>3, <1>4
  <1>6. do'[c].val = do[c].val
    BY <1>1, <1>5 DEF DoRecord
  <1> QED
    BY <1>2, <1>6
\* How a write moves on to the next rule or returns.
LEMMA RuleDoneMore ==
    ASSUME TypeOK, NEW c \in Clients, RuleDone(c)
    PROVE  /\ op'[c].filter = op[c].filter /\ op[c].kind \in WriteKinds
           /\ \/ op'[c].ret = op[c].ret
              \/ op'[c].ret = "ok" /\ op'[c].k = Len(op'[c].rules)
  <1>1. op[c] \in OpRecord
    BY DEF TypeOK
  <1> DEFINE n == [op[c] EXCEPT !.k = op[c].k + 1]
             r == [n EXCEPT !.ret = "ok"]
  <1>2. \/ op' = [op EXCEPT ![c] = n]
        \/ op' = [op EXCEPT ![c] = r] /\ n.k = Len(n.rules)
    BY DEF RuleDone, Return
  <1>3. /\ n.filter = op[c].filter /\ n.ret = op[c].ret /\ n.k = r.k /\ n.rules = r.rules
        /\ r.filter = op[c].filter /\ r.ret = "ok"
    BY <1>1, OpAdvance
  <1> HIDE DEF n, r
  <1>4. op'[c] = n \/ (op'[c] = r /\ n.k = Len(n.rules))
    BY <1>2 DEF TypeOK
  <1> QED
    BY <1>3, <1>4 DEF RuleDone

\* What a read returns.
LEMMA ReadDoneMore ==
    ASSUME TypeOK, NEW c \in Clients, CheckDone(c) \/ ListDone(c)
    PROVE  /\ do[c].pc = "ok" /\ op'[c].filter = op[c].filter
           /\ op[c].kind \in {"check", "checkWide", "list"} /\ op'[c].ret = "ok"
           /\ op[c].kind \in {"check", "list"} => op'[c].out = Reported(op[c], do[c].val)
  <1>1. op[c] \in OpRecord
    BY DEF TypeOK
  <1>2. PICK v : /\ op' = [op EXCEPT ![c] = [op[c] EXCEPT !.ret = "ok", !.out = v]]
                 /\ op[c].kind \in {"check", "list"} => v = Reported(op[c], do[c].val)
    BY DEF CheckDone, ListDone, Return, Reported
  <1>3. op'[c] = [op[c] EXCEPT !.ret = "ok", !.out = v]
    BY <1>2 DEF TypeOK
  <1>4. op'[c].ret = "ok" /\ op'[c].out = v /\ op'[c].filter = op[c].filter
    BY <1>1, <1>3 DEF OpRecord
  <1> QED
    BY <1>2, <1>4 DEF CheckDone, ListDone

\* An operation that fails.
LEMMA FailedMore ==
    ASSUME TypeOK, NEW c \in Clients, OpFailed(c)
    PROVE  op'[c].ret = "err" /\ op'[c].filter = op[c].filter
  <1>1. op[c] \in OpRecord
    BY DEF TypeOK
  <1>2. op'[c] = [op[c] EXCEPT !.ret = "err"]
    BY DEF OpFailed, Return, TypeOK
  <1> QED
    BY <1>1, <1>2 DEF OpRecord

\* A purge works on what the list showed.
LEMMA DeleteListedMore ==
    ASSUME TypeOK, Shape, NEW c \in Clients, DeleteListed(c)
    PROVE  /\ op'[c].filter = op[c].filter
           /\ Selected(op[c].filter, do[c].val) \subseteq Range(op'[c].rules)
           /\ op'[c].ret = "ok" => op'[c].k = Len(op'[c].rules)
  <1>1. op[c] \in OpRecord /\ do[c].val \in SUBSET Rule
    BY DEF TypeOK, DoRecord
  <1>2. do[c].pc = "ok" /\ op[c].kind = "delete"
    BY DEF DeleteListed
  <1>3. Len(op[c].rules) = 0 /\ op[c].k = 0 /\ op[c].ret = "running"
    BY <1>1, <1>2 DEF Shape, InList, OpRecord
  <1> DEFINE found == Selected(op[c].filter, do[c].val)
  <1>4. CASE found = {} /\ op' = [op EXCEPT ![c] = [op[c] EXCEPT !.kind = "purge", !.ret = "ok"]]
    <2>1. op'[c] = [op[c] EXCEPT !.kind = "purge", !.ret = "ok"]
      BY <1>4 DEF TypeOK
    <2>2. op'[c].filter = op[c].filter /\ op'[c].rules = op[c].rules /\ op'[c].k = op[c].k
      BY <1>1, <2>1 DEF OpRecord
    <2> QED
      BY <1>3, <1>4, <2>2
  <1>5. ASSUME NEW s \in Orderings(found), op' = [op EXCEPT ![c] = [op[c] EXCEPT !.kind = "purge", !.rules = s]]
        PROVE  /\ op'[c].filter = op[c].filter /\ found \subseteq Range(op'[c].rules) /\ op'[c].ret = "running"
    <2>1. op'[c] = [op[c] EXCEPT !.kind = "purge", !.rules = s]
      BY <1>5 DEF TypeOK
    <2>2. op'[c].filter = op[c].filter /\ op'[c].rules = s /\ op'[c].ret = op[c].ret
      BY <1>1, <2>1 DEF OpRecord
    <2>3. \A x \in found : \E i \in DOMAIN s : s[i] = x
      <3> HIDE DEF found
      <3> QED
        BY <1>5 DEF Orderings
    <2> QED
      BY <1>3, <2>2, <2>3 DEF Range
  <1> QED
    BY <1>4, <1>5 DEF DeleteListed, Return
-----------------------------------------------------------------------------
(* The steps *)

\* Where operation, history and stored rules stay, so does what follows from them.
LEMMA StayFrame ==
    ASSUME NEW c \in Clients, op'[c] = op[c], log'[c] = log[c], policies' = policies, ReadInvOf(c)
    PROVE  /\ SteadyOf(c)' /\ ReturnedOf(c)' /\ PurgeOf(c)'
           /\ \A v : Reportable(c, v)' <=> Reportable(c, v)
  <1>1. SteadyOf(c)' /\ ReturnedOf(c)' /\ PurgeOf(c)'
    BY DEF ReadInvOf, SteadyOf, ReturnedOf, PurgeOf, Selected, Matches, InScope
  <1>2. \A v : Reportable(c, v)' <=> Reportable(c, v)
    BY DEF Reportable, Reported, Selected, Matches
  <1> QED
    BY <1>1, <1>2

\* A client whose operation, activation and calls a step leaves alone.
LEMMA ReadFrame ==
    ASSUME NEW c \in Clients, GoroutineShapeOf(c), ReadInvOf(c),
           op'[c] = op[c], do'[c] = do[c], log'[c] = log[c], policies' = policies,
           \A id \in CallId : \/ calls'[id] = calls[id]
                              \/ /\ id \notin OwnRunning(c)
                                 /\ calls'[id].stage = "free" \/ calls'[id].owner # c \/ ~calls'[id].mine
    PROVE  ReadInvOf(c)'
  <1>1. /\ SteadyOf(c)' /\ ReturnedOf(c)' /\ PurgeOf(c)'
        /\ \A v : Reportable(c, v)' <=> Reportable(c, v)
    BY StayFrame
  <1>2. do[c].pc = "wait" /\ do[c].done = "none" => do[c].cur \in CallId /\ do[c].cur \in OwnRunning(c)
    BY DEF GoroutineShapeOf
  <1>3. AnswerOf(c)'
    BY <1>1, <1>2 DEF ReadInvOf, AnswerOf
  <1>4. HarmlessOf(c)'
    BY DEF ReadInvOf, HarmlessOf
  <1> QED
    BY <1>1, <1>3, <1>4 DEF ReadInvOf

\* An operation that waits for no answer has none to report.
LEMMA AnswerIdle ==
    ASSUME NEW c \in Clients, do'[c].pc \notin {"wait", "ok"}
    PROVE  AnswerOf(c)'
  BY DEF AnswerOf

\* A new operation begins with what is stored.
LEMMA InvokeRead ==
    ASSUME Inv, ReadInv, NEW c \in Clients, Invoke(c)
    PROVE  ReadInv'
  <1>1. PICK o, cx : Fresh(o) /\ Begin(c, o, cx)
    BY InvokeFresh DEF Inv
  <1>2. TypeOK
    BY DEF Inv
  <1>3. /\ calls' = Disowned(c) /\ do'[c] \in {DoOff, DoStart} /\ op'[c] = o /\ log'[c] = NewLog(o)
        /\ \A b \in Clients \ {c} : op'[b] = op[b] /\ do'[b] = do[b] /\ log'[b] = log[b]
        /\ policies' = policies
    BY <1>1, <1>2 DEF Begin, TypeOK
  <1>4. \A id \in CallId : /\ calls[id].owner # c => calls'[id] = calls[id]
                           /\ calls'[id].owner = calls[id].owner
                           /\ calls[id].owner = c => calls'[id].mine = FALSE
    BY <1>2, <1>3, DisownedFacts DEF Disowned
  <1>5. ReadInvOf(c)'
    <2>1. AnswerOf(c)'
      BY <1>3, AnswerIdle, DoConstants
    <2>2. o.kind \in {"check", "list"} => log'[c].base = InScope(o, policies) /\ log'[c].foe = {}
      BY <1>3 DEF NewLog, ReadKinds
    <2>3. SteadyOf(c)' /\ ReturnedOf(c)' /\ PurgeOf(c)'
      <3>1. InScope(o, policies)' = InScope(op'[c], policies')
        BY <1>3
      <3> QED
        BY <1>1, <1>3, <2>2 DEF SteadyOf, ReturnedOf, PurgeOf, Fresh
    <2>4. HarmlessOf(c)'
      BY <1>4 DEF HarmlessOf
    <2> QED
      BY <2>1, <2>3, <2>4 DEF ReadInvOf
  <1>6. ASSUME NEW b \in Clients \ {c} PROVE ReadInvOf(b)'
    <2>1. \A id \in CallId : \/ calls'[id] = calls[id]
                             \/ /\ id \notin OwnRunning(b)
                                /\ calls'[id].stage = "free" \/ calls'[id].owner # b \/ ~calls'[id].mine
      BY <1>4 DEF OwnRunning
    <2>2. GoroutineShapeOf(b) /\ ReadInvOf(b)
      BY DEF Inv, GoroutineShape, ReadInv
    <2> QED
      BY <1>3, <2>1, <2>2, ReadFrame
  <1> QED
    BY <1>5, <1>6 DEF ReadInv

\* An attempt of a read asks and changes nothing.
LEMMA StartRead ==
    ASSUME Inv, ReadInv, NEW c \in Clients, SdkCallStart(c)
    PROVE  ReadInv'
  <1>1. TypeOK
    BY DEF Inv
  <1>2. PICK id \in CallId :
          /\ calls[id].stage = "free"
          /\ calls' = [calls EXCEPT ![id] = [stage |-> "sent", owner |-> c, mine |-> TRUE,
                                            req |-> CurrentRequest(op[c]), resp |-> {}]]
          /\ do'[c].pc = "wait" /\ do'[c].cur = id /\ do'[c].done = "none"
          /\ \A b \in Clients \ {c} : do'[b] = do[b]
          /\ UNCHANGED <<policies, op, log>>
    BY <1>1, CallStartFacts
  <1>3. /\ calls'[id].stage = "sent" /\ calls'[id].owner = c /\ calls'[id].req = CurrentRequest(op[c])
        /\ \A j \in CallId \ {id} : calls'[j] = calls[j]
    BY <1>1, <1>2 DEF TypeOK
  <1>4. ReadInvOf(c)'
    <2>1. ReadInvOf(c)
      BY DEF ReadInv
    <2>2. AnswerOf(c)'
      BY <1>2, <1>3 DEF AnswerOf
    <2>3. SteadyOf(c)' /\ ReturnedOf(c)' /\ PurgeOf(c)'
      BY <1>2, <2>1, StayFrame
    <2>4. op[c].kind \in {"check", "list"} => CurrentRequest(op[c]).kind \notin {"add", "remove"}
      BY DEF CurrentRequest, InList, ListRequest
    <2>5. HarmlessOf(c)'
      BY <1>2, <1>3, <2>1, <2>4 DEF ReadInvOf, HarmlessOf
    <2> QED
      BY <2>2, <2>3, <2>5 DEF ReadInvOf
  <1>5. ASSUME NEW b \in Clients \ {c} PROVE ReadInvOf(b)'
    <2>1. \A j \in CallId : \/ calls'[j] = calls[j]
                            \/ /\ j \notin OwnRunning(b)
                               /\ calls'[j].stage = "free" \/ calls'[j].owner # b \/ ~calls'[j].mine
      BY <1>2, <1>3 DEF OwnRunning, Running
    <2>2. GoroutineShapeOf(b) /\ ReadInvOf(b)
      BY DEF Inv, GoroutineShape, ReadInv
    <2> QED
      BY <1>2, <2>1, <2>2, ReadFrame
  <1> QED
    BY <1>4, <1>5 DEF ReadInv

\* What an operation makes of the result of retry.Do.
LEMMA DoneRead ==
    ASSUME Inv, ReadInv, NEW c \in Clients,
           RuleDone(c) \/ CheckDone(c) \/ ListDone(c) \/ OpFailed(c) \/ DeleteListed(c)
    PROVE  ReadInv'
  <1>1. TypeOK /\ Shape /\ ReadInvOf(c)
    BY DEF Inv, ReadInv
  <1>2. /\ \A b \in Clients \ {c} : op'[b] = op[b] /\ do'[b] = do[b]
        /\ UNCHANGED <<calls, policies, log>> /\ do'[c] \in {DoOff, DoStart}
    BY <1>1, RuleDoneFacts, ReturnFacts, DeleteListedFacts
  <1>3. AnswerOf(c)'
    BY <1>2, AnswerIdle, DoConstants
  <1>4. ASSUME RuleDone(c) PROVE ReadInvOf(c)'
    <2>1. op'[c].kind = op[c].kind /\ op'[c].rules = op[c].rules /\ op[c].kind \in WriteKinds /\ do[c].pc = "ok"
      BY <1>1, <1>4, RuleDoneFacts
    <2>2. op'[c].filter = op[c].filter /\ (op'[c].ret = op[c].ret \/ op'[c].k = Len(op'[c].rules))
      BY <1>1, <1>4, RuleDoneMore
    <2>3. op[c].ret = "running"
      BY <1>1, <2>1 DEF Shape
    <2>4. PurgeOf(c)'
      BY <1>1, <1>2, <2>1, <2>2, <2>3 DEF ReadInvOf, PurgeOf, Selected, Matches
    <2>5. SteadyOf(c)' /\ ReturnedOf(c)' /\ HarmlessOf(c)'
      BY <2>1 DEF SteadyOf, ReturnedOf, HarmlessOf, WriteKinds
    <2> QED
      BY <1>3, <2>4, <2>5 DEF ReadInvOf
  <1>5. ASSUME CheckDone(c) \/ ListDone(c) PROVE ReadInvOf(c)'
    <2>1. op'[c].kind = op[c].kind /\ op'[c].rules = op[c].rules
      BY <1>1, <1>5, ReturnFacts
    <2>2. /\ do[c].pc = "ok" /\ op[c].kind \in {"check", "checkWide", "list"} /\ op'[c].ret = "ok"
          /\ op[c].kind \in {"check", "list"} => op'[c].out = Reported(op[c], do[c].val)
      BY <1>1, <1>5, ReadDoneMore
    <2>3. ReturnedOf(c)'
      BY <1>1, <1>2, <2>1, <2>2 DEF ReadInvOf, AnswerOf, Reportable, ReturnedOf
    <2>4. SteadyOf(c)' /\ PurgeOf(c)'
      BY <2>1, <2>2 DEF SteadyOf, PurgeOf
    <2>5. HarmlessOf(c)'
      BY <1>1, <1>2, <2>1 DEF ReadInvOf, HarmlessOf
    <2> QED
      BY <1>3, <2>3, <2>4, <2>5 DEF ReadInvOf
  <1>6. ASSUME OpFailed(c) PROVE ReadInvOf(c)'
    <2>1. op'[c].kind = op[c].kind /\ op'[c].rules = op[c].rules
      BY <1>1, <1>6, ReturnFacts
    <2>2. op'[c].ret = "err" /\ op'[c].filter = op[c].filter
      BY <1>1, <1>6, FailedMore
    <2>3. SteadyOf(c)' /\ ReturnedOf(c)'
      BY <2>2 DEF SteadyOf, ReturnedOf
    <2>4. PurgeOf(c)'
      BY <1>1, <1>2, <2>1, <2>2 DEF ReadInvOf, PurgeOf, Selected, Matches
    <2>5. HarmlessOf(c)'
      BY <1>1, <1>2, <2>1 DEF ReadInvOf, HarmlessOf
    <2> QED
      BY <1>3, <2>3, <2>4, <2>5 DEF ReadInvOf
  <1>7. ASSUME DeleteListed(c) PROVE ReadInvOf(c)'
    <2>1. do[c].pc = "ok" /\ op[c].kind = "delete" /\ op'[c].kind = "purge"
      BY <1>1, <1>7, DeleteListedFacts
    <2>2. /\ op'[c].filter = op[c].filter /\ Selected(op[c].filter, do[c].val) \subseteq Range(op'[c].rules)
          /\ op'[c].ret = "ok" => op'[c].k = Len(op'[c].rules)
      BY <1>1, <1>7, DeleteListedMore
    <2>3. Selected(op[c].filter, policies) \subseteq Selected(op[c].filter, do[c].val) \cup log[c].foe
      BY <1>1, <2>1 DEF ReadInvOf, AnswerOf, Reportable
    <2>4. PurgeOf(c)'
      BY <1>2, <2>2, <2>3 DEF PurgeOf, Selected, Matches
    <2>5. SteadyOf(c)' /\ ReturnedOf(c)' /\ HarmlessOf(c)'
      BY <2>1 DEF SteadyOf, ReturnedOf, HarmlessOf
    <2> QED
      BY <1>3, <2>4, <2>5 DEF ReadInvOf
  <1>8. ASSUME NEW b \in Clients \ {c} PROVE ReadInvOf(b)'
    <2>1. GoroutineShapeOf(b) /\ ReadInvOf(b)
      BY DEF Inv, GoroutineShape, ReadInv
    <2> QED
      BY <1>2, <2>1, ReadFrame
  <1> QED
    BY <1>4, <1>5, <1>6, <1>7, <1>8 DEF ReadInv
\* retry.Do hands on a reportable answer or none.
LEMMA CallerRead ==
    ASSUME Inv, ReadInv, NEW c \in Clients, CallerStep(c), UNCHANGED <<policies, op, log>>
    PROVE  ReadInv'
  <1>1. TypeOK /\ ReadInvOf(c)
    BY DEF Inv, ReadInv
  <1>2. calls' = calls /\ \A b \in Clients \ {c} : do'[b] = do[b]
    BY <1>1, CallerStepFacts
  <1>3. /\ SteadyOf(c)' /\ ReturnedOf(c)' /\ PurgeOf(c)'
        /\ \A v : Reportable(c, v)' <=> Reportable(c, v)
    BY <1>1, StayFrame
  <1>4. do'[c].pc \in {"wait", "ok"} =>
          do'[c].pc = "ok" /\ do[c].pc = "wait" /\ do[c].done = "ok" /\ do'[c].val = do[c].val
    BY <1>1, CallerKeepsVal
  <1>5. AnswerOf(c)'
    BY <1>1, <1>3, <1>4 DEF ReadInvOf, AnswerOf
  <1>6. HarmlessOf(c)'
    BY <1>1, <1>2 DEF ReadInvOf, HarmlessOf
  <1>7. ASSUME NEW b \in Clients \ {c} PROVE ReadInvOf(b)'
    <2>1. GoroutineShapeOf(b) /\ ReadInvOf(b)
      BY DEF Inv, GoroutineShape, ReadInv
    <2> QED
      BY <1>2, <2>1, ReadFrame
  <1> QED
    BY <1>3, <1>5, <1>6, <1>7 DEF ReadInv, ReadInvOf

\* A goroutine hands over the answer to the current request, and an abandoned one
\* writes only where nothing is read any more.
LEMMA GoroutineRead ==
    ASSUME Inv, ReadInv, NEW id \in CallId, GoroutineStep(id), UNCHANGED <<policies, op, log>>
    PROVE  ReadInv'
  <1> SUFFICES ASSUME NEW c \in Clients PROVE ReadInvOf(c)'
    BY DEF ReadInv
  <1>1. TypeOK /\ CallShape /\ GoroutineShapeOf(c) /\ ReadInvOf(c)
    BY DEF Inv, GoroutineShape, ReadInv
  <1>2. /\ SteadyOf(c)' /\ ReturnedOf(c)' /\ PurgeOf(c)'
        /\ \A v : Reportable(c, v)' <=> Reportable(c, v)
    BY <1>1, StayFrame
  <1>3. /\ calls[id].stage # "free" /\ \A j \in CallId \ {id} : calls'[j] = calls[j]
        /\ calls'[id] = FreeCall \/ calls'[id] = [calls[id] EXCEPT !.stage = "late"]
    BY <1>1, GoroutineFacts
  <1>4. /\ calls'[id].stage \in {"free", "late"}
        /\ calls'[id].stage # "free" => /\ calls'[id].owner = calls[id].owner /\ calls'[id].mine = calls[id].mine
                                        /\ calls'[id].req = calls[id].req
    BY <1>1, <1>3, LateAndFree
  <1>5. HarmlessOf(c)'
    BY <1>1, <1>3, <1>4 DEF ReadInvOf, HarmlessOf
  <1>6. AnswerOf(c)'
    <2>1. CASE calls[id].stage = "late" /\ do' = do
      <3>1. do[c].pc = "wait" /\ do[c].done = "none" => do[c].cur \in CallId \ {id}
        BY <1>1, <2>1 DEF GoroutineShapeOf, OwnRunning, Running
      <3> QED
        BY <1>1, <1>2, <1>3, <2>1, <3>1 DEF ReadInvOf, AnswerOf
    <2>2. ASSUME Running(id), NEW outcome \in {"ok", "err"}, NEW v, do' = Delivered(id, outcome, v),
                 outcome = "ok" => calls[id].stage = "applied" /\ v = calls[id].resp
          PROVE  AnswerOf(c)'
      <3>1. /\ do'[c].pc = do[c].pc /\ do'[c].cur = do[c].cur
            /\ do'[c].done = IF calls[id].owner = c /\ do[c].cur = id THEN outcome ELSE do[c].done
            /\ do'[c].val = IF calls[id].owner = c /\ calls[id].mine /\ do[c].pc # "off" THEN v ELSE do[c].val
        BY <1>1, <2>2, DeliveredFacts, DeliveredVal
      <3>2. calls[id].owner = c /\ calls[id].mine => id \in OwnRunning(c)
        BY <2>2 DEF OwnRunning
      <3>3. CASE do[c].pc = "wait" /\ do[c].cur = id /\ calls[id].owner = c
        <4>1. do[c].done = "none" /\ calls[id].mine
          BY <1>1, <2>2, <3>3 DEF GoroutineShapeOf, OwnRunning
        <4>2. outcome = "ok" => Reportable(c, calls[id].resp)
          BY <1>1, <2>2, <3>3, <4>1 DEF ReadInvOf, AnswerOf
        <4> QED
          BY <1>2, <2>2, <3>1, <3>3, <4>1, <4>2 DEF AnswerOf
      <3>4. CASE do[c].pc = "wait" /\ ~(do[c].cur = id /\ calls[id].owner = c)
        <4>1. do[c].done = "none" => do[c].cur \in CallId \ {id}
          BY <1>1, <3>4 DEF GoroutineShapeOf, OwnRunning
        <4>2. do[c].done = "ok" => do'[c].val = do[c].val
          BY <1>1, <3>1, <3>2, <3>4 DEF GoroutineShapeOf
        <4>3. do'[c].done = do[c].done
          BY <3>1, <3>4
        <4> QED
          BY <1>1, <1>2, <1>3, <3>1, <3>4, <4>1, <4>2, <4>3 DEF ReadInvOf, AnswerOf
      <3>5. CASE do[c].pc = "ok"
        <4>1. do'[c].val = do[c].val
          BY <1>1, <3>1, <3>2, <3>5 DEF GoroutineShapeOf
        <4> QED
          BY <1>1, <1>2, <3>1, <3>5, <4>1 DEF ReadInvOf, AnswerOf
      <3>6. CASE do[c].pc \notin {"wait", "ok"}
        BY <3>1, <3>6, AnswerIdle
      <3> QED
        BY <3>3, <3>4, <3>5, <3>6
    <2> QED
      BY <2>1, <2>2, GoroutineDelivers
  <1> QED
    BY <1>2, <1>5, <1>6 DEF ReadInvOf

\* The server answers with what it stores at that moment, which is what the read
\* began with but for what is on record.
LEMMA ServerRead ==
    ASSUME Inv, ReadInv, NEW id \in CallId, ServerApply(id)
    PROVE  ReadInv'
  <1> SUFFICES ASSUME NEW c \in Clients PROVE ReadInvOf(c)'
    BY DEF ReadInv
  <1>1. TypeOK /\ Shape /\ CallShape /\ GoroutineShapeOf(c) /\ ReadInvOf(c) /\ HarmlessOf(c)
    BY DEF Inv, GoroutineShape, ReadInv, ReadInvOf
  <1>2. /\ OnWire(id) /\ UNCHANGED <<do, op>> /\ \A j \in CallId \ {id} : calls'[j] = calls[j]
        /\ \/ calls[id].stage = "late" /\ calls'[id] = FreeCall
           \/ /\ calls[id].stage = "sent" /\ calls'[id].stage = "applied"
              /\ calls'[id].owner = calls[id].owner /\ calls'[id].mine = calls[id].mine
              /\ calls'[id].req = calls[id].req
    BY <1>1, ServerFacts
  <1>3. log'[c].base = log[c].base /\ log[c].foe \subseteq log'[c].foe
    BY <1>1, HistoryGrows
  <1>4. \A r : /\ op[c].kind \in {"check", "list"} /\ r \notin log'[c].foe =>
                     (r \in InScope(op[c], policies') <=> r \in InScope(op[c], policies))
               /\ op[c].kind \in {"delete", "purge"} /\ r \notin log'[c].foe =>
                     (r \in Selected(op[c].filter, policies') => r \in Selected(op[c].filter, policies))
    BY <1>1, ScopeServer
  <1>5. SteadyOf(c)'
    <2>1. InScope(op[c], policies)' = InScope(op[c], policies')
      BY <1>2
    <2> QED
      BY <1>1, <1>2, <1>3, <1>4, <2>1 DEF ReadInvOf, SteadyOf
  <1>6. ReturnedOf(c)'
    BY <1>1, <1>2, <1>3 DEF ReadInvOf, ReturnedOf
  <1>7. PurgeOf(c)'
    BY <1>1, <1>2, <1>3, <1>4 DEF ReadInvOf, PurgeOf
  <1>8. HarmlessOf(c)'
    BY <1>1, <1>2, LateAndFree DEF HarmlessOf, OnWire
  <1>9. ASSUME NEW v, Reportable(c, v) PROVE Reportable(c, v)'
    BY <1>2, <1>3, <1>4, <1>9 DEF Reportable, Reported
  <1>10. ASSUME do[c].pc = "wait", do[c].done = "none", calls'[do[c].cur].stage = "applied",
                NEW v, v = calls'[do[c].cur].resp
         PROVE  Reportable(c, v)'
    <2>1. do[c].cur \in CallId /\ do[c].cur \in OwnRunning(c) /\ calls[do[c].cur].req = CurrentRequest(op[c])
      BY <1>1, <1>10 DEF GoroutineShapeOf
    <2>2. CASE do[c].cur # id
      BY <1>1, <1>2, <1>9, <1>10, <2>1, <2>2 DEF ReadInvOf, AnswerOf
    <2>3. CASE do[c].cur = id
      <3>1. calls[id].owner = c /\ calls[id].mine /\ calls[id].stage = "sent" /\ calls[id] \in CallRecord
        BY <1>1, <1>2, <2>1, <2>3 DEF OwnRunning, Running, OnWire, TypeOK
      <3>2. calls'[id].resp = Answer(CurrentRequest(op[c]))
        <4>1. calls'[id] = [calls[id] EXCEPT !.stage = "applied", !.resp = Answer(calls[id].req)]
          BY <1>1, <3>1 DEF ServerApply, ServerAnswer, TypeOK
        <4> DEFINE a == Answer(calls[id].req)
        <4> HIDE DEF a
        <4>2. [calls[id] EXCEPT !.stage = "applied", !.resp = a].resp = a
          BY <3>1 DEF CallRecord
        <4> QED
          BY <2>1, <2>3, <4>1, <4>2 DEF a
      <3>3. op[c].ret = "running"
        BY <1>1, <1>10 DEF Shape
      <3>4. CASE op[c].kind = "check"
        <4>1. Answer(CurrentRequest(op[c])) = {op[c].rules[op[c].k + 1]} \cap policies
          BY <3>4 DEF Answer, CurrentRequest, InList
        <4>2. op[c].k = 0 /\ Len(op[c].rules) = 1 /\ op[c].rules \in Seq(Rule)
          BY <1>1, <3>3, <3>4 DEF ReadInvOf, SteadyOf, TypeOK, OpRecord
        <4>3. Range(op[c].rules) = {op[c].rules[1]}
          BY <4>2 DEF Range
        <4>4. v = InScope(op[c], policies)
          BY <1>10, <2>3, <3>2, <3>4, <4>1, <4>2, <4>3 DEF InScope
        <4>5. Reportable(c, v)
          BY <1>1, <3>3, <3>4, <4>4 DEF ReadInvOf, SteadyOf, Reportable, Reported
        <4> QED
          BY <1>9, <4>5
      <3>5. CASE op[c].kind \in {"list", "delete"}
        <4>1. v = policies
          BY <1>10, <2>3, <3>2, <3>5 DEF Answer, CurrentRequest, InList, ListRequest
        <4>2. Reportable(c, v)
          BY <1>1, <3>3, <3>5, <4>1, ScopeFacts DEF ReadInvOf, SteadyOf, Reportable, Reported
        <4> QED
          BY <1>9, <4>2
      <3>6. CASE op[c].kind \notin {"check", "list", "delete"}
        BY <1>2, <3>6 DEF Reportable
      <3> QED
        BY <3>4, <3>5, <3>6
    <2> QED
      BY <2>2, <2>3
  <1>11. AnswerOf(c)'
    <2>1. \A v : Reportable(c, v) => Reportable(c, v)'
      BY <1>9
    <2>2. do'[c].val = do[c].val /\ do'[c].pc = do[c].pc /\ do'[c].done = do[c].done /\ do'[c].cur = do[c].cur
      BY <1>2
    <2>3. /\ do[c].pc = "wait" /\ do[c].done = "ok" => Reportable(c, do[c].val)
          /\ do[c].pc = "ok" => Reportable(c, do[c].val)
      BY <1>1 DEF ReadInvOf, AnswerOf
    <2> QED
      BY <1>10, <2>1, <2>2, <2>3 DEF AnswerOf
  <1> QED
    BY <1>5, <1>6, <1>7, <1>8, <1>11 DEF ReadInvOf
-----------------------------------------------------------------------------
(* The theorems *)

\* Before the first operation nothing is asked and nothing answered.
LEMMA ReadInvInit == Init => ReadInv
  <1> SUFFICES ASSUME Init, NEW c \in Clients PROVE ReadInvOf(c)
    BY DEF ReadInv
  <1>1. op[c] = NoOp /\ do[c] = DoOff
    BY DEF Init
  <1>2. op[c].kind = "none" /\ do[c].pc = "off"
    BY <1>1 DEF NoOp, NewOp, DoOff
  <1> QED
    BY <1>2 DEF ReadInvOf, AnswerOf, SteadyOf, ReturnedOf, PurgeOf, HarmlessOf

\* Every step preserves what is said of reads and deletes.
LEMMA ReadInvStep == Inv /\ ReadInv /\ [Next]_vars => ReadInv'
  <1> SUFFICES ASSUME Inv, ReadInv, [Next]_vars PROVE ReadInv'
    OBVIOUS
  <1>1. ASSUME UNCHANGED <<do, op, calls, policies, log>> PROVE ReadInv'
    <2>1. \A c \in Clients : GoroutineShapeOf(c) /\ ReadInvOf(c)
      BY DEF Inv, GoroutineShape, ReadInv
    <2> QED
      BY <1>1, <2>1, ReadFrame DEF ReadInv
  <1>2. ASSUME NEW c \in Clients, Cancel(c) PROVE UNCHANGED <<do, calls>>
    BY <1>2 DEF Cancel
  <1>3. ASSUME NEW fn \in Mappers, SetRoleActionMapper(fn) PROVE UNCHANGED <<do, op, calls, policies, log>>
    BY <1>3 DEF SetRoleActionMapper
  <1>4. ASSUME UNCHANGED vars PROVE UNCHANGED <<do, op, calls, policies, log>>
    BY <1>4 DEF vars
  <1> QED
    BY <1>1, <1>2, <1>3, <1>4, InvokeRead, StartRead, DoneRead, CallerRead, GoroutineRead, ServerRead
    DEF Next, ManagerStep, Lib

\* It holds throughout every behaviour.
THEOREM ReadInvariance == Spec => []ReadInv
  <1>1. Init => ReadInv
    BY ReadInvInit
  <1>2. Inv /\ ReadInv /\ [Next]_vars => ReadInv'
    BY ReadInvStep
  <1> QED
    BY <1>1, <1>2, Invariance, PTL DEF Spec

\* What Check and List return was stored when they were called, but for what other
\* operations changed meanwhile, for any number of clients, retries, lost replies
\* and late requests.
THEOREM ReadSafety == Spec => []ReadsAreCurrent
  <1>1. ReadInv => ReadsAreCurrent
    BY DEF ReadInv, ReadInvOf, ReturnedOf, ReadsAreCurrent
  <1> QED
    BY <1>1, ReadInvariance, PTL

\* DeleteResourcePolicies that returns nil has removed every policy of the resource
\* but those that other operations added after it began.
THEOREM DeleteSafety == Spec => []DeleteIsComplete
  <1>1. ASSUME Inv, ReadInv PROVE DeleteIsComplete
    <2> SUFFICES ASSUME NEW c \in Clients, op[c].kind = "purge", op[c].ret = "ok",
                        NEW r \in Selected(op[c].filter, policies)
                 PROVE  r \in log[c].foe
      BY DEF DeleteIsComplete
    <2>1. /\ r \in Range(op[c].rules) \cup log[c].foe /\ op[c].k = Len(op[c].rules)
          /\ r \in policies /\ op[c].rules \in Seq(Rule)
      BY <1>1 DEF ReadInv, ReadInvOf, PurgeOf, Selected, Inv, TypeOK, OpRecord
    <2>2. CASE r \in Range(op[c].rules)
      <3>1. PICK j \in 1..op[c].k : r = op[c].rules[j]
        BY <2>1, <2>2 DEF Range
      <3>2. Held(c, op[c].rules[j])
        BY <1>1 DEF Inv, AcknowledgedRulesHold
      <3> QED
        BY <2>1, <3>1, <3>2 DEF Held
    <2> QED
      BY <2>1, <2>2
  <1> QED
    BY <1>1, Invariance, ReadInvariance, PTL
=============================================================================
