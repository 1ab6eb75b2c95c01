---------------------------- MODULE AccessProofs -----------------------------
(***************************************************************************)
(* Proofs about Access.  The invariant says, for each client, how its      *)
(* operation, its retry.Do and its SDK calls belong together; the rest     *)
(* about one client is untouched by the steps of another.                  *)
(***************************************************************************)
EXTENDS Access, FiniteSetTheorems, TLAPS

-----------------------------------------------------------------------------
(* The invariant *)

DoType ==
    [pc : DoPC \ {"panic"}, i : 0..(Attempts - 1), cur : CallId \cup {NoCall}, done : {"none", "ok", "err"},
     val : SUBSET Requests]

CallRequest == [kind : Phase, rule : Request \cup {NoRequest}]

CallType ==
    [stage : Stage, owner : Clients \cup {NoClient}, mine : BOOLEAN, req : CallRequest \cup {NoRequest},
     resp : SUBSET Requests]

OpType ==
    [kind : {"none", "can", "require", "audited", "record", "async", "unlimited"}, check : Checks \cup {NoCheck},
     asked : Request \cup {NoRequest}, phase : Phase, decision : {"none", "allow", "deny", "err"},
     saved : {"none", "ok", "err"}, slot : BOOLEAN, ret : {"running", "done"}]

LogType == [yes : SUBSET Request, no : SUBSET Request, sent : 0..Attempts, stored : Nat]

Types ==
    /\ ctx \in [Clients -> CtxState \ {"nil"}] /\ do \in [Clients -> DoType] /\ calls \in [CallId -> CallType]
    /\ who \in [Clients -> Principal] /\ permitted \subseteq Requests
    /\ op \in [Clients -> OpType] /\ log \in [Clients -> LogType]

\* An identity that AuthenticateToken vouches for.
Known(p) ==
    \/ p = Anonymous /\ AllowAnonymous
    \/ \E t \in Tokens \ {""} : Claims[t].ok /\ p = PrincipalOf(t)

\* An operation by itself: where it is and what it has by then.
OpShape(o) ==
    /\ o.ret = "running" <=> o.phase # "none"
    /\ o.phase = "enforce" => o.asked # NoRequest /\ o.kind \in {"can", "require", "audited"} /\ o.decision = "none"
    /\ o.phase = "record" => o.kind \in {"audited", "record", "async", "unlimited"}
    /\ o.ret = "running" => o.saved = "none"
    /\ o.slot <=> o.kind = "async" /\ o.ret = "running"
    /\ o.asked # NoRequest => Known(o.asked.sub)

\* retry.Do by itself.
DoShape(d) ==
    /\ d.pc = "backoff" => d.i # Attempts - 1
    /\ d.pc # "wait" => d.cur = NoCall /\ d.done = "none"

\* A running operation is in retry.Do.
Together(c) == OpShape(op[c]) /\ DoShape(do[c]) /\ (op[c].ret = "running" <=> do[c].pc # "off")

\* One AddRecord request for each iteration of retry.Do.
Counted(c) ==
    /\ op[c].phase = "enforce" => log[c].sent = 0
    /\ op[c].phase = "record" =>
          /\ do[c].pc \in {"top", "call"} => log[c].sent = do[c].i
          /\ do[c].pc \in {"wait", "backoff", "ok"} => log[c].sent = do[c].i + 1
          /\ do[c].pc = "err" => log[c].sent = do[c].i + 1 \/ (log[c].sent = do[c].i /\ ctx[c] = "done")
    /\ op[c].kind = "audited" /\ op[c].ret = "done" /\ HasRecorder /\ ctx[c] # "done" => log[c].sent > 0

\* AddRecord requests of the operation that the server may still store.
Unstored(c) == {id \in CallId : OnWire(id) /\ Stores(id, c)}

\* No request is stored twice, and one that was answered is stored.
Stored(c) ==
    /\ log[c].stored + Cardinality(Unstored(c)) <= log[c].sent
    /\ \A id \in CallId : calls[id].stage = "applied" /\ Stores(id, c) => log[c].stored > 0
    /\ op[c].phase = "record" /\ (do[c].pc = "ok" \/ do[c].done = "ok") => log[c].stored > 0
    /\ op[c].saved = "ok" => log[c].stored > 0

\* The call that retry.Do waits for is the operation's; another call of the operation
\* was abandoned, and then the context has ended and the operation cannot succeed.
Owned(c) ==
    \A id \in CallId : calls[id].owner = c /\ Running(id) =>
        /\ do[c].cur = id => do[c].pc = "wait" /\ do[c].done = "none" /\ calls[id].mine /\ calls[id].req = CurrentRequest(op[c])
        /\ do[c].cur # id /\ calls[id].mine => ctx[c] = "done" /\ do[c].pc \in {"top", "backoff", "err", "off"}

\* v is an answer to what the operation of c asks that was true at some moment of it.
IsTrue(c, v) == IF v # {} THEN op[c].asked \in log[c].yes ELSE op[c].asked \in log[c].no

\* Answers and decisions are true.
Truthful(c) ==
    /\ op[c].ret = "running" /\ op[c].asked # NoRequest => op[c].asked \in IF op[c].asked \in permitted THEN log[c].yes ELSE log[c].no
    /\ op[c].phase = "enforce" =>
          /\ \A id \in CallId : calls[id].owner = c /\ do[c].cur = id /\ calls[id].stage = "applied" => IsTrue(c, calls[id].resp)
          /\ do[c].pc = "ok" \/ do[c].done = "ok" => IsTrue(c, do[c].val)
    /\ op[c].decision \in {"allow", "deny"} => op[c].asked # NoRequest
    /\ op[c].decision = "allow" => op[c].asked \in log[c].yes
    /\ op[c].decision = "deny" => op[c].asked \in log[c].no

ClientInv(c) == Together(c) /\ Counted(c) /\ Stored(c) /\ Owned(c) /\ Truthful(c)

\* Every call that is under way is somebody's.
Owners == \A id \in CallId : calls[id].stage # "free" => calls[id].owner \in Clients /\ calls[id].req \in CallRequest

\* RecordAsync operations that are running.
Asyncs == {c \in Clients : op[c].kind = "async" /\ op[c].ret = "running"}

Slots == IsFiniteSet(Asyncs) /\ slots = Cardinality(Asyncs) /\ slots <= AsyncLimit

Inv == Types /\ Owners /\ Slots /\ \A c \in Clients : ClientInv(c)
-----------------------------------------------------------------------------
(* Lemmas about the parts *)

\* retry.Do before and after an activation.
LEMMA DoConstants ==
    /\ DoOff \in DoType /\ DoOff.pc = "off" /\ DoShape(DoOff)
    /\ DoStart \in DoType /\ DoStart.pc = "top" /\ DoStart.i = 0 /\ DoStart.cur = NoCall /\ DoStart.done = "none" /\ DoShape(DoStart)
  <1>1. 0 \in 0..(Attempts - 1) /\ {} \in SUBSET Requests
    BY SdkCallAssumption
  <1>2. DoOff \in DoType /\ DoOff.pc = "off" /\ DoShape(DoOff)
    BY <1>1 DEF DoOff, DoType, DoPC, DoShape
  <1>3. DoStart \in DoType
    BY <1>2 DEF DoStart, DoType, DoPC
  <1>4. DoStart.pc = "top" /\ DoStart.i = 0 /\ DoStart.cur = NoCall /\ DoStart.done = "none"
    BY DEF DoStart, DoOff
  <1> QED
    BY <1>2, <1>3, <1>4 DEF DoShape

\* retry.Do after a failed attempt: it counts the attempt before it goes on.
LEMMA AfterFailureFacts ==
    ASSUME NEW d \in DoType
    PROVE  LET n == AfterFailure(d)
           IN /\ n \in DoType /\ DoShape(n) /\ n.cur = NoCall /\ n.done = "none"
              /\ \/ n.pc = "err" /\ n.i = d.i
                 \/ n.pc = "top" /\ n.i = d.i + 1
                 \/ n.pc = "backoff" /\ n.i = d.i
  <1> DEFINE m == [d EXCEPT !.cur = NoCall, !.done = "none"]
  <1>1. Attempts \in Nat \ {0} /\ d.i \in 0..(Attempts - 1)
    BY SdkCallAssumption DEF DoType
  <1>2. m \in DoType /\ m.cur = NoCall /\ m.done = "none" /\ m.i = d.i
    BY DEF DoType
  <1> HIDE DEF m
  <1>3. CASE d.i = Attempts - 1
    <2>1. AfterFailure(d) = [m EXCEPT !.pc = "err"]
      BY <1>3 DEF AfterFailure, m
    <2> QED
      BY <1>2, <2>1 DEF DoType, DoPC, DoShape
  <1>4. CASE d.i # Attempts - 1 /\ ~BackoffPositive
    <2>1. AfterFailure(d) = [m EXCEPT !.pc = "top", !.i = d.i + 1]
      BY <1>4 DEF AfterFailure, m
    <2>2. d.i + 1 \in 0..(Attempts - 1)
      BY <1>1, <1>4
    <2> QED
      BY <1>2, <2>1, <2>2 DEF DoType, DoPC, DoShape
  <1>5. CASE d.i # Attempts - 1 /\ BackoffPositive
    <2>1. AfterFailure(d) = [m EXCEPT !.pc = "backoff"]
      BY <1>5 DEF AfterFailure, m
    <2> QED
      BY <1>2, <1>5, <2>1 DEF DoType, DoPC, DoShape
  <1> QED
    BY <1>3, <1>4, <1>5

\* A free call is nobody's.
LEMMA FreeCallFacts ==
    /\ FreeCall \in CallType /\ FreeCall.stage = "free" /\ FreeCall.owner = NoClient
    /\ \A c \in Clients : FreeCall.owner # c
  <1>1. FreeCall \in CallType
    BY DEF FreeCall, CallType, Stage
  <1>2. FreeCall.stage = "free" /\ FreeCall.owner = NoClient
    BY DEF FreeCall
  <1> QED
    BY <1>1, <1>2, SdkCallAssumption

\* The principal of a request; one that is not zero is known.
LEMMA PrincipalFacts ==
    ASSUME NEW t \in Tokens, NEW cx
    PROVE  LET p == AuthenticateToken(t, cx) IN p \in Principal /\ (~IsZero(p) => Known(p))
  <1> DEFINE p == AuthenticateToken(t, cx)
  <1>1. NoPrincipal \in Principal /\ Anonymous \in Principal /\ IsZero(NoPrincipal)
    BY DEF NoPrincipal, Anonymous, Principal, IsZero
  <1>2. CASE ~HasAuthenticator \/ t = ""
    BY <1>1, <1>2 DEF AuthenticateToken, Known
  <1>3. CASE HasAuthenticator /\ t # ""
    <2>1. PrincipalOf(t) \in Principal
      BY <1>3 DEF PrincipalOf, Principal
    <2>2. \/ p = NoPrincipal
          \/ p = PrincipalOf(t) /\ Claims[t].ok
      BY <1>3 DEF AuthenticateToken
    <2> QED
      BY <1>1, <1>3, <2>1, <2>2 DEF Known
  <1> QED
    BY <1>2, <1>3

\* What an operation's scope is made of.
LEMMA ScopeType ==
    ASSUME NEW o \in OpType
    PROVE  Scope(o) \subseteq Request /\ (o.asked # NoRequest => o.asked \in Scope(o))
  <1>1. o.check.ext \in {q.ext : q \in Checks} \cup {""} /\ o.asked \in Request \cup {NoRequest}
    <2>1. o.check \in Checks \/ o.check = NoCheck
      BY DEF OpType
    <2>2. NoCheck.ext = ""
      BY DEF NoCheck
    <2> QED
      BY <2>1, <2>2 DEF OpType
  <1>2. ASSUME o.asked # NoRequest
        PROVE  [o.asked EXCEPT !.ext = o.check.ext] \in Request
    BY <1>1, <1>2 DEF Request
  <1> QED
    BY <1>1, <1>2 DEF Scope

\* Done ends an operation.
LEMMA DoneFacts ==
    ASSUME NEW o \in OpType, o.slot = FALSE, o.asked # NoRequest => Known(o.asked.sub)
    PROVE  LET n == Done(o)
           IN /\ n \in OpType /\ OpShape(n) /\ n.phase = "none" /\ n.ret = "done" /\ n.slot = FALSE
              /\ n.kind = o.kind /\ n.check = o.check /\ n.asked = o.asked /\ n.decision = o.decision /\ n.saved = o.saved
  <1> DEFINE n == Done(o)
  <1>1. /\ n \in OpType /\ n.phase = "none" /\ n.ret = "done" /\ n.slot = FALSE
        /\ n.kind = o.kind /\ n.check = o.check /\ n.asked = o.asked /\ n.decision = o.decision /\ n.saved = o.saved
    BY DEF Done, OpType, Phase
  <1> QED
    BY <1>1 DEF OpShape

\* The decision is known: RequireAndAudit goes on to record it.
LEMMA DecidedFacts ==
    ASSUME NEW o \in OpType, NEW d \in {"allow", "deny", "err"}, o.slot = FALSE, o.saved = "none", o.ret = "running",
           o.kind \in {"can", "require", "audited"}, o.asked # NoRequest => Known(o.asked.sub)
    PROVE  LET n == Decided(o, d)
           IN /\ n \in OpType /\ OpShape(n) /\ n.slot = FALSE /\ n.kind = o.kind /\ n.check = o.check /\ n.asked = o.asked
              /\ n.decision = d /\ n.saved = "none"
              /\ n.phase = "record" \/ (n.ret = "done" /\ (n.kind = "audited" => ~HasRecorder))
  <1> DEFINE m == [o EXCEPT !.decision = d]
  <1>1. /\ m \in OpType /\ m.slot = FALSE /\ m.kind = o.kind /\ m.check = o.check /\ m.asked = o.asked /\ m.saved = "none"
        /\ m.decision = d /\ m.ret = "running"
    BY DEF OpType
  <1> HIDE DEF m
  <1>2. CASE o.kind = "audited" /\ HasRecorder
    <2> DEFINE n == [m EXCEPT !.phase = "record"]
    <2>1. Decided(o, d) = n
      BY <1>2 DEF Decided, ToRecord, m
    <2>2. /\ n \in OpType /\ n.slot = FALSE /\ n.kind = o.kind /\ n.check = o.check /\ n.asked = o.asked /\ n.saved = "none"
          /\ n.decision = d /\ n.ret = "running" /\ n.phase = "record"
      BY <1>1 DEF OpType, Phase
    <2> HIDE DEF n
    <2> QED
      BY <1>2, <2>1, <2>2 DEF OpShape
  <1>3. CASE ~(o.kind = "audited" /\ HasRecorder)
    <2>1. Decided(o, d) = Done(m)
      BY <1>3 DEF Decided, ToRecord, m
    <2>2. m.asked # NoRequest => Known(m.asked.sub)
      BY <1>1
    <2>3. LET n == Done(m)
          IN /\ n \in OpType /\ OpShape(n) /\ n.phase = "none" /\ n.ret = "done" /\ n.slot = FALSE
             /\ n.kind = m.kind /\ n.check = m.check /\ n.asked = m.asked /\ n.decision = m.decision /\ n.saved = m.saved
      BY <1>1, <2>2, DoneFacts
    <2> QED
      BY <1>1, <1>3, <2>1, <2>3
  <1> QED
    BY <1>2, <1>3
\* An operation as it is called.
LEMMA NewOpFacts ==
    ASSUME NEW kind \in {"can", "require", "audited", "record", "async", "unlimited"}, NEW q \in Checks \cup {NoCheck}
    PROVE  LET o == NewOp(kind, q)
           IN /\ o \in OpType /\ o.kind = kind /\ o.check = q /\ o.asked = NoRequest /\ o.phase = "none" /\ o.decision = "none"
              /\ o.saved = "none" /\ o.slot = FALSE /\ o.ret = "running"
  BY DEF NewOp, OpType, Phase

\* What Begin is given: an operation that goes on with retry.Do, or has returned at once.
Fresh(o) ==
    /\ o \in OpType /\ OpShape(o) /\ o.saved = "none" /\ o.decision \in {"none", "err"}
    /\ o.kind = "audited" /\ o.ret = "done" => ~HasRecorder

\* Can, Require and RequireAndAudit as they are called.
LEMMA ToEnforceFacts ==
    ASSUME NEW kind \in {"can", "require", "audited"}, NEW q \in Checks, NEW p \in Principal, ~IsZero(p) => Known(p)
    PROVE  LET o == ToEnforce(p, NewOp(kind, q)) IN Fresh(o) /\ o.kind # "async"
  <1> DEFINE m == NewOp(kind, q)
  <1>1. /\ m \in OpType /\ m.kind = kind /\ m.check = q /\ m.asked = NoRequest /\ m.phase = "none" /\ m.decision = "none"
        /\ m.saved = "none" /\ m.slot = FALSE /\ m.ret = "running"
    <2>1. kind \in {"can", "require", "audited", "record", "async", "unlimited"} /\ q \in Checks \cup {NoCheck}
      OBVIOUS
    <2> QED
      BY <2>1 DEF NewOp, OpType, Phase
  <1> HIDE DEF m
  <1>2. CASE Ready(p, q)
    <2> DEFINE r == CasbinRequest(kind, p, q)
    <2> DEFINE o == [m EXCEPT !.phase = "enforce", !.asked = r]
    <2>1. ToEnforce(p, m) = o
      BY <1>1, <1>2 DEF ToEnforce
    <2>2. r \in Request /\ r.sub = p
      BY DEF CasbinRequest, Request
    <2>3. r # NoRequest /\ Known(r.sub)
      BY <1>2, <2>2, AccessAssumption DEF Ready
    <2> HIDE DEF r
    <2>4. /\ o \in OpType /\ o.kind = kind /\ o.asked = r /\ o.phase = "enforce" /\ o.decision = "none"
          /\ o.saved = "none" /\ o.slot = FALSE /\ o.ret = "running"
      BY <1>1, <2>2 DEF OpType, Phase
    <2> HIDE DEF o
    <2>5. OpShape(o)
      BY <2>3, <2>4 DEF OpShape
    <2> QED
      BY <2>1, <2>4, <2>5 DEF Fresh, m
  <1>3. CASE ~Ready(p, q)
    <2> DEFINE o == Decided(m, "err")
    <2>1. ToEnforce(p, m) = o
      BY <1>1, <1>3 DEF ToEnforce
    <2>2. /\ o \in OpType /\ OpShape(o) /\ o.slot = FALSE /\ o.kind = kind /\ o.decision = "err" /\ o.saved = "none"
          /\ o.phase = "record" \/ (o.ret = "done" /\ (o.kind = "audited" => ~HasRecorder))
      BY <1>1, DecidedFacts
    <2> HIDE DEF o
    <2> QED
      BY <2>1, <2>2 DEF Fresh, m, OpShape
  <1> QED
    BY <1>2, <1>3

\* Guard.Record and RecordAsync as they are called.
LEMMA ToRecordFacts ==
    ASSUME NEW kind \in {"record", "async", "unlimited"}, NEW s \in BOOLEAN, s <=> kind = "async"
    PROVE  LET o == [NewOp(kind, NoCheck) EXCEPT !.phase = "record", !.slot = s]
               d == Done(NewOp(kind, NoCheck))
           IN /\ Fresh(o) /\ o.kind = kind /\ o.ret = "running"
              /\ Fresh(d) /\ d.kind = kind /\ d.ret = "done"
  <1> DEFINE m == NewOp(kind, NoCheck)
  <1>1. /\ m \in OpType /\ m.kind = kind /\ m.asked = NoRequest /\ m.phase = "none" /\ m.decision = "none"
        /\ m.saved = "none" /\ m.slot = FALSE /\ m.ret = "running"
    <2>1. kind \in {"can", "require", "audited", "record", "async", "unlimited"} /\ NoCheck \in Checks \cup {NoCheck}
      OBVIOUS
    <2> QED
      BY <2>1 DEF NewOp, OpType, Phase
  <1> HIDE DEF m
  <1> DEFINE o == [m EXCEPT !.phase = "record", !.slot = s]
  <1>2. /\ o \in OpType /\ o.kind = kind /\ o.asked = NoRequest /\ o.phase = "record" /\ o.decision = "none"
        /\ o.saved = "none" /\ o.slot = s /\ o.ret = "running"
    BY <1>1 DEF OpType, Phase
  <1> HIDE DEF o
  <1>3. Fresh(o)
    BY <1>2 DEF Fresh, OpShape
  <1> DEFINE d == Done(m)
  <1>4. d \in OpType /\ OpShape(d) /\ d.ret = "done" /\ d.kind = kind /\ d.decision = "none" /\ d.saved = "none"
    BY <1>1, DoneFacts
  <1> HIDE DEF d
  <1>5. Fresh(d)
    BY <1>4 DEF Fresh
  <1> QED
    BY <1>2, <1>3, <1>4, <1>5 DEF m, o, d

-----------------------------------------------------------------------------
(* Lemmas about steps *)

\* The invariant speaks of finite sets.
LEMMA UnstoredFinite == ASSUME NEW c PROVE IsFiniteSet(Unstored(c)) /\ Cardinality(Unstored(c)) \in Nat
  <1>1. IsFiniteSet(Unstored(c))
    BY SdkCallAssumption, FS_Subset DEF Unstored
  <1> QED
    BY <1>1, FS_CardinalityType

\* A step that is nothing to client d: its own variables and its calls are as before.
LEMMA OtherClient ==
    ASSUME Inv, NEW d \in Clients, op'[d] = op[d], do'[d] = do[d], ctx'[d] = ctx[d], log'[d] = log[d], permitted' = permitted,
           \A id \in CallId : \/ calls'[id] = calls[id]
                              \/ /\ calls[id].owner # d \/ calls[id].stage = "free"
                                 /\ calls'[id].owner # d \/ calls'[id].stage = "free"
    PROVE  ClientInv(d)'
  <1>1. ClientInv(d)
    BY DEF Inv
  <1>2. Together(d)' /\ Counted(d)'
    BY <1>1 DEF ClientInv, Together, Counted
  <1>3. Unstored(d)' = Unstored(d)
    BY DEF Unstored, OnWire, Stores
  <1>4. Stored(d)'
    <2>1. \A id \in CallId : calls'[id].stage = "applied" /\ Stores(id, d)' => log[d].stored > 0
      BY <1>1 DEF ClientInv, Stored, Stores
    <2> QED
      BY <1>1, <1>3, <2>1 DEF ClientInv, Stored
  <1>5. Owned(d)'
    BY <1>1 DEF ClientInv, Owned, Running, CurrentRequest
  <1>6. Truthful(d)'
    BY <1>1 DEF ClientInv, Truthful, IsTrue
  <1> QED
    BY <1>2, <1>4, <1>5, <1>6 DEF ClientInv

\* An operation that is no running RecordAsync, before and after the step.
LEMMA SlotsSame ==
    ASSUME Inv, NEW c \in Clients, slots' = slots, \A d \in Clients : d # c => op'[d] = op[d],
           op'[c].kind = "async" /\ op'[c].ret = "running" <=> op[c].kind = "async" /\ op[c].ret = "running"
    PROVE  Slots'
  <1>1. Asyncs' = Asyncs
    BY DEF Asyncs
  <1> QED
    BY <1>1 DEF Inv, Slots

\* The calls of the client whose next operation begins are no longer the operation's.
LEMMA DisownedFacts ==
    ASSUME Inv, NEW c \in Clients
    PROVE  LET r == Disowned(c)
           IN /\ r \in [CallId -> CallType]
              /\ \A id \in CallId : /\ r[id].stage = calls[id].stage /\ r[id].owner = calls[id].owner /\ r[id].req = calls[id].req
                                    /\ calls[id].owner = c => r[id].mine = FALSE
                                    /\ calls[id].owner # c => r[id] = calls[id]
  <1>1. \A id \in CallId : calls[id] \in CallType
    BY DEF Inv, Types
  <1>2. \A id \in CallId : /\ [calls[id] EXCEPT !.mine = FALSE] \in CallType
                           /\ [calls[id] EXCEPT !.mine = FALSE].stage = calls[id].stage
                           /\ [calls[id] EXCEPT !.mine = FALSE].owner = calls[id].owner
                           /\ [calls[id] EXCEPT !.mine = FALSE].req = calls[id].req
                           /\ [calls[id] EXCEPT !.mine = FALSE].mine = FALSE
    BY <1>1 DEF CallType
  <1> QED
    BY <1>1, <1>2 DEF Disowned

\* An operation begins.
LEMMA BeginStep ==
    ASSUME Inv, NEW c \in Clients, NEW o, Fresh(o), NEW p \in Principal, NEW cx \in CtxState \ {"nil"},
           Begin(c, o, p, cx), Slots'
    PROVE  Inv'
  <1>1. /\ op \in [Clients -> OpType] /\ do \in [Clients -> DoType] /\ ctx \in [Clients -> CtxState \ {"nil"}]
        /\ log \in [Clients -> LogType] /\ who \in [Clients -> Principal]
    BY DEF Inv, Types
  <1>2. /\ op' = [op EXCEPT ![c] = o] /\ do' = [do EXCEPT ![c] = IF o.ret = "running" THEN DoStart ELSE DoOff]
        /\ ctx' = [ctx EXCEPT ![c] = cx] /\ who' = [who EXCEPT ![c] = p] /\ log' = [log EXCEPT ![c] = NewLog(o)]
        /\ calls' = Disowned(c) /\ permitted' = permitted
    BY DEF Begin, Enter
  <1>3. o \in OpType /\ OpShape(o) /\ o.saved = "none" /\ o.decision \in {"none", "err"}
    BY DEF Fresh
  <1>4. /\ NewLog(o) \in LogType /\ NewLog(o).sent = 0 /\ NewLog(o).stored = 0
        /\ o.asked # NoRequest => o.asked \in IF o.asked \in permitted THEN NewLog(o).yes ELSE NewLog(o).no
    <2>1. Scope(o) \subseteq Request /\ (o.asked # NoRequest => o.asked \in Scope(o)) /\ 0 \in 0..Attempts
      BY <1>3, ScopeType, SdkCallAssumption
    <2> QED
      BY <2>1 DEF NewLog, LogType
  <1> HIDE DEF NewLog
  <1>5. /\ calls' \in [CallId -> CallType]
        /\ \A id \in CallId : /\ calls'[id].stage = calls[id].stage /\ calls'[id].owner = calls[id].owner /\ calls'[id].req = calls[id].req
                              /\ calls[id].owner = c => calls'[id].mine = FALSE
                              /\ calls[id].owner # c => calls'[id] = calls[id]
    BY <1>2, DisownedFacts
  <1>6. Types' /\ Owners'
    <2>1. op' \in [Clients -> OpType] /\ do' \in [Clients -> DoType] /\ ctx' \in [Clients -> CtxState \ {"nil"}]
      BY <1>1, <1>2, <1>3, DoConstants
    <2>2. log' \in [Clients -> LogType] /\ who' \in [Clients -> Principal]
      BY <1>1, <1>2, <1>4
    <2> QED
      BY <1>2, <1>5, <2>1, <2>2 DEF Inv, Types, Owners
  <1>7. /\ op'[c] = o /\ ctx'[c] = cx /\ log'[c] = NewLog(o)
        /\ do'[c].done = "none" /\ do'[c].cur = NoCall /\ DoShape(do'[c])
        /\ o.ret = "running" => do'[c].pc = "top" /\ do'[c].i = 0
        /\ o.ret = "done" => do'[c].pc = "off"
    BY <1>1, <1>2, DoConstants DEF DoShape
  <1>8. ClientInv(c)'
    <2>1. Together(c)'
      BY <1>3, <1>7 DEF Together, OpType
    <2>2. Counted(c)'
      BY <1>3, <1>4, <1>7 DEF Counted, OpShape, Fresh
    <2>3. Unstored(c)' = {} /\ \A id \in CallId : ~Stores(id, c)'
      BY <1>5 DEF Unstored, Stores
    <2>4. Stored(c)'
      <3>1. Cardinality(Unstored(c)') = 0
        BY <2>3, FS_EmptySet
      <3> QED
        BY <1>3, <1>4, <1>7, <2>3, <3>1 DEF Stored, OpShape
    <2>5. Owned(c)'
      BY <1>5, <1>7, SdkCallAssumption DEF Owned
    <2>6. Truthful(c)'
      BY <1>2, <1>3, <1>4, <1>7, SdkCallAssumption DEF Truthful, OpShape
    <2> QED
      BY <2>1, <2>2, <2>4, <2>5, <2>6 DEF ClientInv
  <1>9. ASSUME NEW d \in Clients, d # c PROVE ClientInv(d)'
    BY <1>1, <1>2, <1>5, <1>9, OtherClient
  <1> QED
    BY <1>6, <1>8, <1>9 DEF Inv

\* A guarded request begins.
LEMMA GuardStepInv ==
    ASSUME Inv, NEW c \in Clients, NEW kind \in {"can", "require", "audited"}, NEW t \in Tokens, NEW q \in Checks,
           NEW cx \in ContextKinds, Guard(c, kind, t, q, cx)
    PROVE  Inv'
  <1> DEFINE p == AuthenticateToken(t, cx)
  <1> DEFINE o == ToEnforce(p, NewOp(kind, q))
  <1>1. p \in Principal /\ (~IsZero(p) => Known(p))
    BY PrincipalFacts
  <1>2. Begin(c, o, p, cx) /\ slots' = slots
    BY DEF Guard
  <1> HIDE DEF p
  <1>3. Fresh(o) /\ o.kind # "async"
    BY <1>1, ToEnforceFacts
  <1>4. cx \in CtxState \ {"nil"}
    BY AccessAssumption
  <1> HIDE DEF o
  <1>5. Slots'
    <2>1. op[c].ret # "running" /\ op' = [op EXCEPT ![c] = o] /\ op \in [Clients -> OpType]
      BY <1>2 DEF Begin, Enter, Inv, Types
    <2> QED
      BY <1>2, <1>3, <2>1, SlotsSame
  <1> QED
    BY <1>1, <1>2, <1>3, <1>4, <1>5, BeginStep

\* Guard.Record begins.
LEMMA RecordStep ==
    ASSUME Inv, NEW c \in Clients, NEW cx \in ContextKinds, Record(c, cx)
    PROVE  Inv'
  <1> DEFINE o == ToRecord(NewOp("record", NoCheck))
  <1>1. Begin(c, o, who[c], cx) /\ slots' = slots
    BY DEF Record
  <1>2. Fresh(o) /\ o.kind # "async"
    <2> DEFINE m == NewOp("record", NoCheck)
    <2> DEFINE r == [m EXCEPT !.phase = "record", !.slot = FALSE]
    <2>1. Fresh(r) /\ r.kind = "record" /\ Fresh(Done(m)) /\ Done(m).kind = "record"
      BY ToRecordFacts
    <2>2. m \in OpType /\ m.slot = FALSE
      BY NewOpFacts
    <2>3. [m EXCEPT !.phase = "record"] = r
      <3> HIDE DEF m
      <3> QED
        BY <2>2 DEF OpType
    <2>4. o = r \/ o = Done(m)
      BY <2>3 DEF ToRecord
    <2> HIDE DEF r, m, o
    <2> QED
      BY <2>1, <2>4
  <1>3. cx \in CtxState \ {"nil"} /\ who[c] \in Principal
    BY AccessAssumption DEF Inv, Types
  <1> HIDE DEF o
  <1>4. Slots'
    <2>1. op[c].ret # "running" /\ op' = [op EXCEPT ![c] = o] /\ op \in [Clients -> OpType]
      BY <1>1 DEF Begin, Enter, Inv, Types
    <2> QED
      BY <1>1, <1>2, <2>1, SlotsSame
  <1> QED
    BY <1>1, <1>2, <1>3, <1>4, BeginStep

\* RecordAsync takes a slot, needs none, or drops the event.
LEMMA RecordAsyncStep ==
    ASSUME Inv, NEW c \in Clients, NEW limited \in BOOLEAN, RecordAsync(c, limited)
    PROVE  Inv'
  <1> DEFINE kind == AsyncKind(limited)
  <1> DEFINE m == NewOp(kind, NoCheck)
  <1> DEFINE o == [m EXCEPT !.phase = "record", !.slot = limited]
  <1> DEFINE d == Done(m)
  <1>0. kind \in {"record", "async", "unlimited"} /\ (limited <=> kind = "async")
    BY DEF AsyncKind
  <1>1. /\ Fresh(o) /\ o.kind = kind /\ o.ret = "running"
        /\ Fresh(d) /\ d.kind = kind /\ d.ret = "done"
    <2> HIDE DEF kind
    <2> QED
      BY <1>0, ToRecordFacts
  <1>2. who[c] \in Principal /\ "live" \in CtxState \ {"nil"}
    BY DEF Inv, Types, CtxState
  <1>3. \/ Begin(c, d, who[c], "live") /\ slots' = slots
        \/ Begin(c, o, who[c], "live") /\ ~limited /\ slots' = slots
        \/ Begin(c, o, who[c], "live") /\ limited /\ slots' = slots + 1 /\ slots # AsyncLimit
    BY DEF RecordAsync
  <1> HIDE DEF kind, o, d
  <1>4. CASE Begin(c, d, who[c], "live") /\ slots' = slots
    <2>1. Slots'
      <3>1. op[c].ret # "running" /\ op' = [op EXCEPT ![c] = d] /\ op \in [Clients -> OpType]
        BY <1>4 DEF Begin, Enter, Inv, Types
      <3> QED
        BY <1>1, <1>4, <3>1, SlotsSame
    <2> QED
      BY <1>1, <1>2, <1>4, <2>1, BeginStep
  <1>5. CASE Begin(c, o, who[c], "live") /\ ~limited /\ slots' = slots
    <2>1. Slots'
      <3>1. op[c].ret # "running" /\ op' = [op EXCEPT ![c] = o] /\ op \in [Clients -> OpType]
        BY <1>5 DEF Begin, Enter, Inv, Types
      <3>2. op'[c].kind # "async"
        BY <1>0, <1>1, <1>5, <3>1
      <3> QED
        BY <1>5, <3>1, <3>2, SlotsSame
    <2> QED
      BY <1>1, <1>2, <1>5, <2>1, BeginStep
  <1>6. CASE Begin(c, o, who[c], "live") /\ limited /\ slots' = slots + 1 /\ slots # AsyncLimit
    <2>1. Slots'
      <3>1. op[c].ret # "running" /\ op' = [op EXCEPT ![c] = o] /\ op \in [Clients -> OpType]
        BY <1>6 DEF Begin, Enter, Inv, Types
      <3>2. Asyncs' = Asyncs \cup {c} /\ c \notin Asyncs
        BY <1>0, <1>1, <1>6, <3>1 DEF Asyncs
      <3>3. IsFiniteSet(Asyncs) /\ slots = Cardinality(Asyncs) /\ slots <= AsyncLimit /\ AsyncLimit \in Nat
        BY AccessAssumption DEF Inv, Slots
      <3>4. IsFiniteSet(Asyncs') /\ Cardinality(Asyncs') = Cardinality(Asyncs) + 1
        BY <3>2, <3>3, FS_AddElement
      <3>5. Cardinality(Asyncs) \in Nat
        BY <3>3, FS_CardinalityType
      <3> QED
        BY <1>6, <3>3, <3>4, <3>5 DEF Slots
    <2> QED
      BY <1>1, <1>2, <1>6, <2>1, BeginStep
  <1> QED
    BY <1>3, <1>4, <1>5, <1>6

\* An SDK call starts: a new attempt, and one more AddRecord request if it is one.
LEMMA SdkCallStartStep ==
    ASSUME Inv, NEW c \in Clients, SdkCallStart(c)
    PROVE  Inv'
  <1>1. do[c].pc = "call" /\ ctx' = ctx /\ UNCHANGED <<who, permitted, op, slots>>
    BY DEF SdkCallStart, CallStart
  <1> DEFINE r == CurrentRequest(op[c])
  <1>2. PICK id \in Free :
          /\ calls' = [calls EXCEPT ![id] = [stage |-> "sent", owner |-> c, mine |-> TRUE, req |-> r, resp |-> {}]]
          /\ do' = [do EXCEPT ![c].pc = "wait", ![c].cur = id, ![c].done = "none"]
    BY DEF SdkCallStart, CallStart
  <1> DEFINE n == [stage |-> "sent", owner |-> c, mine |-> TRUE, req |-> r, resp |-> {}]
  <1> DEFINE m == [do[c] EXCEPT !.pc = "wait", !.cur = id, !.done = "none"]
  <1>3. /\ do \in [Clients -> DoType] /\ log \in [Clients -> LogType] /\ calls \in [CallId -> CallType] /\ op[c] \in OpType
        /\ id \in CallId /\ calls[id].stage = "free" /\ ClientInv(c)
    BY DEF Inv, Types, Free
  <1>4. r \in CallRequest /\ r.kind = op[c].phase
    BY <1>3 DEF CurrentRequest, CallRequest, OpType
  <1> HIDE DEF r
  <1>5. n \in CallType /\ n.stage = "sent" /\ n.owner = c /\ n.mine = TRUE /\ n.req = r
    BY <1>4 DEF CallType, Stage
  <1>6. m \in DoType /\ m.pc = "wait" /\ m.cur = id /\ m.done = "none" /\ m.i = do[c].i
    BY <1>3 DEF DoType, DoPC
  <1>7. calls' = [calls EXCEPT ![id] = n] /\ do' = [do EXCEPT ![c] = m]
    BY <1>2, <1>3
  <1> HIDE DEF n, m
  <1>8. /\ calls'[id] = n /\ (\A j \in CallId : j # id => calls'[j] = calls[j])
        /\ do'[c] = m /\ (\A d \in Clients : d # c => do'[d] = do[d])
    BY <1>3, <1>7
  <1>9. /\ op[c].ret = "running" /\ op[c].phase \in {"enforce", "record"} /\ do[c].cur = NoCall
        /\ op[c].phase = "record" => log[c].sent = do[c].i
        /\ op[c].phase = "enforce" => log[c].sent = 0
    BY <1>1, <1>3 DEF ClientInv, Together, OpShape, DoShape, Counted, OpType, Phase
  <1> DEFINE k == IF op[c].phase = "record" THEN log[c].sent + 1 ELSE log[c].sent
  <1>10. k \in 0..Attempts /\ k \in Nat /\ log[c].sent \in Nat /\ log[c].stored \in Nat
    <2>1. log[c].sent \in 0..Attempts /\ log[c].stored \in Nat /\ do[c].i \in 0..(Attempts - 1) /\ Attempts \in Nat \ {0}
      BY <1>3, SdkCallAssumption DEF LogType, DoType
    <2> QED
      BY <1>9, <2>1
  <1>11. /\ log' \in [Clients -> LogType] /\ log'[c].sent = k /\ (\A d \in Clients : d # c => log'[d] = log[d])
         /\ log'[c].stored = log[c].stored /\ log'[c].yes = log[c].yes /\ log'[c].no = log[c].no
    <2>1. log' = [log EXCEPT ![c] = [log[c] EXCEPT !.sent = k]]
      BY <1>3 DEF SdkCallStart, k
    <2> HIDE DEF k
    <2>2. [log[c] EXCEPT !.sent = k] \in LogType
      BY <1>3, <1>10 DEF LogType
    <2> QED
      BY <1>3, <2>1, <2>2 DEF LogType
  <1> HIDE DEF k
  <1>12. Types' /\ Owners'
    <2>1. do' \in [Clients -> DoType] /\ calls' \in [CallId -> CallType]
      BY <1>3, <1>5, <1>6, <1>7
    <2>2. Owners'
      BY <1>4, <1>5, <1>8 DEF Inv, Owners
    <2> QED
      BY <1>1, <1>11, <2>1, <2>2 DEF Inv, Types
  <1>13. ClientInv(c)'
    <2>1. Together(c)'
      BY <1>1, <1>3, <1>6, <1>8, <1>9 DEF ClientInv, Together, DoShape
    <2>2. Counted(c)'
      <3>1. op[c].ret # "done"
        BY <1>9
      <3> QED
        BY <1>1, <1>6, <1>8, <1>9, <1>11, <3>1 DEF Counted, k
    <2>3. Stored(c)'
      <3>1. \A j \in CallId : j # id => (Stores(j, c)' <=> Stores(j, c)) /\ (OnWire(j)' <=> OnWire(j))
        BY <1>8 DEF Stores, OnWire
      <3>2. OnWire(id)' /\ ~OnWire(id) /\ (Stores(id, c)' <=> op[c].phase = "record")
        BY <1>3, <1>4, <1>5, <1>8 DEF Stores, OnWire
      <3>3. log[c].stored + Cardinality(Unstored(c)') <= k
        <4>1. CASE op[c].phase = "record"
          <5>1. Unstored(c)' = Unstored(c) \cup {id} /\ id \notin Unstored(c)
            BY <1>3, <3>1, <3>2, <4>1 DEF Unstored
          <5>2. Cardinality(Unstored(c)') = Cardinality(Unstored(c)) + 1
            BY <5>1, UnstoredFinite, FS_AddElement
          <5>3. log[c].stored + Cardinality(Unstored(c)) <= log[c].sent /\ Cardinality(Unstored(c)) \in Nat
            BY <1>3, UnstoredFinite DEF ClientInv, Stored
          <5> QED
            BY <1>10, <4>1, <5>2, <5>3 DEF k
        <4>2. CASE op[c].phase # "record"
          <5>1. Unstored(c)' = Unstored(c)
            BY <3>1, <3>2, <4>2 DEF Unstored
          <5> QED
            BY <1>3, <4>2, <5>1 DEF ClientInv, Stored, k
        <4> QED
          BY <4>1, <4>2
      <3>4. \A j \in CallId : calls'[j].stage = "applied" /\ Stores(j, c)' => log[c].stored > 0
        BY <1>3, <1>5, <1>8, <3>1 DEF ClientInv, Stored
      <3>5. op[c].saved # "ok" /\ do'[c].pc # "ok" /\ do'[c].done # "ok"
        BY <1>3, <1>6, <1>8, <1>9 DEF ClientInv, Together, OpShape
      <3> QED
        BY <1>1, <1>11, <3>3, <3>4, <3>5 DEF Stored
    <2>4. Owned(c)'
      <3>1. \A j \in CallId : calls[j].owner = c /\ Running(j) => ~calls[j].mine
        BY <1>1, <1>3, <1>9, SdkCallAssumption DEF ClientInv, Owned
      <3>2. CurrentRequest(op[c])' = r
        BY <1>1 DEF r, CurrentRequest
      <3> QED
        BY <1>3, <1>5, <1>6, <1>8, <3>1, <3>2 DEF Owned, Running
    <2>5. Truthful(c)'
      BY <1>1, <1>3, <1>5, <1>6, <1>8, <1>11 DEF ClientInv, Truthful, IsTrue
    <2> QED
      BY <2>1, <2>2, <2>3, <2>4, <2>5 DEF ClientInv
  <1>14. ASSUME NEW d \in Clients, d # c PROVE ClientInv(d)'
    BY <1>1, <1>3, <1>5, <1>8, <1>11, <1>14, OtherClient
  <1>15. Slots'
    BY <1>1, SlotsSame
  <1> QED
    BY <1>12, <1>13, <1>14, <1>15 DEF Inv

\* A step of one client that leaves contexts, calls and histories alone.
LEMMA EnterStep ==
    ASSUME Inv, NEW c \in Clients, NEW n \in OpType, Enter(c, n), UNCHANGED <<ctx, calls, who, permitted, log>>
    PROVE  /\ Types' /\ Owners' /\ op'[c] = n /\ do'[c] = (IF n.ret = "running" THEN DoStart ELSE DoOff)
           /\ \A d \in Clients : d # c => op'[d] = op[d] /\ ClientInv(d)'
  <1>1. op \in [Clients -> OpType] /\ do \in [Clients -> DoType]
    BY DEF Inv, Types
  <1>2. op' = [op EXCEPT ![c] = n] /\ do' = [do EXCEPT ![c] = IF n.ret = "running" THEN DoStart ELSE DoOff]
    BY DEF Enter
  <1>3. op' \in [Clients -> OpType] /\ do' \in [Clients -> DoType]
    BY <1>1, <1>2, DoConstants
  <1>4. Types' /\ Owners'
    BY <1>3 DEF Inv, Types, Owners
  <1>5. \A d \in Clients : d # c => op'[d] = op[d] /\ do'[d] = do[d]
    BY <1>1, <1>2
  <1>6. ASSUME NEW d \in Clients, d # c PROVE ClientInv(d)'
    BY <1>5, <1>6, OtherClient
  <1> QED
    BY <1>1, <1>2, <1>4, <1>5, <1>6

\* Authorize returns, with a decision or an error.
LEMMA AuthorizeReturns ==
    ASSUME Inv, NEW c \in Clients, Authorized(c) \/ AuthorizeFailed(c)
    PROVE  Inv'
  <1>1. do[c].pc \in {"ok", "err"} /\ op[c].phase = "enforce" /\ UNCHANGED <<ctx, calls, who, permitted, slots, log>>
    BY DEF Authorized, AuthorizeFailed
  <1>2. op[c] \in OpType /\ ClientInv(c)
    BY DEF Inv, Types
  <1>3. PICK d \in {"allow", "deny", "err"} :
          /\ Enter(c, Decided(op[c], d))
          /\ d = "allow" => op[c].asked \in log[c].yes
          /\ d = "deny" => op[c].asked \in log[c].no
    <2>1. CASE Authorized(c)
      <3>1. IsTrue(c, do[c].val) /\ Enter(c, Decided(op[c], IF do[c].val # {} THEN "allow" ELSE "deny"))
        BY <1>1, <1>2, <2>1 DEF Authorized, ClientInv, Truthful
      <3> QED
        BY <3>1 DEF IsTrue
    <2>2. CASE AuthorizeFailed(c)
      BY <2>2 DEF AuthorizeFailed
    <2> QED
      BY <2>1, <2>2
  <1>4. /\ op[c].slot = FALSE /\ op[c].saved = "none" /\ op[c].ret = "running" /\ op[c].asked # NoRequest
        /\ op[c].kind \in {"can", "require", "audited"} /\ Known(op[c].asked.sub) /\ log[c].sent = 0
        /\ do[c].cur = NoCall
    <2>1. OpShape(op[c]) /\ DoShape(do[c]) /\ Counted(c)
      BY <1>2 DEF ClientInv, Together
    <2> QED
      BY <1>1, <1>2, <2>1 DEF OpShape, DoShape, Counted, OpType
  <1> DEFINE n == Decided(op[c], d)
  <1>5. /\ n \in OpType /\ OpShape(n) /\ n.slot = FALSE /\ n.kind = op[c].kind /\ n.asked = op[c].asked
        /\ n.decision = d /\ n.saved = "none"
        /\ n.phase = "record" \/ (n.ret = "done" /\ (n.kind = "audited" => ~HasRecorder))
    BY <1>2, <1>4, DecidedFacts
  <1> HIDE DEF n
  <1>6. /\ Types' /\ Owners' /\ op'[c] = n /\ do'[c] = (IF n.ret = "running" THEN DoStart ELSE DoOff)
        /\ \A e \in Clients : e # c => op'[e] = op[e] /\ ClientInv(e)'
    BY <1>1, <1>3, <1>5, EnterStep DEF n
  <1>7. /\ DoShape(do'[c]) /\ do'[c].cur = NoCall /\ do'[c].done = "none"
        /\ n.ret = "running" => do'[c].pc = "top" /\ do'[c].i = 0
        /\ n.ret = "done" => do'[c].pc = "off"
    BY <1>6, DoConstants DEF DoShape
  <1>8. n.phase # "enforce" /\ (n.phase = "record" <=> n.ret = "running") /\ n.ret \in {"running", "done"}
    BY <1>5 DEF OpShape, OpType, Phase
  <1>9. ClientInv(c)'
    <2>1. Together(c)'
      BY <1>5, <1>6, <1>7, <1>8 DEF Together
    <2>2. Counted(c)'
      BY <1>1, <1>4, <1>5, <1>6, <1>7, <1>8 DEF Counted
    <2>3. Stored(c)'
      <3>1. Unstored(c)' = Unstored(c) /\ \A id \in CallId : Stores(id, c)' <=> Stores(id, c)
        BY <1>1 DEF Unstored, OnWire, Stores
      <3> QED
        BY <1>1, <1>2, <1>5, <1>6, <1>7, <1>8, <3>1 DEF ClientInv, Stored
    <2>4. Owned(c)'
      <3>1. \A id \in CallId : Running(id)' <=> Running(id)
        BY <1>1 DEF Running
      <3> QED
        BY <1>1, <1>2, <1>4, <1>7, <1>8, <3>1, SdkCallAssumption DEF ClientInv, Owned
    <2>5. Truthful(c)'
      BY <1>1, <1>2, <1>3, <1>4, <1>5, <1>6, <1>8 DEF ClientInv, Truthful
    <2> QED
      BY <2>1, <2>2, <2>3, <2>4, <2>5 DEF ClientInv
  <1>10. Slots'
    <2>1. op[c].kind # "async" /\ op'[c].kind # "async"
      BY <1>4, <1>5, <1>6
    <2> QED
      BY <1>1, <1>6, <2>1, SlotsSame
  <1> QED
    BY <1>6, <1>9, <1>10 DEF Inv

\* Adapter.Record returns, and RecordAsync with it.
LEMMA RecordedStep ==
    ASSUME Inv, NEW c \in Clients, Recorded(c)
    PROVE  Inv'
  <1>1. /\ do[c].pc \in {"ok", "err"} /\ op[c].phase = "record" /\ UNCHANGED <<ctx, calls, who, permitted, log>>
        /\ Enter(c, Done([op[c] EXCEPT !.saved = do[c].pc, !.slot = FALSE]))
        /\ slots' = IF op[c].slot THEN slots - 1 ELSE slots
    BY DEF Recorded
  <1>2. op[c] \in OpType /\ ClientInv(c) /\ do[c] \in DoType /\ log[c] \in LogType
    BY DEF Inv, Types
  <1>3. OpShape(op[c]) /\ DoShape(do[c])
    BY <1>2 DEF ClientInv, Together
  <1> DEFINE m == [op[c] EXCEPT !.saved = do[c].pc, !.slot = FALSE]
  <1>4. /\ m \in OpType /\ m.saved = do[c].pc /\ m.slot = FALSE /\ m.kind = op[c].kind /\ m.asked = op[c].asked
        /\ m.decision = op[c].decision
    BY <1>1, <1>2 DEF OpType
  <1> HIDE DEF m
  <1>5. m.asked # NoRequest => Known(m.asked.sub)
    BY <1>3, <1>4 DEF OpShape
  <1> DEFINE n == Done(m)
  <1>6. /\ n \in OpType /\ OpShape(n) /\ n.phase = "none" /\ n.ret = "done" /\ n.kind = op[c].kind /\ n.asked = op[c].asked
        /\ n.decision = op[c].decision /\ n.saved = do[c].pc
    BY <1>4, <1>5, DoneFacts
  <1> HIDE DEF n
  <1>7. /\ Types' /\ Owners' /\ op'[c] = n /\ do'[c] = (IF n.ret = "running" THEN DoStart ELSE DoOff)
        /\ \A e \in Clients : e # c => op'[e] = op[e] /\ ClientInv(e)'
    BY <1>1, <1>6, EnterStep DEF n, m
  <1>8. do'[c].pc = "off" /\ do'[c].cur = NoCall /\ do'[c].done = "none" /\ DoShape(do'[c])
    BY <1>6, <1>7, DoConstants DEF DoShape
  <1>9. ClientInv(c)'
    <2>1. Together(c)'
      BY <1>6, <1>7, <1>8 DEF Together
    <2>2. Counted(c)'
      <3>1. log[c].sent > 0 \/ ctx[c] = "done"
        <4>1. log[c].sent = do[c].i + 1 \/ ctx[c] = "done"
          BY <1>1, <1>2 DEF ClientInv, Counted
        <4>2. do[c].i \in Nat
          BY <1>2, SdkCallAssumption DEF DoType
        <4> QED
          BY <4>1, <4>2
      <3> QED
        BY <1>1, <1>6, <1>7, <3>1 DEF Counted
    <2>3. Stored(c)'
      <3>1. Unstored(c)' = Unstored(c) /\ \A id \in CallId : Stores(id, c)' <=> Stores(id, c)
        BY <1>1 DEF Unstored, OnWire, Stores
      <3> QED
        BY <1>1, <1>2, <1>6, <1>7, <3>1 DEF ClientInv, Stored
    <2>4. Owned(c)'
      <3>1. \A id \in CallId : Running(id)' <=> Running(id)
        BY <1>1 DEF Running
      <3>2. do[c].cur = NoCall
        BY <1>1, <1>3 DEF DoShape
      <3> QED
        BY <1>1, <1>2, <1>8, <3>1, <3>2, SdkCallAssumption DEF ClientInv, Owned
    <2>5. Truthful(c)'
      BY <1>1, <1>2, <1>6, <1>7 DEF ClientInv, Truthful
    <2> QED
      BY <2>1, <2>2, <2>3, <2>4, <2>5 DEF ClientInv
  <1>10. Slots'
    <2>1. op[c].slot <=> c \in Asyncs
      BY <1>3 DEF OpShape, Asyncs
    <2>2. CASE ~op[c].slot
      BY <1>1, <1>6, <1>7, <2>1, <2>2, SlotsSame DEF Asyncs
    <2>3. CASE op[c].slot
      <3>1. Asyncs' = Asyncs \ {c} /\ c \in Asyncs
        BY <1>6, <1>7, <2>1, <2>3 DEF Asyncs
      <3>2. IsFiniteSet(Asyncs) /\ slots = Cardinality(Asyncs) /\ slots <= AsyncLimit /\ AsyncLimit \in Nat
        BY AccessAssumption DEF Inv, Slots
      <3>3. IsFiniteSet(Asyncs') /\ Cardinality(Asyncs') = Cardinality(Asyncs) - 1
        BY <3>1, <3>2, FS_RemoveElement
      <3>4. Cardinality(Asyncs) \in Nat
        BY <3>2, FS_CardinalityType
      <3> QED
        BY <1>1, <2>3, <3>2, <3>3, <3>4 DEF Slots
    <2> QED
      BY <2>2, <2>3
  <1> QED
    BY <1>7, <1>9, <1>10 DEF Inv
\* retry.Do goes on after a call, or between two: n is its next state.
LEMMA DoStep ==
    ASSUME Inv, NEW c \in Clients, NEW n \in DoType, DoShape(n), do' = [do EXCEPT ![c] = n],
           UNCHANGED <<ctx, calls, who, permitted, op, slots, log>>,
           do[c].pc # "off", n.pc \notin {"off", "wait"},
           op[c].phase = "record" =>
              /\ n.pc \in {"top", "call"} => log[c].sent = n.i
              /\ n.pc \in {"backoff", "ok"} => log[c].sent = n.i + 1
              /\ n.pc = "err" => log[c].sent = n.i + 1 \/ (log[c].sent = n.i /\ ctx[c] = "done"),
           n.pc = "ok" => do[c].done = "ok" /\ n.val = do[c].val,
           OwnRunning(c) # {} => ctx[c] = "done" /\ n.pc \in {"top", "backoff", "err"}
    PROVE  Inv'
  <1>1. do \in [Clients -> DoType] /\ ClientInv(c)
    BY DEF Inv, Types
  <1>2. do'[c] = n /\ (\A d \in Clients : d # c => do'[d] = do[d]) /\ do' \in [Clients -> DoType]
    BY <1>1
  <1>3. n.cur = NoCall /\ n.done = "none"
    BY DEF DoShape
  <1>4. Types' /\ Owners'
    BY <1>2 DEF Inv, Types, Owners
  <1>5. ClientInv(c)'
    <2>1. Together(c)'
      BY <1>1, <1>2 DEF ClientInv, Together
    <2>2. Counted(c)'
      BY <1>1, <1>2 DEF ClientInv, Counted
    <2>3. Stored(c)'
      <3>1. Unstored(c)' = Unstored(c) /\ \A id \in CallId : Stores(id, c)' <=> Stores(id, c)
        BY DEF Unstored, OnWire, Stores
      <3> QED
        BY <1>1, <1>2, <1>3, <3>1 DEF ClientInv, Stored
    <2>4. Owned(c)'
      <3>1. \A id \in CallId : Running(id)' <=> Running(id)
        BY DEF Running
      <3> QED
        BY <1>2, <1>3, <3>1, SdkCallAssumption DEF Owned, OwnRunning
    <2>5. Truthful(c)'
      BY <1>1, <1>2, <1>3, SdkCallAssumption DEF ClientInv, Truthful, IsTrue
    <2> QED
      BY <2>1, <2>2, <2>3, <2>4, <2>5 DEF ClientInv
  <1>6. ASSUME NEW d \in Clients, d # c PROVE ClientInv(d)'
    BY <1>2, <1>6, OtherClient
  <1>7. Slots'
    BY SlotsSame
  <1> QED
    BY <1>4, <1>5, <1>6, <1>7 DEF Inv

\* The steps of retry.Do and callWithContext.
LEMMA CallerStepInv ==
    ASSUME Inv, NEW c \in Clients, Lib(CallerStep(c))
    PROVE  Inv'
  <1>1. CallerStep(c) /\ UNCHANGED <<who, permitted, op, slots, log>>
    BY DEF Lib
  <1>2. ctx' = ctx /\ calls' = calls
    BY <1>1 DEF CallerStep, DoTop, CallDone, CallCancelled, BackoffElapsed, BackoffCancelled, BackoffNilContext
  <1>3. /\ do \in [Clients -> DoType] /\ do[c] \in DoType /\ ctx[c] # "nil" /\ log[c].sent \in Nat /\ do[c].i \in Nat
        /\ Attempts \in Nat \ {0} /\ do[c].i \in 0..(Attempts - 1)
    BY SdkCallAssumption DEF Inv, Types, DoType, LogType
  <1>4. DoShape(do[c]) /\ Counted(c) /\ Owned(c)
    BY DEF Inv, ClientInv, Together
  <1>5. ASSUME NEW id \in OwnRunning(c)
        PROVE  \/ do[c].cur = id /\ do[c].pc = "wait" /\ do[c].done = "none"
               \/ ctx[c] = "done" /\ do[c].pc \in {"top", "backoff", "err", "off"}
    BY <1>4 DEF OwnRunning, Owned
  <1>6. CASE DoTop(c)
    <2> DEFINE n == [do[c] EXCEPT !.pc = IF ctx[c] = "done" THEN "err" ELSE "call"]
    <2>1. do[c].pc = "top" /\ do' = [do EXCEPT ![c] = n]
      BY <1>3, <1>6 DEF DoTop
    <2>2. /\ n \in DoType /\ n.i = do[c].i /\ n.cur = do[c].cur /\ n.done = do[c].done
          /\ \/ n.pc = "err" /\ ctx[c] = "done"
             \/ n.pc = "call" /\ ctx[c] # "done"
      BY <1>3 DEF DoType, DoPC
    <2> HIDE DEF n
    <2>3. DoShape(n)
      BY <1>4, <2>1, <2>2 DEF DoShape
    <2>4. op[c].phase = "record" => log[c].sent = n.i
      BY <1>4, <2>1, <2>2 DEF Counted
    <2>5. OwnRunning(c) # {} => ctx[c] = "done"
      BY <1>5, <2>1
    <2> QED
      BY <1>1, <1>2, <2>1, <2>2, <2>3, <2>4, <2>5, DoStep
  <1>7. CASE CallDone(c) \/ CallCancelled(c)
    <2>1. /\ do[c].pc = "wait" /\ (do[c].done # "none" \/ ctx[c] = "done")
          /\ \/ /\ do[c].done = "ok"
                /\ do' = [do EXCEPT ![c] = [do[c] EXCEPT !.pc = "ok", !.cur = NoCall, !.done = "none"]]
             \/ do' = [do EXCEPT ![c] = AfterFailure(do[c])]
      BY <1>7 DEF CallDone, CallCancelled
    <2>2. op[c].phase = "record" => log[c].sent = do[c].i + 1
      BY <1>4, <2>1 DEF Counted
    <2>3. OwnRunning(c) # {} => ctx[c] = "done" /\ do[c].done = "none"
      BY <1>5, <2>1
    <2>4. CASE do[c].done = "ok" /\ do' = [do EXCEPT ![c] = [do[c] EXCEPT !.pc = "ok", !.cur = NoCall, !.done = "none"]]
      <3> DEFINE n == [do[c] EXCEPT !.pc = "ok", !.cur = NoCall, !.done = "none"]
      <3>1. n \in DoType /\ n.i = do[c].i /\ n.cur = NoCall /\ n.done = "none" /\ n.pc = "ok" /\ n.val = do[c].val
        BY <1>3 DEF DoType, DoPC
      <3>2. do' = [do EXCEPT ![c] = n]
        BY <2>4
      <3> HIDE DEF n
      <3>3. DoShape(n)
        BY <3>1 DEF DoShape
      <3> QED
        BY <1>1, <1>2, <2>1, <2>2, <2>3, <2>4, <3>1, <3>2, <3>3, DoStep
    <2>5. CASE do' = [do EXCEPT ![c] = AfterFailure(do[c])]
      <3> DEFINE n == AfterFailure(do[c])
      <3>1. /\ n \in DoType /\ DoShape(n)
            /\ \/ n.pc = "err" /\ n.i = do[c].i
               \/ n.pc = "top" /\ n.i = do[c].i + 1
               \/ n.pc = "backoff" /\ n.i = do[c].i
        BY <1>3, AfterFailureFacts
      <3>2. do' = [do EXCEPT ![c] = n]
        BY <2>5
      <3> HIDE DEF n
      <3> QED
        BY <1>1, <1>2, <2>1, <2>2, <2>3, <3>1, <3>2, DoStep
    <2> QED
      BY <2>1, <2>4, <2>5
  <1>8. CASE BackoffElapsed(c) \/ BackoffCancelled(c)
    <2>1. do[c].pc = "backoff" /\ do[c].i # Attempts - 1
      BY <1>4, <1>8 DEF BackoffElapsed, BackoffCancelled, DoShape
    <2>2. op[c].phase = "record" => log[c].sent = do[c].i + 1
      BY <1>4, <2>1 DEF Counted
    <2>3. OwnRunning(c) # {} => ctx[c] = "done"
      BY <1>5, <2>1
    <2>4. PICK n \in DoType : /\ do' = [do EXCEPT ![c] = n] /\ n.cur = do[c].cur /\ n.done = do[c].done
                              /\ \/ n.pc = "top" /\ n.i = do[c].i + 1
                                 \/ n.pc = "err" /\ n.i = do[c].i
      <3>1. CASE BackoffElapsed(c)
        <4> DEFINE n == [do[c] EXCEPT !.pc = "top", !.i = do[c].i + 1]
        <4>1. do[c].i + 1 \in 0..(Attempts - 1)
          BY <1>3, <2>1
        <4>2. n \in DoType /\ n.cur = do[c].cur /\ n.done = do[c].done /\ n.pc = "top" /\ n.i = do[c].i + 1
          BY <1>3, <4>1 DEF DoType, DoPC
        <4>3. do' = [do EXCEPT ![c] = n]
          BY <1>3, <3>1 DEF BackoffElapsed
        <4> HIDE DEF n
        <4> QED
          BY <4>2, <4>3
      <3>2. CASE BackoffCancelled(c)
        <4> DEFINE n == [do[c] EXCEPT !.pc = "err"]
        <4>1. n \in DoType /\ n.cur = do[c].cur /\ n.done = do[c].done /\ n.pc = "err" /\ n.i = do[c].i
          BY <1>3 DEF DoType, DoPC
        <4>2. do' = [do EXCEPT ![c] = n]
          BY <1>3, <3>2 DEF BackoffCancelled
        <4> HIDE DEF n
        <4> QED
          BY <4>1, <4>2
      <3> QED
        BY <1>8, <3>1, <3>2
    <2>5. DoShape(n)
      BY <1>4, <2>1, <2>4 DEF DoShape
    <2> QED
      BY <1>1, <1>2, <2>1, <2>2, <2>3, <2>4, <2>5, DoStep
  <1>9. ~BackoffNilContext(c)
    BY <1>3 DEF BackoffNilContext
  <1> QED
    BY <1>1, <1>6, <1>7, <1>8, <1>9 DEF CallerStep

\* A context ends.
LEMMA CancelStep ==
    ASSUME Inv, NEW c \in Clients, Lib(Cancel(c))
    PROVE  Inv'
  <1>1. ctx' = [ctx EXCEPT ![c] = "done"] /\ UNCHANGED <<do, calls, who, permitted, op, slots, log>> /\ do[c].pc # "off"
    BY DEF Lib, Cancel
  <1>2. ctx \in [Clients -> CtxState \ {"nil"}]
    BY DEF Inv, Types
  <1>3. ctx'[c] = "done" /\ ctx' \in [Clients -> CtxState \ {"nil"}] /\ \A d \in Clients : d # c => ctx'[d] = ctx[d]
    BY <1>1, <1>2 DEF CtxState
  <1>4. Types' /\ Owners'
    BY <1>1, <1>3 DEF Inv, Types, Owners
  <1>5. ClientInv(c)'
    <2>1. ClientInv(c)
      BY DEF Inv
    <2>2. Together(c)' /\ Counted(c)'
      BY <1>1, <1>3, <2>1 DEF ClientInv, Together, Counted
    <2>3. Unstored(c)' = Unstored(c) /\ \A id \in CallId : (Stores(id, c)' <=> Stores(id, c)) /\ (Running(id)' <=> Running(id))
      BY <1>1 DEF Unstored, OnWire, Stores, Running
    <2>4. Stored(c)'
      BY <1>1, <2>1, <2>3 DEF ClientInv, Stored
    <2>5. Owned(c)'
      BY <1>1, <1>3, <2>1, <2>3 DEF ClientInv, Owned, CurrentRequest
    <2>6. Truthful(c)'
      BY <1>1, <2>1 DEF ClientInv, Truthful, IsTrue
    <2> QED
      BY <2>2, <2>4, <2>5, <2>6 DEF ClientInv
  <1>6. ASSUME NEW d \in Clients, d # c PROVE ClientInv(d)'
    BY <1>1, <1>3, <1>6, OtherClient
  <1>7. Slots'
    BY <1>1, SlotsSame
  <1> QED
    BY <1>4, <1>5, <1>6, <1>7 DEF Inv
\* An SDK goroutine delivers its outcome; its call is over, or late.
LEMMA DeliverStep ==
    ASSUME Inv, NEW id \in CallId, Running(id), NEW outcome \in {"ok", "err"}, NEW v \in SUBSET Requests,
           do' = Delivered(id, outcome, v), NEW r \in CallType, calls' = [calls EXCEPT ![id] = r],
           \/ r.stage = "free"
           \/ /\ calls[id].stage = "sent" /\ r.stage = "late" /\ r.owner = calls[id].owner
              /\ r.mine = calls[id].mine /\ r.req = calls[id].req,
           outcome = "ok" => calls[id].stage = "applied" /\ v = calls[id].resp,
           UNCHANGED <<ctx, who, permitted, op, slots, log>>
    PROVE  Inv'
  <1>1. PICK c \in Clients : c = calls[id].owner /\ calls[id].req \in CallRequest
    BY DEF Inv, Owners, Running
  <1>2. do \in [Clients -> DoType] /\ calls \in [CallId -> CallType] /\ ClientInv(c)
    BY <1>1 DEF Inv, Types
  <1> DEFINE n == [do[c] EXCEPT !.val = IF calls[id].mine /\ do[c].pc # "off" THEN v ELSE do[c].val,
                                !.done = IF do[c].cur = id THEN outcome ELSE do[c].done]
  <1>3. do' = [do EXCEPT ![c] = n]
    BY <1>1 DEF Delivered
  <1>4. /\ n \in DoType /\ n.pc = do[c].pc /\ n.i = do[c].i /\ n.cur = do[c].cur
        /\ n.val = (IF calls[id].mine /\ do[c].pc # "off" THEN v ELSE do[c].val)
        /\ n.done = (IF do[c].cur = id THEN outcome ELSE do[c].done)
    BY <1>1, <1>2 DEF DoType
  <1> HIDE DEF n
  <1>5. /\ do'[c] = n /\ (\A d \in Clients : d # c => do'[d] = do[d]) /\ do' \in [Clients -> DoType]
        /\ calls'[id] = r /\ (\A j \in CallId : j # id => calls'[j] = calls[j]) /\ calls' \in [CallId -> CallType]
    BY <1>1, <1>2, <1>3, <1>4
  <1>6. Types' /\ Owners'
    <2>1. Owners'
      BY <1>1, <1>5 DEF Inv, Owners
    <2> QED
      BY <1>5, <2>1 DEF Inv, Types
  <1>7. /\ do[c].cur = id => /\ do[c].pc = "wait" /\ do[c].done = "none" /\ calls[id].mine
                             /\ calls[id].req = CurrentRequest(op[c])
        /\ do[c].cur # id /\ calls[id].mine => do[c].pc \in {"top", "backoff", "err", "off"}
    BY <1>1, <1>2 DEF ClientInv, Owned
  <1>8. ~Running(id)'
    BY <1>5 DEF Running
  <1>9. ClientInv(c)'
    <2>1. Together(c)'
      BY <1>2, <1>4, <1>5, <1>7 DEF ClientInv, Together, DoShape
    <2>2. Counted(c)'
      BY <1>2, <1>4, <1>5 DEF ClientInv, Counted
    <2>3. Stored(c)'
      <3>1. Unstored(c)' \subseteq Unstored(c)
        BY <1>5 DEF Unstored, OnWire, Stores
      <3>2. Cardinality(Unstored(c)') <= Cardinality(Unstored(c))
        BY <3>1, UnstoredFinite, FS_Subset
      <3>3. Cardinality(Unstored(c)') \in Nat /\ Cardinality(Unstored(c)) \in Nat
        BY <3>1, UnstoredFinite, FS_Subset, FS_CardinalityType
      <3>4. log[c].stored \in Nat /\ log[c].sent \in Nat
        BY <1>1, SdkCallAssumption DEF Inv, Types, LogType
      <3>5. log[c].stored + Cardinality(Unstored(c)') <= log[c].sent
        BY <1>2, <3>2, <3>3, <3>4 DEF ClientInv, Stored
      <3>6. \A j \in CallId : calls'[j].stage = "applied" /\ Stores(j, c)' => log[c].stored > 0
        BY <1>2, <1>5 DEF ClientInv, Stored, Stores
      <3>7. op[c].phase = "record" /\ n.done = "ok" => log[c].stored > 0
        <4>1. CASE do[c].cur = id
          <5>1. op[c].phase = "record" => Stores(id, c)
            BY <1>1, <1>7, <4>1 DEF Stores, CurrentRequest
          <5> QED
            BY <1>2, <1>4, <4>1, <5>1 DEF ClientInv, Stored
        <4>2. CASE do[c].cur # id
          BY <1>2, <1>4, <4>2 DEF ClientInv, Stored
        <4> QED
          BY <4>1, <4>2
      <3> QED
        BY <1>2, <1>4, <1>5, <3>5, <3>6, <3>7 DEF ClientInv, Stored
    <2>4. Owned(c)'
      <3>1. \A j \in CallId : j # id => (Running(j)' <=> Running(j))
        BY <1>5 DEF Running
      <3> QED
        BY <1>2, <1>4, <1>5, <1>8, <3>1 DEF ClientInv, Owned, CurrentRequest
    <2>5. Truthful(c)'
      <3>1. op[c].phase = "enforce" /\ (n.pc = "ok" \/ n.done = "ok") => IsTrue(c, n.val)
        <4>1. CASE do[c].cur = id
          BY <1>1, <1>2, <1>4, <1>7, <4>1 DEF ClientInv, Truthful
        <4>2. CASE do[c].cur # id /\ calls[id].mine
          BY <1>2, <1>4, <1>7, <4>2 DEF ClientInv, Together, DoShape
        <4>3. CASE do[c].cur # id /\ ~calls[id].mine
          BY <1>2, <1>4, <4>3 DEF ClientInv, Truthful
        <4> QED
          BY <4>1, <4>2, <4>3
      <3>2. \A j \in CallId : calls'[j].owner = c /\ do'[c].cur = j /\ calls'[j].stage = "applied" => j # id
        BY <1>5
      <3> QED
        BY <1>2, <1>4, <1>5, <3>1, <3>2 DEF ClientInv, Truthful, IsTrue
    <2> QED
      BY <2>1, <2>2, <2>3, <2>4, <2>5 DEF ClientInv
  <1>10. ASSUME NEW d \in Clients, d # c PROVE ClientInv(d)'
    <2>1. \A j \in CallId : \/ calls'[j] = calls[j]
                            \/ /\ calls[j].owner # d \/ calls[j].stage = "free"
                               /\ calls'[j].owner # d \/ calls'[j].stage = "free"
      BY <1>1, <1>5, <1>10
    <2> QED
      BY <1>5, <1>10, <2>1, OtherClient
  <1>11. Slots'
    BY <1>1, SlotsSame
  <1> QED
    BY <1>6, <1>9, <1>10, <1>11 DEF Inv

\* A request that nobody waits for is lost.
LEMMA LateLostStep ==
    ASSUME Inv, NEW id \in CallId, Lib(LateLost(id))
    PROVE  Inv'
  <1>1. /\ calls[id].stage = "late" /\ calls' = [calls EXCEPT ![id] = FreeCall]
        /\ UNCHANGED <<ctx, do, who, permitted, op, slots, log>>
    BY DEF Lib, LateLost
  <1>2. calls \in [CallId -> CallType]
    BY DEF Inv, Types
  <1>3. /\ calls'[id].stage = "free" /\ (\A j \in CallId : j # id => calls'[j] = calls[j])
        /\ calls' \in [CallId -> CallType]
    BY <1>1, <1>2, FreeCallFacts
  <1>4. Types' /\ Owners'
    BY <1>1, <1>3 DEF Inv, Types, Owners
  <1>5. ASSUME NEW c \in Clients PROVE ClientInv(c)'
    <2>1. ClientInv(c)
      BY DEF Inv
    <2>2. Together(c)' /\ Counted(c)'
      BY <1>1, <2>1 DEF ClientInv, Together, Counted
    <2>3. Stored(c)'
      <3>1. Unstored(c)' \subseteq Unstored(c)
        BY <1>1, <1>3 DEF Unstored, OnWire, Stores
      <3>2. Cardinality(Unstored(c)') <= Cardinality(Unstored(c))
        BY <3>1, UnstoredFinite, FS_Subset
      <3>3. Cardinality(Unstored(c)') \in Nat /\ Cardinality(Unstored(c)) \in Nat
        BY <3>1, UnstoredFinite, FS_Subset, FS_CardinalityType
      <3>4. log[c].stored \in Nat /\ log[c].sent \in Nat
        BY SdkCallAssumption DEF Inv, Types, LogType
      <3>5. log[c].stored + Cardinality(Unstored(c)') <= log[c].sent
        BY <2>1, <3>2, <3>3, <3>4 DEF ClientInv, Stored
      <3>6. \A j \in CallId : calls'[j].stage = "applied" /\ Stores(j, c)' => log[c].stored > 0
        BY <1>3, <2>1 DEF ClientInv, Stored, Stores
      <3> QED
        BY <1>1, <2>1, <3>5, <3>6 DEF ClientInv, Stored
    <2>4. Owned(c)'
      <3>1. \A j \in CallId : Running(j)' => j # id /\ Running(j)
        BY <1>1, <1>3 DEF Running
      <3> QED
        BY <1>1, <1>3, <2>1, <3>1 DEF ClientInv, Owned, CurrentRequest
    <2>5. Truthful(c)'
      <3>1. \A j \in CallId : calls'[j].stage = "applied" => calls'[j] = calls[j]
        BY <1>3
      <3> QED
        BY <1>1, <2>1, <3>1 DEF ClientInv, Truthful, IsTrue
    <2> QED
      BY <2>2, <2>3, <2>4, <2>5 DEF ClientInv
  <1>6. Slots'
    BY <1>1 DEF Inv, Slots, Asyncs
  <1> QED
    BY <1>4, <1>5, <1>6 DEF Inv

\* The steps of the SDK's goroutines.
LEMMA GoroutineStepInv ==
    ASSUME Inv, NEW id \in CallId, Lib(GoroutineStep(id))
    PROVE  Inv'
  <1>1. GoroutineStep(id) /\ UNCHANGED <<who, permitted, op, slots, log>>
    BY DEF Lib
  <1>2. calls \in [CallId -> CallType] /\ calls[id] \in CallType
    BY DEF Inv, Types
  <1>3. CASE SdkReturn(id)
    <2>1. /\ Running(id) /\ calls[id].stage = "applied" /\ ctx' = ctx
          /\ do' = Delivered(id, "ok", calls[id].resp) /\ calls' = [calls EXCEPT ![id] = FreeCall]
      BY <1>3 DEF SdkReturn, Running
    <2>2. calls[id].resp \in SUBSET Requests
      BY <1>2 DEF CallType
    <2> QED
      BY <1>1, <2>1, <2>2, FreeCallFacts, DeliverStep
  <1>4. CASE SdkFail(id)
    <2>1. /\ Running(id) /\ ctx' = ctx
          /\ do' = Delivered(id, "err", {}) /\ calls' = [calls EXCEPT ![id] = FreeCall]
      BY <1>4 DEF SdkFail
    <2>2. {} \in SUBSET Requests /\ "err" \in {"ok", "err"} /\ "err" # "ok"
      OBVIOUS
    <2> QED
      BY <1>1, <2>1, <2>2, FreeCallFacts, DeliverStep
  <1>5. CASE SdkTimeout(id)
    <2> DEFINE r == [calls[id] EXCEPT !.stage = "late"]
    <2>1. /\ r \in CallType /\ r.stage = "late" /\ r.owner = calls[id].owner /\ r.mine = calls[id].mine
          /\ r.req = calls[id].req
      BY <1>2 DEF CallType, Stage
    <2>2. /\ Running(id) /\ calls[id].stage = "sent" /\ ctx' = ctx
          /\ do' = Delivered(id, "err", {}) /\ calls' = [calls EXCEPT ![id] = r]
      BY <1>2, <1>5 DEF SdkTimeout, Running
    <2>3. {} \in SUBSET Requests /\ "err" \in {"ok", "err"} /\ "err" # "ok"
      OBVIOUS
    <2> HIDE DEF r
    <2> QED
      BY <1>1, <2>1, <2>2, <2>3, DeliverStep
  <1>6. CASE LateLost(id)
    BY <1>1, <1>6, LateLostStep DEF Lib
  <1> QED
    BY <1>1, <1>3, <1>4, <1>5, <1>6 DEF GoroutineStep

\* Casdoor processes a request, late or not.
LEMMA ServerApplyStep ==
    ASSUME Inv, NEW id \in CallId, ServerApply(id)
    PROVE  Inv'
  <1> DEFINE v == Answer(calls[id].req)
  <1> DEFINE r == IF calls[id].stage = "late" THEN FreeCall ELSE [calls[id] EXCEPT !.stage = "applied", !.resp = v]
  <1>1. /\ OnWire(id) /\ calls' = [calls EXCEPT ![id] = r] /\ UNCHANGED <<ctx, do, who, permitted, op, slots>>
        /\ log' = [d \in Clients |-> [log[d] EXCEPT !.stored = IF Stores(id, d) THEN @ + 1 ELSE @]]
    BY DEF ServerApply, ServerAnswer
  <1>2. /\ calls \in [CallId -> CallType] /\ calls[id] \in CallType /\ log \in [Clients -> LogType]
        /\ permitted \subseteq Requests
    BY DEF Inv, Types
  <1>3. PICK c \in Clients : c = calls[id].owner /\ calls[id].req \in CallRequest /\ ClientInv(c)
    BY <1>1 DEF Inv, Owners, OnWire
  <1>4. v \in SUBSET Requests
    BY <1>2 DEF Answer
  <1>5. /\ r \in CallType
        /\ \/ r.stage = "free"
           \/ /\ r.stage = "applied" /\ r.owner = c /\ r.mine = calls[id].mine /\ r.req = calls[id].req /\ r.resp = v
              /\ calls[id].stage = "sent"
    <2>1. CASE calls[id].stage = "late"
      BY <2>1, FreeCallFacts
    <2>2. CASE calls[id].stage # "late"
      <3> HIDE DEF v
      <3>1. calls[id].stage = "sent" /\ r = [calls[id] EXCEPT !.stage = "applied", !.resp = v]
        BY <1>1, <2>2 DEF OnWire
      <3> QED
        BY <1>2, <1>3, <1>4, <3>1 DEF CallType, Stage
    <2> QED
      BY <2>1, <2>2
  <1> HIDE DEF r, v
  <1>6. calls'[id] = r /\ (\A j \in CallId : j # id => calls'[j] = calls[j]) /\ calls' \in [CallId -> CallType]
    BY <1>1, <1>2, <1>5
  <1>7. \A d \in Clients : d # c => ~Stores(id, d)
    BY <1>3 DEF Stores
  <1> DEFINE k == IF Stores(id, c) THEN log[c].stored + 1 ELSE log[c].stored
  <1>8. /\ log' \in [Clients -> LogType] /\ (\A d \in Clients : d # c => log'[d] = log[d])
        /\ log'[c].stored = k /\ log'[c].sent = log[c].sent /\ log'[c].yes = log[c].yes /\ log'[c].no = log[c].no
    <2>1. \A d \in Clients : log[d] \in LogType
      BY <1>2
    <2>2. \A d \in Clients : log'[d] = [log[d] EXCEPT !.stored = IF Stores(id, d) THEN log[d].stored + 1 ELSE log[d].stored]
      BY <1>1, <2>1 DEF LogType
    <2>3. \A d \in Clients : d # c => log'[d] = log[d]
      BY <1>7, <2>1, <2>2 DEF LogType
    <2>4. log'[c] = [log[c] EXCEPT !.stored = k]
      BY <1>3, <2>2
    <2>5. k \in Nat
      BY <1>3, <2>1 DEF LogType
    <2> HIDE DEF k
    <2>6. log'[c] \in LogType /\ log'[c].stored = k /\ log'[c].sent = log[c].sent /\ log'[c].yes = log[c].yes /\ log'[c].no = log[c].no
      BY <1>3, <2>1, <2>4, <2>5 DEF LogType
    <2>7. log' \in [Clients -> LogType]
      BY <1>1, <2>1, <2>3, <2>6
    <2> QED
      BY <2>3, <2>6, <2>7
  <1>9. Types' /\ Owners'
    <2>1. Owners'
      BY <1>3, <1>5, <1>6 DEF Inv, Owners
    <2> QED
      BY <1>1, <1>6, <1>8, <2>1 DEF Inv, Types
  <1>10. ClientInv(c)'
    <2>1. Together(c)' /\ Counted(c)'
      BY <1>1, <1>3, <1>8 DEF ClientInv, Together, Counted
    <2>2. log[c].stored \in Nat /\ log[c].sent \in Nat /\ k \in Nat /\ k >= log[c].stored
      <3>1. log[c].stored \in Nat /\ log[c].sent \in Nat
        BY <1>2, <1>3, SdkCallAssumption DEF LogType
      <3> QED
        BY <3>1
    <2>3. Stored(c)'
      <3>1. \A j \in CallId : j # id => (OnWire(j)' <=> OnWire(j)) /\ (Stores(j, c)' <=> Stores(j, c))
        BY <1>6 DEF OnWire, Stores
      <3>2. ~OnWire(id)' /\ (calls'[id].stage = "applied" => (Stores(id, c)' <=> Stores(id, c)))
        BY <1>3, <1>5, <1>6 DEF OnWire, Stores
      <3>3. k + Cardinality(Unstored(c)') <= log[c].sent
        <4>1. CASE Stores(id, c)
          <5>1. Unstored(c)' = Unstored(c) \ {id} /\ id \in Unstored(c)
            BY <1>1, <3>1, <3>2, <4>1 DEF Unstored
          <5>2. Cardinality(Unstored(c)') = Cardinality(Unstored(c)) - 1 /\ Cardinality(Unstored(c)) \in Nat
            BY <5>1, UnstoredFinite, FS_RemoveElement
          <5>3. log[c].stored + Cardinality(Unstored(c)) <= log[c].sent
            BY <1>3 DEF ClientInv, Stored
          <5> QED
            BY <2>2, <4>1, <5>2, <5>3
        <4>2. CASE ~Stores(id, c)
          <5>1. Unstored(c)' = Unstored(c)
            BY <3>1, <3>2, <4>2 DEF Unstored
          <5> QED
            BY <1>3, <4>2, <5>1 DEF ClientInv, Stored
        <4> QED
          BY <4>1, <4>2
      <3>4. \A j \in CallId : calls'[j].stage = "applied" /\ Stores(j, c)' => k > 0
        <4>1. \A j \in CallId : j # id /\ calls'[j].stage = "applied" /\ Stores(j, c)' => log[c].stored > 0
          BY <1>3, <1>6, <3>1 DEF ClientInv, Stored
        <4> QED
          BY <2>2, <3>2, <4>1
      <3>5. log[c].stored > 0 => k > 0
        BY <2>2
      <3> QED
        BY <1>1, <1>3, <1>8, <3>3, <3>4, <3>5 DEF ClientInv, Stored
    <2>4. Owned(c)'
      <3>1. \A j \in CallId : Running(j)' =>
               /\ Running(j) /\ calls'[j].owner = calls[j].owner /\ calls'[j].mine = calls[j].mine
               /\ calls'[j].req = calls[j].req
        BY <1>3, <1>5, <1>6 DEF Running
      <3> QED
        BY <1>1, <1>3, <3>1 DEF ClientInv, Owned, CurrentRequest
    <2>5. Truthful(c)'
      <3>1. ASSUME op[c].phase = "enforce", do[c].cur = id, calls'[id].stage = "applied"
            PROVE  IsTrue(c, v)
        <4>1. Running(id) /\ calls[id].owner = c
          BY <1>3, <1>5, <1>6, <3>1 DEF Running
        <4>2. calls[id].req = CurrentRequest(op[c])
          BY <1>3, <3>1, <4>1 DEF ClientInv, Owned
        <4>3. v = {op[c].asked} \cap permitted
          BY <3>1, <4>2 DEF v, Answer, CurrentRequest
        <4>4. op[c].ret = "running" /\ op[c].asked # NoRequest
          BY <1>3, <3>1 DEF ClientInv, Together, OpShape
        <4> QED
          BY <1>3, <4>3, <4>4 DEF ClientInv, Truthful, IsTrue
      <3>2. ASSUME op[c].phase = "enforce", NEW j \in CallId, calls'[j].owner = c, do[c].cur = j, calls'[j].stage = "applied"
            PROVE  IsTrue(c, calls'[j].resp)
        <4>1. CASE j = id
          BY <1>5, <1>6, <3>1, <3>2, <4>1
        <4>2. CASE j # id
          BY <1>3, <1>6, <3>2, <4>2 DEF ClientInv, Truthful
        <4> QED
          BY <4>1, <4>2
      <3> QED
        BY <1>1, <1>3, <1>8, <3>2 DEF ClientInv, Truthful, IsTrue
    <2> QED
      BY <2>1, <2>3, <2>4, <2>5 DEF ClientInv
  <1>11. ASSUME NEW d \in Clients, d # c PROVE ClientInv(d)'
    <2>1. \A j \in CallId : \/ calls'[j] = calls[j]
                            \/ /\ calls[j].owner # d \/ calls[j].stage = "free"
                               /\ calls'[j].owner # d \/ calls'[j].stage = "free"
      BY <1>3, <1>5, <1>6, <1>11
    <2> QED
      BY <1>1, <1>8, <1>11, <2>1, OtherClient
  <1>12. Slots'
    BY <1>1, <1>3, SlotsSame
  <1> QED
    BY <1>9, <1>10, <1>11, <1>12 DEF Inv

\* An administrator changes the policies; what is true of a request changes with them.
LEMMA PolicyChangeStep ==
    ASSUME Inv, NEW r \in Requests, PolicyChange(r)
    PROVE  Inv'
  <1>1. /\ permitted' = (IF r \in permitted THEN permitted \ {r} ELSE permitted \cup {r})
        /\ log' = [c \in Clients |-> IF op[c].ret # "running" THEN log[c]
                                     ELSE [log[c] EXCEPT !.yes = @ \cup (Scope(op[c]) \cap permitted'),
                                                         !.no = @ \cup (Scope(op[c]) \ permitted')]]
        /\ UNCHANGED <<ctx, do, calls, who, op, slots>>
    BY DEF PolicyChange
  <1>2. op \in [Clients -> OpType] /\ log \in [Clients -> LogType] /\ permitted' \subseteq Requests
    BY <1>1 DEF Inv, Types
  <1>3. ASSUME NEW c \in Clients
        PROVE  /\ log'[c] \in LogType /\ log'[c].sent = log[c].sent /\ log'[c].stored = log[c].stored
               /\ log[c].yes \subseteq log'[c].yes /\ log[c].no \subseteq log'[c].no
               /\ op[c].ret = "running" /\ op[c].asked # NoRequest
                     => op[c].asked \in IF op[c].asked \in permitted' THEN log'[c].yes ELSE log'[c].no
    <2>1. log[c] \in LogType /\ Scope(op[c]) \subseteq Request /\ (op[c].asked # NoRequest => op[c].asked \in Scope(op[c]))
      BY <1>2, ScopeType
    <2>2. CASE op[c].ret # "running"
      <3>1. log'[c] = log[c]
        BY <1>1, <2>2
      <3> QED
        BY <2>1, <2>2, <3>1
    <2>3. CASE op[c].ret = "running"
      <3> DEFINE yes == log[c].yes \cup (Scope(op[c]) \cap permitted')
      <3> DEFINE no == log[c].no \cup (Scope(op[c]) \ permitted')
      <3>1. log'[c] = [log[c] EXCEPT !.yes = yes, !.no = no]
        BY <1>1, <2>1, <2>3 DEF LogType
      <3>2. yes \in SUBSET Request /\ no \in SUBSET Request /\ log[c].yes \subseteq yes /\ log[c].no \subseteq no
        BY <2>1 DEF LogType
      <3>3. op[c].asked # NoRequest => op[c].asked \in IF op[c].asked \in permitted' THEN yes ELSE no
        BY <2>1
      <3> HIDE DEF yes, no
      <3>4. /\ log'[c] \in LogType /\ log'[c].yes = yes /\ log'[c].no = no
            /\ log'[c].sent = log[c].sent /\ log'[c].stored = log[c].stored
        BY <2>1, <3>1, <3>2 DEF LogType
      <3> QED
        BY <3>2, <3>3, <3>4
    <2> QED
      BY <2>2, <2>3
  <1>4. Types' /\ Owners'
    <2>1. log' \in [Clients -> LogType]
      BY <1>1, <1>3
    <2> QED
      BY <1>1, <1>2, <2>1 DEF Inv, Types, Owners
  <1>5. ASSUME NEW c \in Clients PROVE ClientInv(c)'
    <2>1. ClientInv(c)
      BY DEF Inv
    <2>2. Together(c)' /\ Counted(c)'
      BY <1>1, <1>3, <2>1 DEF ClientInv, Together, Counted
    <2>3. Unstored(c)' = Unstored(c) /\ \A id \in CallId : (Stores(id, c)' <=> Stores(id, c)) /\ (Running(id)' <=> Running(id))
      BY <1>1 DEF Unstored, OnWire, Stores, Running
    <2>4. Stored(c)'
      BY <1>1, <1>3, <2>1, <2>3 DEF ClientInv, Stored
    <2>5. Owned(c)'
      BY <1>1, <2>1, <2>3 DEF ClientInv, Owned, CurrentRequest
    <2>6. Truthful(c)'
      <3>1. ASSUME NEW v PROVE IsTrue(c, v) => IsTrue(c, v)'
        BY <1>1, <1>3 DEF IsTrue
      <3> QED
        BY <1>1, <1>3, <2>1 DEF ClientInv, Truthful, IsTrue
    <2> QED
      BY <2>2, <2>4, <2>5, <2>6 DEF ClientInv
  <1>6. Slots'
    BY <1>1 DEF Inv, Slots, Asyncs
  <1> QED
    BY <1>4, <1>5, <1>6 DEF Inv

-----------------------------------------------------------------------------
(* The theorems *)

\* The invariant holds before the first call.
LEMMA InvInit == Init => Inv
  <1> SUFFICES ASSUME Init PROVE Inv
    OBVIOUS
  <1>1. /\ ctx = [c \in Clients |-> "live"] /\ do = [c \in Clients |-> DoOff] /\ calls = [id \in CallId |-> FreeCall]
        /\ who = [c \in Clients |-> NoPrincipal] /\ permitted = InitPermitted /\ op = [c \in Clients |-> NoOp] /\ slots = 0
        /\ log = [c \in Clients |-> [yes |-> {}, no |-> {}, sent |-> 0, stored |-> 0]]
    BY DEF Init
  <1>2. /\ NoOp \in OpType /\ NoOp.kind = "none" /\ NoOp.phase = "none" /\ NoOp.ret = "done" /\ NoOp.decision = "none"
        /\ NoOp.saved = "none" /\ NoOp.slot = FALSE /\ NoOp.asked = NoRequest
    BY DEF NoOp, NewOp, OpType, Phase
  <1>3. [yes |-> {}, no |-> {}, sent |-> 0, stored |-> 0] \in LogType
    BY SdkCallAssumption DEF LogType
  <1>4. NoPrincipal \in Principal
    BY DEF NoPrincipal, Principal
  <1>5. DoOff.cur = NoCall /\ DoOff.done = "none"
    BY DEF DoOff
  <1> HIDE DEF NoOp, NoPrincipal
  <1>6. Types
    BY <1>1, <1>2, <1>3, <1>4, DoConstants, FreeCallFacts, AccessAssumption DEF Types, CtxState
  <1>7. Owners
    BY <1>1, FreeCallFacts DEF Owners
  <1>8. Slots
    <2>1. Asyncs = {}
      BY <1>1, <1>2 DEF Asyncs
    <2> QED
      BY <1>1, <2>1, FS_EmptySet, AccessAssumption DEF Slots
  <1>9. ASSUME NEW c \in Clients PROVE ClientInv(c)
    <2>1. Together(c)
      BY <1>1, <1>2, DoConstants DEF Together, OpShape
    <2>2. Counted(c)
      BY <1>1, <1>2 DEF Counted
    <2>3. Unstored(c) = {} /\ \A id \in CallId : calls[id].stage = "free"
      BY <1>1, FreeCallFacts DEF Unstored, OnWire
    <2>4. Cardinality(Unstored(c)) = 0
      BY <2>3, FS_EmptySet
    <2>5. Stored(c)
      BY <1>1, <1>2, <2>3, <2>4 DEF Stored
    <2>6. Owned(c)
      BY <2>3 DEF Owned, Running
    <2>7. Truthful(c)
      BY <1>1, <1>2 DEF Truthful
    <2> QED
      BY <2>1, <2>2, <2>5, <2>6, <2>7 DEF ClientInv
  <1> QED
    BY <1>6, <1>7, <1>8, <1>9 DEF Inv

\* Every step, and every stuttering step, preserves the invariant.
LEMMA InvStep == Inv /\ [Next]_vars => Inv'
  <1> SUFFICES ASSUME Inv, [Next]_vars PROVE Inv'
    OBVIOUS
  <1>1. ASSUME NEW c \in Clients, Invoke(c) PROVE Inv'
    BY <1>1, GuardStepInv, RecordStep, RecordAsyncStep DEF Invoke
  <1>2. ASSUME NEW c \in Clients, GuardStep(c) PROVE Inv'
    BY <1>2, SdkCallStartStep, AuthorizeReturns, RecordedStep DEF GuardStep
  <1>3. ASSUME NEW c \in Clients, Lib(CallerStep(c)) \/ Lib(Cancel(c)) PROVE Inv'
    BY <1>3, CallerStepInv, CancelStep
  <1>4. ASSUME NEW id \in CallId, Lib(GoroutineStep(id)) \/ ServerApply(id) PROVE Inv'
    BY <1>4, GoroutineStepInv, ServerApplyStep
  <1>5. ASSUME NEW r \in Requests, PolicyChange(r) PROVE Inv'
    BY <1>5, PolicyChangeStep
  <1>6. CASE UNCHANGED vars
    <2>1. UNCHANGED <<ctx, do, calls, who, permitted, op, slots, log>>
      BY <1>6 DEF vars
    <2>2. \A d \in Clients : ClientInv(d)'
      BY <2>1, OtherClient
    <2> QED
      BY <2>1, <2>2 DEF Inv, Types, Owners, Slots, Asyncs
  <1> QED
    BY <1>1, <1>2, <1>3, <1>4, <1>5, <1>6 DEF Next

(***************************************************************************)
(* For any number of clients, attempts, tokens, checks, slots and calls    *)
(* under way: the invariant holds in every reachable state.                *)
(***************************************************************************)
THEOREM Invariance == Spec => []Inv
  BY InvInit, InvStep, PTL DEF Spec

\* Operations, retry.Do and SDK calls are well typed; the guard asks for resource and
\* action of a check, and retry.Do and RecordAsync stay within their limits.
THEOREM TypeCorrectness == Spec => []TypeOK
  <1>1. Inv => TypeOK
    <2> SUFFICES ASSUME Inv PROVE TypeOK
      OBVIOUS
    <2>1. slots \in 0..AsyncLimit
      <3>1. Cardinality(Asyncs) \in Nat
        BY FS_CardinalityType DEF Inv, Slots
      <3> QED
        BY <3>1, AccessAssumption DEF Inv, Slots
    <2>2. ASSUME NEW c \in Clients
          PROVE  /\ do[c].pc \in DoPC /\ do[c].i \in 0..(Attempts - 1) /\ do[c].cur \in CallId \cup {NoCall}
                 /\ who[c] \in Principal
                 /\ op[c].kind \in {"none", "can", "require", "audited", "record", "async", "unlimited"}
                 /\ op[c].phase \in Phase /\ op[c].ret \in {"running", "done"}
                 /\ op[c].asked \in Request \cup {NoRequest}
                 /\ op[c].decision \in {"none", "allow", "deny", "err"} /\ op[c].saved \in {"none", "ok", "err"}
                 /\ log[c].sent \in 0..Attempts
      <3>1. do[c] \in DoType /\ op[c] \in OpType /\ log[c] \in LogType /\ who[c] \in Principal
        BY DEF Inv, Types
      <3> QED
        BY <3>1 DEF DoType, OpType, LogType
    <2>3. \A id \in CallId : calls[id].stage \in Stage /\ calls[id].owner \in Clients \cup {NoClient}
      BY DEF Inv, Types, CallType
    <2>4. ctx \in [Clients -> CtxState] /\ permitted \subseteq Requests
      BY DEF Inv, Types
    <2> QED
      BY <2>1, <2>2, <2>3, <2>4 DEF TypeOK
  <1> QED
    BY <1>1, Invariance, PTL

\* Can, Require and RequireAndAudit let pass only what has an identity and was permitted
\* for it during the call, whatever was retried, abandoned, late or changed meanwhile.
THEOREM GuardSafety == Spec => []GuardIsSound
  <1>1. Inv => GuardIsSound
    <2> SUFFICES ASSUME Inv PROVE GuardIsSound
      OBVIOUS
    <2>1. \A c \in Clients : Truthful(c) /\ OpShape(op[c])
      BY DEF Inv, ClientInv, Together
    <2>2. DecisionIsCurrent
      BY <2>1 DEF DecisionIsCurrent, Truthful
    <2>3. AllowedIsAuthenticated
      BY <2>1 DEF AllowedIsAuthenticated, Truthful, OpShape, Known
    <2> QED
      BY <2>2, <2>3 DEF GuardIsSound
  <1> QED
    BY <1>1, Invariance, PTL

\* RequireAndAudit records its result, and what Adapter.Record acknowledged is stored, at
\* most once for each attempt.
THEOREM AuditSafety == Spec => []AuditTrail
  <1>1. Inv => AuditTrail
    <2> SUFFICES ASSUME Inv PROVE AuditTrail
      OBVIOUS
    <2>1. ASSUME NEW c \in Clients
          PROVE  (op[c].saved = "ok" => log[c].stored > 0) /\ log[c].stored <= Attempts
      <3>1. Stored(c) /\ log[c] \in LogType
        BY DEF Inv, ClientInv, Types
      <3>2. log[c].stored \in Nat /\ log[c].sent \in 0..Attempts /\ Cardinality(Unstored(c)) \in Nat /\ Attempts \in Nat
        BY <3>1, UnstoredFinite, SdkCallAssumption DEF LogType
      <3>3. log[c].stored + Cardinality(Unstored(c)) <= log[c].sent /\ (op[c].saved = "ok" => log[c].stored > 0)
        BY <3>1 DEF Stored
      <3> QED
        BY <3>2, <3>3
    <2>2. ResultIsRecorded
      BY DEF Inv, ClientInv, Counted, ResultIsRecorded
    <2> QED
      BY <2>1, <2>2 DEF AuditTrail, AuditIsStored
  <1> QED
    BY <1>1, Invariance, PTL

\* The channel of RecordAsync holds one slot for each RecordAsync that is running.
THEOREM SlotSafety == Spec => []SlotsAreHeld
  <1>1. Inv => SlotsAreHeld
    BY DEF Inv, Slots, Asyncs, SlotsAreHeld
  <1> QED
    BY <1>1, Invariance, PTL
=============================================================================
