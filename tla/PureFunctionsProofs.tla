------------------------- MODULE PureFunctionsProofs -------------------------
(***************************************************************************)
(* Theorems about the functions that keep no state: for every argument of  *)
(* the types that PureFunctions assumes, not only the few that TLC tries.  *)
(***************************************************************************)
EXTENDS PureFunctions, FiniteSetTheorems, SequenceTheorems, WellFoundedInduction, TLAPS

\* Spec leaves the question alone: only the mapper changes.
Asked ==
    /\ kind = "grant" => call \in Grants
    /\ kind = "load" => call \in Loads
    /\ kind = "login" => call \in Logins
    /\ kind = "answer" => call \in Answers
    /\ kind = "page" => call \in Pages
    /\ kind = "sort" => call \in Sorts
    /\ kind = "dsn" => call \in Dsns
    /\ kind = "audit" => call \in Audits
    /\ kind = "merge" => call \in Merges
    /\ kind = "read" => call \in Reads
    /\ kind = "list" => call \in Lists
    /\ kind = "column" => call \in Columns
    /\ kind = "cert" => call \in Texts

LEMMA QuestionStays == Spec => []Asked
<1>1. Init => Asked
  BY DEF Init, Ask, Asked
<1>2. Asked /\ [Next]_<<fn, kind, call>> => Asked'
  BY DEF Asked, Next, SetRoleActionMapper
<1> QED
  BY <1>1, <1>2, PTL DEF Spec

-----------------------------------------------------------------------------
(* Chains of checks *)

LEMMA MinIs ==
    ASSUME NEW S, S \subseteq Int, NEW m \in S, \A i \in S : m <= i
    PROVE  Min(S) = m
<1>1. Min(S) \in S /\ \A i \in S : Min(S) <= i
  BY DEF Min
<1>2. Min(S) \in Int /\ m \in Int /\ m <= Min(S) /\ Min(S) <= m
  BY <1>1
<1> HIDE DEF Min
<1> QED
  BY <1>2

LEMMA MinExists ==
    ASSUME NEW S, S \subseteq Nat, S # {}
    PROVE  Min(S) \in S /\ \A i \in S : Min(S) <= i
<1> DEFINE R == OpToRel(<, Nat)
<1>1. R = {p \in Nat \X Nat : p[1] < p[2]}
  BY Zenon DEF OpToRel
<1>2. IsWellFoundedOn(R, Nat)
  BY NatLessThanWellFounded
<1> HIDE DEF R
<1>3. PICK m \in S : \A i \in S : ~(<<i, m>> \in R)
  BY <1>2, WFMin
<1>4. ASSUME NEW i \in S
      PROVE  m <= i
  <2>1. i \in Nat /\ m \in Nat /\ ~(<<i, m>> \in {p \in Nat \X Nat : p[1] < p[2]})
    BY <1>1, <1>3
  <2>2. ~(i < m)
    BY <2>1
  <2> QED
    BY <2>1, <2>2
<1>5. S \subseteq Int
  OBVIOUS
<1>6. Min(S) = m
  BY <1>4, <1>5, MinIs
<1> QED
  BY <1>4, <1>6

\* A chain of checks passes exactly when no condition holds.
LEMMA NoError ==
    ASSUME NEW checks, DOMAIN checks \subseteq Nat, \A i \in DOMAIN checks : checks[i][2] # ""
    PROVE  FirstError(checks) = "" <=> \A i \in DOMAIN checks : ~checks[i][1]
<1> DEFINE bad == {i \in DOMAIN checks : checks[i][1]}
<1>1. FirstError(checks) = IF bad = {} THEN "" ELSE checks[Min(bad)][2]
  BY DEF FirstError
<1>2. ASSUME bad # {}
      PROVE  Min(bad) \in DOMAIN checks
  BY <1>2, MinExists
<1>3. bad = {} <=> \A i \in DOMAIN checks : ~checks[i][1]
  OBVIOUS
<1> HIDE DEF bad
<1> QED
  BY <1>1, <1>2, <1>3

LEMMA FourTuple ==
    ASSUME NEW p1, NEW p2, NEW p3, NEW p4
    PROVE  DOMAIN <<p1, p2, p3, p4>> = 1..4
OBVIOUS

LEMMA FourNumbers == 1..4 = {1, 2, 3, 4} /\ 1..4 \subseteq Nat
OBVIOUS

LEMMA FourChecks ==
    ASSUME NEW p1, NEW p2, NEW p3, NEW p4,
           p1[2] # "", p2[2] # "", p3[2] # "", p4[2] # ""
    PROVE  FirstError(<<p1, p2, p3, p4>>) = "" <=> ~p1[1] /\ ~p2[1] /\ ~p3[1] /\ ~p4[1]
<1> DEFINE c == <<p1, p2, p3, p4>>
<1>1. DOMAIN c = 1..4
  BY FourTuple, Zenon
<1>2. c[1] = p1 /\ c[2] = p2 /\ c[3] = p3 /\ c[4] = p4
  OBVIOUS
<1> HIDE DEF c
<1>3. DOMAIN c \subseteq Nat /\ DOMAIN c = {1, 2, 3, 4}
  BY <1>1, FourNumbers, Zenon
<1>4. \A i \in DOMAIN c : c[i][2] # ""
  BY <1>2, <1>3, Zenon
<1>5. FirstError(c) = "" <=> \A i \in DOMAIN c : ~c[i][1]
  BY <1>3, <1>4, NoError, Zenon
<1> QED
  BY <1>2, <1>3, <1>5, Zenon DEF c

LEMMA FiveTuple ==
    ASSUME NEW p1, NEW p2, NEW p3, NEW p4, NEW p5
    PROVE  DOMAIN <<p1, p2, p3, p4, p5>> = 1..5
OBVIOUS

LEMMA FiveNumbers == 1..5 = {1, 2, 3, 4, 5} /\ 1..5 \subseteq Nat
OBVIOUS

LEMMA FiveChecks ==
    ASSUME NEW p1, NEW p2, NEW p3, NEW p4, NEW p5,
           p1[2] # "", p2[2] # "", p3[2] # "", p4[2] # "", p5[2] # ""
    PROVE  FirstError(<<p1, p2, p3, p4, p5>>) = "" <=> ~p1[1] /\ ~p2[1] /\ ~p3[1] /\ ~p4[1] /\ ~p5[1]
<1> DEFINE c == <<p1, p2, p3, p4, p5>>
<1>1. DOMAIN c = 1..5
  BY FiveTuple, Zenon
<1>2. c[1] = p1 /\ c[2] = p2 /\ c[3] = p3 /\ c[4] = p4 /\ c[5] = p5
  OBVIOUS
<1> HIDE DEF c
<1>3. DOMAIN c \subseteq Nat /\ DOMAIN c = {1, 2, 3, 4, 5}
  BY <1>1, FiveNumbers, Zenon
<1>4. \A i \in DOMAIN c : c[i][2] # ""
  BY <1>2, <1>3, Zenon
<1>5. FirstError(c) = "" <=> \A i \in DOMAIN c : ~c[i][1]
  BY <1>3, <1>4, NoError, Zenon
<1> QED
  BY <1>2, <1>3, <1>5, Zenon DEF c

LEMMA PairParts ==
    ASSUME NEW a, NEW m
    PROVE  <<a, m>>[1] = a /\ <<a, m>>[2] = m
OBVIOUS

-----------------------------------------------------------------------------
(* Pages *)

LEMMA NormalizedPage ==
    ASSUME NEW page \in Int, NEW size \in Int
    PROVE  LET r == NormalizePage([page |-> page, size |-> size])
           IN  /\ r.page \in Nat \ {0} /\ r.size \in 1..MaxSize
               /\ page >= 1 => r.page = page
               /\ page < 1 => r.page = 1
BY PagingAssumption DEF NormalizePage

\* As long as a product fits an int, nothing wraps around.
LEMMA NoWrap ==
    ASSUME NEW n \in 0..MaxInt
    PROVE  Wrap(n) = n
BY PagingAssumption DEF MaxInt, Wrap

LEMMA PageOfRow ==
    ASSUME NEW i \in Nat \ {0}, NEW size \in Nat \ {0}, NEW page \in Nat \ {0}
    PROVE  page = (i + size - 1) \div size <=> (page - 1) * size < i /\ i <= (page - 1) * size + size
<1> DEFINE a == i + size - 1
           q == a \div size
           r == a % size
<1>1. /\ a = q * size + r /\ r \in 0..(size - 1) /\ q \in Nat
  BY SMT
<1>2. q < page => q * size + size <= page * size
  BY <1>1, SMT
<1> QED
  BY <1>1, <1>2, SMT

LEMMA RowsAreRight == Asked => RowOnItsPage
<1> SUFFICES ASSUME Asked, kind = "page", NEW page \in -1..MaxInt
             PROVE  LET r == Paginate(call.rows, call.rows, [page |-> page, size |-> call.size])
                    IN  /\ r.size \in 1..MaxSize
                        /\ (r.page - 1) * r.size <= MaxInt =>
                              r.items = {i \in 1..call.rows : r.page = (i + r.size - 1) \div r.size}
  BY DEF RowOnItsPage
<1> DEFINE n == NormalizePage([page |-> page, size |-> call.size])
           r == Paginate(call.rows, call.rows, [page |-> page, size |-> call.size])
           o == (n.page - 1) * n.size
<1>1. call.rows \in Nat /\ call.size \in Int /\ page \in Int /\ MaxInt \in Nat
  BY PageAssumption, PagingAssumption DEF Asked, MaxInt
<1>2. n.page \in 1..MaxInt /\ n.size \in 1..MaxSize /\ n.size \in Nat \ {0}
  BY <1>1, NormalizedPage, PagingAssumption DEF MaxInt
<1>3. r.page = n.page /\ r.size = n.size /\ r.items = Find(call.rows, Offset(n), n.size)
  BY DEF Paginate
<1>4. ASSUME o <= MaxInt
      PROVE  r.items = {i \in 1..call.rows : n.page = (i + n.size - 1) \div n.size}
  <2>1. o \in 0..MaxInt /\ n.page - 1 \in 0..MaxInt
    BY <1>1, <1>2, <1>4
  <2>2. Offset(n) = o
    BY <2>1, NoWrap DEF Offset
  <2>3. ASSUME NEW i \in 1..call.rows
        PROVE  n.page = (i + n.size - 1) \div n.size <=> o < i /\ i <= o + n.size
    <3>1. i \in Nat \ {0} /\ n.page \in Nat \ {0}
      BY <1>1, <1>2
    <3> HIDE DEF n
    <3> QED
      BY <1>2, <3>1, PageOfRow
  <2>4. Find(call.rows, o, n.size) = {i \in 1..call.rows : o < i /\ i <= o + n.size}
    BY <2>1 DEF Find
  <2> QED
    BY <1>3, <2>2, <2>3, <2>4
<1> QED
  BY <1>2, <1>3, <1>4

LEMMA SortsAreRight == SortIsAllowed
<1> SUFFICES ASSUME DOMAIN call.allowed # {}, ApplySort(call, call.allowed) # <<>>
             PROVE  LET o == ApplySort(call, call.allowed)
                    IN  /\ o[1] \in Range(call.allowed)
                        /\ (o[2] = "desc") = (call.sortOrder \in {"desc", "DESC"})
  BY DEF SortIsAllowed
<1>1. /\ call.sortBy \in DOMAIN call.allowed
      /\ ApplySort(call, call.allowed) = <<call.allowed[call.sortBy], Direction(call)>>
  BY DEF ApplySort
<1>2. call.allowed[call.sortBy] \in Range(call.allowed)
  BY <1>1 DEF Range
<1>3. Direction(call) = "desc" <=> call.sortOrder \in {"desc", "DESC"}
  BY DEF Direction
<1> QED
  BY <1>1, <1>2, <1>3

(***************************************************************************)
(* Paginate and PaginateSafe return the rows of the page that was asked    *)
(* for, in an allowed order, for every size of int, default and maximal    *)
(* page size.                                                              *)
(***************************************************************************)
THEOREM PageSafety == Spec => []PagesAreRight
<1>1. Asked => PagesAreRight
  BY RowsAreRight, SortsAreRight DEF PagesAreRight
<1> QED
  BY <1>1, QuestionStays, PTL

-----------------------------------------------------------------------------
(* Audit events *)

\* The fields of the event n that Normalize makes of e.
NormalFields(n, p, e, err) ==
    /\ DOMAIN n = DOMAIN e
    /\ n.startedAt = OrElse(e.startedAt, 0, Now) /\ n.finishedAt = OrElse(e.finishedAt, 0, Now)
    /\ n.duration = n.finishedAt - n.startedAt
    /\ n.actor = IF p # Nobody THEN p ELSE e.actor
    /\ n.result = firstNonEmpty(e.result, IF err # "" THEN "failed" ELSE "success")
    /\ n.statusCode = OrElse(e.statusCode, 0, IF err # "" THEN 500 ELSE 200)
    /\ n.message = firstNonEmpty(e.message, err)
    /\ n.orgID = firstNonEmpty(e.orgID, p.org) /\ n.projectID = firstNonEmpty(e.projectID, p.project)
    /\ n.name = OrElse(e.name, <<>>, <<firstNonEmpty(e.action, e.operation), e.resource>>)
    /\ \A f \in {"action", "operation", "resource", "uri", "component"} : n[f] = e[f]

LEMMA NormalizedEvent ==
    ASSUME NEW p, NEW e, IsEvent(e), NEW err
    PROVE  NormalFields(Normalize(p, e, err), p, e, err)
<1> DEFINE s == OrElse(e.startedAt, 0, Now)
           u == OrElse(e.finishedAt, 0, Now)
           t == [e EXCEPT !.startedAt = s, !.finishedAt = u]
           n == Normalize(p, e, err)
<1>1. /\ t.startedAt = s /\ t.finishedAt = u /\ DOMAIN t = DOMAIN e
      /\ \A f \in DOMAIN e \ {"startedAt", "finishedAt"} : t[f] = e[f]
  BY DEF IsEvent, ZeroEvent
<1>2. DOMAIN e = DOMAIN ZeroEvent
  BY DEF IsEvent, ZeroEvent
<1>3. /\ t.actor = e.actor /\ t.result = e.result /\ t.statusCode = e.statusCode /\ t.message = e.message
      /\ t.orgID = e.orgID /\ t.projectID = e.projectID
  BY <1>1, <1>2 DEF ZeroEvent
<1>4. /\ t.name = e.name /\ t.action = e.action /\ t.operation = e.operation /\ t.resource = e.resource
       /\ \A f \in {"action", "operation", "resource", "uri", "component"} : t[f] = e[f]
  BY <1>1, <1>2 DEF ZeroEvent
<1>5. n = [t EXCEPT !.duration = t.finishedAt - t.startedAt,
                    !.result = firstNonEmpty(@, IF err # "" THEN "failed" ELSE "success"),
                    !.statusCode = OrElse(@, 0, IF err # "" THEN 500 ELSE 200),
                    !.message = firstNonEmpty(@, err),
                    !.actor = IF p # Nobody THEN p ELSE @,
                    !.orgID = firstNonEmpty(@, p.org),
                    !.projectID = firstNonEmpty(@, p.project),
                    !.name = OrElse(@, <<>>, <<firstNonEmpty(t.action, t.operation), t.resource>>)]
  BY DEF Normalize
<1> HIDE DEF s, u, t, n
<1>6. /\ n.startedAt = t.startedAt /\ n.finishedAt = t.finishedAt /\ n.duration = t.finishedAt - t.startedAt
      /\ n.actor = IF p # Nobody THEN p ELSE t.actor
      /\ n.result = firstNonEmpty(t.result, IF err # "" THEN "failed" ELSE "success")
      /\ n.statusCode = OrElse(t.statusCode, 0, IF err # "" THEN 500 ELSE 200)
      /\ n.message = firstNonEmpty(t.message, err)
      /\ n.orgID = firstNonEmpty(t.orgID, p.org) /\ n.projectID = firstNonEmpty(t.projectID, p.project)
  BY <1>1, <1>2, <1>5 DEF ZeroEvent
<1>7. n.name = OrElse(t.name, <<>>, <<firstNonEmpty(t.action, t.operation), t.resource>>)
  BY <1>1, <1>2, <1>5 DEF ZeroEvent
<1>8. DOMAIN n = DOMAIN e /\ \A f \in {"action", "operation", "resource", "uri", "component"} : n[f] = t[f]
  BY <1>1, <1>2, <1>5 DEF ZeroEvent
<1>9. /\ n.startedAt = s /\ n.finishedAt = u /\ n.duration = n.finishedAt - n.startedAt
  BY <1>1, <1>6
<1>10. /\ n.actor = IF p # Nobody THEN p ELSE e.actor
      /\ n.result = firstNonEmpty(e.result, IF err # "" THEN "failed" ELSE "success")
      /\ n.statusCode = OrElse(e.statusCode, 0, IF err # "" THEN 500 ELSE 200)
      /\ n.message = firstNonEmpty(e.message, err)
  BY <1>3, <1>6 DEF firstNonEmpty, OrElse
<1>11. n.orgID = firstNonEmpty(e.orgID, p.org) /\ n.projectID = firstNonEmpty(e.projectID, p.project)
  BY <1>3, <1>6
<1>12. n.name = OrElse(e.name, <<>>, <<firstNonEmpty(e.action, e.operation), e.resource>>)
  BY <1>4, <1>7
<1>13. \A f \in {"action", "operation", "resource", "uri", "component"} : n[f] = e[f]
  BY <1>4, <1>8
<1> QED
  BY <1>8, <1>9, <1>10, <1>12, <1>13, <1>11 DEF s, u, n, NormalFields

\* What was filled in before Normalize stays, apart from actor and duration.
LEMMA NormalizeKeeps ==
    ASSUME NEW p, NEW e, IsEvent(e), NEW err,
           NEW f \in DOMAIN ZeroEvent \ {"actor", "duration"}, e[f] # ZeroEvent[f]
    PROVE  Normalize(p, e, err)[f] = e[f]
<1> DEFINE n == Normalize(p, e, err)
<1>1. NormalFields(n, p, e, err)
  BY NormalizedEvent
<1> HIDE DEF n
<1>2. ZeroEvent.startedAt = 0 /\ ZeroEvent.finishedAt = 0 /\ ZeroEvent.statusCode = 0
  BY DEF ZeroEvent
<1>3. ZeroEvent.result = "" /\ ZeroEvent.message = "" /\ ZeroEvent.orgID = "" /\ ZeroEvent.projectID = ""
  BY DEF ZeroEvent
<1>4. ZeroEvent.name = <<>>
  BY DEF ZeroEvent
<1>5. n[f] = e[f]
  <2>1. CASE f = "startedAt"
    BY <1>1, <1>2, <2>1 DEF OrElse, NormalFields
  <2>2. CASE f = "finishedAt"
    BY <1>1, <1>2, <2>2 DEF OrElse, NormalFields
  <2>3. CASE f = "statusCode"
    BY <1>1, <1>2, <2>3 DEF OrElse, NormalFields
  <2>4. CASE f = "result"
    BY <1>1, <1>3, <2>4 DEF firstNonEmpty, NormalFields
  <2>5. CASE f = "message"
    BY <1>1, <1>3, <2>5 DEF firstNonEmpty, NormalFields
  <2>6. CASE f = "orgID"
    BY <1>1, <1>3, <2>6 DEF firstNonEmpty, NormalFields
  <2>7. CASE f = "projectID"
    BY <1>1, <1>3, <2>7 DEF firstNonEmpty, NormalFields
  <2>8. CASE f = "name"
    BY <1>1, <1>4, <2>8 DEF OrElse, NormalFields
  <2>9. CASE f \in {"action", "operation", "resource", "uri", "component"}
    BY <1>1, <2>9 DEF NormalFields
  <2> QED
    BY <2>1, <2>2, <2>3, <2>4, <2>5, <2>6, <2>7, <2>8, <2>9 DEF ZeroEvent
<1> QED
  BY <1>5 DEF n

LEMMA MergedEvent ==
    ASSUME NEW base, IsEvent(base), NEW override
    PROVE  IsEvent(Merge(base, override))
BY DEF Merge, IsEvent

LEMMA ResolversWin == Asked => ResolverWins
<1> SUFFICES ASSUME Asked, kind = "merge",
                    NEW f \in DOMAIN Normalize(call.principal, Merge(call.base, call.override), call.err) \ {"duration"},
                    call.override[f] # ZeroEvent[f]
             PROVE  LET e == Normalize(call.principal, Merge(call.base, call.override), call.err)
                    IN  \/ e[f] = call.override[f]
                        \/ f = "actor" /\ e[f] = call.principal /\ call.principal # Nobody
  BY DEF ResolverWins
<1> DEFINE m == Merge(call.base, call.override)
           e == Normalize(call.principal, m, call.err)
<1>1. IsEvent(call.base) /\ IsEvent(call.override)
  BY EventAssumption DEF Asked
<1>2. IsEvent(m)
  BY <1>1, MergedEvent
<1>3. DOMAIN m = DOMAIN ZeroEvent /\ DOMAIN call.base = DOMAIN m
  BY <1>1, <1>2 DEF IsEvent, ZeroEvent
<1>4. f \in DOMAIN m => m[f] = call.override[f]
  BY <1>3 DEF Merge
<1> HIDE DEF m
<1>5. NormalFields(e, call.principal, m, call.err)
  BY <1>1, <1>2, NormalizedEvent
<1> HIDE DEF e
<1>6. DOMAIN e = DOMAIN m /\ e.actor = IF call.principal # Nobody THEN call.principal ELSE m.actor
  BY <1>5 DEF NormalFields
<1>7. f \in DOMAIN m /\ f # "duration"
  BY <1>6 DEF m, e
<1>8. CASE f = "actor"
  BY <1>4, <1>6, <1>7, <1>8 DEF m, e
<1>9. CASE f # "actor"
  <2>1. f \in DOMAIN ZeroEvent \ {"actor", "duration"} /\ m[f] # ZeroEvent[f]
    BY <1>3, <1>4, <1>7, <1>9
  <2>2. e[f] = m[f]
    BY <1>1, <1>2, <2>1, NormalizeKeeps DEF e
  <2> QED
    BY <1>4, <1>7, <2>2 DEF m, e
<1> QED
  BY <1>8, <1>9

LEMMA AuditsTellOutcome == Asked => AuditTellsOutcome
<1> SUFFICES ASSUME Asked, kind = "audit"
             PROVE  AuditTellsOutcome
  BY DEF AuditTellsOutcome
<1> DEFINE p == call.principal
           ev == call.event
           a == AuditedEvent(call.err, ev)
           g == [a EXCEPT !.actor = Nobody, !.duration = 0, !.component = firstNonEmpty(@, GuardComponent),
                          !.startedAt = OrElse(@, 0, Now), !.finishedAt = OrElse(@, 0, Now)]
           n == GuardEvent(p, a)
           r == CasdoorRecord(n)
<1>1. IsEvent(ev)
  BY EventAssumption DEF Asked
<1> HIDE DEF ev, p
<1>2. IsEvent(a)
  BY <1>1 DEF AuditedEvent, IsEvent
<1>3. /\ call.err # "" => a.result = "failed" /\ a.message # "" /\ (ev.statusCode = 0 => a.statusCode = 403)
      /\ call.err = "" => a.statusCode = ev.statusCode /\ (ev.result = "" => a.result = "success")
      /\ a.component = ev.component
  BY <1>1 DEF AuditedEvent, IsEvent, ZeroEvent, OrElse, firstNonEmpty
<1> HIDE DEF a
<1>4. IsEvent(g)
  BY <1>2 DEF IsEvent
<1>5. /\ g.result = a.result /\ g.message = a.message /\ g.statusCode = a.statusCode /\ g.actor = Nobody
      /\ g.startedAt # 0 /\ g.finishedAt # 0 /\ g.component = firstNonEmpty(a.component, GuardComponent)
  BY <1>2, AuditEventAssumption DEF IsEvent, ZeroEvent, OrElse
<1>6. NormalFields(n, p, g, "")
  <2>1. n = Normalize(p, g, "")
    BY DEF GuardEvent
  <2> HIDE DEF n, g
  <2> QED
    BY <1>1, <1>4, <2>1, NormalizedEvent
<1> HIDE DEF g, n
<1>7. /\ n.startedAt # 0 /\ n.finishedAt # 0 /\ n.duration = n.finishedAt - n.startedAt
      /\ n.component = firstNonEmpty(ev.component, GuardComponent)
  BY <1>3, <1>5, <1>6 DEF NormalFields, OrElse
<1>8. /\ n.actor = p
      /\ call.err # "" => n.result = "failed" /\ n.message # ""
  BY <1>3, <1>5, <1>6 DEF NormalFields, firstNonEmpty
<1>9. ev.statusCode = 0 => n.statusCode = IF call.err # "" THEN 403 ELSE 200
  <2>1. n.statusCode = OrElse(a.statusCode, 0, 200)
    BY <1>5, <1>6 DEF NormalFields
  <2>2. ASSUME ev.statusCode = 0, call.err # ""
        PROVE  n.statusCode = 403
    <3>1. a.statusCode = 403
      BY <1>3, <2>2
    <3>2. OrElse(403, 0, 200) = 403
      BY DEF OrElse
    <3> QED
      BY <2>1, <3>1, <3>2
  <2>3. ASSUME ev.statusCode = 0, call.err = ""
        PROVE  n.statusCode = 200
    <3>1. a.statusCode = 0
      BY <1>3, <2>3
    <3>2. OrElse(0, 0, 200) = 200
      BY DEF OrElse
    <3> QED
      BY <2>1, <3>1, <3>2
  <2> QED
    BY <2>2, <2>3
<1>10. ev.result = "" => (n.result = "success" <=> call.err = "")
  BY <1>3, <1>5, <1>6 DEF NormalFields, firstNonEmpty
<1>11. n.name # <<>>
  <2> DEFINE w == <<firstNonEmpty(g.action, g.operation), g.resource>>
  <2>1. w # <<>>
    OBVIOUS
  <2>2. n.name = OrElse(g.name, <<>>, w)
    BY <1>6 DEF NormalFields
  <2> HIDE DEF w
  <2> QED
    BY <2>1, <2>2 DEF OrElse
<1>12. /\ r.object = n /\ r.response = n.message /\ r.statusCode = n.statusCode
       /\ r.user = IF p = Nobody THEN "anonymous" ELSE p.subject
  BY <1>8 DEF CasdoorRecord
<1>13. r = CasdoorRecord(GuardEvent(call.principal, AuditedEvent(call.err, call.event)))
  BY DEF ev, p, a, n
<1> HIDE DEF r
<1> QED
  BY <1>7, <1>8, <1>9, <1>10, <1>11, <1>12, <1>13 DEF AuditTellsOutcome, ev, p

(***************************************************************************)
(* An audit event arrives as it was decided and filled in, whatever event  *)
(* a caller hands over and whatever a Resolver overrides.                  *)
(***************************************************************************)
THEOREM EventSafety == Spec => []EventIsTruthful
<1>1. Asked => EventIsTruthful
  BY AuditsTellOutcome, ResolversWin DEF EventIsTruthful
<1> QED
  BY <1>1, QuestionStays, PTL

-----------------------------------------------------------------------------
(* Objects and columns *)

\* An end beyond the largest int64 becomes a negative one, and no other end does.
LEMMA EndWraps ==
    ASSUME NEW o \in 0..MaxInt, NEW n \in 1..MaxInt
    PROVE  /\ Wrap(o + n - 1) = IF o + n - 1 > MaxInt THEN o + n - 1 - 2 * Half ELSE o + n - 1
           /\ o + n - 1 > MaxInt => o + n - 1 - 2 * Half < 0
<1>1. Half \in Nat /\ Half > 0 /\ MaxInt = Half - 1
  BY PagingAssumption DEF MaxInt
<1> DEFINE e == o + n - 1
<1>2. e \in Nat /\ e < 2 * Half
  BY <1>1
<1>3. CASE e > MaxInt
  <2>1. e + Half = (e - Half) + 2 * Half /\ e - Half \in 0..(2 * Half - 1)
    BY <1>1, <1>2, <1>3
  <2>2. (e + Half) % (2 * Half) = e - Half
    BY <1>1, <2>1
  <2> QED
    BY <1>1, <1>2, <1>3, <2>2 DEF Wrap
<1>4. CASE ~(e > MaxInt)
  BY <1>1, <1>2, <1>4, NoWrap
<1> QED
  BY <1>3, <1>4

\* The options carry an error for the ranges that are refused, and for no others.
LEMMA RangesRefused ==
    ASSUME NEW o \in (-Half)..MaxInt, NEW n \in (-Half)..MaxInt
    PROVE  RangeOptions(o, n).err = IF n > 0 /\ (o < 0 \/ o + n - 1 > MaxInt) THEN "invalid range" ELSE ""
<1>1. Half \in Nat /\ MaxInt = Half - 1
  BY PagingAssumption DEF MaxInt
<1>2. \A x, y : SetRange(x, y).err = IF (x = 0 /\ y < 0) \/ (0 < x /\ y = 0) \/ (0 <= x /\ x <= y)
                                     THEN "" ELSE "invalid range"
  BY DEF SetRange
<1>3. CASE n > 0 /\ o < 0
  <2> DEFINE y == Wrap(o + n - 1)
  <2>1. RangeOptions(o, n) = SetRange(o, y)
    BY <1>3 DEF RangeOptions
  <2>2. ~((o = 0 /\ y < 0) \/ (0 < o /\ y = 0) \/ (0 <= o /\ o <= y))
    BY <1>1, <1>3
  <2> HIDE DEF y
  <2> QED
    BY <1>2, <1>3, <2>1, <2>2
<1>4. CASE n > 0 /\ ~(o < 0)
  <2> DEFINE y == Wrap(o + n - 1)
  <2>1. RangeOptions(o, n) = SetRange(o, y)
    BY <1>4 DEF RangeOptions
  <2>2. /\ o \in 0..MaxInt /\ n \in 1..MaxInt
        /\ y = IF o + n - 1 > MaxInt THEN o + n - 1 - 2 * Half ELSE o + n - 1
        /\ o + n - 1 > MaxInt => o + n - 1 - 2 * Half < 0
    BY <1>1, <1>4, EndWraps
  <2> HIDE DEF y
  <2>3. (o = 0 /\ y < 0) \/ (0 < o /\ y = 0) \/ (0 <= o /\ o <= y) <=> ~(o + n - 1 > MaxInt)
    BY <1>1, <1>4, <2>2
  <2>4. SetRange(o, y).err = IF (o = 0 /\ y < 0) \/ (0 < o /\ y = 0) \/ (0 <= o /\ o <= y) THEN "" ELSE "invalid range"
    BY <1>2, Zenon
  <2>5. SetRange(o, y).err = IF o + n - 1 > MaxInt THEN "invalid range" ELSE ""
    BY <2>3, <2>4, Zenon
  <2> QED
    BY <1>4, <2>1, <2>5, Zenon
<1>5. CASE ~(n > 0) /\ o > 0
  BY <1>2, <1>5 DEF RangeOptions
<1>6. CASE ~(n > 0) /\ ~(o > 0)
  BY <1>6 DEF RangeOptions
<1> QED
  BY <1>1, <1>3, <1>4, <1>5, <1>6

LEMMA ReadsAreStated == Asked => ReadIsStated
<1> SUFFICES ASSUME Asked, kind = "read"
             PROVE  ReadIsStated
  BY DEF ReadIsStated
<1> DEFINE o == call.offset
           n == call.length
           z == call.size
           e == call.stat
           r == GetObject(o, n, z, e)
           refused == n > 0 /\ (o < 0 \/ o + n - 1 > MaxInt)
<1>1. o \in (-Half)..MaxInt /\ n \in (-Half)..MaxInt /\ z \in Nat
  BY StoreAssumption DEF Asked
<1>2. AskedBytes(call) \subseteq 0..(z - 1)
  BY DEF AskedBytes
<1> HIDE DEF o, n, z, e
<1>3. RangeOptions(o, n).err = IF refused THEN "invalid range" ELSE ""
  BY <1>1, RangesRefused
<1> HIDE DEF refused
<1>4. CASE refused \/ e # ""
  <2>1. r = Failed(IF refused THEN "invalid range" ELSE e)
    BY <1>3, <1>4 DEF GetObject
  <2> QED
    BY <1>4, <2>1 DEF ReadIsStated, o, n, z, e, refused
<1>5. CASE ~(refused \/ e # "")
  <2>1. r = [err |-> "", bytes |-> Served(NoRange, z), size |-> z]
    BY <1>3, <1>5 DEF GetObject, AfterStat
  <2>2. Served(NoRange, z) = 0..(z - 1)
    BY DEF Served
  <2> HIDE DEF r
  <2>3. r.err = "" /\ r.size = z /\ r.bytes = 0..(r.size - 1) /\ AskedBytes(call) \subseteq r.bytes
    BY <1>2, <2>1, <2>2
  <2> QED
    BY <1>5, <2>3 DEF ReadIsStated, o, n, z, e, refused, r
<1> QED
  BY <1>4, <1>5

\* Where the loop of ListObjects stops: at the limit, or at the end, which an error is too.
LEMMA ListingStops ==
    ASSUME NEW listing \in Seq(STRING), NEW limit \in Int,
           \A i \in 1..(Len(listing) - 1) : listing[i] # "error"
    PROVE  Received(listing, limit) = IF limit > 0 /\ limit <= Len(listing) THEN limit ELSE Len(listing)
<1> DEFINE stops == {i \in DOMAIN listing : listing[i] = "error" \/ (limit > 0 /\ i >= limit)}
<1>1. DOMAIN listing = 1..Len(listing) /\ Len(listing) \in Nat /\ stops \subseteq Int
  OBVIOUS
<1>2. Received(listing, limit) = IF stops = {} THEN Len(listing) ELSE Min(stops)
  BY DEF Received
<1>3. CASE limit > 0 /\ limit <= Len(listing)
  <2>1. limit \in stops /\ \A i \in stops : limit <= i
    BY <1>1, <1>3
  <2> HIDE DEF stops
  <2> QED
    BY <1>1, <1>2, <1>3, <2>1, MinIs
<1>4. CASE ~(limit > 0 /\ limit <= Len(listing))
  <2>1. \A i \in stops : i = Len(listing)
    BY <1>1, <1>4
  <2> HIDE DEF stops
  <2>2. ASSUME stops # {}
        PROVE  Min(stops) = Len(listing)
    <3> PICK i \in stops : TRUE
      BY <2>2
    <3>1. i = Len(listing) /\ \A j \in stops : j = Len(listing)
      BY <2>1
    <3>2. Len(listing) <= Len(listing)
      BY <1>1
    <3>3. Len(listing) \in stops /\ \A j \in stops : Len(listing) <= j
      BY <3>1, <3>2, Zenon
    <3> QED
      BY <1>1, <3>3, MinIs
  <2> QED
    BY <1>2, <1>4, <2>2
<1> QED
  BY <1>3, <1>4

LEMMA ListsArePrefixes == Asked => ListIsPrefix
<1> SUFFICES ASSUME Asked, kind = "list"
             PROVE  ListIsPrefix
  BY DEF ListIsPrefix
<1> DEFINE l == call.listing
           n == Received(l, call.limit)
           keys == IF Ended(l) THEN Len(l) - 1 ELSE Len(l)
           short == call.limit <= 0 \/ keys < call.limit
           r == ListObjects(l, call.limit)
<1>1. /\ l \in Seq(STRING) /\ call.limit \in Int /\ Len(l) \in Nat
      /\ \A i \in 1..(Len(l) - 1) : l[i] # "error"
  BY StoreAssumption DEF Asked
<1>2. n = IF call.limit > 0 /\ call.limit <= Len(l) THEN call.limit ELSE Len(l)
  BY <1>1, ListingStops
<1>3. r = IF n > 0 /\ l[n] = "error" THEN [err |-> "error", items |-> <<>>, left |-> Len(l) - n]
          ELSE [err |-> "", items |-> SubSeq(l, 1, n), left |-> Len(l) - n]
  BY DEF ListObjects
<1>4. Ended(l) <=> Len(l) > 0 /\ l[Len(l)] = "error"
  BY <1>1 DEF Ended
<1> HIDE DEF n, l, r
<1>5. n > 0 /\ l[n] = "error" <=> short /\ Ended(l)
  BY <1>1, <1>2, <1>4
<1>6. ~(short /\ Ended(l)) => n = IF short THEN keys ELSE call.limit
  BY <1>1, <1>2, <1>4
<1>7. Len(l) - n > 0 => ~short
  BY <1>1, <1>2, <1>4
<1> HIDE DEF short, keys
<1>8. /\ r.err # "" <=> (short /\ Ended(l))
      /\ r.err = "" => r.items = SubSeq(l, 1, IF short THEN keys ELSE call.limit)
      /\ r.left > 0 => ~short
  BY <1>3, <1>5, <1>6, <1>7
<1> QED
  BY <1>8 DEF ListIsPrefix, l, r, short, keys

\* A value read back from its JSON, into one that is empty or when all fields are written.
LEMMA ReadBack ==
    ASSUME NEW old, IsJsonb(old), NEW new, IsJsonb(new), NEW omitempty \in BOOLEAN,
           ~omitempty \/ \A f \in FieldNames : old.data[f] = ZeroValue
    PROVE  Unmarshal(Marshal(new.data, omitempty), old.data) = new.data
<1> DEFINE m == [f \in {g \in FieldNames : ~omitempty \/ new.data[g] # ZeroValue} |-> new.data[f]]
<1>1. Unmarshal(Marshal(new.data, omitempty), old.data) = Over(m, old.data)
  BY DEF Unmarshal, Marshal, Json
<1>2. /\ DOMAIN old.data = FieldNames /\ DOMAIN new.data = FieldNames
      /\ new.data = [f \in FieldNames |-> new.data[f]]
  BY DEF IsJsonb
<1>3. Over(m, old.data) = [f \in FieldNames |-> IF f \in DOMAIN m THEN m[f] ELSE old.data[f]]
  BY <1>2 DEF Over
<1>4. \A f \in FieldNames : (IF f \in DOMAIN m THEN m[f] ELSE old.data[f]) = new.data[f]
  OBVIOUS
<1> QED
  BY <1>1, <1>2, <1>3, <1>4

LEMMA ReadValue ==
    ASSUME NEW r, NEW x, r = [err |-> "", j |-> x]
    PROVE  r.j = x
OBVIOUS

LEMMA ColumnsRoundTrip == Asked => ColumnRoundTrip
<1> SUFFICES ASSUME Asked, kind = "column"
             PROVE  ColumnRoundTrip
  BY DEF ColumnRoundTrip
<1> DEFINE old == call.old
           new == call.new
           omit == call.omitempty
           fresh == Jsonb(Blank, FALSE)
           json == Marshal(new.data, omit)
<1>1. IsJsonb(old) /\ IsJsonb(new) /\ omit \in BOOLEAN
  BY StoreAssumption DEF Asked
<1>2. fresh.data = [f \in FieldNames |-> ZeroValue] /\ fresh.null = FALSE
  BY DEF Jsonb, Blank, Over
<1>3. IsJsonb(fresh)
  BY <1>2 DEF IsJsonb, Jsonb
<1>4. new = [data |-> new.data, null |-> new.null] /\ new.null \in BOOLEAN
  BY <1>1 DEF IsJsonb
<1> HIDE DEF old, new, omit, fresh
<1>5. Unmarshal(json, fresh.data) = new.data
  BY <1>1, <1>2, <1>3, ReadBack
<1>6. ~omit => Unmarshal(json, old.data) = new.data
  BY <1>1, ReadBack
<1>7. json.kind = "object"
  BY DEF Marshal, Json
<1> HIDE DEF json
<1>8. CASE new.null
  <2>1. /\ Value(new, omit) = Json("sql null", Blank)
        /\ MarshalJSON(new, omit) = Json("null", Blank)
    BY <1>8 DEF Value, MarshalJSON
  <2>2. /\ Scan(fresh, Value(new, omit)) = [err |-> "", j |-> Empty]
        /\ UnmarshalJSON(fresh, MarshalJSON(new, omit)) = [err |-> "", j |-> Empty]
        /\ Scan(old, Value(new, omit)) = [err |-> "", j |-> Empty]
    <3>1. Json("sql null", Blank).kind = "sql null" /\ Json("null", Blank).kind = "null"
      BY DEF Json
    <3> QED
      BY <2>1, <3>1 DEF Scan, UnmarshalJSON
  <2>3. MustGet(Empty).err # ""
    BY DEF MustGet, Empty, Jsonb
  <2>4. Scan(old, Value(new, omit)).j = Empty
    BY <2>2, ReadValue
  <2> QED
    BY <1>8, <2>2, <2>3, <2>4 DEF ColumnRoundTrip, old, new, omit, fresh
<1>9. CASE ~new.null
  <2>1. Value(new, omit) = json /\ MarshalJSON(new, omit) = json
    BY <1>9 DEF Value, MarshalJSON, json
  <2> DEFINE into == [data |-> Unmarshal(json, old.data), null |-> FALSE]
  <2>2. /\ Scan(fresh, json) = [err |-> "", j |-> [data |-> Unmarshal(json, fresh.data), null |-> FALSE]]
        /\ UnmarshalJSON(fresh, json) = [err |-> "", j |-> [data |-> Unmarshal(json, fresh.data), null |-> FALSE]]
        /\ Scan(old, json) = [err |-> "", j |-> into]
    BY <1>7 DEF Scan, UnmarshalJSON
  <2>3. new = [data |-> new.data, null |-> FALSE]
    BY <1>4, <1>9
  <2>4. /\ Scan(fresh, json) = [err |-> "", j |-> new]
        /\ UnmarshalJSON(fresh, json) = [err |-> "", j |-> new]
    BY <1>5, <2>2, <2>3, Zenon
  <2>5. ~omit => into = new
    BY <1>6, <2>3, Zenon
  <2>6. MustGet(into).err = ""
    BY DEF MustGet
  <2> HIDE DEF into
  <2>7. Scan(old, json).j = into
    BY <2>2, ReadValue
  <2> QED
    BY <1>9, <2>1, <2>4, <2>5, <2>6, <2>7 DEF ColumnRoundTrip, old, new, omit, fresh
<1> QED
  BY <1>8, <1>9

(***************************************************************************)
(* GetObject hands out a reader only after a Stat that succeeded, and of   *)
(* the size it states; listings and JSON columns are read as they were     *)
(* stored: for every offset, length, object, limit and value.              *)
(***************************************************************************)
THEOREM StoreSafety == Spec => []StoredIsRead
<1>1. Asked => StoredIsRead
  BY ReadsAreStated, ListsArePrefixes, ColumnsRoundTrip DEF StoredIsRead
<1> QED
  BY <1>1, QuestionStays, PTL

-----------------------------------------------------------------------------
(* Logins *)

\* The parameters that the library itself sets have one value each.
Single(q) == \A k \in DOMAIN q : \E v : q[k] = <<v>>

\* What ExtraNeverOverrides asks of one request with the parameters q.
Kept(q, extra) ==
    /\ \A k \in DOMAIN WithExtra(q, NoValues) : Head(WithExtra(q, extra)[k]) = Head(WithExtra(q, NoValues)[k])
    /\ \A k \in DOMAIN extra : EndsIn(WithExtra(q, extra)[k], extra[k])

LEMMA AddedBehind ==
    ASSUME NEW v, NEW s \in Seq(STRING)
    PROVE  Head(<<v>> \o s) = v /\ EndsIn(<<v>> \o s, s) /\ EndsIn(<<>> \o s, s) /\ <<v>> \o <<>> = <<v>>
<1> DEFINE T == STRING \cup {v}
<1>1. s \in Seq(T) /\ <<v>> \in Seq(T) /\ <<>> \in Seq(T)
  OBVIOUS
<1>2. /\ <<v>> \o s \in Seq(T) /\ Len(<<v>> \o s) = 1 + Len(s) /\ Len(s) \in Nat
      /\ \A i \in 1..(1 + Len(s)) : (<<v>> \o s)[i] = IF i <= 1 THEN v ELSE s[i - 1]
  BY <1>1, ConcatProperties
<1>3. Head(<<v>> \o s) = v
  BY <1>2
<1>4. SubSeq(<<v>> \o s, 1, 1) = <<v>>
  <2> DEFINE a == <<v>> \o s
  <2>1. a \in Seq(T) /\ Len(a) >= 1 /\ Len(a) \in Nat /\ a[1] = v
    BY <1>2
  <2> HIDE DEF a
  <2> DEFINE b == SubSeq(a, 1, 1)
  <2>2. \A i \in 1..1 : a[i] \in T
    BY <2>1
  <2>3. b \in Seq(T) /\ Len(b) = 1 /\ \A i \in 1..1 : b[i] = a[1 + i - 1]
    BY <2>2, SubSeqProperties
  <2> HIDE DEF b
  <2>4. Len(b) = Len(<<v>>) /\ \A i \in 1..Len(b) : b[i] = <<v>>[i]
    BY <2>1, <2>3
  <2>5. b = <<v>>
    BY <1>1, <2>3, <2>4, SeqEqual
  <2> QED
    BY <2>5 DEF a, b
<1>5. EndsIn(<<v>> \o s, s)
  BY <1>2, <1>4 DEF EndsIn
<1>6. <<>> \o s = s /\ <<v>> \o <<>> = <<v>>
  BY <1>1, ConcatEmptySeq
<1>7. EndsIn(s, s)
  <2>1. SubSeq(s, 1, Len(s) - Len(s)) = <<>>
    BY <1>2
  <2> QED
    BY <1>6, <2>1 DEF EndsIn
<1> QED
  BY <1>3, <1>5, <1>6, <1>7

LEMMA ExtraIsBehind ==
    ASSUME NEW q, Single(q), NEW extra, \A k \in DOMAIN extra : extra[k] \in Seq(STRING)
    PROVE  Kept(q, extra)
<1> DEFINE w == WithExtra(q, extra)
           o == WithExtra(q, NoValues)
<1>1. /\ DOMAIN o = DOMAIN q
      /\ \A k \in DOMAIN q : o[k] = q[k] \o <<>>
  BY DEF WithExtra, NoValues, Get
<1>2. \A k \in DOMAIN q \cup DOMAIN extra : w[k] = Get(q, k) \o Get(extra, k)
  BY DEF WithExtra
<1> HIDE DEF w, o
<1>3. ASSUME NEW k \in DOMAIN q
      PROVE  /\ Head(w[k]) = Head(o[k])
             /\ k \in DOMAIN extra => EndsIn(w[k], extra[k])
  <2>1. PICK v : q[k] = <<v>>
    BY DEF Single
  <2>2. o[k] = <<v>>
    BY <1>1, <2>1, AddedBehind
  <2>3. CASE k \in DOMAIN extra
    <3>1. w[k] = <<v>> \o extra[k] /\ extra[k] \in Seq(STRING)
      BY <1>2, <2>1, <2>3 DEF Get
    <3>2. Head(<<v>>) = v
      OBVIOUS
    <3> QED
      BY <2>2, <3>1, <3>2, AddedBehind
  <2>4. CASE k \notin DOMAIN extra
    <3>1. w[k] = <<v>> \o <<>>
      BY <1>2, <2>1, <2>4 DEF Get
    <3> QED
      BY <1>1, <2>1, <2>4, <3>1
  <2> QED
    BY <2>3, <2>4
<1>4. ASSUME NEW k \in DOMAIN extra, k \notin DOMAIN q
      PROVE  EndsIn(w[k], extra[k])
  BY <1>2, <1>4, AddedBehind DEF Get
<1> QED
  BY <1>1, <1>3, <1>4 DEF Kept, w, o

LEMMA SingleOpt == \A k, v : Single(Opt(k, v))
BY DEF Single, Opt, NoValues

LEMMA SingleOver ==
    ASSUME NEW f, Single(f), NEW g, Single(g)
    PROVE  Single(Over(f, g))
BY DEF Single, Over

\* A request that is refused, or sent with the parameters q and extra ones.
Sent(q, err, extra) == IF err # "" THEN Refused(err) ELSE Built(WithExtra(q, extra))

LEMMA SentKeeps ==
    ASSUME NEW q, Single(q), NEW err, NEW extra, \A k \in DOMAIN extra : extra[k] \in Seq(STRING)
    PROVE  /\ Sent(q, err, extra).err = Sent(q, err, NoValues).err
           /\ \A k \in DOMAIN Sent(q, err, NoValues).values :
                  Head(Sent(q, err, extra).values[k]) = Head(Sent(q, err, NoValues).values[k])
           /\ Sent(q, err, extra).err = "" =>
                  \A k \in DOMAIN extra : EndsIn(Sent(q, err, extra).values[k], extra[k])
<1>1. Kept(q, extra)
  BY ExtraIsBehind
<1>2. CASE err # ""
  <2>1. Sent(q, err, extra) = Refused(err) /\ Sent(q, err, NoValues) = Refused(err)
    BY <1>2 DEF Sent
  <2>2. Refused(err).err = err /\ Refused(err).values = NoValues
    BY DEF Refused
  <2> QED
    BY <1>2, <2>1, <2>2 DEF NoValues
<1>3. CASE err = ""
  <2>1. /\ Sent(q, err, extra) = Built(WithExtra(q, extra))
        /\ Sent(q, err, NoValues) = Built(WithExtra(q, NoValues))
    BY <1>3 DEF Sent
  <2>2. \A w : Built(w).err = "" /\ Built(w).values = w
    BY DEF Built
  <2> QED
    BY <1>1, <2>1, <2>2 DEF Kept
<1> QED
  BY <1>2, <1>3

\* The parameters and the error of each request: neither depends on the extra ones.
LoginQuery(c) ==
    Over([client_id |-> <<ClientID>>, response_type |-> <<"code">>, redirect_uri |-> <<c.redirectURI>>,
          scope |-> <<LoginScope(c, c)>>], Over(Opt("state", c.state), Opt("prompt", c.prompt)))
LogoutQuery(c) ==
    Over(Over(Opt("post_logout_redirect_uri", c.redirectURI), Opt("redirect_uri", c.redirectURI)),
         Over(Opt("id_token_hint", c.hint), Opt("state", c.state)))
ExchangeQuery(c) ==
    Over(Credentials("authorization_code"), [code |-> <<c.code>>, redirect_uri |-> <<c.redirectURI>>])
RefreshQuery(c) ==
    Over(Credentials("refresh_token"), Over([refresh_token |-> <<c.refresh>>], Opt("scope", c.scope)))

LoginError(c) == IF TrimSpace(c.redirectURI) = "" THEN "redirect_uri is required" ELSE ""
ExchangeError(c) ==
    FirstError(<< <<TrimSpace(c.code) = "", "code is required">>,
                  <<TrimSpace(c.redirectURI) = "", "redirect_uri is required">> >>)
RefreshError(c) == IF TrimSpace(c.refresh) = "" THEN "refresh_token is required" ELSE ""

LEMMA QueriesAreSingle ==
    \A c : Single(LoginQuery(c)) /\ Single(LogoutQuery(c)) /\ Single(ExchangeQuery(c)) /\ Single(RefreshQuery(c))
<1> TAKE c
<1> DEFINE l == [client_id |-> <<ClientID>>, response_type |-> <<"code">>, redirect_uri |-> <<c.redirectURI>>,
                 scope |-> <<LoginScope(c, c)>>]
           x == [code |-> <<c.code>>, redirect_uri |-> <<c.redirectURI>>]
           y == [refresh_token |-> <<c.refresh>>]
<1>1. Single(l) /\ Single(x) /\ Single(y) /\ \A g : Single(Credentials(g))
  BY DEF Single, Credentials
<1> HIDE DEF l, x, y
<1>2. Single(Over(l, Over(Opt("state", c.state), Opt("prompt", c.prompt))))
  BY <1>1, SingleOpt, SingleOver
<1>3. Single(LogoutQuery(c))
  BY SingleOpt, SingleOver DEF LogoutQuery
<1>4. Single(Over(Credentials("authorization_code"), x))
  BY <1>1, SingleOver
<1>5. Single(Over(Credentials("refresh_token"), Over(y, Opt("scope", c.scope))))
  BY <1>1, SingleOpt, SingleOver
<1> QED
  BY <1>2, <1>3, <1>4, <1>5 DEF LoginQuery, ExchangeQuery, RefreshQuery, l, x, y

LEMMA RequestsAreSent ==
    ASSUME NEW c
    PROVE  /\ RequestOf("login", c) = Sent(LoginQuery(c), LoginError(c), c.extra)
           /\ RequestOf("logout", c) = Sent(LogoutQuery(c), "", c.extra)
           /\ RequestOf("exchange", c) = Sent(ExchangeQuery(c), ExchangeError(c), c.extra)
           /\ RequestOf("refresh", c) = Sent(RefreshQuery(c), RefreshError(c), c.extra)
<1>1. /\ RequestOf("login", c) = LoginURL(c, c) /\ RequestOf("logout", c) = LogoutURL(c)
      /\ RequestOf("exchange", c) = ExchangeCodeForm(c) /\ RequestOf("refresh", c) = RefreshTokenForm(c)
  BY DEF RequestOf
<1>2. LoginURL(c, c) = Sent(LoginQuery(c), LoginError(c), c.extra)
  BY DEF LoginURL, LoginQuery, LoginError, Sent
<1>3. LogoutURL(c) = Sent(LogoutQuery(c), "", c.extra)
  BY DEF LogoutURL, LogoutQuery, Sent
<1>4. ExchangeCodeForm(c) = Sent(ExchangeQuery(c), ExchangeError(c), c.extra)
  BY DEF ExchangeCodeForm, ExchangeQuery, ExchangeError, Sent
<1>5. RefreshTokenForm(c) = Sent(RefreshQuery(c), RefreshError(c), c.extra)
  BY DEF RefreshTokenForm, RefreshQuery, RefreshError, Sent
<1> QED
  BY <1>1, <1>2, <1>3, <1>4, <1>5

LEMMA ExtrasNeverOverride == Asked => ExtraNeverOverrides
<1> SUFFICES ASSUME Asked, kind = "login"
             PROVE  ExtraNeverOverrides
  BY DEF ExtraNeverOverrides
<1> DEFINE c == call
           d == [call EXCEPT !.extra = NoValues]
<1>1. IsRequest(c) /\ \A k \in DOMAIN c.extra : c.extra[k] \in Seq(STRING)
  BY LoginAssumption DEF Asked
<1>2. /\ d.redirectURI = c.redirectURI /\ d.scope = c.scope /\ d.defaultScope = c.defaultScope /\ d.state = c.state
      /\ d.prompt = c.prompt /\ d.hint = c.hint /\ d.code = c.code /\ d.refresh = c.refresh /\ d.extra = NoValues
  BY <1>1 DEF IsRequest
<1> HIDE DEF d
<1>3. /\ LoginQuery(d) = LoginQuery(c) /\ LogoutQuery(d) = LogoutQuery(c)
      /\ ExchangeQuery(d) = ExchangeQuery(c) /\ RefreshQuery(d) = RefreshQuery(c)
  BY <1>2 DEF LoginQuery, LogoutQuery, ExchangeQuery, RefreshQuery, LoginScope
<1>4. LoginError(d) = LoginError(c) /\ ExchangeError(d) = ExchangeError(c) /\ RefreshError(d) = RefreshError(c)
  BY <1>2 DEF LoginError, ExchangeError, RefreshError
<1>5. ASSUME NEW r \in {"login", "logout", "exchange", "refresh"}
      PROVE  \E q, err : /\ Single(q)
                         /\ RequestOf(r, c) = Sent(q, err, c.extra)
                         /\ RequestOf(r, d) = Sent(q, err, NoValues)
  <2>1. CASE r = "login"
    BY <1>2, <1>3, <1>4, <2>1, RequestsAreSent, QueriesAreSingle
  <2>2. CASE r = "logout"
    BY <1>2, <1>3, <1>4, <2>2, RequestsAreSent, QueriesAreSingle
  <2>3. CASE r = "exchange"
    BY <1>2, <1>3, <1>4, <2>3, RequestsAreSent, QueriesAreSingle
  <2>4. CASE r = "refresh"
    BY <1>2, <1>3, <1>4, <2>4, RequestsAreSent, QueriesAreSingle
  <2> QED
    BY <2>1, <2>2, <2>3, <2>4
<1>6. ASSUME NEW r \in {"login", "logout", "exchange", "refresh"}
      PROVE  /\ RequestOf(r, c).err = RequestOf(r, d).err
             /\ \A k \in DOMAIN RequestOf(r, d).values : Head(RequestOf(r, c).values[k]) = Head(RequestOf(r, d).values[k])
             /\ RequestOf(r, c).err = "" => \A k \in DOMAIN c.extra : EndsIn(RequestOf(r, c).values[k], c.extra[k])
  <2>1. PICK q, err : /\ Single(q)
                      /\ RequestOf(r, c) = Sent(q, err, c.extra)
                      /\ RequestOf(r, d) = Sent(q, err, NoValues)
    BY <1>5
  <2> QED
    BY <1>1, <2>1, SentKeeps
<1> QED
  BY <1>6 DEF ExtraNeverOverrides, d

LEMMA StatusRange ==
    ASSUME NEW n \in Int, ~(n < 200 \/ n >= 300)
    PROVE  n \in 200..299
OBVIOUS

LEMMA TokenFields ==
    ASSUME NEW t, NEW err, NEW access, NEW type, t = [err |-> err, access |-> access, type |-> type]
    PROVE  t.err = err /\ t.access = access /\ t.type = type
OBVIOUS

LEMMA TokensAreUseful == Asked => TokensAreUsable
<1> SUFFICES ASSUME Asked, kind = "answer", exchangeToken(call).err = ""
             PROVE  LET t == exchangeToken(call)
                    IN  t.access # "" /\ t.type # "" /\ call.status \in 200..299
  BY DEF TokensAreUsable
<1> DEFINE p1 == <<~call.sent, "transport">>
           p2 == <<~call.read, "read">>
           p3 == <<call.status < 200 \/ call.status >= 300, "status">>
           p4 == <<~call.json, "decode">>
           p5 == <<call.access = "", "missing access_token">>
           err == FirstError(<<p1, p2, p3, p4, p5>>)
           t == exchangeToken(call)
<1>1. err # "" => t = [err |-> err, access |-> "", type |-> ""]
  BY DEF exchangeToken
<1>2. err = "" => t = [err |-> "", access |-> call.access, type |-> firstNonEmpty(call.type, "Bearer")]
  BY DEF exchangeToken
<1>3. p1[2] # "" /\ p2[2] # "" /\ p3[2] # "" /\ p4[2] # "" /\ p5[2] # ""
  BY PairParts
<1>4. p3[1] = (call.status < 200 \/ call.status >= 300) /\ p5[1] = (call.access = "")
  BY PairParts, Zenon
<1> HIDE DEF p1, p2, p3, p4, p5
<1>5. err = "" => ~p3[1] /\ ~p5[1]
  BY <1>3, FiveChecks, Zenon
<1> HIDE DEF err, t
<1>6. err = ""
  <2>1. err # "" => t.err = err
    BY <1>1, TokenFields
  <2> QED
    BY <2>1 DEF t
<1>7. t.access = call.access /\ t.type = firstNonEmpty(call.type, "Bearer")
  <2>1. t = [err |-> "", access |-> call.access, type |-> firstNonEmpty(call.type, "Bearer")]
    BY <1>2, <1>6, Zenon
  <2> QED
    BY <2>1, TokenFields
<1>8. firstNonEmpty(call.type, "Bearer") # ""
  BY DEF firstNonEmpty
<1>9. ~(call.status < 200 \/ call.status >= 300) /\ call.access # ""
  BY <1>4, <1>5, <1>6, Zenon
<1>10. call.status \in 200..299
  <2>1. call.status \in Int
    BY LoginAssumption DEF Asked
  <2> QED
    BY <1>9, <2>1, StatusRange, Zenon
<1> QED
  BY <1>7, <1>8, <1>9, <1>10 DEF t

LEMMA LastBlock ==
    ASSUME NEW text \in Seq(Chunks), Blocks(text) # {}, Min(Blocks(text)) = Len(text)
    PROVE  Blocks(text) = {Len(text)}
<1>1. Blocks(text) \subseteq 1..Len(text) /\ Len(text) \in Nat
  <2>1. DOMAIN text = 1..Len(text) /\ Len(text) \in Nat
    OBVIOUS
  <2> QED
    BY <2>1, Zenon DEF Blocks
<1> DEFINE S == Blocks(text)
           n == Len(text)
<1> HIDE DEF S, n
<1>2. S \subseteq Nat /\ S # {} /\ Min(S) = n /\ n \in Nat /\ \A i \in S : i <= n
  BY <1>1 DEF S, n
<1>3. n \in S /\ \A i \in S : n <= i
  BY <1>2, MinExists, Zenon
<1>4. \A i \in S : i = n
  BY <1>2, <1>3
<1>5. S = {n}
  BY <1>3, <1>4, Zenon
<1> QED
  BY <1>5, Zenon DEF S, n

LEMMA ValidTexts ==
    ASSUME NEW text \in Seq(Chunks), ValidateJWTPublicCertificate(text) = ""
    PROVE  /\ Blocks(text) = {Len(text)}
           /\ text[Len(text)].rsa /\ text[Len(text)].type \in {"CERTIFICATE", "PUBLIC KEY", "RSA PUBLIC KEY"}
<1> DEFINE first == Min(Blocks(text))
           b == text[first]
           p1 == <<first # Len(text), "more than one PEM block">>
           p2 == <<b.type \in {"PRIVATE KEY", "RSA PRIVATE KEY", "EC PRIVATE KEY"}, "private key">>
           p3 == <<b.type \notin {"CERTIFICATE", "PUBLIC KEY", "RSA PUBLIC KEY"}, "unsupported type">>
           p4 == <<~b.parses, "parse">>
           p5 == <<~b.rsa, "not RSA">>
           err == FirstError(<<p1, p2, p3, p4, p5>>)
<1>1. Blocks(text) # {} /\ err = ""
  <2>1. ValidateJWTPublicCertificate(text) =
            IF text = <<>> THEN "empty" ELSE IF Blocks(text) = {} THEN "not PEM" ELSE err
    BY DEF ValidateJWTPublicCertificate
  <2> HIDE DEF err
  <2> QED
    BY <2>1
<1>2. p1[2] # "" /\ p2[2] # "" /\ p3[2] # "" /\ p4[2] # "" /\ p5[2] # ""
  BY PairParts
<1>3. /\ p1[1] = (first # Len(text)) /\ p5[1] = ~b.rsa
      /\ p3[1] = (b.type \notin {"CERTIFICATE", "PUBLIC KEY", "RSA PUBLIC KEY"})
  BY PairParts, Zenon
<1> HIDE DEF p1, p2, p3, p4, p5
<1>4. ~p1[1] /\ ~p3[1] /\ ~p5[1]
  BY <1>1, <1>2, FiveChecks, Zenon
<1>5. first = Len(text) /\ b.rsa /\ b.type \in {"CERTIFICATE", "PUBLIC KEY", "RSA PUBLIC KEY"}
  BY <1>3, <1>4, Zenon
<1>6. Blocks(text) = {Len(text)}
  BY <1>1, <1>5, LastBlock, Zenon
<1> QED
  BY <1>5, <1>6, Zenon

LEMMA CertificatesArePublic == Asked => CertificateIsPublic
<1> DEFINE c == NormalizedCertificate(call.inline, call.hasFile, call.file)
           read == call.inline = <<>> /\ call.hasFile
           text == IF read /\ call.file.err = "" THEN call.file.text ELSE call.inline
           err == IF text = <<>> THEN "required" ELSE ValidateJWTPublicCertificate(text)
<1> SUFFICES ASSUME Asked, kind = "cert", c.err = ""
             PROVE  /\ c.text = IF call.inline # <<>> THEN call.inline ELSE call.file.text
                    /\ Cardinality(Blocks(c.text)) = 1
                    /\ \A i \in Blocks(c.text) :
                          c.text[i].rsa /\ c.text[i].type \in {"CERTIFICATE", "PUBLIC KEY", "RSA PUBLIC KEY"}
  BY Zenon DEF CertificateIsPublic
<1>1. call.inline \in Seq(Chunks) /\ call.file.text \in Seq(Chunks)
  BY LoginAssumption DEF Asked
<1>2. c = IF read /\ call.file.err # "" THEN [err |-> "read", text |-> <<>>]
          ELSE [err |-> err, text |-> IF err = "" THEN text ELSE <<>>]
  BY Zenon DEF NormalizedCertificate
<1>3. text \in Seq(Chunks)
  BY <1>1
<1> HIDE DEF c, read, text, err
<1>4. ~(read /\ call.file.err # "")
  BY <1>2
<1>5. c.err = err /\ (err = "" => c.text = text)
  BY <1>2, <1>4
<1>6. err = "" /\ c.text = text
  BY <1>5
<1>7. text # <<>> /\ ValidateJWTPublicCertificate(text) = ""
  BY <1>6 DEF err
<1>8. text = IF call.inline # <<>> THEN call.inline ELSE call.file.text
  BY <1>4, <1>7, Zenon DEF text, read
<1>9. /\ Blocks(text) = {Len(text)}
      /\ text[Len(text)].rsa /\ text[Len(text)].type \in {"CERTIFICATE", "PUBLIC KEY", "RSA PUBLIC KEY"}
  BY <1>3, <1>7, ValidTexts, Zenon
<1>10. Cardinality(Blocks(text)) = 1
  BY <1>9, FS_Singleton
<1> QED
  BY <1>6, <1>8, <1>9, <1>10, Zenon

(***************************************************************************)
(* A login is genuine, for every request, extra parameter, answer and PEM  *)
(* text: the library's own parameters come first, a login without error    *)
(* has a token, and the certificate is one public key.                     *)
(***************************************************************************)
THEOREM LoginSafety == Spec => []LoginIsGenuine
<1>1. Asked => LoginIsGenuine
  BY ExtrasNeverOverride, TokensAreUseful, CertificatesArePublic DEF LoginIsGenuine
<1> QED
  BY <1>1, QuestionStays, PTL

-----------------------------------------------------------------------------
(* Grants *)

\* Induction, on the set of numbers for which something holds.
LEMMA CountUp ==
    ASSUME NEW S, 0 \in S, \A n \in Nat : n \in S => n + 1 \in S
    PROVE  Nat \subseteq S
<1> DEFINE T == Nat \ S
<1> SUFFICES ASSUME T # {}
             PROVE  FALSE
  OBVIOUS
<1>1. T \subseteq Nat
  OBVIOUS
<1>2. Min(T) \in T /\ \A i \in T : Min(T) <= i
  BY <1>1, MinExists, Zenon
<1> DEFINE m == Min(T)
<1>3. m \in Nat /\ m \notin S /\ \A i \in Nat : i < m => i \in S
  BY <1>2
<1> HIDE DEF m, T
<1>4. m # 0
  BY <1>3
<1>5. m - 1 \in Nat /\ m - 1 < m /\ (m - 1) + 1 = m
  BY <1>3, <1>4
<1> QED
  BY <1>3, <1>5

\* One turn of the loop of cleanActions.
Turn(in, out, n) ==
    LET a == TrimSpace(in[n])
    IN  IF a = "" \/ a \in Range(out) THEN out ELSE Append(out, a)

\* The values of out in the first n turns.
IsLoop(in, f, n) == f = [k \in 0..n |-> IF k = 0 THEN <<>> ELSE Turn(in, f[k - 1], k)]

LEMMA LoopExists ==
    ASSUME NEW in, NEW N \in Nat
    PROVE  \E f : IsLoop(in, f, N)
<1> DEFINE S == {n \in Nat : \E f : IsLoop(in, f, n)}
<1>1. 0 \in S
  <2> DEFINE f == [k \in 0..0 |-> <<>>]
  <2>1. f = [k \in 0..0 |-> IF k = 0 THEN <<>> ELSE Turn(in, f[k - 1], k)]
    OBVIOUS
  <2> QED
    BY <2>1 DEF IsLoop
<1>2. ASSUME NEW n \in Nat, n \in S
      PROVE  n + 1 \in S
  <2>1. PICK f : IsLoop(in, f, n)
    BY <1>2
  <2> DEFINE g == [k \in 0..(n + 1) |-> IF k = n + 1 THEN Turn(in, f[n], n + 1) ELSE f[k]]
  <2>2. \A k \in 0..n : f[k] = IF k = 0 THEN <<>> ELSE Turn(in, f[k - 1], k)
    BY <2>1 DEF IsLoop
  <2>3. ASSUME NEW k \in 0..(n + 1)
        PROVE  g[k] = IF k = 0 THEN <<>> ELSE Turn(in, g[k - 1], k)
    <3>1. k # 0 => k - 1 \in 0..n /\ k - 1 \in 0..(n + 1) /\ k - 1 # n + 1
      OBVIOUS
    <3>2. k # 0 => g[k - 1] = f[k - 1]
      BY <3>1
    <3>3. CASE k = n + 1
      BY <3>2, <3>3
    <3>4. CASE k # n + 1
      <4>1. k \in 0..n /\ g[k] = f[k]
        BY <3>4
      <4> HIDE DEF g
      <4> QED
        BY <2>2, <3>2, <4>1
    <3> QED
      BY <3>3, <3>4
  <2>4. g = [k \in 0..(n + 1) |-> IF k = 0 THEN <<>> ELSE Turn(in, g[k - 1], k)]
    <3>1. g = [k \in 0..(n + 1) |-> g[k]]
      OBVIOUS
    <3> HIDE DEF g
    <3> QED
      BY <2>3, <3>1
  <2> HIDE DEF g
  <2> QED
    BY <2>4 DEF IsLoop
<1>3. Nat \subseteq S
  <2> HIDE DEF S
  <2> QED
    BY <1>1, <1>2, CountUp
<1> QED
  BY <1>3

\* What the loop keeps: trimmed actions of the input, none blank, none twice.
Cleaned(in, out) ==
    /\ out \in Seq({TrimSpace(in[i]) : i \in DOMAIN in} \ {""})
    /\ IsInjective(out)

LEMMA AppendNew ==
    ASSUME NEW A, NEW out \in Seq(A), NEW a \in A, IsInjective(out), a \notin Range(out)
    PROVE  Append(out, a) \in Seq(A) /\ IsInjective(Append(out, a))
<1>1. \A i \in 1..Len(out) : out[i] # a /\ \A j \in 1..Len(out) : out[i] = out[j] => i = j
  BY DEF Range, IsInjective
<1>2. /\ DOMAIN Append(out, a) = 1..(Len(out) + 1) /\ Len(out) \in Nat
      /\ \A i \in 1..Len(out) : Append(out, a)[i] = out[i]
      /\ Append(out, a)[Len(out) + 1] = a
  OBVIOUS
<1>3. \A i \in 1..(Len(out) + 1) : i = Len(out) + 1 \/ i \in 1..Len(out)
  BY <1>2
<1>4. IsInjective(Append(out, a))
  BY <1>1, <1>2, <1>3, Zenon DEF IsInjective
<1> QED
  BY <1>4

LEMMA TurnCleans ==
    ASSUME NEW in, NEW n \in DOMAIN in, NEW out, Cleaned(in, out)
    PROVE  Cleaned(in, Turn(in, out, n))
<1> DEFINE a == TrimSpace(in[n])
           A == {TrimSpace(in[i]) : i \in DOMAIN in} \ {""}
<1>1. out \in Seq(A) /\ IsInjective(out) /\ (a # "" => a \in A)
  BY DEF Cleaned
<1> SUFFICES ASSUME a # "", a \notin Range(out)
             PROVE  Cleaned(in, Append(out, a))
  BY DEF Turn
<1> HIDE DEF a, A
<1>2. Append(out, a) \in Seq(A) /\ IsInjective(Append(out, a))
  BY <1>1, AppendNew, Zenon
<1> QED
  BY <1>2, Zenon DEF Cleaned, A

LEMMA ActionsAreClean ==
    ASSUME NEW in \in Seq(STRING)
    PROVE  Cleaned(in, cleanActions(in))
<1> DEFINE N == Len(in)
           f == CHOOSE out : IsLoop(in, out, N)
           S == {n \in Nat : n <= N => Cleaned(in, f[n])}
<1>1. N \in Nat /\ DOMAIN in = 1..N
  OBVIOUS
<1>2. cleanActions(in) = f[N]
  BY Zenon DEF cleanActions, IsLoop, Turn
<1>3. IsLoop(in, f, N)
  BY <1>1, LoopExists, Zenon
<1> HIDE DEF f
<1>4. \A k \in 0..N : f[k] = IF k = 0 THEN <<>> ELSE Turn(in, f[k - 1], k)
  BY <1>3 DEF IsLoop
<1> HIDE DEF N
<1>5. 0 \in S
  <2>1. 0 \in 0..N
    BY <1>1
  <2>2. f[0] = <<>>
    BY <1>4, <2>1, Zenon
  <2>3. Cleaned(in, <<>>)
    BY DEF Cleaned, IsInjective
  <2> QED
    BY <2>2, <2>3
<1>6. ASSUME NEW n \in Nat, n \in S
      PROVE  n + 1 \in S
  <2> SUFFICES ASSUME n + 1 <= N
               PROVE  Cleaned(in, f[n + 1])
    OBVIOUS
  <2>1. n <= N /\ n + 1 \in 0..N /\ n + 1 # 0 /\ (n + 1) - 1 = n /\ n + 1 \in DOMAIN in
    BY <1>1
  <2>2. f[n + 1] = Turn(in, f[n], n + 1)
    BY <1>4, <2>1
  <2>3. Cleaned(in, f[n])
    BY <1>6, <2>1
  <2> QED
    BY <2>1, <2>2, <2>3, TurnCleans
<1>7. Nat \subseteq S
  <2> HIDE DEF S
  <2> QED
    BY <1>5, <1>6, CountUp
<1> QED
  BY <1>1, <1>2, <1>7

\* The parts of NormalizeGrant.
SubjectOf(g) == IF g.subject = "" /\ g.subjectType # "" THEN Subject(g.subjectType, g.subjectID) ELSE g.subject
Tidy(g) == [g EXCEPT !.subject = TrimSpace(SubjectOf(g)), !.action = TrimSpace(g.action), !.role = TrimSpace(g.role)]
GrantError(n) ==
    FirstError(<< <<n.subject = "", "ErrEmptySubject">>,
                  <<n.resource = "", "ErrEmptyResource">>,
                  <<n.action = "" /\ n.role = "" /\ n.actions = <<>>, "ErrEmptyAction">>,
                  <<n.expires, "ErrNotSupported">> >>)

LEMMA NormalizeParts ==
    ASSUME NEW g
    PROVE  NormalizeGrant(g) = [grant |-> Tidy(g), err |-> GrantError(Tidy(g))]
BY Zenon DEF NormalizeGrant, Tidy, SubjectOf, GrantError

LEMMA GrantFields ==
    ASSUME NEW n, NEW e
    PROVE  LET r == [grant |-> n, err |-> e] IN r.grant = n /\ r.err = e
OBVIOUS

LEMMA NormalizeIs ==
    ASSUME NEW g
    PROVE  NormalizeGrant(g).grant = Tidy(g) /\ NormalizeGrant(g).err = GrantError(Tidy(g))
BY NormalizeParts, GrantFields, Zenon

\* Only a grant with a subject passes.
LEMMA GrantPasses ==
    ASSUME NEW n
    PROVE  GrantError(n) = "" <=>
              /\ n.subject # "" /\ n.resource # ""
              /\ ~(n.action = "" /\ n.role = "" /\ n.actions = <<>>) /\ ~n.expires
<1> DEFINE p1 == <<n.subject = "", "ErrEmptySubject">>
           p2 == <<n.resource = "", "ErrEmptyResource">>
           p3 == <<n.action = "" /\ n.role = "" /\ n.actions = <<>>, "ErrEmptyAction">>
           p4 == <<n.expires, "ErrNotSupported">>
<1>1. GrantError(n) = FirstError(<<p1, p2, p3, p4>>)
  BY Zenon DEF GrantError
<1>2. p1[2] # "" /\ p2[2] # "" /\ p3[2] # "" /\ p4[2] # ""
  BY PairParts
<1>3. /\ p1[1] = (n.subject = "") /\ p2[1] = (n.resource = "")
      /\ p3[1] = (n.action = "" /\ n.role = "" /\ n.actions = <<>>) /\ p4[1] = n.expires
  BY PairParts, Zenon
<1> HIDE DEF p1, p2, p3, p4
<1>4. FirstError(<<p1, p2, p3, p4>>) = "" <=> ~p1[1] /\ ~p2[1] /\ ~p3[1] /\ ~p4[1]
  BY <1>2, FourChecks, Zenon
<1> QED
  BY <1>1, <1>3, <1>4, Zenon

LEMMA TidyFields ==
    ASSUME NEW g, IsGrant(g)
    PROVE  /\ Tidy(g).subject = TrimSpace(SubjectOf(g))
           /\ Tidy(g).action = TrimSpace(g.action) /\ Tidy(g).role = TrimSpace(g.role)
           /\ Tidy(g).subjectType = g.subjectType /\ Tidy(g).subjectID = g.subjectID
           /\ Tidy(g).resource = g.resource /\ Tidy(g).actions = g.actions /\ Tidy(g).expires = g.expires
           /\ IsGrant(Tidy(g))
<1> DEFINE F == {"subject", "subjectType", "subjectID", "resource", "action", "role", "actions", "expires"}
<1>1. DOMAIN g = F /\ g.actions \in Seq(STRING)
  BY DEF IsGrant
<1> DEFINE a == TrimSpace(SubjectOf(g))
           b == TrimSpace(g.action)
           c == TrimSpace(g.role)
           h == [g EXCEPT !.subject = a, !.action = b, !.role = c]
<1>2. Tidy(g) = h
  BY Zenon DEF Tidy
<1> HIDE DEF a, b, c
<1>3. /\ h.subject = a /\ h.action = b /\ h.role = c
      /\ h.subjectType = g.subjectType /\ h.subjectID = g.subjectID
      /\ h.resource = g.resource /\ h.actions = g.actions /\ h.expires = g.expires
  BY <1>1
<1>4. h = [f \in F |-> h[f]]
  BY <1>1
<1> HIDE DEF h
<1> QED
  BY <1>1, <1>2, <1>3, <1>4, Zenon DEF IsGrant, a, b, c

LEMMA SameGrant ==
    ASSUME NEW g, NEW h, IsGrant(g), IsGrant(h),
           g.subject = h.subject, g.action = h.action, g.role = h.role,
           g.subjectType = h.subjectType, g.subjectID = h.subjectID,
           g.resource = h.resource, g.actions = h.actions, g.expires = h.expires
    PROVE  g = h
<1> DEFINE F == {"subject", "subjectType", "subjectID", "resource", "action", "role", "actions", "expires"}
<1>1. \A f \in F : g[f] = h[f]
  OBVIOUS
<1>2. g = [f \in F |-> g[f]] /\ h = [f \in F |-> h[f]]
  BY DEF IsGrant
<1> QED
  BY <1>1, <1>2

\* Normalising a second time, as GrantRole does after Grant, changes nothing.
LEMMA NormalizeAgain ==
    ASSUME NEW g, IsGrant(g), NormalizeGrant(g).err = "",
           \A s \in {SubjectOf(g), g.action, g.role} : TrimSpace(TrimSpace(s)) = TrimSpace(s)
    PROVE  Tidy(Tidy(g)) = Tidy(g) /\ NormalizeGrant(Tidy(g)) = NormalizeGrant(g)
<1>1. Tidy(g).subject # ""
  BY NormalizeIs, GrantPasses, Zenon
<1>2. SubjectOf(Tidy(g)) = TrimSpace(SubjectOf(g))
  BY <1>1, TidyFields, Zenon DEF SubjectOf
<1>3. IsGrant(Tidy(g)) /\ IsGrant(Tidy(Tidy(g)))
  BY TidyFields, Zenon
<1>4. Tidy(Tidy(g)) = Tidy(g)
  <2>1. /\ Tidy(Tidy(g)).subject = Tidy(g).subject
        /\ Tidy(Tidy(g)).action = Tidy(g).action
        /\ Tidy(Tidy(g)).role = Tidy(g).role
    BY <1>2, <1>3, TidyFields, Zenon
  <2>2. /\ Tidy(Tidy(g)).subjectType = Tidy(g).subjectType /\ Tidy(Tidy(g)).subjectID = Tidy(g).subjectID
        /\ Tidy(Tidy(g)).resource = Tidy(g).resource /\ Tidy(Tidy(g)).actions = Tidy(g).actions
        /\ Tidy(Tidy(g)).expires = Tidy(g).expires
    BY <1>3, TidyFields, Zenon
  <2> QED
    BY <1>3, <2>1, <2>2, SameGrant, Zenon
<1> QED
  BY <1>4, NormalizeParts, Zenon

\* What GrantRole and Revoke expand the role of a tidy grant into.
Expanded(f, n) ==
    LET e == RoleActionsForResource(f, n.resource, n.role, n.actions)
    IN  [subject |-> n.subject, actions |-> e.actions, err |-> e.err]
Rejected(err) == [subject |-> "", actions |-> <<>>, err |-> err]
Explicit(n) == [subject |-> n.subject, actions |-> <<n.action>>, err |-> ""]

LEMMA GrantRoleIs ==
    ASSUME NEW f, NEW g
    PROVE  GrantRoleActions(f, g) =
              IF GrantError(Tidy(g)) # "" THEN Rejected(GrantError(Tidy(g))) ELSE Expanded(f, Tidy(g))
BY NormalizeIs, Zenon DEF GrantRoleActions, Rejected, Expanded

LEMMA GrantIs ==
    ASSUME NEW f, NEW g
    PROVE  GrantActions(f, g) =
              IF GrantError(Tidy(g)) # "" THEN Rejected(GrantError(Tidy(g)))
              ELSE IF Tidy(g).action = "" THEN GrantRoleActions(f, Tidy(g)) ELSE Explicit(Tidy(g))
BY NormalizeIs, Zenon DEF GrantActions, Rejected, Explicit

LEMMA ActionsAndError ==
    ASSUME NEW a, NEW e
    PROVE  LET r == [actions |-> a, err |-> e] IN r.actions = a /\ r.err = e
OBVIOUS

LEMMA RevokeIs ==
    ASSUME NEW f, NEW g
    PROVE  RevokeActions(f, g) =
              IF GrantError(Tidy(g)) # "" THEN Rejected(GrantError(Tidy(g)))
              ELSE IF Tidy(g).action = "" THEN Expanded(f, Tidy(g)) ELSE Explicit(Tidy(g))
<1> DEFINE n == NormalizeGrant(g)
           e == IF n.grant.action # "" THEN [actions |-> <<n.grant.action>>, err |-> ""]
                ELSE RoleActionsForResource(f, n.grant.resource, n.grant.role, n.grant.actions)
<1>1. RevokeActions(f, g) = IF n.err # "" THEN [subject |-> "", actions |-> <<>>, err |-> n.err]
                            ELSE [subject |-> n.grant.subject, actions |-> e.actions, err |-> e.err]
  BY Zenon DEF RevokeActions
<1>2. n.grant = Tidy(g) /\ n.err = GrantError(Tidy(g))
  BY NormalizeIs, Zenon
<1>3. Tidy(g).action # "" => e.actions = <<Tidy(g).action>> /\ e.err = ""
  BY <1>2, ActionsAndError, Zenon
<1>4. Tidy(g).action = "" => e = RoleActionsForResource(f, Tidy(g).resource, Tidy(g).role, Tidy(g).actions)
  BY <1>2, Zenon
<1> HIDE DEF n, e
<1> QED
  BY <1>1, <1>2, <1>3, <1>4, Zenon DEF Rejected, Expanded, Explicit

LEMMA GrantTrims ==
    ASSUME Asked, kind = "grant"
    PROVE  /\ IsGrant(call) /\ TrimSpace("") = ""
           /\ \A s \in {SubjectOf(call), call.action, call.role, Subject(call.subjectType, call.subjectID)} \cup Range(call.actions) :
                 TrimSpace(TrimSpace(s)) = TrimSpace(s)
<1>1. SubjectOf(call) \in {call.subject, Subject(call.subjectType, call.subjectID)}
  BY Zenon DEF SubjectOf
<1>2. IsGrant(call) /\ \A s \in Names(call) : TrimSpace(TrimSpace(s)) = TrimSpace(s)
  BY GrantAssumption, Zenon DEF Asked
<1>3. TrimSpace("") = ""
  BY GrantAssumption, Zenon
<1> QED
  BY <1>1, <1>2, <1>3, Zenon DEF Names

LEMMA RevokesMirrorGrants == Asked => RevokeMirrorsGrant
<1> SUFFICES ASSUME Asked, kind = "grant"
             PROVE  GrantActions(fn, call) = RevokeActions(fn, call)
  BY DEF RevokeMirrorsGrant
<1>1. ASSUME GrantError(Tidy(call)) = ""
      PROVE  GrantRoleActions(fn, Tidy(call)) = Expanded(fn, Tidy(call))
  <2>1. NormalizeGrant(call).err = ""
    BY <1>1, NormalizeIs, Zenon
  <2>2. Tidy(Tidy(call)) = Tidy(call)
    BY <2>1, GrantTrims, NormalizeAgain, Zenon
  <2> QED
    BY <1>1, <2>2, GrantRoleIs, Zenon
<1> QED
  BY <1>1, GrantIs, RevokeIs, Zenon

\* The grant that a share request stands for.
Shared(req) ==
    [subject     |-> Subject(req.subjectType, req.subjectID),
     subjectType |-> req.subjectType,
     subjectID   |-> req.subjectID,
     resource    |-> req.resource,
     action      |-> "",
     role        |-> req.role,
     actions     |-> req.actions,
     expires     |-> req.expires]

ShareError(req) ==
    FirstError(<< <<req.subjectType = "", "ErrEmptySubject">>,
                  <<req.subjectType # "public" /\ req.subjectID = "", "ErrEmptySubject">>,
                  <<req.resource = "", "ErrEmptyResource">>,
                  <<req.role = "" /\ req.actions = <<>>, "ErrEmptyRole">> >>)

LEMMA SharePasses ==
    ASSUME NEW req
    PROVE  ShareError(req) = "" <=>
              /\ req.subjectType # "" /\ (req.subjectType = "public" \/ req.subjectID # "")
              /\ req.resource # "" /\ ~(req.role = "" /\ req.actions = <<>>)
<1> DEFINE p1 == <<req.subjectType = "", "ErrEmptySubject">>
           p2 == <<req.subjectType # "public" /\ req.subjectID = "", "ErrEmptySubject">>
           p3 == <<req.resource = "", "ErrEmptyResource">>
           p4 == <<req.role = "" /\ req.actions = <<>>, "ErrEmptyRole">>
<1>1. ShareError(req) = FirstError(<<p1, p2, p3, p4>>)
  BY Zenon DEF ShareError
<1>2. p1[2] # "" /\ p2[2] # "" /\ p3[2] # "" /\ p4[2] # ""
  BY PairParts
<1>3. /\ p1[1] = (req.subjectType = "") /\ p2[1] = (req.subjectType # "public" /\ req.subjectID = "")
      /\ p3[1] = (req.resource = "") /\ p4[1] = (req.role = "" /\ req.actions = <<>>)
  BY PairParts, Zenon
<1> HIDE DEF p1, p2, p3, p4
<1>4. FirstError(<<p1, p2, p3, p4>>) = "" <=> ~p1[1] /\ ~p2[1] /\ ~p3[1] /\ ~p4[1]
  BY <1>2, FourChecks, Zenon
<1> QED
  BY <1>1, <1>3, <1>4, Zenon

LEMMA ShareIs ==
    ASSUME NEW f, NEW req
    PROVE  ShareActions(f, req) =
              IF ShareError(req) # "" THEN Rejected(ShareError(req))
              ELSE IF GrantError(Tidy(Shared(req))) # "" THEN Rejected(GrantError(Tidy(Shared(req))))
              ELSE GrantRoleActions(f, Tidy(Shared(req)))
<1> DEFINE n == NormalizeShare(req)
<1>1. n = IF ShareError(req) # "" THEN [grant |-> Shared(req), err |-> ShareError(req)]
          ELSE NormalizeGrant(Shared(req))
  BY Zenon DEF NormalizeShare, ShareError, Shared
<1>2. ShareActions(f, req) = IF n.err # "" THEN Rejected(n.err) ELSE GrantRoleActions(f, n.grant)
  BY Zenon DEF ShareActions, Rejected
<1> HIDE DEF n
<1>3. ShareError(req) # "" => n.err = ShareError(req)
  BY <1>1, GrantFields, Zenon
<1>4. ShareError(req) = "" => n.grant = Tidy(Shared(req)) /\ n.err = GrantError(Tidy(Shared(req)))
  BY <1>1, NormalizeIs, Zenon
<1> QED
  BY <1>2, <1>3, <1>4, Zenon

LEMMA SharedFields ==
    ASSUME NEW req, req.actions \in Seq(STRING)
    PROVE  /\ Shared(req).subject = Subject(req.subjectType, req.subjectID)
           /\ Shared(req).subjectType = req.subjectType /\ Shared(req).subjectID = req.subjectID
           /\ Shared(req).resource = req.resource /\ Shared(req).action = "" /\ Shared(req).role = req.role
           /\ Shared(req).actions = req.actions /\ Shared(req).expires = req.expires
           /\ IsGrant(Shared(req))
BY DEF Shared, IsGrant

LEMMA RequestFields ==
    ASSUME NEW b, NEW c, NEW d, NEW e, NEW k, NEW x
    PROVE  LET q == [subjectType |-> b, subjectID |-> c, resource |-> d, role |-> e, actions |-> k, expires |-> x]
           IN  /\ q.subjectType = b /\ q.subjectID = c /\ q.resource = d
               /\ q.role = e /\ q.actions = k /\ q.expires = x
OBVIOUS

LEMMA BareFields ==
    ASSUME NEW g, IsGrant(g)
    PROVE  LET h == [g EXCEPT !.subject = "", !.action = ""]
           IN  /\ h.subject = "" /\ h.subjectType = g.subjectType /\ h.subjectID = g.subjectID
               /\ h.resource = g.resource /\ h.action = "" /\ h.role = g.role /\ h.actions = g.actions
               /\ h.expires = g.expires
               /\ IsGrant(h)
<1> DEFINE F == {"subject", "subjectType", "subjectID", "resource", "action", "role", "actions", "expires"}
           h == [g EXCEPT !.subject = "", !.action = ""]
<1>1. DOMAIN g = F /\ g.actions \in Seq(STRING)
  BY DEF IsGrant
<1>2. /\ h.subject = "" /\ h.subjectType = g.subjectType /\ h.subjectID = g.subjectID
      /\ h.resource = g.resource /\ h.action = "" /\ h.role = g.role /\ h.actions = g.actions
      /\ h.expires = g.expires
  BY <1>1
<1>3. h = [f \in F |-> h[f]]
  BY <1>1
<1> HIDE DEF h
<1>4. IsGrant(h)
  BY <1>1, <1>2, <1>3, Zenon DEF IsGrant
<1> QED
  BY <1>2, <1>4, Zenon DEF h

LEMMA OutcomeFields ==
    ASSUME NEW r, NEW a, NEW b, NEW c, r = [subject |-> a, actions |-> b, err |-> c]
    PROVE  r.subject = a /\ r.actions = b /\ r.err = c
OBVIOUS

LEMMA RejectedWith ==
    ASSUME NEW e
    PROVE  Rejected(e).err = e
BY OutcomeFields DEF Rejected

LEMMA SharesAreGrants == Asked => ShareIsRoleGrant
<1> DEFINE req == ShareOf(call)
           h == [call EXCEPT !.subject = "", !.action = ""]
           T == Tidy(h)
           s == ShareActions(fn, req)
           g == GrantRoleActions(fn, h)
           named == call.subjectType # "" /\ (call.subjectType = "public" \/ call.subjectID # "")
<1> SUFFICES ASSUME Asked, kind = "grant"
             PROVE  (s.err = "" => s = g) /\ (g.err = "" /\ named => s = g)
  BY Zenon DEF ShareIsRoleGrant
<1> DEFINE sub == Subject(call.subjectType, call.subjectID)
<1>1. /\ IsGrant(call) /\ TrimSpace("") = ""
      /\ TrimSpace(TrimSpace(sub)) = TrimSpace(sub) /\ TrimSpace(TrimSpace(call.role)) = TrimSpace(call.role)
  BY GrantTrims, Zenon
<1>2. /\ req.subjectType = call.subjectType /\ req.subjectID = call.subjectID /\ req.resource = call.resource
      /\ req.role = call.role /\ req.actions = call.actions /\ req.expires = call.expires
  BY RequestFields, Zenon DEF ShareOf
<1>3. /\ Shared(req).subject = sub /\ Shared(req).subjectType = call.subjectType
      /\ Shared(req).subjectID = call.subjectID /\ Shared(req).resource = call.resource
      /\ Shared(req).action = "" /\ Shared(req).role = call.role /\ Shared(req).actions = call.actions
      /\ Shared(req).expires = call.expires /\ IsGrant(Shared(req))
  <2>1. call.actions \in Seq(STRING)
    BY <1>1, Zenon DEF IsGrant
  <2> QED
    BY <1>2, <2>1, SharedFields
<1>4. /\ h.subject = "" /\ h.subjectType = call.subjectType /\ h.subjectID = call.subjectID
      /\ h.resource = call.resource /\ h.action = "" /\ h.role = call.role /\ h.actions = call.actions
      /\ h.expires = call.expires /\ IsGrant(h)
  BY <1>1, BareFields, Zenon
<1> HIDE DEF req, h, sub
<1>5. SubjectOf(Shared(req)) = sub
  BY <1>3, Zenon DEF SubjectOf, sub
<1>6. ASSUME call.subjectType # ""
      PROVE  Tidy(Shared(req)) = T
  <2>1. SubjectOf(h) = sub
    BY <1>4, <1>6, Zenon DEF SubjectOf, sub
  <2>2. IsGrant(T) /\ IsGrant(Tidy(Shared(req)))
    BY <1>3, <1>4, TidyFields, Zenon
  <2>3. /\ T.subject = TrimSpace(sub) /\ T.action = TrimSpace("") /\ T.role = TrimSpace(call.role)
        /\ T.subjectType = call.subjectType /\ T.subjectID = call.subjectID
        /\ T.resource = call.resource /\ T.actions = call.actions /\ T.expires = call.expires
    BY <1>4, <2>1, TidyFields, Zenon
  <2> DEFINE U == Tidy(Shared(req))
  <2>4. /\ U.subject = TrimSpace(sub) /\ U.action = TrimSpace("") /\ U.role = TrimSpace(call.role)
        /\ U.subjectType = call.subjectType /\ U.subjectID = call.subjectID
        /\ U.resource = call.resource /\ U.actions = call.actions /\ U.expires = call.expires
    BY <1>3, <1>5, TidyFields, Zenon
  <2> HIDE DEF U, T
  <2>5. U = T
    BY <2>2, <2>3, <2>4, SameGrant, Zenon DEF U
  <2> QED
    BY <2>5, Zenon DEF U
<1>7. g = IF GrantError(T) # "" THEN Rejected(GrantError(T)) ELSE Expanded(fn, T)
  BY GrantRoleIs, Zenon
<1>8. ASSUME ShareError(req) = ""
      PROVE  s = g
  <2>1. call.subjectType # ""
    BY <1>2, <1>8, SharePasses, Zenon
  <2>2. Tidy(Shared(req)) = T
    BY <1>6, <2>1, Zenon
  <2>3. ASSUME GrantError(T) = ""
        PROVE  GrantRoleActions(fn, T) = Expanded(fn, T)
    <3>1. NormalizeGrant(Shared(req)).err = ""
      BY <2>2, <2>3, NormalizeIs, Zenon
    <3>2. \A t \in {SubjectOf(Shared(req)), Shared(req).action, Shared(req).role} : TrimSpace(TrimSpace(t)) = TrimSpace(t)
      BY <1>1, <1>3, <1>5, Zenon
    <3>3. Tidy(T) = T
      BY <1>3, <2>2, <3>1, <3>2, NormalizeAgain, Zenon
    <3> QED
      BY <2>3, <3>3, GrantRoleIs, Zenon
  <2> HIDE DEF T
  <2> QED
    BY <1>7, <1>8, <2>2, <2>3, ShareIs, Zenon
<1>9. s.err = "" => ShareError(req) = ""
  BY ShareIs, RejectedWith, Zenon
<1>10. g.err = "" /\ named => ShareError(req) = ""
  <2> SUFFICES ASSUME g.err = "", named
               PROVE  ShareError(req) = ""
    BY Zenon
  <2>1. GrantError(T) = ""
    BY <1>7, RejectedWith, Zenon
  <2>2. T.resource = call.resource /\ T.action = "" /\ T.role = TrimSpace(call.role) /\ T.actions = call.actions
    BY <1>1, <1>4, TidyFields, Zenon
  <2>3. call.resource # "" /\ ~(call.role = "" /\ call.actions = <<>>)
    BY <1>1, <2>1, <2>2, GrantPasses, Zenon
  <2> QED
    BY <1>2, <2>3, SharePasses, Zenon
<1> QED
  BY <1>8, <1>9, <1>10, Zenon

\* Actions that Casdoor is asked for once each.
Proper(s) == IsInjective(s) /\ \A a \in Range(s) : a # "" /\ a = TrimSpace(a)

LEMMA CleanedIsProper ==
    ASSUME NEW in, NEW out, Cleaned(in, out), \A s \in Range(in) : TrimSpace(TrimSpace(s)) = TrimSpace(s)
    PROVE  Proper(out)
<1> DEFINE A == {TrimSpace(in[i]) : i \in DOMAIN in} \ {""}
<1>1. out \in Seq(A) /\ IsInjective(out)
  BY Zenon DEF Cleaned
<1>2. \A a \in A : a # "" /\ a = TrimSpace(a)
  BY Zenon DEF Range
<1> HIDE DEF A
<1>3. Range(out) \subseteq A
  BY <1>1 DEF Range
<1> QED
  BY <1>1, <1>2, <1>3, Zenon DEF Proper

LEMMA OneElement ==
    ASSUME NEW a
    PROVE  IsInjective(<<a>>) /\ Range(<<a>>) = {a}
BY DEF IsInjective, Range

LEMMA OneAction ==
    ASSUME NEW a, a # "", a = TrimSpace(a)
    PROVE  Proper(<<a>>)
<1>1. \A b \in {a} : b # "" /\ b = TrimSpace(b)
  BY Zenon
<1> QED
  BY <1>1, OneElement, Zenon DEF Proper

LEMMA TwoActions ==
    ASSUME NEW A, NEW a \in A, NEW b \in A, a # b
    PROVE  IsInjective(<<a, b>>) /\ Range(<<a, b>>) = {a, b} /\ <<a, b>> \in Seq(A)
BY DEF IsInjective, Range

LEMMA ThreeActions ==
    ASSUME NEW A, NEW a \in A, NEW b \in A, NEW c \in A, a # b, a # c, b # c
    PROVE  IsInjective(<<a, b, c>>) /\ Range(<<a, b, c>>) = {a, b, c} /\ <<a, b, c>> \in Seq(A)
BY DEF IsInjective, Range

LEMMA TwoLists ==
    ASSUME NEW A, NEW s \in Seq(A), NEW t \in Seq(A), IsInjective(s), IsInjective(t), Range(s) \cap Range(t) = {}
    PROVE  IsInjective(s \o t) /\ Range(s \o t) = Range(s) \cup Range(t)
<1> DEFINE m == Len(s)
           n == Len(t)
           u == s \o t
<1>1. /\ DOMAIN s = 1..m /\ DOMAIN t = 1..n /\ DOMAIN u = 1..(m + n) /\ m \in Nat /\ n \in Nat
      /\ \A i \in 1..m : u[i] = s[i]
      /\ \A i \in (m + 1)..(m + n) : u[i] = t[i - m]
  OBVIOUS
<1> HIDE DEF m, n, u
<1>2. \A i \in 1..(m + n) : i \in 1..m \/ (i \in (m + 1)..(m + n) /\ i - m \in 1..n)
  BY <1>1
<1>3. ASSUME NEW i \in DOMAIN u, NEW j \in DOMAIN u, u[i] = u[j]
      PROVE  i = j
  <2>1. \A k \in 1..m : \A l \in 1..n : s[k] # t[l]
    BY <1>1, Zenon DEF Range
  <2>2. CASE i \in 1..m /\ j \in 1..m
    BY <1>1, <1>3, <2>2, Zenon DEF IsInjective
  <2>3. CASE i \in (m + 1)..(m + n) /\ j \in (m + 1)..(m + n)
    <3>1. i - m \in 1..n /\ j - m \in 1..n /\ u[i] = t[i - m] /\ u[j] = t[j - m]
      BY <1>1, <2>3
    <3>2. i - m = j - m
      BY <1>1, <1>3, <3>1, Zenon DEF IsInjective
    <3> QED
      BY <1>1, <2>3, <3>2
  <2>4. CASE i \in 1..m /\ j \in (m + 1)..(m + n)
    <3>1. j - m \in 1..n /\ u[i] = s[i] /\ u[j] = t[j - m]
      BY <1>1, <2>4
    <3> QED
      BY <1>3, <2>1, <2>4, <3>1, Zenon
  <2>5. CASE i \in (m + 1)..(m + n) /\ j \in 1..m
    <3>1. i - m \in 1..n /\ u[i] = t[i - m] /\ u[j] = s[j]
      BY <1>1, <2>5
    <3> QED
      BY <1>3, <2>1, <2>5, <3>1, Zenon
  <2> QED
    BY <1>1, <1>2, <2>2, <2>3, <2>4, <2>5, Zenon
<1>4. Range(u) \subseteq Range(s) \cup Range(t)
  BY <1>1, <1>2, Zenon DEF Range
<1>5. ASSUME NEW i \in 1..n
      PROVE  t[i] \in Range(u)
  <2>1. i + m \in (m + 1)..(m + n) /\ i + m \in 1..(m + n) /\ (i + m) - m = i
    BY <1>1
  <2>2. u[i + m] = t[i]
    BY <1>1, <2>1
  <2> QED
    BY <1>1, <2>1, <2>2, Zenon DEF Range
<1>6. ASSUME NEW i \in 1..m
      PROVE  s[i] \in Range(u)
  <2>1. i \in 1..(m + n)
    BY <1>1
  <2> QED
    BY <1>1, <2>1, Zenon DEF Range
<1>7. Range(s) \cup Range(t) \subseteq Range(u)
  BY <1>1, <1>5, <1>6, Zenon DEF Range
<1>8. IsInjective(u)
  BY <1>3, Zenon DEF IsInjective
<1> QED
  BY <1>4, <1>7, <1>8 DEF u

LEMMA RoleLists ==
    /\ IsInjective(ViewerActions) /\ IsInjective(EditorActions) /\ IsInjective(OwnerActions)
    /\ Range(ViewerActions) \subseteq Range(OwnerActions) /\ Range(EditorActions) \subseteq Range(OwnerActions)
    /\ "" \notin Range(OwnerActions)
<1> DEFINE v == <<"skill.read", "skill.download">>
           w == <<"skill.update", "skill.upload", "skill.publish">>
           x == <<"skill.share", "skill.delete">>
           A == {"skill.read", "skill.download", "skill.update", "skill.upload", "skill.publish",
                 "skill.share", "skill.delete"}
<1>1. IsInjective(v) /\ Range(v) = {"skill.read", "skill.download"} /\ v \in Seq(A)
  BY TwoActions, Zenon
<1>2. /\ IsInjective(w) /\ Range(w) = {"skill.update", "skill.upload", "skill.publish"} /\ w \in Seq(A)
      /\ IsInjective(x) /\ Range(x) = {"skill.share", "skill.delete"} /\ x \in Seq(A)
  <2>1. IsInjective(w) /\ Range(w) = {"skill.update", "skill.upload", "skill.publish"} /\ w \in Seq(A)
    BY ThreeActions, Zenon
  <2>2. IsInjective(x) /\ Range(x) = {"skill.share", "skill.delete"} /\ x \in Seq(A)
    BY TwoActions, Zenon
  <2> QED
    BY <2>1, <2>2, Zenon
<1>3. ViewerActions = v /\ EditorActions = v \o w /\ OwnerActions = (v \o w) \o x
  BY Zenon DEF ViewerActions, EditorActions, OwnerActions
<1> HIDE DEF v, w, x, A
<1>4. Range(v) \cap Range(w) = {}
  BY <1>1, <1>2
<1>5. v \o w \in Seq(A) /\ IsInjective(v \o w) /\ Range(v \o w) = Range(v) \cup Range(w)
  BY <1>1, <1>2, <1>4, TwoLists
<1> DEFINE y == v \o w
<1> HIDE DEF y
<1>6. y \in Seq(A) /\ IsInjective(y) /\ Range(y) \cap Range(x) = {}
  BY <1>1, <1>2, <1>5 DEF y
<1>7. IsInjective(y \o x) /\ Range(y \o x) = Range(y) \cup Range(x)
  BY <1>2, <1>6, TwoLists
<1>8. "" \notin Range(y) /\ "" \notin Range(x)
  BY <1>1, <1>2, <1>5 DEF y
<1> QED
  BY <1>1, <1>2, <1>3, <1>5, <1>7, <1>8 DEF y

LEMMA RolesAreProper == Proper(ViewerActions) /\ Proper(EditorActions) /\ Proper(OwnerActions)
<1>1. \A a \in Range(OwnerActions) : a = TrimSpace(a)
  BY GrantAssumption, Zenon
<1> QED
  BY <1>1, RoleLists, Zenon DEF Proper

LEMMA AnswerFields ==
    ASSUME NEW r, NEW a, NEW e, r = [actions |-> a, err |-> e]
    PROVE  r.actions = a /\ r.err = e
OBVIOUS

LEMMA ErrorTells ==
    ASSUME NEW r, NEW a, NEW e, r.err # e
    PROVE  r # [actions |-> a, err |-> e]
OBVIOUS

LEMMA DefaultIsProper ==
    ASSUME NEW res, NEW role, NEW custom \in Seq(STRING),
           \A s \in Range(custom) : TrimSpace(TrimSpace(s)) = TrimSpace(s),
           DefaultRoleActionMapper(res, role, custom).err = ""
    PROVE  Proper(DefaultRoleActionMapper(res, role, custom).actions)
<1> DEFINE e == DefaultRoleActionMapper(res, role, custom)
<1>1. CASE custom # <<>>
  <2>1. e = [actions |-> cleanActions(custom), err |-> ""]
    BY <1>1, Zenon DEF DefaultRoleActionMapper
  <2>2. e.actions = cleanActions(custom)
    BY <2>1, ActionsAndError, Zenon
  <2>3. Cleaned(custom, cleanActions(custom))
    BY ActionsAreClean, Zenon
  <2>4. Proper(cleanActions(custom))
    BY <2>3, CleanedIsProper
  <2> QED
    BY <2>2, <2>4, Zenon
<1>2. CASE custom = <<>>
  <2>1. \/ e = [actions |-> ViewerActions, err |-> ""]
        \/ e = [actions |-> EditorActions, err |-> ""]
        \/ e = [actions |-> OwnerActions,  err |-> ""]
        \/ e = [actions |-> <<>>, err |-> "ErrEmptyRole"]
        \/ e = [actions |-> <<>>, err |-> "ErrUnsupportedRole"]
    BY <1>2 DEF DefaultRoleActionMapper
  <2>2. e.err = ""
    OBVIOUS
  <2> HIDE DEF e
  <2>3. e.actions = ViewerActions \/ e.actions = EditorActions \/ e.actions = OwnerActions
    <3>1. e # [actions |-> <<>>, err |-> "ErrEmptyRole"]
      BY <2>2, ErrorTells
    <3>2. e # [actions |-> <<>>, err |-> "ErrUnsupportedRole"]
      BY <2>2, ErrorTells
    <3>3. CASE e = [actions |-> ViewerActions, err |-> ""]
      BY <3>3, AnswerFields, Zenon
    <3>4. CASE e = [actions |-> EditorActions, err |-> ""]
      BY <3>4, AnswerFields, Zenon
    <3>5. CASE e = [actions |-> OwnerActions, err |-> ""]
      BY <3>5, AnswerFields, Zenon
    <3> QED
      BY <2>1, <3>1, <3>2, <3>3, <3>4, <3>5, Zenon
  <2>4. Proper(e.actions)
    BY <2>3, RolesAreProper, Zenon
  <2> QED
    BY <2>4, Zenon DEF e
<1> QED
  BY <1>1, <1>2

LEMMA ExpandedIsProper ==
    ASSUME NEW n, n.actions \in Seq(STRING),
           \A s \in Range(n.actions) : TrimSpace(TrimSpace(s)) = TrimSpace(s),
           Expanded(DefaultMapper, n).err = ""
    PROVE  Proper(Expanded(DefaultMapper, n).actions)
<1> DEFINE e == DefaultRoleActionMapper(n.resource, n.role, n.actions)
           x == Expanded(DefaultMapper, n)
           u == n.subject
           a == e.actions
           m == e.err
<1>1. x = [subject |-> u, actions |-> a, err |-> m]
  BY Zenon DEF Expanded, RoleActionsForResource
<1> HIDE DEF x, e, u, a, m
<1>2. x.actions = e.actions /\ x.err = e.err
  <2>1. x.actions = a /\ x.err = m
    BY <1>1, OutcomeFields, Zenon
  <2> QED
    BY <2>1, Zenon DEF a, m
<1>3. e.err = ""
  BY <1>2, Zenon DEF x
<1>4. Proper(e.actions)
  BY <1>3, DefaultIsProper, Zenon DEF e
<1> QED
  BY <1>2, <1>4, Zenon DEF x

LEMMA ExpansionsAreClean == Asked => CleanExpansion
<1> DEFINE T == Tidy(call)
<1> SUFFICES ASSUME Asked, kind = "grant",
                    NEW e \in {GrantActions(fn, call), GrantRoleActions(fn, call), RevokeActions(fn, call)},
                    e.err = ""
             PROVE  e.subject # "" /\ e.subject = TrimSpace(e.subject) /\ (fn = DefaultMapper => Proper(e.actions))
  BY Zenon DEF CleanExpansion, Proper
<1>1. GrantActions(fn, call) = RevokeActions(fn, call)
  BY RevokesMirrorGrants, Zenon DEF RevokeMirrorsGrant
<1>2. GrantError(T) = ""
  BY GrantRoleIs, RevokeIs, <1>1, RejectedWith, Zenon
<1>3. e = Expanded(fn, T) \/ (e = Explicit(T) /\ T.action # "")
  BY <1>1, <1>2, GrantRoleIs, RevokeIs, Zenon
<1>4. IsGrant(call) /\ \A s \in {SubjectOf(call), call.action} \cup Range(call.actions) : TrimSpace(TrimSpace(s)) = TrimSpace(s)
  BY GrantTrims, Zenon
<1>5. T.subject = TrimSpace(SubjectOf(call)) /\ T.action = TrimSpace(call.action) /\ T.actions = call.actions
  BY <1>4, TidyFields, Zenon
<1> HIDE DEF T
<1>6. T.subject # "" /\ T.subject = TrimSpace(T.subject)
  BY <1>2, <1>4, <1>5, GrantPasses, Zenon
<1>7. e.subject = T.subject
  <2>1. Expanded(fn, T).subject = T.subject
    BY OutcomeFields, Zenon DEF Expanded
  <2>2. Explicit(T).subject = T.subject
    BY OutcomeFields, Zenon DEF Explicit
  <2> QED
    BY <1>3, <2>1, <2>2, Zenon
<1>8. ASSUME e = Explicit(T), T.action # ""
      PROVE  Proper(e.actions)
  <2>1. e.actions = <<T.action>>
    BY <1>8 DEF Explicit
  <2>2. T.action = TrimSpace(T.action)
    BY <1>4, <1>5, Zenon
  <2>3. Proper(<<T.action>>)
    BY <1>8, <2>2, OneAction, Zenon
  <2> QED
    BY <2>1, <2>3, Zenon
<1>9. ASSUME e = Expanded(fn, T), fn = DefaultMapper
      PROVE  Proper(e.actions)
  <2>1. T.actions \in Seq(STRING)
    BY <1>4, <1>5, Zenon DEF IsGrant
  <2> QED
    BY <1>4, <1>5, <1>9, <2>1, ExpandedIsProper, Zenon
<1> QED
  BY <1>3, <1>6, <1>7, <1>8, <1>9, Zenon

(***************************************************************************)
(* The entry points of the permission manager agree, for every request and *)
(* every mapper: Grant, GrantRole, Share and Revoke come down to the same  *)
(* rules or the same error, and under the default mapper cleanActions      *)
(* leaves no blank action and none twice.                                  *)
(***************************************************************************)
THEOREM EntrySafety == Spec => []EntryPointsAgree
<1>1. Asked => EntryPointsAgree
  BY RevokesMirrorGrants, SharesAreGrants, ExpansionsAreClean DEF EntryPointsAgree
<1> QED
  BY <1>1, QuestionStays, PTL

-----------------------------------------------------------------------------
(* DSNs *)

\* The setting that counts for a key.
IsLast(s, k, i) == i \in DOMAIN s /\ s[i].key = k /\ \A j \in DOMAIN s : s[j].key = k => j <= i

\* A DSN, with whatever values.
Settled(dsn) ==
    /\ dsn = [form |-> dsn.form, settings |-> dsn.settings]
    /\ \E X : dsn.settings \in Seq(X)

\* A bounded set of numbers has a greatest one.
LEMMA MaxExists ==
    ASSUME NEW n \in Nat, NEW S, S \subseteq 1..n, S # {}
    PROVE  \E m \in S : \A i \in S : i <= m
<1> DEFINE T == {n - i : i \in S}
<1>1. T \subseteq Nat /\ T # {}
  <2>1. \A i \in S : n - i \in Nat
    OBVIOUS
  <2> QED
    BY <2>1, Zenon
<1>2. Min(T) \in T /\ \A t \in T : Min(T) <= t
  BY <1>1, MinExists
<1>3. PICK m \in S : Min(T) = n - m
  BY <1>2
<1>4. \A i \in S : n - m <= n - i
  BY <1>2, <1>3
<1> QED
  BY <1>4

LEMMA MaxIs ==
    ASSUME NEW S, S \subseteq Int, NEW m \in S, \A i \in S : i <= m
    PROVE  Max(S) = m
<1>1. Max(S) \in S /\ \A i \in S : Max(S) >= i
  BY DEF Max
<1>2. Max(S) \in Int /\ m \in Int /\ m <= Max(S) /\ Max(S) <= m
  BY <1>1
<1> QED
  BY <1>2

LEMMA SettledDomain ==
    ASSUME NEW d, Settled(d)
    PROVE  Len(d.settings) \in Nat /\ DOMAIN d.settings = 1..Len(d.settings)
<1>1. PICK X : d.settings \in Seq(X)
  BY DEF Settled
<1> QED
  BY <1>1

LEMMA LastIn ==
    ASSUME NEW n \in Nat, NEW s, DOMAIN s = 1..n, NEW k \in {s[i].key : i \in DOMAIN s}
    PROVE  \E i : IsLast(s, k, i)
<1> DEFINE S == {i \in DOMAIN s : s[i].key = k}
<1>1. S \subseteq 1..n /\ S # {}
  BY Zenon
<1>2. PICK m \in S : \A i \in S : i <= m
  BY <1>1, MaxExists, Zenon
<1> QED
  BY <1>2, Zenon DEF IsLast

LEMMA LastExists ==
    ASSUME NEW d, Settled(d), NEW k \in Keys(d)
    PROVE  \E i : IsLast(d.settings, k, i)
  BY SettledDomain, LastIn, Zenon DEF Keys

LEMMA MeaningAt ==
    ASSUME NEW d, Settled(d), NEW k, NEW i, IsLast(d.settings, k, i)
    PROVE  k \in Keys(d) /\ Meaning(d)[k] = d.settings[i].val
<1> DEFINE S == {j \in DOMAIN d.settings : d.settings[j].key = k}
<1>1. S \subseteq DOMAIN d.settings /\ i \in S /\ \A j \in S : j <= i
  BY Zenon DEF IsLast
<1>2. S \subseteq Int
  BY <1>1, SettledDomain
<1>3. Max(S) = i
  BY <1>1, <1>2, MaxIs, Zenon
<1>4. k \in Keys(d)
  BY Zenon DEF IsLast, Keys
<1> QED
  BY <1>3, <1>4, Zenon DEF Meaning

LEMMA MeaningDomain == \A d : DOMAIN Meaning(d) = Keys(d)
  BY Zenon DEF Meaning

\* A DSN means f when the last value of each key is f's.
LEMMA MeaningIs ==
    ASSUME NEW d, Settled(d), NEW K, NEW f, f = [k \in K |-> f[k]], Keys(d) = K,
           \A k \in K : \A i : IsLast(d.settings, k, i) => f[k] = d.settings[i].val
    PROVE  Meaning(d) = f
<1>1. ASSUME NEW k \in K
      PROVE  Meaning(d)[k] = f[k]
  <2>1. PICK i : IsLast(d.settings, k, i)
    BY LastExists, Zenon
  <2>2. Meaning(d)[k] = d.settings[i].val
    BY <2>1, MeaningAt
  <2> QED
    BY <2>1, <2>2, Zenon
<1>2. Meaning(d) = [k \in K |-> Meaning(d)[k]]
  BY Zenon DEF Meaning
<1> HIDE DEF Meaning
<1> QED
  BY <1>1, <1>2, Zenon

-----------------------------------------------------------------------------
LEMMA AppendIs ==
    ASSUME NEW X, NEW s \in Seq(X), NEW e
    PROVE  /\ Append(s, e) \in Seq(X \cup {e})
           /\ DOMAIN s = 1..Len(s) /\ Len(s) \in Nat
           /\ DOMAIN Append(s, e) = 1..(Len(s) + 1)
           /\ Append(s, e)[Len(s) + 1] = e
           /\ \A i \in DOMAIN s : i \in DOMAIN Append(s, e) /\ Append(s, e)[i] = s[i]
           /\ \A i \in DOMAIN Append(s, e) : i \in DOMAIN s \/ i = Len(s) + 1
<1>1. s \in Seq(X \cup {e})
  OBVIOUS
<1> QED
  BY <1>1

LEMMA DsnFields ==
    ASSUME NEW d, NEW f, NEW s, d = [form |-> f, settings |-> s]
    PROVE  d.form = f /\ d.settings = s
  OBVIOUS

LEMMA SettingFields ==
    \A k, v : [key |-> k, val |-> v].key = k /\ [key |-> k, val |-> v].val = v
  OBVIOUS

LEMMA WithSettings ==
    ASSUME NEW d, NEW s, d = [form |-> d.form, settings |-> d.settings]
    PROVE  [d EXCEPT !.settings = s] = [form |-> d.form, settings |-> s]
  OBVIOUS

LEMMA AddIs ==
    ASSUME NEW d, Settled(d), NEW k, NEW v, NEW e, e = [key |-> k, val |-> v]
    PROVE  /\ Settled(Add(d, k, v))
           /\ Add(d, k, v).form = d.form
           /\ Add(d, k, v).settings = Append(d.settings, e)
<1> DEFINE a == Add(d, k, v)
<1>1. a = [d EXCEPT !.settings = Append(d.settings, e)]
  BY Zenon DEF Add
<1>2. PICK X : d.settings \in Seq(X)
  BY Zenon DEF Settled
<1> HIDE DEF a
<1>3. a = [form |-> d.form, settings |-> Append(d.settings, e)]
  BY <1>1, WithSettings, Zenon DEF Settled
<1>4. Append(d.settings, e) \in Seq(X \cup {e})
  BY <1>2, AppendIs
<1>5. a.form = d.form /\ a.settings = Append(d.settings, e)
  BY <1>3, DsnFields, Zenon
<1>6. Settled(a)
  BY <1>3, <1>4, <1>5, Zenon DEF Settled
<1> QED
  BY <1>5, <1>6, Zenon DEF a

LEMMA AddSettled ==
    ASSUME NEW d, Settled(d), NEW k, NEW v
    PROVE  Settled(Add(d, k, v)) /\ Add(d, k, v).form = d.form
<1>1. PICK e : e = [key |-> k, val |-> v]
  BY Zenon
<1> QED
  BY <1>1, AddIs, Zenon

\* The settings of Add are those of the DSN and one behind them.
LEMMA AddSettings ==
    ASSUME NEW d, Settled(d), NEW k, NEW v
    PROVE  LET s == d.settings
               t == Add(d, k, v).settings
               n == Len(s) + 1
           IN  /\ \A i \in DOMAIN s : i \in DOMAIN t /\ t[i] = s[i] /\ i < n
               /\ n \in DOMAIN t /\ t[n].key = k /\ t[n].val = v
               /\ \A i \in DOMAIN t : i \in DOMAIN s \/ i = n
               /\ \A i \in DOMAIN t : i <= n
<1> DEFINE s == d.settings
           t == Add(d, k, v).settings
<1>1. PICK X : s \in Seq(X)
  BY Zenon DEF Settled
<1>e. PICK e : e = [key |-> k, val |-> v]
  BY Zenon
<1>2. t = Append(s, e)
  BY <1>e, AddIs, Zenon
<1>f. e.key = k /\ e.val = v
  BY <1>e, SettingFields, Zenon
<1> HIDE DEF s, t
<1>3. /\ DOMAIN s = 1..Len(s) /\ Len(s) \in Nat
      /\ DOMAIN t = 1..(Len(s) + 1)
      /\ t[Len(s) + 1] = e
      /\ \A i \in DOMAIN s : i \in DOMAIN t /\ t[i] = s[i]
      /\ \A i \in DOMAIN t : i \in DOMAIN s \/ i = Len(s) + 1
  BY <1>1, <1>2, AppendIs
<1>4. \A i \in DOMAIN s : i < Len(s) + 1
  BY <1>3
<1>5. \A i \in DOMAIN t : i <= Len(s) + 1
  BY <1>3
<1>6. Len(s) + 1 \in DOMAIN t
  BY <1>3
<1>7. t[Len(s) + 1].key = k /\ t[Len(s) + 1].val = v
  BY <1>3, <1>f, Zenon
<1> QED
  BY <1>3, <1>4, <1>5, <1>6, <1>7, Zenon DEF s, t

\* Add overwrites one key.
Overwrites(a, d, key, v) ==
    /\ Keys(a) = Keys(d) \cup {key}
    /\ Meaning(a)[key] = v
    /\ \A k \in Keys(d) : k # key => Meaning(a)[k] = Meaning(d)[k]

LEMMA AddMeaning ==
    ASSUME NEW d, Settled(d), NEW key, NEW v
    PROVE  Overwrites(Add(d, key, v), d, key, v)
<1> DEFINE a == Add(d, key, v)
           s == d.settings
           t == a.settings
           n == Len(s) + 1
<1>1. Settled(a)
  BY AddSettled, Zenon
<1>2. /\ \A i \in DOMAIN s : i \in DOMAIN t /\ t[i] = s[i] /\ i < n
      /\ n \in DOMAIN t /\ t[n].key = key /\ t[n].val = v
      /\ \A i \in DOMAIN t : i \in DOMAIN s \/ i = n
      /\ \A i \in DOMAIN t : i <= n
  BY AddSettings
<1>3. Keys(a) = Keys(d) \cup {key}
  <2> HIDE DEF n
  <2>1. \A k \in Keys(a) : k \in Keys(d) \cup {key}
    BY <1>2, Zenon DEF Keys
  <2>2. \A k \in Keys(d) \cup {key} : k \in Keys(a)
    BY <1>2, Zenon DEF Keys
  <2> QED
    BY <2>1, <2>2, Zenon
<1> HIDE DEF n
<1>4. IsLast(t, key, n)
  BY <1>2, Zenon DEF IsLast
<1>5. Meaning(a)[key] = v
  <2>1. Meaning(a)[key] = t[n].val
    BY <1>1, <1>4, MeaningAt, Zenon
  <2> QED
    BY <1>2, <2>1, Zenon
<1>6. ASSUME NEW k \in Keys(d), k # key
      PROVE  Meaning(a)[k] = Meaning(d)[k]
  <2>1. PICK i : IsLast(s, k, i)
    BY LastExists, Zenon
  <2>2. IsLast(t, k, i)
    BY <1>2, <1>6, <2>1, Zenon DEF IsLast
  <2>3. Meaning(a)[k] = t[i].val
    BY <1>1, <2>2, MeaningAt, Zenon
  <2>4. Meaning(d)[k] = s[i].val
    BY <2>1, MeaningAt, Zenon
  <2>5. t[i] = s[i]
    BY <1>2, <2>1, Zenon DEF IsLast
  <2> QED
    BY <2>3, <2>4, <2>5, Zenon
<1> QED
  BY <1>3, <1>5, <1>6, Zenon DEF Overwrites

HoldsKey(v, k) == \E j \in DOMAIN v.words : v.words[j].key = k

\* Add adds the text of one setting.
AddsText(a, d, key, v) ==
    \A k : containsKeyword(a, k) <=> (containsKeyword(d, k) \/ key = k \/ HoldsKey(v, k))

LEMMA AddContains ==
    ASSUME NEW d, Settled(d), NEW key, NEW v
    PROVE  AddsText(Add(d, key, v), d, key, v)
<1> DEFINE a == Add(d, key, v)
           s == d.settings
           t == a.settings
           n == Len(s) + 1
<1>1. /\ \A i \in DOMAIN s : i \in DOMAIN t /\ t[i] = s[i]
      /\ n \in DOMAIN t /\ t[n].key = key /\ t[n].val = v
      /\ \A i \in DOMAIN t : i \in DOMAIN s \/ i = n
  BY AddSettings
<1> HIDE DEF a, n
<1>2. \A k : containsKeyword(d, k) => containsKeyword(a, k)
  BY <1>1, Zenon DEF containsKeyword
<1>3. \A k : key = k \/ HoldsKey(v, k) => containsKeyword(a, k)
  BY <1>1, Zenon DEF containsKeyword, HoldsKey
<1>4. \A k : containsKeyword(a, k) => containsKeyword(d, k) \/ key = k \/ HoldsKey(v, k)
  BY <1>1, Zenon DEF containsKeyword, HoldsKey
<1> QED
  BY <1>2, <1>3, <1>4, Zenon DEF AddsText, a

-----------------------------------------------------------------------------
LEMMA ElementOf ==
    ASSUME NEW X, NEW s \in Seq(X), NEW i \in DOMAIN s
    PROVE  s[i] \in X
  OBVIOUS

LEMMA Concatenated ==
    ASSUME NEW X, NEW o \in Seq(X), NEW a, NEW b
    PROVE  LET q == o \o <<a, b>>
           IN  DOMAIN q = 1..(Len(o) + 2) /\ Len(o) \in Nat /\ q[Len(o) + 2] = b
<1>1. o \in Seq(X \cup {a, b}) /\ <<a, b>> \in Seq(X \cup {a, b}) /\ Len(<<a, b>>) = 2
  OBVIOUS
<1> QED
  BY <1>1

LEMMA DsnIsSettled ==
    ASSUME NEW d, IsDsn(d)
    PROVE  Settled(d)
  BY Zenon DEF IsDsn, Settled

LEMMA TextFields ==
    \A w : Text(w).words = w /\ Text(w).level = 0
  BY DEF Text

LEMMA PlainWords ==
    \A s : DOMAIN Plain(s).words = {1} /\ Plain(s).words[1].key = "" /\ Plain(s).words[1].val = s
<1> TAKE s
<1>1. Plain(s).words = <<Word("", s)>>
  BY TextFields, Zenon DEF Plain
<1>2. DOMAIN <<Word("", s)>> = {1} /\ <<Word("", s)>>[1] = Word("", s)
  OBVIOUS
<1>3. Word("", s).key = "" /\ Word("", s).val = s
  BY DEF Word
<1> QED
  BY <1>1, <1>2, <1>3, Zenon

LEMMA PlainDiffers ==
    ASSUME NEW s, s # ""
    PROVE  Plain(s) # Plain("")
  BY PlainWords, Zenon

LEMMA PathWords ==
    ASSUME NEW X, NEW o \in Seq(X), NEW sp
    PROVE  LET t == Text(o \o SearchPathWords(sp))
           IN  t # Plain("") /\ \E j \in DOMAIN t.words : t.words[j].key = "search_path"
<1> DEFINE p == SearchPathWords(sp)
           t == Text(o \o p)
<1>1. p = <<Word("", "-c"), Word("search_path", sp)>>
  BY Zenon DEF SearchPathWords
<1>2. Word("search_path", sp).key = "search_path"
  BY DEF Word
<1>3. t.words = o \o p
  BY TextFields, Zenon
<1> HIDE DEF p, t
<1>4. DOMAIN (o \o p) = 1..(Len(o) + 2) /\ Len(o) \in Nat /\ (o \o p)[Len(o) + 2] = Word("search_path", sp)
  BY <1>1, Concatenated
<1>5. Len(o) + 2 \in DOMAIN (o \o p) /\ Len(o) + 2 # 1
  BY <1>4
<1>6. DOMAIN Plain("").words = {1}
  BY PlainWords, Zenon
<1>7. t # Plain("")
  BY <1>3, <1>5, <1>6, Zenon
<1> QED
  BY <1>2, <1>3, <1>4, <1>5, <1>7, Zenon DEF p, t

\* A value of a DSN that is not escaped yet.
LEMMA DsnValue ==
    ASSUME NEW d, IsDsn(d), NEW k \in Keys(d)
    PROVE  Meaning(d)[k] \in [words : Seq([key : STRING, val : STRING]), level : {0}]
<1>1. PICK i : IsLast(d.settings, k, i)
  BY DsnIsSettled, LastExists, Zenon
<1>2. Meaning(d)[k] = d.settings[i].val
  BY <1>1, DsnIsSettled, MeaningAt
<1>3. d.settings[i] \in [key : STRING \ {""}, val : [words : Seq([key : STRING, val : STRING]), level : {0}]]
  <2>1. i \in DOMAIN d.settings
    BY <1>1, Zenon DEF IsLast
  <2>2. d.settings \in Seq([key : STRING \ {""}, val : [words : Seq([key : STRING, val : STRING]), level : {0}]])
    BY Zenon DEF IsDsn
  <2> QED
    BY <2>1, <2>2, ElementOf, Zenon
<1> QED
  BY <1>2, <1>3

-----------------------------------------------------------------------------
\* The first half of normalizePostgresDSN on a URL.
ModeURL(d, m) == IF Given(d, "sslmode") THEN d ELSE Add(d, "sslmode", Plain(m))

LEMMA ModeIsGiven ==
    ASSUME NEW d, Settled(d), NEW m, m # "", NEW w, w = ModeURL(d, m)
    PROVE  /\ Settled(w) /\ w.form = d.form
           /\ Given(w, "sslmode")
           /\ \A k \in Keys(d) : k \in Keys(w) /\ (Given(d, k) \/ k = "options" => Meaning(w)[k] = Meaning(d)[k])
           /\ \A k : k \in Keys(w) => k \in Keys(d) \/ k = "sslmode"
<1>1. CASE Given(d, "sslmode")
  BY <1>1, Zenon DEF ModeURL
<1>2. CASE ~Given(d, "sslmode")
  <2>1. w = Add(d, "sslmode", Plain(m))
    BY <1>2, Zenon DEF ModeURL
  <2>2. PICK v : v = Plain(m)
    BY Zenon
  <2>3. PICK key : key = "sslmode"
    BY Zenon
  <2>4. w = Add(d, key, v)
    BY <2>1, <2>2, <2>3, Zenon
  <2>5. Settled(w) /\ w.form = d.form
    BY <2>4, AddSettled, Zenon
  <2>6. Keys(w) = Keys(d) \cup {key} /\ Meaning(w)[key] = v /\ \A k \in Keys(d) : k # key => Meaning(w)[k] = Meaning(d)[k]
    <3>1. Overwrites(w, d, key, v)
      BY <2>4, AddMeaning, Zenon
    <3> QED
      BY <3>1, Zenon DEF Overwrites
  <2>7. v # Plain("")
    BY <2>2, PlainDiffers, Zenon
  <2>8. Given(w, key)
    BY <2>6, <2>7, MeaningDomain, Zenon DEF Given
  <2>9. "options" # key
    BY <2>3
  <2>10. \A k \in Keys(d) : Given(d, k) \/ k = "options" => k # key
    BY <1>2, <2>3, <2>9, Zenon
  <2>11. \A k \in Keys(d) : k \in Keys(w) /\ (Given(d, k) \/ k = "options" => Meaning(w)[k] = Meaning(d)[k])
    BY <2>6, <2>10, Zenon
  <2>12. \A k : k \in Keys(w) => k \in Keys(d) \/ k = "sslmode"
    BY <2>6, <2>3, Zenon
  <2>13. Given(w, "sslmode")
    BY <2>3, <2>8, Zenon
  <2> QED
    BY <2>5, <2>11, <2>12, <2>13, Zenon
<1> QED
  BY <1>1, <1>2, Zenon

\* The options that a URL carries.
OptionWords(d) == IF Given(d, "options") THEN Meaning(d)["options"].words ELSE <<>>
HasPath(o) == \E j \in DOMAIN o : o[j].key = "search_path"

LEMMA NormalizeURLIs ==
    ASSUME NEW d, NEW m, NEW sp
    PROVE  normalizeURL(d, m, sp) = IF sp = "" \/ HasPath(OptionWords(d)) THEN ModeURL(d, m)
                                    ELSE Add(ModeURL(d, m), "options", Text(OptionWords(d) \o SearchPathWords(sp)))
  BY Zenon DEF normalizeURL, ModeURL, OptionWords, HasPath

LEMMA OptionsAreWords ==
    ASSUME NEW d, IsDsn(d)
    PROVE  OptionWords(d) \in Seq([key : STRING, val : STRING])
<1>1. CASE Given(d, "options")
  <2>1. Meaning(d)["options"] \in [words : Seq([key : STRING, val : STRING]), level : {0}]
    BY <1>1, DsnValue, MeaningDomain, Zenon DEF Given
  <2> QED
    BY <1>1, <2>1 DEF OptionWords
<1>2. CASE ~Given(d, "options")
  <2>1. OptionWords(d) = <<>>
    BY <1>2, Zenon DEF OptionWords
  <2> QED
    BY <2>1
<1> QED
  BY <1>1, <1>2, Zenon

LEMMA PathIsContained ==
    ASSUME NEW d, Settled(d), HasPath(OptionWords(d))
    PROVE  Given(d, "options") /\ containsKeyword(d, "search_path")
<1>1. Given(d, "options")
  <2>1. DOMAIN <<>> = {}
    OBVIOUS
  <2> QED
    BY <2>1, Zenon DEF OptionWords, HasPath
<1>2. PICK i : IsLast(d.settings, "options", i)
  BY <1>1, MeaningDomain, LastExists, Zenon DEF Given
<1>3. Meaning(d)["options"] = d.settings[i].val
  BY <1>2, MeaningAt
<1>4. HasPath(d.settings[i].val.words) /\ i \in DOMAIN d.settings
  BY <1>1, <1>2, <1>3, Zenon DEF OptionWords, IsLast
<1> QED
  BY <1>1, <1>4, Zenon DEF HasPath, containsKeyword

\* What normalizePostgresDSN makes of a URL.
URLAdds(n, d, m, sp) ==
    /\ n.form = d.form
    /\ \A k \in Keys(d) : k # "options" /\ Given(d, k) => Meaning(n)[k] = Meaning(d)[k]
    /\ normalizeURL(n, m, sp) = n
    /\ Given(n, "sslmode")
    /\ sp # "" => containsKeyword(n, "search_path")

LEMMA URLOnlyAdds ==
    ASSUME NEW d, IsDsn(d), NEW m, m # "", NEW sp, NEW n, n = normalizeURL(d, m, sp)
    PROVE  URLAdds(n, d, m, sp)
<1>1. PICK w : w = ModeURL(d, m)
  BY Zenon
<1>2. n = IF sp = "" \/ HasPath(OptionWords(d)) THEN w
          ELSE Add(w, "options", Text(OptionWords(d) \o SearchPathWords(sp)))
  BY <1>1, NormalizeURLIs, Zenon
<1>3. Settled(d)
  BY DsnIsSettled, Zenon
<1>4. /\ Settled(w) /\ w.form = d.form
      /\ Given(w, "sslmode")
      /\ \A k \in Keys(d) : k \in Keys(w) /\ (Given(d, k) \/ k = "options" => Meaning(w)[k] = Meaning(d)[k])
      /\ \A k : k \in Keys(w) => k \in Keys(d) \/ k = "sslmode"
  BY <1>1, <1>3, ModeIsGiven, Zenon
<1>5. CASE sp = "" \/ HasPath(OptionWords(d))
  <2>1. n = w
    BY <1>2, <1>5, Zenon
  <2>2. HasPath(OptionWords(d)) => HasPath(OptionWords(w))
    <3>1. HasPath(OptionWords(d)) => Given(d, "options")
      BY <1>3, PathIsContained, Zenon
    <3>2. Given(d, "options") => "options" \in Keys(d) /\ Meaning(d)["options"] # Plain("")
      BY MeaningDomain, Zenon DEF Given
    <3>3. Given(d, "options") => Given(w, "options") /\ Meaning(w)["options"] = Meaning(d)["options"]
      BY <1>4, <3>2, MeaningDomain, Zenon DEF Given
    <3>4. Given(d, "options") => OptionWords(w) = OptionWords(d)
      BY <3>3, Zenon DEF OptionWords
    <3> QED
      BY <3>1, <3>4, Zenon
  <2>3. sp = "" \/ HasPath(OptionWords(n))
    BY <1>5, <2>1, <2>2, Zenon
  <2>5. ModeURL(n, m) = n
    BY <1>4, <2>1, Zenon DEF ModeURL
  <2>6. normalizeURL(n, m, sp) = n
    BY <2>3, <2>5, NormalizeURLIs, Zenon
  <2>7. sp # "" => containsKeyword(n, "search_path")
    BY <1>4, <2>1, <2>3, PathIsContained, Zenon
  <2> QED
    BY <1>4, <2>1, <2>6, <2>7, Zenon DEF URLAdds
<1>6. CASE ~(sp = "" \/ HasPath(OptionWords(d)))
  <2>1. PICK v : v = Text(OptionWords(d) \o SearchPathWords(sp))
    BY Zenon
  <2>2. v # Plain("") /\ HasPath(v.words)
    <3>1. OptionWords(d) \in Seq([key : STRING, val : STRING])
      BY OptionsAreWords, Zenon
    <3> QED
      BY <2>1, <3>1, PathWords, Zenon DEF HasPath
  <2>3. PICK key : key = "options"
    BY Zenon
  <2>4. n = Add(w, key, v)
    BY <1>2, <1>6, <2>1, <2>3, Zenon
  <2>5. Settled(n) /\ n.form = w.form
    BY <1>4, <2>4, AddSettled, Zenon
  <2>6. Keys(n) = Keys(w) \cup {key} /\ Meaning(n)[key] = v /\ \A k \in Keys(w) : k # key => Meaning(n)[k] = Meaning(w)[k]
    <3>1. Overwrites(n, w, key, v)
      BY <1>4, <2>4, AddMeaning, Zenon
    <3> QED
      BY <3>1, Zenon DEF Overwrites
  <2>7. "sslmode" # key
    BY <2>3
  <2>8. Given(n, "sslmode")
    <3>1. "sslmode" \in Keys(w) /\ Meaning(w)["sslmode"] # Plain("")
      BY <1>4, MeaningDomain, Zenon DEF Given
    <3> QED
      BY <3>1, <2>6, <2>7, MeaningDomain, Zenon DEF Given
  <2>9. Given(n, key)
    BY <2>2, <2>6, MeaningDomain, Zenon DEF Given
  <2>10. HasPath(OptionWords(n))
    BY <2>2, <2>3, <2>6, <2>9, Zenon DEF OptionWords
  <2>12. ModeURL(n, m) = n
    BY <2>8, Zenon DEF ModeURL
  <2>13. normalizeURL(n, m, sp) = n
    BY <2>10, <2>12, NormalizeURLIs, Zenon
  <2>14. containsKeyword(n, "search_path")
    BY <2>5, <2>10, PathIsContained, Zenon
  <2>15. \A k \in Keys(d) : k # "options" /\ Given(d, k) => Meaning(n)[k] = Meaning(d)[k]
    BY <1>4, <2>3, <2>6, Zenon
  <2> QED
    BY <1>4, <2>5, <2>8, <2>13, <2>14, <2>15, Zenon DEF URLAdds
<1> QED
  BY <1>5, <1>6, Zenon

-----------------------------------------------------------------------------
\* The first half of normalizePostgresDSN on a keyword DSN.
ModeKeyword(d, m) == IF containsKeyword(d, "sslmode") THEN d ELSE Add(d, "sslmode", Plain(m))

\* The second half.
PathKeyword(w, sp) ==
    IF sp = "" \/ containsKeyword(w, "options") \/ containsKeyword(w, "search_path") THEN w
    ELSE Add(w, "options", Escape(Text(SearchPathWords(sp))))

LEMMA NormalizeKeywordsIs ==
    \A d, m, sp : normalizeKeywords(d, m, sp) = PathKeyword(ModeKeyword(d, m), sp)
  BY Zenon DEF normalizeKeywords, ModeKeyword, PathKeyword

LEMMA KeyIsContained ==
    ASSUME NEW d, NEW k \in Keys(d)
    PROVE  containsKeyword(d, k)
  BY Zenon DEF Keys, containsKeyword

LEMMA PlainContains ==
    ASSUME NEW s, NEW k, k # ""
    PROVE  ~HoldsKey(Plain(s), k)
  BY PlainWords, Zenon DEF HoldsKey

LEMMA ModeIsContained ==
    ASSUME NEW d, Settled(d), NEW m, m # "", NEW w, w = ModeKeyword(d, m)
    PROVE  /\ Settled(w) /\ w.form = d.form
           /\ containsKeyword(w, "sslmode")
           /\ ~containsKeyword(d, "sslmode") => Given(w, "sslmode")
           /\ \A k \in Keys(d) : k \in Keys(w) /\ Meaning(w)[k] = Meaning(d)[k]
           /\ containsKeyword(w, "options") => containsKeyword(d, "options")
<1>1. CASE containsKeyword(d, "sslmode")
  BY <1>1, Zenon DEF ModeKeyword
<1>2. CASE ~containsKeyword(d, "sslmode")
  <2>1. w = Add(d, "sslmode", Plain(m))
    BY <1>2, Zenon DEF ModeKeyword
  <2>2. PICK v : v = Plain(m)
    BY Zenon
  <2>3. PICK key : key = "sslmode"
    BY Zenon
  <2>4. w = Add(d, key, v)
    BY <2>1, <2>2, <2>3, Zenon
  <2>5. Settled(w) /\ w.form = d.form
    BY <2>4, AddSettled, Zenon
  <2>6. Overwrites(w, d, key, v)
    BY <2>4, AddMeaning, Zenon
  <2>7. v # Plain("")
    BY <2>2, PlainDiffers, Zenon
  <2>8. Given(w, key)
    BY <2>6, <2>7, MeaningDomain, Zenon DEF Given, Overwrites
  <2>a. AddsText(w, d, key, v)
    BY <2>4, AddContains, Zenon
  <2>9. containsKeyword(w, key)
    BY <2>a, Zenon DEF AddsText
  <2>10. \A k \in Keys(d) : k # key
    BY <1>2, <2>3, KeyIsContained, Zenon
  <2>11. \A k \in Keys(d) : k \in Keys(w) /\ Meaning(w)[k] = Meaning(d)[k]
    BY <2>6, <2>10, Zenon DEF Overwrites
  <2>12. containsKeyword(w, "options") => containsKeyword(d, "options")
    <3>1. "options" # key /\ "options" # ""
      BY <2>3
    <3>2. ~HoldsKey(v, "options")
      BY <2>2, <3>1, PlainContains, Zenon
    <3> QED
      BY <2>a, <3>1, <3>2, Zenon DEF AddsText
  <2> QED
    BY <2>3, <2>5, <2>8, <2>9, <2>11, <2>12, Zenon
<1> QED
  BY <1>1, <1>2, Zenon

LEMMA SecondOfTwo == \A a, b : 2 \in DOMAIN <<a, b>> /\ <<a, b>>[2] = b
  OBVIOUS

LEMMA EscapeWords == \A v : v = [words |-> v.words, level |-> v.level] => Escape(v).words = v.words
  BY DEF Escape

\* What normalizePostgresDSN makes of a keyword DSN.
KeywordsAdd(n, d, m, sp) ==
    /\ n.form = d.form
    /\ \A k \in Keys(d) : k # "options" => Meaning(n)[k] = Meaning(d)[k]
    /\ normalizeKeywords(n, m, sp) = n
    /\ Given(n, "sslmode") \/ containsKeyword(d, "sslmode")
    /\ sp # "" => containsKeyword(n, "search_path") \/ containsKeyword(d, "options")

LEMMA KeywordsOnlyAdd ==
    ASSUME NEW d, Settled(d), NEW m, m # "", NEW sp, NEW n, n = normalizeKeywords(d, m, sp)
    PROVE  KeywordsAdd(n, d, m, sp)
<1>1. PICK w : w = ModeKeyword(d, m)
  BY Zenon
<1>2. n = PathKeyword(w, sp)
  BY <1>1, NormalizeKeywordsIs, Zenon
<1>4. /\ Settled(w) /\ w.form = d.form
      /\ containsKeyword(w, "sslmode")
      /\ ~containsKeyword(d, "sslmode") => Given(w, "sslmode")
      /\ \A k \in Keys(d) : k \in Keys(w) /\ Meaning(w)[k] = Meaning(d)[k]
      /\ containsKeyword(w, "options") => containsKeyword(d, "options")
  BY <1>1, ModeIsContained, Zenon
<1>5. CASE sp = "" \/ containsKeyword(w, "options") \/ containsKeyword(w, "search_path")
  <2>1. n = w
    BY <1>2, <1>5, Zenon DEF PathKeyword
  <2>2. ModeKeyword(n, m) = n
    BY <1>4, <2>1, Zenon DEF ModeKeyword
  <2>3. normalizeKeywords(n, m, sp) = n
    BY <1>5, <2>1, <2>2, NormalizeKeywordsIs, Zenon DEF PathKeyword
  <2> QED
    BY <1>4, <1>5, <2>1, <2>3, Zenon DEF KeywordsAdd
<1>6. CASE ~(sp = "" \/ containsKeyword(w, "options") \/ containsKeyword(w, "search_path"))
  <2>1. PICK v : v = Escape(Text(SearchPathWords(sp)))
    BY Zenon
  <2>2. \E j \in DOMAIN v.words : v.words[j].key = "search_path"
    <3>1. v.words = SearchPathWords(sp)
      <4>1. \A x : Text(x) = [words |-> Text(x).words, level |-> Text(x).level]
        BY DEF Text
      <4> QED
        BY <2>1, <4>1, EscapeWords, TextFields, Zenon
    <3>2. 2 \in DOMAIN SearchPathWords(sp) /\ SearchPathWords(sp)[2] = Word("search_path", sp)
      BY SecondOfTwo, Zenon DEF SearchPathWords
    <3>3. Word("search_path", sp).key = "search_path"
      BY DEF Word
    <3> QED
      BY <3>1, <3>2, <3>3, Zenon
  <2>3. PICK key : key = "options"
    BY Zenon
  <2>4. n = Add(w, key, v)
    BY <1>2, <1>6, <2>1, <2>3, Zenon DEF PathKeyword
  <2>5. n.form = w.form
    BY <1>4, <2>4, AddSettled, Zenon
  <2>6. Overwrites(n, w, key, v)
    BY <1>4, <2>4, AddMeaning, Zenon
  <2>7. AddsText(n, w, key, v)
    BY <1>4, <2>4, AddContains, Zenon
  <2>8. ModeKeyword(n, m) = n
    BY <1>4, <2>7, Zenon DEF ModeKeyword, AddsText
  <2>9. normalizeKeywords(n, m, sp) = n
    <3>1. containsKeyword(n, "options")
      BY <2>3, <2>7, Zenon DEF AddsText
    <3> QED
      BY <3>1, <2>8, NormalizeKeywordsIs, Zenon DEF PathKeyword
  <2>10. \A k \in Keys(d) : k # "options" => Meaning(n)[k] = Meaning(d)[k]
    BY <1>4, <2>3, <2>6, Zenon DEF Overwrites
  <2>11. Given(n, "sslmode") \/ containsKeyword(d, "sslmode")
    <3>1. SUFFICES ASSUME ~containsKeyword(d, "sslmode")
                   PROVE  Given(n, "sslmode")
      BY Zenon
    <3>2. "sslmode" \in Keys(w) /\ Meaning(w)["sslmode"] # Plain("")
      BY <1>4, <3>1, MeaningDomain, Zenon DEF Given
    <3>3. "sslmode" # key
      BY <2>3
    <3> QED
      BY <2>6, <3>2, <3>3, MeaningDomain, Zenon DEF Given, Overwrites
  <2>12. containsKeyword(n, "search_path")
    BY <2>2, <2>7, Zenon DEF AddsText, HoldsKey
  <2> QED
    BY <1>4, <2>5, <2>9, <2>10, <2>11, <2>12, Zenon DEF KeywordsAdd
<1> QED
  BY <1>5, <1>6, Zenon

LEMMA ModeIsSome == \A s : firstNonEmpty(s, "disable") # ""
  BY DEF firstNonEmpty

LEMMA OnlyAdds == Asked => NormalizeOnlyAdds
<1> DEFINE d == call.dsn
           m == firstNonEmpty(call.sslMode, "disable")
           sp == TrimSpace(call.searchPath)
<1>1. SUFFICES ASSUME call \in Dsns
               PROVE  LET n == normalizePostgresDSN(d, call.sslMode, call.searchPath)
                      IN  /\ \A k \in Keys(d) \ {"options"} : Given(d, k) => Meaning(n)[k] = Meaning(d)[k]
                          /\ Normalized(n, call.searchPath) = Meaning(n)
                          /\ Given(n, "sslmode") \/ (d.form = "keyword" /\ containsKeyword(d, "sslmode"))
                          /\ sp # "" => \/ containsKeyword(n, "search_path")
                                        \/ d.form = "keyword" /\ containsKeyword(d, "options")
  BY MeaningDomain, Zenon DEF NormalizeOnlyAdds, Asked
<1>2. IsDsn(d) /\ Settled(d) /\ d.form \in {"url", "keyword"}
  BY <1>1, DsnAssumption, DsnIsSettled, Zenon DEF IsDsn
<1>3. m # ""
  BY ModeIsSome, Zenon
<1>4. \A x : normalizePostgresDSN(x, call.sslMode, call.searchPath) =
                IF x.form = "url" THEN normalizeURL(x, m, sp) ELSE normalizeKeywords(x, m, sp)
  BY Zenon DEF normalizePostgresDSN
<1>5. PICK n : n = normalizePostgresDSN(d, call.sslMode, call.searchPath)
  BY Zenon
<1> HIDE DEF d, m, sp
<1>6. ASSUME d.form = "url"
      PROVE  /\ \A k \in Keys(d) \ {"options"} : Given(d, k) => Meaning(n)[k] = Meaning(d)[k]
             /\ normalizePostgresDSN(n, call.sslMode, call.searchPath) = n
             /\ Given(n, "sslmode")
             /\ sp # "" => containsKeyword(n, "search_path")
  <2>1. n = normalizeURL(d, m, sp)
    BY <1>4, <1>5, <1>6, Zenon
  <2>2. URLAdds(n, d, m, sp)
    BY <1>2, <1>3, <2>1, URLOnlyAdds, Zenon
  <2> QED
    BY <1>4, <1>6, <2>2, Zenon DEF URLAdds
<1>7. ASSUME d.form # "url"
      PROVE  /\ \A k \in Keys(d) \ {"options"} : Given(d, k) => Meaning(n)[k] = Meaning(d)[k]
             /\ normalizePostgresDSN(n, call.sslMode, call.searchPath) = n
             /\ Given(n, "sslmode") \/ containsKeyword(d, "sslmode")
             /\ sp # "" => containsKeyword(n, "search_path") \/ containsKeyword(d, "options")
  <2>1. n = normalizeKeywords(d, m, sp)
    BY <1>4, <1>5, <1>7, Zenon
  <2>2. KeywordsAdd(n, d, m, sp)
    BY <1>2, <1>3, <2>1, KeywordsOnlyAdd, Zenon
  <2> QED
    BY <1>4, <1>7, <2>2, Zenon DEF KeywordsAdd
<1>8. d.form = "url" \/ (d.form # "url" /\ d.form = "keyword")
  BY <1>2
<1>9. Normalized(n, call.searchPath) = Meaning(n)
  BY <1>6, <1>7, <1>8, Zenon DEF Normalized
<1> QED
  BY <1>5, <1>6, <1>7, <1>8, <1>9, Zenon

-----------------------------------------------------------------------------
LEMMA KeysAreFinite ==
    ASSUME NEW d, Settled(d)
    PROVE  IsFiniteSet(Keys(d))
<1> DEFINE n == Len(d.settings)
           f == [i \in 1..n |-> d.settings[i].key]
<1>1. n \in Nat /\ DOMAIN d.settings = 1..n
  BY SettledDomain, Zenon
<1>2. IsFiniteSet(1..n)
  BY <1>1, FS_Interval
<1>3. f \in Surjection(1..n, Keys(d))
  BY <1>1, Zenon DEF Surjection, Keys
<1> QED
  BY <1>2, <1>3, FS_Surjection, Zenon

\* SetToSeq lists a finite set, each element once.
LEMMA Listed ==
    ASSUME NEW S, IsFiniteSet(S)
    PROVE  /\ Cardinality(S) \in Nat
           /\ SetToSeq(S) \in [1..Cardinality(S) -> S]
           /\ \A i, j \in 1..Cardinality(S) : SetToSeq(S)[i] = SetToSeq(S)[j] => i = j
           /\ \A x \in S : \E i \in 1..Cardinality(S) : SetToSeq(S)[i] = x
<1> DEFINE n == Cardinality(S)
<1>1. n \in Nat /\ ExistsBijection(1..n, S)
  BY FS_CardinalityType, Zenon
<1>2. PICK f \in [1..n -> S] : IsInjective(f)
  BY <1>1, Zenon DEF ExistsBijection, Bijection, Injection
<1>3. SetToSeq(S) \in [1..n -> S] /\ IsInjective(SetToSeq(S))
  BY <1>2, Zenon DEF SetToSeq
<1>4. SetToSeq(S) \in Injection(1..n, S)
  BY <1>3, Zenon DEF Injection
<1>5. Cardinality(1..n) = n
  BY <1>1, FS_Interval
<1>6. SetToSeq(S) \in Surjection(1..n, S)
  BY <1>4, <1>5, FS_Injection, Zenon
<1>7. \A x \in S : \E i \in 1..n : SetToSeq(S)[i] = x
  BY <1>6, Zenon DEF Surjection
<1>8. DOMAIN SetToSeq(S) = 1..n
  BY <1>3, Zenon
<1>9. \A i, j \in 1..n : SetToSeq(S)[i] = SetToSeq(S)[j] => i = j
  BY <1>3, <1>8, Zenon DEF IsInjective
<1> QED
  BY <1>1, <1>3, <1>7, <1>9, Zenon

LEMMA SequenceOf ==
    ASSUME NEW n \in Nat, NEW s, s = [i \in 1..n |-> s[i]]
    PROVE  s \in Seq({s[i] : i \in 1..n})
  OBVIOUS

\* joinKeywordDSN writes each part once.
Joined(d, parts) ==
    /\ Settled(d) /\ d.form = "keyword"
    /\ \A i \in DOMAIN d.settings : d.settings[i].key \in DOMAIN parts /\ d.settings[i].val = parts[d.settings[i].key]
    /\ \A k \in DOMAIN parts : \E i \in DOMAIN d.settings : d.settings[i].key = k

LEMMA JoinIs ==
    ASSUME NEW parts, IsFiniteSet(DOMAIN parts)
    PROVE  Joined(joinKeywordDSN(parts), parts)
<1> DEFINE q == SetToSeq(DOMAIN parts)
           n == Cardinality(DOMAIN parts)
           d == joinKeywordDSN(parts)
           s == [i \in DOMAIN q |-> [key |-> q[i], val |-> parts[q[i]]]]
<1>1. /\ n \in Nat
      /\ q \in [1..n -> DOMAIN parts]
      /\ \A k \in DOMAIN parts : \E i \in 1..n : q[i] = k
  BY Listed, Zenon
<1>2. DOMAIN q = 1..n /\ \A i \in 1..n : q[i] \in DOMAIN parts
  BY <1>1, Zenon
<1>3. d = [form |-> "keyword", settings |-> s]
  BY Zenon DEF joinKeywordDSN
<1>4. d.form = "keyword" /\ d.settings = s
  BY <1>3, DsnFields, Zenon
<1> HIDE DEF q, n
<1>5. DOMAIN s = 1..n /\ \A i \in 1..n : s[i] = [key |-> q[i], val |-> parts[q[i]]]
  BY <1>2, Zenon
<1>6. s = [i \in 1..n |-> s[i]]
  BY <1>2, Zenon
<1>7. \A i \in 1..n : s[i].key = q[i] /\ s[i].val = parts[q[i]]
  BY <1>5, SettingFields, Zenon
<1> HIDE DEF s, d
<1>8. s \in Seq({s[i] : i \in 1..n})
  BY <1>1, <1>6, SequenceOf, Zenon
<1>9. Settled(d)
  BY <1>3, <1>4, <1>8, Zenon DEF Settled
<1>10. \A i \in DOMAIN d.settings : d.settings[i].key \in DOMAIN parts /\ d.settings[i].val = parts[d.settings[i].key]
  BY <1>2, <1>4, <1>5, <1>7, Zenon
<1>11. \A k \in DOMAIN parts : \E i \in DOMAIN d.settings : d.settings[i].key = k
  <2> SUFFICES ASSUME NEW k \in DOMAIN parts
               PROVE  \E i \in DOMAIN d.settings : d.settings[i].key = k
    BY Zenon
  <2>1. PICK i \in 1..n : q[i] = k
    BY <1>1, Zenon
  <2>2. s[i].key = k
    BY <1>7, <2>1, Zenon
  <2> QED
    BY <1>4, <1>5, <2>1, <2>2, Zenon
<1> QED
  BY <1>4, <1>9, <1>10, <1>11, Zenon DEF Joined, d

LEMMA JoinMeans ==
    ASSUME NEW parts, parts = [k \in DOMAIN parts |-> parts[k]], NEW d, Joined(d, parts)
    PROVE  Keys(d) = DOMAIN parts /\ Meaning(d) = parts
<1>1. Settled(d)
  BY Zenon DEF Joined
<1>2. Keys(d) = DOMAIN parts
  <2>1. \A k \in Keys(d) : k \in DOMAIN parts
    BY Zenon DEF Joined, Keys
  <2>2. \A k \in DOMAIN parts : k \in Keys(d)
    BY Zenon DEF Joined, Keys
  <2> QED
    BY <2>1, <2>2, Zenon
<1>3. \A k \in DOMAIN parts : \A i : IsLast(d.settings, k, i) => parts[k] = d.settings[i].val
  BY Zenon DEF Joined, IsLast
<1>4. PICK K : K = DOMAIN parts
  BY Zenon
<1>5. Meaning(d) = parts
  BY <1>1, <1>2, <1>3, <1>4, MeaningIs
<1> QED
  BY <1>2, <1>5, Zenon

-----------------------------------------------------------------------------
\* Values on which strings.Fields does no harm.
OneWord(d) == \A i \in DOMAIN d.settings : LET v == d.settings[i].val IN Len(v.words) = 1 /\ ~IsSpecial(v)

LEMMA SingleWord ==
    ASSUME NEW X, NEW w \in Seq(X), Len(w) = 1
    PROVE  DOMAIN w = {1} /\ w = <<w[1]>>
  OBVIOUS

LEMMA TextIs ==
    ASSUME NEW v, NEW X, v \in [words : X, level : {0}]
    PROVE  v.words \in X /\ Text(v.words) = v
  BY DEF Text

\* splitKeywordDSN, word by word.
FieldPlaces(d) == UNION {{i} \X DOMAIN d.settings[i].val.words : i \in DOMAIN d.settings}
FieldKey(d, f) == IF f[2] = 1 THEN d.settings[f[1]].key ELSE d.settings[f[1]].val.words[f[2]].key
FieldVal(d, f) == LET w == d.settings[f[1]].val.words[f[2]] IN Escape(Text(<<IF f[2] = 1 THEN w ELSE Word("", w.val)>>))
IsLastField(d, k, f) ==
    /\ FieldKey(d, f) = k
    /\ \A g \in FieldPlaces(d) : FieldKey(d, g) = k => g[1] < f[1] \/ (g[1] = f[1] /\ g[2] <= f[2])

LEMMA SplitIs ==
    ASSUME NEW d
    PROVE  splitKeywordDSN(d) = [k \in {FieldKey(d, f) : f \in FieldPlaces(d)} \ {""} |->
                                    FieldVal(d, CHOOSE f \in FieldPlaces(d) : IsLastField(d, k, f))]
  BY Zenon DEF splitKeywordDSN, FieldPlaces, FieldKey, FieldVal, IsLastField

LEMMA PairsOrdered ==
    ASSUME NEW j \in Int, NEW i \in Int, j <= i
    PROVE  /\ <<j, 1>>[1] < <<i, 1>>[1] \/ (<<j, 1>>[1] = <<i, 1>>[1] /\ <<j, 1>>[2] <= <<i, 1>>[2])
           /\ <<i, 1>>[1] < <<j, 1>>[1] \/ (<<i, 1>>[1] = <<j, 1>>[1] /\ <<i, 1>>[2] <= <<j, 1>>[2]) => j = i
  OBVIOUS

LEMMA SplitIsMeaning ==
    ASSUME NEW d, IsDsn(d), OneWord(d)
    PROVE  splitKeywordDSN(d) = Meaning(d)
<1> DEFINE s == d.settings
           P == FieldPlaces(d)
           V == [words : Seq([key : STRING, val : STRING]), level : {0}]
<1>1. Settled(d)
  BY DsnIsSettled, Zenon
<1>2. \A i \in DOMAIN s : s[i] \in [key : STRING \ {""}, val : V]
  <2>1. s \in Seq([key : STRING \ {""}, val : V])
    BY Zenon DEF IsDsn
  <2> QED
    BY <2>1, ElementOf
<1>3. \A i \in DOMAIN s : s[i].key # "" /\ s[i].val \in V
  BY <1>2
<1> HIDE DEF V
<1>4. \A i \in DOMAIN s : s[i].val.words \in Seq([key : STRING, val : STRING]) /\ Text(s[i].val.words) = s[i].val
  BY <1>3, TextIs, Zenon DEF V
<1>5. \A i \in DOMAIN s : DOMAIN s[i].val.words = {1} /\ s[i].val.words = <<s[i].val.words[1]>>
  <2> SUFFICES ASSUME NEW i \in DOMAIN s
               PROVE  DOMAIN s[i].val.words = {1} /\ s[i].val.words = <<s[i].val.words[1]>>
    BY Zenon
  <2>1. Len(s[i].val.words) = 1
    BY Zenon DEF OneWord
  <2> QED
    BY <1>4, <2>1, SingleWord
<1>6. \A i \in DOMAIN s : <<i, 1>> \in P
  BY <1>5 DEF FieldPlaces
<1>7. ASSUME NEW f \in P
      PROVE  \E i \in DOMAIN s : f = <<i, 1>>
  <2>1. PICK i \in DOMAIN s : f \in {i} \X DOMAIN s[i].val.words
    BY Zenon DEF FieldPlaces
  <2>2. f \in {i} \X {1}
    BY <1>5, <2>1, Zenon
  <2> QED
    BY <2>2
<1>8. \A i \in DOMAIN s : FieldKey(d, <<i, 1>>) = s[i].key
  BY PairParts, Zenon DEF FieldKey
<1>9. \A i \in DOMAIN s : FieldVal(d, <<i, 1>>) = s[i].val
  <2> SUFFICES ASSUME NEW i \in DOMAIN s
               PROVE  FieldVal(d, <<i, 1>>) = s[i].val
    BY Zenon
  <2>1. PICK f : f = <<i, 1>>
    BY Zenon
  <2>2. f[1] = i /\ f[2] = 1
    BY <2>1, PairParts, Zenon
  <2>3. FieldVal(d, f) = Escape(Text(<<s[i].val.words[1]>>))
    BY <2>2, Zenon DEF FieldVal
  <2>4. Text(<<s[i].val.words[1]>>) = s[i].val
    BY <1>4, <1>5, Zenon
  <2>5. ~IsSpecial(s[i].val)
    BY Zenon DEF OneWord
  <2>6. Escape(s[i].val) = s[i].val
    BY <2>5, Zenon DEF Escape
  <2> QED
    BY <2>1, <2>3, <2>4, <2>6, Zenon
<1>10. {FieldKey(d, f) : f \in P} \ {""} = Keys(d)
  <2>1. \A k \in Keys(d) : k # "" /\ \E f \in P : k = FieldKey(d, f)
    BY <1>3, <1>6, <1>8, Zenon DEF Keys
  <2>2. \A f \in P : FieldKey(d, f) \in Keys(d)
    BY <1>7, <1>8, Zenon DEF Keys
  <2> QED
    BY <2>1, <2>2, Zenon
<1>11. ASSUME NEW k \in Keys(d)
       PROVE  FieldVal(d, CHOOSE f \in P : IsLastField(d, k, f)) = Meaning(d)[k]
  <2>1. PICK i : IsLast(s, k, i)
    BY <1>1, LastExists, Zenon
  <2>2. IsLastField(d, k, <<i, 1>>)
    <3>1. FieldKey(d, <<i, 1>>) = k
      BY <1>8, <2>1, Zenon DEF IsLast
    <3>2. ASSUME NEW g \in P, FieldKey(d, g) = k
          PROVE  g[1] < <<i, 1>>[1] \/ (g[1] = <<i, 1>>[1] /\ g[2] <= <<i, 1>>[2])
      <4>1. PICK j \in DOMAIN s : g = <<j, 1>>
        BY <1>7, Zenon
      <4>2. s[j].key = k
        BY <1>8, <3>2, <4>1, Zenon
      <4>3. j <= i
        BY <2>1, <4>2, Zenon DEF IsLast
      <4>4. j \in Int /\ i \in Int
        BY <1>1, <2>1, SettledDomain DEF IsLast
      <4> QED
        BY <4>1, <4>3, <4>4, PairsOrdered, Zenon
    <3> QED
      BY <3>1, <3>2, Zenon DEF IsLastField
  <2>3. PICK f \in P : f = CHOOSE g \in P : IsLastField(d, k, g)
    BY <1>6, <2>1, <2>2, Zenon DEF IsLast
  <2>4. IsLastField(d, k, f)
    BY <1>6, <2>1, <2>2, <2>3, Zenon DEF IsLast
  <2>5. PICK j \in DOMAIN s : f = <<j, 1>>
    BY <1>7, Zenon
  <2>6. s[j].key = k
    BY <1>8, <2>4, <2>5, Zenon DEF IsLastField
  <2>7. j = i
    <3>1. j <= i
      BY <2>1, <2>6, Zenon DEF IsLast
    <3>2. i \in DOMAIN s /\ FieldKey(d, <<i, 1>>) = k /\ <<i, 1>> \in P
      BY <1>6, <1>8, <2>1, Zenon DEF IsLast
    <3>3. <<i, 1>>[1] < f[1] \/ (<<i, 1>>[1] = f[1] /\ <<i, 1>>[2] <= f[2])
      BY <2>4, <3>2, Zenon DEF IsLastField
    <3>4. j \in Int /\ i \in Int
      BY <1>1, <2>5, <3>2, SettledDomain
    <3> QED
      BY <2>5, <3>1, <3>3, <3>4, PairsOrdered, Zenon
  <2>8. Meaning(d)[k] = s[i].val
    BY <1>1, <2>1, MeaningAt
  <2> QED
    BY <1>9, <2>3, <2>5, <2>7, <2>8, Zenon
<1>12. Meaning(d) = [k \in Keys(d) |-> Meaning(d)[k]]
  BY Zenon DEF Meaning
<1>13. splitKeywordDSN(d) = [k \in Keys(d) |-> FieldVal(d, CHOOSE f \in P : IsLastField(d, k, f))]
  BY <1>10, SplitIs, Zenon
<1> QED
  BY <1>11, <1>12, <1>13, Zenon

-----------------------------------------------------------------------------
\* Adding a setting and changing another one are independent.
Changes(a, d, x, p) == Meaning(a) = [Meaning(d) EXCEPT ![x] = p]

LEMMA AddExcept ==
    ASSUME NEW a, NEW d, Settled(a), Settled(d), NEW x, NEW p, Changes(a, d, x, p), NEW key, x # key, NEW v
    PROVE  Changes(Add(a, key, v), Add(d, key, v), x, p)
<1> DEFINE A == Add(a, key, v)
           D == Add(d, key, v)
<1>1. Overwrites(A, a, key, v) /\ Overwrites(D, d, key, v)
  BY AddMeaning, Zenon
<1>2. Keys(a) = Keys(d)
  <2>1. DOMAIN Meaning(a) = DOMAIN Meaning(d)
    BY Zenon DEF Changes
  <2> QED
    BY <2>1, MeaningDomain, Zenon
<1>3. Keys(A) = Keys(D)
  BY <1>1, <1>2, Zenon DEF Overwrites
<1>4. \A f : Meaning(f) = [k \in Keys(f) |-> Meaning(f)[k]]
  BY Zenon DEF Meaning
<1> HIDE DEF A, D
<1>5. ASSUME NEW k \in Keys(A)
      PROVE  Meaning(A)[k] = [Meaning(D) EXCEPT ![x] = p][k]
  <2>1. k \in DOMAIN Meaning(D)
    BY <1>3, MeaningDomain, Zenon
  <2>2. CASE k = key
    <3>1. Meaning(A)[k] = v /\ Meaning(D)[k] = v
      BY <1>1, <2>2, Zenon DEF Overwrites
    <3>2. k # x
      BY <2>2, Zenon
    <3>3. [Meaning(D) EXCEPT ![x] = p][k] = Meaning(D)[k]
      BY <2>1, <3>2, Zenon
    <3> QED
      BY <3>1, <3>3, Zenon
  <2>3. CASE k # key
    <3>1. k \in Keys(a) /\ k \in Keys(d)
      BY <1>1, <1>2, <2>3, Zenon DEF Overwrites
    <3>2. Meaning(A)[k] = Meaning(a)[k] /\ Meaning(D)[k] = Meaning(d)[k]
      BY <1>1, <2>3, <3>1, Zenon DEF Overwrites
    <3>3. k \in DOMAIN Meaning(d)
      BY <3>1, MeaningDomain, Zenon
    <3>4. Meaning(a)[k] = IF k = x THEN p ELSE Meaning(d)[k]
      BY <3>3, Zenon DEF Changes
    <3>5. [Meaning(D) EXCEPT ![x] = p][k] = IF k = x THEN p ELSE Meaning(D)[k]
      BY <2>1, Zenon
    <3> QED
      BY <3>2, <3>4, <3>5, Zenon
  <2> QED
    BY <2>2, <2>3, Zenon
<1>6. DOMAIN [Meaning(D) EXCEPT ![x] = p] = Keys(A)
  <2>1. DOMAIN [Meaning(D) EXCEPT ![x] = p] = DOMAIN Meaning(D)
    BY Zenon
  <2> QED
    BY <1>3, <2>1, MeaningDomain, Zenon
<1>7. [Meaning(D) EXCEPT ![x] = p] = [k \in Keys(A) |-> [Meaning(D) EXCEPT ![x] = p][k]]
  <2>1. [Meaning(D) EXCEPT ![x] = p] = [k \in DOMAIN Meaning(D) |-> IF k = x THEN p ELSE Meaning(D)[k]]
    BY Zenon
  <2> QED
    BY <1>6, <2>1
<1>8. Meaning(A) = [Meaning(D) EXCEPT ![x] = p]
  BY <1>4, <1>5, <1>7, Zenon
<1> QED
  BY <1>8, Zenon DEF Changes, A, D

\* The maintenance DSN of a keyword DSN.
LEMMA MaintainedKeywords ==
    ASSUME NEW d, IsDsn(d), OneWord(d), "dbname" \in Keys(d), NEW name, NEW m,
           \A i \in DOMAIN d.settings : Overwritten(d, i) => d.settings[i].val.words[1].key # "sslmode",
           NEW a, a = maintenanceKeywords(d, name)
    PROVE  /\ a.form = "keyword"
           /\ Changes(ModeKeyword(a, m), ModeKeyword(d, m), "dbname", Plain(name))
<1> DEFINE s == d.settings
<1>1. PICK x : x = "dbname"
  BY Zenon
<1>2. PICK p : p = Plain(name)
  BY Zenon
<1>3. PICK parts : parts = [Meaning(d) EXCEPT ![x] = p]
  BY Zenon
<1>4. Settled(d)
  BY DsnIsSettled, Zenon
<1>5. /\ DOMAIN parts = Keys(d)
      /\ parts = [k \in DOMAIN parts |-> parts[k]]
      /\ \A k \in Keys(d) : parts[k] = IF k = x THEN p ELSE Meaning(d)[k]
  <2>1. parts = [k \in DOMAIN Meaning(d) |-> IF k = x THEN p ELSE Meaning(d)[k]]
    BY <1>3, Zenon
  <2>2. DOMAIN Meaning(d) = Keys(d)
    BY MeaningDomain, Zenon
  <2>3. parts = [k \in Keys(d) |-> IF k = x THEN p ELSE Meaning(d)[k]]
    BY <2>1, <2>2, Zenon
  <2> QED
    BY <2>3, Zenon
<1>6. a = joinKeywordDSN(parts)
  BY <1>1, <1>2, <1>3, SplitIsMeaning, Zenon DEF maintenanceKeywords
<1>7. Joined(a, parts)
  BY <1>4, <1>5, <1>6, KeysAreFinite, JoinIs, Zenon
<1>8. Keys(a) = Keys(d) /\ Meaning(a) = parts
  BY <1>5, <1>7, JoinMeans, Zenon
<1>9. a.form = "keyword" /\ Settled(a)
  BY <1>7, Zenon DEF Joined
<1>10. \A i \in DOMAIN s : DOMAIN s[i].val.words = {1}
  <2> SUFFICES ASSUME NEW i \in DOMAIN s
               PROVE  DOMAIN s[i].val.words = {1}
    BY Zenon
  <2>1. s[i] \in [key : STRING \ {""}, val : [words : Seq([key : STRING, val : STRING]), level : {0}]]
    <3>1. s \in Seq([key : STRING \ {""}, val : [words : Seq([key : STRING, val : STRING]), level : {0}]])
      BY Zenon DEF IsDsn
    <3> QED
      BY <3>1, ElementOf
  <2>2. s[i].val.words \in Seq([key : STRING, val : STRING])
    BY <2>1
  <2>3. Len(s[i].val.words) = 1
    BY Zenon DEF OneWord
  <2> QED
    BY <2>2, <2>3, SingleWord
<1>11. ASSUME containsKeyword(d, "sslmode")
       PROVE  containsKeyword(a, "sslmode")
  <2>1. CASE "sslmode" \in Keys(d)
    BY <1>8, <2>1, KeyIsContained, Zenon
  <2>2. CASE "sslmode" \notin Keys(d)
    <3>1. PICK i \in DOMAIN s : \E j \in DOMAIN s[i].val.words : s[i].val.words[j].key = "sslmode"
      BY <1>11, <2>2, Zenon DEF containsKeyword, Keys
    <3>2. s[i].val.words[1].key = "sslmode" /\ 1 \in DOMAIN s[i].val.words
      BY <1>10, <3>1, Zenon
    <3>3. ~Overwritten(d, i)
      BY <3>2, Zenon
    <3>4. s[i].key # x /\ \A j \in DOMAIN s : i < j => s[j].key # s[i].key
      BY <1>1, <3>3, Zenon DEF Overwritten
    <3>5. \A j \in DOMAIN s : i < j \/ j <= i
      BY <1>4, SettledDomain
    <3>6. IsLast(s, s[i].key, i)
      BY <3>4, <3>5, Zenon DEF IsLast
    <3>7. s[i].key \in Keys(d) /\ Meaning(d)[s[i].key] = s[i].val
      BY <1>4, <3>6, MeaningAt
    <3>8. parts[s[i].key] = s[i].val
      BY <1>5, <3>4, <3>7, Zenon
    <3>9. PICK l \in DOMAIN a.settings : a.settings[l].key = s[i].key
      BY <1>5, <1>7, <3>7, Zenon DEF Joined
    <3>10. a.settings[l].val = s[i].val
      BY <1>7, <3>8, <3>9, Zenon DEF Joined
    <3> QED
      BY <3>2, <3>9, <3>10, Zenon DEF containsKeyword
  <2> QED
    BY <2>1, <2>2, Zenon
<1>12. ASSUME containsKeyword(a, "sslmode")
       PROVE  containsKeyword(d, "sslmode")
  <2>1. CASE "sslmode" \in Keys(d)
    BY <2>1, KeyIsContained, Zenon
  <2>2. CASE "sslmode" \notin Keys(d)
    <3>1. PICK l \in DOMAIN a.settings : HoldsKey(a.settings[l].val, "sslmode")
      BY <1>8, <1>12, <2>2, Zenon DEF containsKeyword, Keys, HoldsKey
    <3>2. PICK k \in Keys(d) : HoldsKey(parts[k], "sslmode")
      <4>1. a.settings[l].key \in DOMAIN parts /\ a.settings[l].val = parts[a.settings[l].key]
        BY <1>7, Zenon DEF Joined
      <4> QED
        BY <1>5, <3>1, <4>1, Zenon
    <3>3. k # x
      <4>1. "sslmode" # ""
        OBVIOUS
      <4>2. ~HoldsKey(p, "sslmode")
        BY <1>2, <4>1, PlainContains, Zenon
      <4> QED
        BY <1>5, <3>2, <4>2, Zenon
    <3>4. HoldsKey(Meaning(d)[k], "sslmode")
      BY <1>5, <3>2, <3>3, Zenon
    <3>5. PICK i : IsLast(s, k, i)
      BY <1>4, LastExists, Zenon
    <3>6. Meaning(d)[k] = s[i].val
      BY <1>4, <3>5, MeaningAt
    <3> QED
      BY <3>4, <3>5, <3>6, Zenon DEF HoldsKey, containsKeyword, IsLast
  <2> QED
    BY <2>1, <2>2, Zenon
<1>13. Meaning(ModeKeyword(a, m)) = [Meaning(ModeKeyword(d, m)) EXCEPT ![x] = p]
  <2>1. CASE containsKeyword(d, "sslmode")
    BY <1>3, <1>8, <1>11, <2>1, Zenon DEF ModeKeyword
  <2>2. CASE ~containsKeyword(d, "sslmode")
    <3>1. PICK key : key = "sslmode"
      BY Zenon
    <3>2. x # key
      BY <1>1, <3>1
    <3>3. PICK v : v = Plain(m)
      BY Zenon
    <3>4. ModeKeyword(a, m) = Add(a, key, v) /\ ModeKeyword(d, m) = Add(d, key, v)
      BY <1>12, <2>2, <3>1, <3>3, Zenon DEF ModeKeyword
    <3>5. Changes(a, d, x, p)
      BY <1>3, <1>8, Zenon DEF Changes
    <3>6. Changes(Add(a, key, v), Add(d, key, v), x, p)
      BY <1>4, <1>9, <3>2, <3>5, AddExcept, Zenon
    <3> QED
      BY <3>4, <3>6, Zenon DEF Changes
  <2> QED
    BY <2>1, <2>2, Zenon
<1> QED
  BY <1>1, <1>2, <1>9, <1>13, Zenon DEF Changes

-----------------------------------------------------------------------------
LEMMA NewValue ==
    ASSUME NEW r, NEW K, NEW V, r \in [key : K, val : V], NEW p
    PROVE  [r EXCEPT !.val = p].key = r.key /\ [r EXCEPT !.val = p].val = p
  OBVIOUS

\* The maintenance DSN of a URL.
LEMMA MaintainedURL ==
    ASSUME NEW d, IsDsn(d), NEW name, name \notin Special, NEW m, NEW a, a = replaceName(d, name)
    PROVE  /\ a.form = d.form
           /\ Changes(ModeURL(a, m), ModeURL(d, m), "dbname", Plain(name))
<1> DEFINE s == d.settings
           V == [words : Seq([key : STRING, val : STRING]), level : {0}]
<1>1. PICK x : x = "dbname"
  BY Zenon
<1>2. PICK p : p = Plain(name)
  BY Zenon
<1>3. Escape(Plain(name)) = p
  <2>1. ~IsSpecial(Plain(name))
    BY PlainWords, Zenon DEF IsSpecial
  <2> QED
    BY <1>2, <2>1, Zenon DEF Escape
<1>4. Settled(d)
  BY DsnIsSettled, Zenon
<1>5. \A i \in DOMAIN s : s[i] \in [key : STRING \ {""}, val : V]
  <2>1. s \in Seq([key : STRING \ {""}, val : V])
    BY Zenon DEF IsDsn
  <2> QED
    BY <2>1, ElementOf
<1> HIDE DEF V
<1> DEFINE t == [i \in DOMAIN s |-> IF s[i].key = x THEN [s[i] EXCEPT !.val = p] ELSE s[i]]
<1>6. a = [d EXCEPT !.settings = t]
  BY <1>1, <1>3, Zenon DEF replaceName
<1>7. \A i \in DOMAIN s : t[i] = IF s[i].key = x THEN [s[i] EXCEPT !.val = p] ELSE s[i]
  BY Zenon
<1>8. DOMAIN t = DOMAIN s /\ t = [i \in DOMAIN s |-> t[i]]
  BY Zenon
<1> HIDE DEF t
<1>9. a = [form |-> d.form, settings |-> t]
  BY <1>4, <1>6, WithSettings, Zenon DEF Settled
<1>10. a.form = d.form /\ a.settings = t
  BY <1>9, DsnFields, Zenon
<1>11. Settled(a)
  <2>1. PICK n \in Nat : DOMAIN s = 1..n
    BY <1>4, SettledDomain, Zenon
  <2>2. t \in Seq({t[i] : i \in 1..n})
    BY <1>8, <2>1, SequenceOf, Zenon
  <2> QED
    BY <1>9, <1>10, <2>2, Zenon DEF Settled
<1>12. \A i \in DOMAIN s : t[i].key = s[i].key /\ t[i].val = IF s[i].key = x THEN p ELSE s[i].val
  <2> SUFFICES ASSUME NEW i \in DOMAIN s
               PROVE  t[i].key = s[i].key /\ t[i].val = IF s[i].key = x THEN p ELSE s[i].val
    BY Zenon
  <2>1. [s[i] EXCEPT !.val = p].key = s[i].key /\ [s[i] EXCEPT !.val = p].val = p
    BY <1>5, NewValue, Zenon
  <2> QED
    BY <1>7, <2>1, Zenon
<1>13. Keys(a) = Keys(d)
  <2> DEFINE KA == {t[i].key : i \in DOMAIN t}
             KD == {s[i].key : i \in DOMAIN s}
  <2>k. \A i \in DOMAIN s : t[i].key = s[i].key
    BY <1>12, Zenon
  <2>1. \A k \in KA : k \in KD
    BY <1>8, <2>k, Zenon
  <2>2. \A k \in KD : k \in KA
    BY <1>8, <2>k, Zenon
  <2>3. Keys(a) = KA /\ Keys(d) = KD
    BY <1>10, Zenon DEF Keys
  <2> HIDE DEF KA, KD
  <2> QED
    BY <2>1, <2>2, <2>3, Zenon
<1>14. PICK f : f = [Meaning(d) EXCEPT ![x] = p]
  BY Zenon
<1>15. f = [k \in Keys(d) |-> f[k]] /\ \A k \in Keys(d) : f[k] = IF k = x THEN p ELSE Meaning(d)[k]
  <2>1. f = [k \in DOMAIN Meaning(d) |-> IF k = x THEN p ELSE Meaning(d)[k]]
    BY <1>14, Zenon
  <2>2. DOMAIN Meaning(d) = Keys(d)
    BY MeaningDomain, Zenon
  <2>3. f = [k \in Keys(d) |-> IF k = x THEN p ELSE Meaning(d)[k]]
    BY <2>1, <2>2, Zenon
  <2> QED
    BY <2>3, Zenon
<1>16. ASSUME NEW k \in Keys(d), NEW i, IsLast(t, k, i)
       PROVE  f[k] = t[i].val
  <2>1. IsLast(s, k, i)
    BY <1>8, <1>12, <1>16, Zenon DEF IsLast
  <2>2. Meaning(d)[k] = s[i].val
    BY <1>4, <2>1, MeaningAt
  <2>3. i \in DOMAIN s /\ s[i].key = k
    BY <2>1, Zenon DEF IsLast
  <2> QED
    BY <1>12, <1>15, <2>2, <2>3, Zenon
<1>17. Meaning(a) = [Meaning(d) EXCEPT ![x] = p]
  <2>1. \A k \in Keys(d) : \A i : IsLast(a.settings, k, i) => f[k] = a.settings[i].val
    BY <1>10, <1>16, Zenon
  <2>2. PICK K : K = Keys(d)
    BY Zenon
  <2>3. Meaning(a) = f
    BY <1>11, <1>13, <1>15, <2>1, <2>2, MeaningIs
  <2> QED
    BY <1>14, <2>3, Zenon
<1>18. PICK key : key = "sslmode"
  BY Zenon
<1>19. x # key
  BY <1>1, <1>18
<1>20. Given(a, key) <=> Given(d, key)
  <2>1. key \in Keys(d) => Meaning(a)[key] = Meaning(d)[key]
    BY <1>14, <1>15, <1>17, <1>19, Zenon
  <2> QED
    BY <1>13, <2>1, MeaningDomain, Zenon DEF Given
<1>21. Meaning(ModeURL(a, m)) = [Meaning(ModeURL(d, m)) EXCEPT ![x] = p]
  <2>1. CASE Given(d, key)
    BY <1>17, <1>18, <1>20, <2>1, Zenon DEF ModeURL
  <2>2. CASE ~Given(d, key)
    <3>1. PICK v : v = Plain(m)
      BY Zenon
    <3>2. ModeURL(a, m) = Add(a, key, v) /\ ModeURL(d, m) = Add(d, key, v)
      BY <1>18, <1>20, <2>2, <3>1, Zenon DEF ModeURL
    <3>3. Changes(a, d, x, p)
      BY <1>17, Zenon DEF Changes
    <3>4. Changes(Add(a, key, v), Add(d, key, v), x, p)
      BY <1>4, <1>11, <1>19, <3>3, AddExcept, Zenon
    <3> QED
      BY <3>2, <3>4, Zenon DEF Changes
  <2> QED
    BY <2>1, <2>2, Zenon
<1> QED
  BY <1>1, <1>2, <1>10, <1>21, Zenon DEF Changes

LEMMA MaintenanceFields ==
    ASSUME NEW r, NEW e, NEW t, NEW d, r = [err |-> e, target |-> t, dsn |-> d]
    PROVE  r.err = e /\ r.target = t /\ r.dsn = d
  OBVIOUS

\* What postgresMaintenanceDSN returns without an error.
Parts(d) == IF d.form = "url" THEN Meaning(d) ELSE splitKeywordDSN(d)
Maintained(r, d, name) ==
    /\ "dbname" \in DOMAIN Parts(d)
    /\ r.target = Parts(d)["dbname"]
    /\ r.dsn = IF d.form = "url" THEN replaceName(d, name) ELSE maintenanceKeywords(d, name)

LEMMA MaintenanceIs ==
    ASSUME NEW d, NEW db, postgresMaintenanceDSN(d, db).err = ""
    PROVE  Maintained(postgresMaintenanceDSN(d, db), d, firstNonEmpty(TrimSpace(db), "postgres"))
<1>n. PICK name : name = firstNonEmpty(TrimSpace(db), "postgres")
  BY Zenon
<1>p. PICK parts : parts = Parts(d)
  BY Zenon
<1>1. PICK r : r = postgresMaintenanceDSN(d, db)
  BY Zenon
<1>2. PICK e : e = "dsn must include a database name"
  BY Zenon
<1>3. e # ""
  BY <1>2
<1>4. PICK new : new = IF d.form = "url" THEN replaceName(d, name) ELSE maintenanceKeywords(d, name)
  BY Zenon
<1>5. r = IF "dbname" \notin DOMAIN parts \/ parts["dbname"] = Plain("")
          THEN [err |-> e, target |-> Plain(""), dsn |-> d]
          ELSE [err |-> "", target |-> parts["dbname"], dsn |-> new]
  BY <1>1, <1>2, <1>4, <1>n, <1>p, Zenon DEF postgresMaintenanceDSN, Parts
<1>6. ~("dbname" \notin DOMAIN parts \/ parts["dbname"] = Plain(""))
  <2> SUFFICES ASSUME "dbname" \notin DOMAIN parts \/ parts["dbname"] = Plain("")
               PROVE  FALSE
    BY Zenon
  <2>1. r = [err |-> e, target |-> Plain(""), dsn |-> d]
    BY <1>5, Zenon
  <2>2. r.err = e
    BY <2>1, MaintenanceFields, Zenon
  <2> QED
    BY <1>1, <1>3, <2>2, Zenon
<1>7. r = [err |-> "", target |-> parts["dbname"], dsn |-> new]
  BY <1>5, <1>6, Zenon
<1>8. r.target = parts["dbname"] /\ r.dsn = new
  BY <1>7, MaintenanceFields, Zenon
<1> QED
  BY <1>1, <1>4, <1>6, <1>8, <1>n, <1>p, Zenon DEF Maintained

LEMMA ModeOnly ==
    ASSUME NEW x, NEW s, NEW m, m = firstNonEmpty(s, "disable")
    PROVE  normalizePostgresDSN(x, s, "") = IF x.form = "url" THEN ModeURL(x, m) ELSE ModeKeyword(x, m)
<1>1. TrimSpace("") = ""
  BY GrantAssumption, Zenon
<1>2. normalizePostgresDSN(x, s, "") = IF x.form = "url" THEN normalizeURL(x, m, "") ELSE normalizeKeywords(x, m, "")
  BY <1>1, Zenon DEF normalizePostgresDSN
<1>3. normalizeURL(x, m, "") = ModeURL(x, m)
  BY NormalizeURLIs, Zenon
<1>4. normalizeKeywords(x, m, "") = ModeKeyword(x, m)
  BY NormalizeKeywordsIs, Zenon DEF PathKeyword
<1> QED
  BY <1>2, <1>3, <1>4, Zenon

LEMMA MaintenanceKeeps == Asked => MaintenanceKeepsSettings
<1> DEFINE d == call.dsn
           r == postgresMaintenanceDSN(d, call.maintenanceDB)
<1>1. PICK name : name = firstNonEmpty(TrimSpace(call.maintenanceDB), "postgres")
  BY Zenon
<1>2. SUFFICES ASSUME call \in Dsns, r.err = "", Tame(d)
               PROVE  /\ r.target = Meaning(d)["dbname"]
                      /\ name \notin Special =>
                            Normalized(r.dsn, "") = [Normalized(d, "") EXCEPT !["dbname"] = Plain(name)]
  BY <1>1, Zenon DEF MaintenanceKeepsSettings, Asked
<1>3. IsDsn(d)
  BY <1>2, DsnAssumption, Zenon
<1>4. PICK m : m = firstNonEmpty(call.sslMode, "disable")
  BY Zenon
<1>5. \A x : Normalized(x, "") = Meaning(IF x.form = "url" THEN ModeURL(x, m) ELSE ModeKeyword(x, m))
  BY <1>4, ModeOnly, Zenon DEF Normalized
<1>6. PICK parts : parts = Parts(d)
  BY Zenon
<1>7. /\ "dbname" \in DOMAIN parts
      /\ r.target = parts["dbname"]
      /\ r.dsn = IF d.form = "url" THEN replaceName(d, name) ELSE maintenanceKeywords(d, name)
  <2>1. Maintained(r, d, name)
    BY <1>1, <1>2, MaintenanceIs, Zenon
  <2> QED
    BY <1>6, <2>1, Zenon DEF Maintained
<1>8. PICK a : a = r.dsn
  BY Zenon
<1> HIDE DEF d, r
<1>9. CASE d.form = "url"
  <2>1. parts = Meaning(d) /\ a = replaceName(d, name)
    BY <1>6, <1>7, <1>8, <1>9, Zenon DEF Parts
  <2>2. ASSUME name \notin Special
        PROVE  Normalized(a, "") = [Normalized(d, "") EXCEPT !["dbname"] = Plain(name)]
    <3>1. a.form = d.form /\ Changes(ModeURL(a, m), ModeURL(d, m), "dbname", Plain(name))
      BY <1>3, <2>1, <2>2, MaintainedURL, Zenon
    <3>2. Normalized(a, "") = Meaning(ModeURL(a, m)) /\ Normalized(d, "") = Meaning(ModeURL(d, m))
      BY <1>5, <1>9, <3>1, Zenon
    <3> QED
      BY <3>1, <3>2, Zenon DEF Changes
  <2> QED
    BY <1>7, <1>8, <2>1, <2>2, Zenon
<1>10. CASE d.form # "url"
  <2>1. parts = splitKeywordDSN(d) /\ a = maintenanceKeywords(d, name)
    BY <1>6, <1>7, <1>8, <1>10, Zenon DEF Parts
  <2>2. OneWord(d)
    BY <1>2, <1>10, Zenon DEF Tame, OneWord
  <2>3. \A i \in DOMAIN d.settings : Overwritten(d, i) => d.settings[i].val.words[1].key # "sslmode"
    BY <1>2, <1>10, Zenon DEF Tame
  <2>4. parts = Meaning(d)
    BY <1>3, <2>1, <2>2, SplitIsMeaning, Zenon
  <2>5. "dbname" \in Keys(d)
    BY <1>7, <2>4, MeaningDomain, Zenon
  <2>6. a.form = "keyword" /\ Changes(ModeKeyword(a, m), ModeKeyword(d, m), "dbname", Plain(name))
    BY <1>3, <2>1, <2>2, <2>3, <2>5, MaintainedKeywords, Zenon
  <2>7. "keyword" # "url"
    OBVIOUS
  <2>8. Normalized(a, "") = Meaning(ModeKeyword(a, m)) /\ Normalized(d, "") = Meaning(ModeKeyword(d, m))
    BY <1>5, <1>10, <2>6, <2>7, Zenon
  <2>9. Normalized(a, "") = [Normalized(d, "") EXCEPT !["dbname"] = Plain(name)]
    BY <2>6, <2>8, Zenon DEF Changes
  <2> QED
    BY <1>7, <1>8, <2>4, <2>9, Zenon
<1> QED
  BY <1>9, <1>10, Zenon

(***************************************************************************)
(* Rewriting a DSN loses none of its settings, for every DSN in URL or     *)
(* keyword form and every configuration beside it: what                    *)
(* normalizePostgresDSN adds and what postgresMaintenanceDSN changes.      *)
(***************************************************************************)
THEOREM DsnSafety == Spec => []DsnKeepsSettings
<1>1. Asked => DsnKeepsSettings
  BY OnlyAdds, MaintenanceKeeps DEF DsnKeepsSettings
<1> QED
  BY <1>1, QuestionStays, PTL

-----------------------------------------------------------------------------
(* Configuration *)

\* A path above another one is shorter, and so is everything above it.
LEMMA AboveIs ==
    ASSUME NEW X, NEW p \in Seq(X), NEW q \in Above(p)
    PROVE  /\ q \in Seq(X) /\ Len(q) \in 1..(Len(p) - 1)
           /\ q = SubSeq(p, 1, Len(q))
<1>1. PICK n \in 1..(Len(p) - 1) : q = SubSeq(p, 1, n)
  BY DEF Above
<1>2. \A i \in 1..n : p[i] \in X
  OBVIOUS
<1>3. SubSeq(p, 1, n) \in Seq(X) /\ Len(SubSeq(p, 1, n)) = n
  BY <1>2
<1> QED
  BY <1>1, <1>3

LEMMA SubSub ==
    ASSUME NEW X, NEW p \in Seq(X), NEW n \in 1..Len(p), NEW k \in 1..n
    PROVE  SubSeq(SubSeq(p, 1, n), 1, k) = SubSeq(p, 1, k)
  OBVIOUS

LEMMA AboveAbove ==
    ASSUME NEW X, NEW p \in Seq(X), NEW q \in Above(p), NEW r \in Above(q)
    PROVE  r \in Above(p)
<1>1. q \in Seq(X) /\ Len(q) \in 1..(Len(p) - 1) /\ q = SubSeq(p, 1, Len(q))
  BY AboveIs
<1>2. Len(r) \in 1..(Len(q) - 1) /\ r = SubSeq(q, 1, Len(r))
  BY <1>1, AboveIs
<1>3. Len(q) \in 1..Len(p) /\ Len(r) \in 1..Len(q) /\ Len(r) \in 1..(Len(p) - 1)
  BY <1>1, <1>2
<1>4. r = SubSeq(p, 1, Len(r))
  BY <1>1, <1>2, <1>3, SubSub
<1> QED
  BY <1>3, <1>4 DEF Above

LEMMA NotAboveItself ==
    ASSUME NEW X, NEW p \in Seq(X)
    PROVE  p \notin Above(p)
<1>1. ASSUME p \in Above(p)
      PROVE  Len(p) \in 1..(Len(p) - 1)
  BY <1>1, AboveIs
<1>2. Len(p) \notin 1..(Len(p) - 1)
  OBVIOUS
<1> QED
  BY <1>1, <1>2, Zenon

\* A map that has taken over another one.
Takes(new, old, m) ==
    /\ IsTree(new)
    /\ \A p \in Seq(STRING) : At(new, p) = IF Speaks(m, p) THEN At(m, p) ELSE At(old, p)

LEMMA AtIs ==
    /\ \A m, p : p \in DOMAIN m => At(m, p) = {m[p]}
    /\ \A m, p : p \notin DOMAIN m => At(m, p) = {}
  BY Zenon DEF At

LEMMA AtSame ==
    ASSUME NEW a, NEW b, NEW p, p \in DOMAIN a <=> p \in DOMAIN b, p \in DOMAIN a => a[p] = b[p]
    PROVE  At(a, p) = At(b, p)
<1>1. CASE p \in DOMAIN a
  <2>1. At(a, p) = {a[p]} /\ At(b, p) = {b[p]}
    BY <1>1, AtIs, Zenon
  <2> QED
    BY <1>1, <2>1, Zenon
<1>2. CASE p \notin DOMAIN a
  BY <1>2, AtIs, Zenon
<1> QED
  BY <1>1, <1>2, Zenon

\* mergeMap, path by path.
LEMMA MergeIs ==
    ASSUME NEW old, NEW m, NEW new, new = mergeMap(old, m)
    PROVE  /\ new = [p \in DOMAIN new |-> new[p]]
           /\ \A p : p \in DOMAIN new <=>
                        \/ p \in DOMAIN m
                        \/ p \in DOMAIN old /\ \A q \in Above(p) : q \in DOMAIN m => m[q] = Section
           /\ \A p \in DOMAIN new : p \in DOMAIN m => new[p] = m[p]
           /\ \A p \in DOMAIN new : p \notin DOMAIN m => new[p] = old[p]
<1> DEFINE K == {p \in DOMAIN old : \A q \in Above(p) : q \in DOMAIN m => m[q] = Section}
           g == [p \in K |-> old[p]]
<1>1. new = [p \in DOMAIN m \cup DOMAIN g |-> IF p \in DOMAIN m THEN m[p] ELSE g[p]]
  BY Zenon DEF mergeMap, Over, Restrict
<1>2. DOMAIN g = K /\ \A p \in K : g[p] = old[p]
  BY Zenon
<1> HIDE DEF g
<1>3. new = [p \in DOMAIN m \cup K |-> IF p \in DOMAIN m THEN m[p] ELSE g[p]]
  BY <1>1, <1>2, Zenon
<1>4. DOMAIN new = DOMAIN m \cup K
  BY <1>3, Zenon
<1>5. \A p \in DOMAIN new : new[p] = IF p \in DOMAIN m THEN m[p] ELSE g[p]
  BY <1>3, Zenon
<1>6. \A p \in DOMAIN new : p \notin DOMAIN m => new[p] = old[p]
  BY <1>2, <1>4, <1>5, Zenon
<1>7. \A p : p \in DOMAIN new <=>
                \/ p \in DOMAIN m
                \/ p \in DOMAIN old /\ \A q \in Above(p) : q \in DOMAIN m => m[q] = Section
  BY <1>4, Zenon
<1>8. new = [p \in DOMAIN new |-> new[p]]
  BY <1>3, Zenon
<1> QED
  BY <1>5, <1>6, <1>7, <1>8, Zenon

\* What IsTree says, one fact at a time.
LEMMA TreeFacts ==
    ASSUME NEW m, IsTree(m)
    PROVE  /\ m = [p \in DOMAIN m |-> m[p]]
           /\ \A p \in DOMAIN m : p \in Seq(STRING) /\ p # <<>>
           /\ \A p \in DOMAIN m : \A q \in Above(p) : q \in DOMAIN m /\ m[q] = Section
  BY Zenon DEF IsTree

LEMMA TreeFrom ==
    ASSUME NEW m, m = [p \in DOMAIN m |-> m[p]],
           \A p \in DOMAIN m : p \in Seq(STRING) /\ p # <<>>,
           \A p \in DOMAIN m : \A q \in Above(p) : q \in DOMAIN m /\ m[q] = Section
    PROVE  IsTree(m)
  BY Zenon DEF IsTree

LEMMA MergeTakes ==
    ASSUME NEW old, NEW m, IsTree(old), IsTree(m)
    PROVE  Takes(mergeMap(old, m), old, m)
<1>1. PICK new : new = mergeMap(old, m)
  BY Zenon
<1>2. /\ new = [p \in DOMAIN new |-> new[p]]
      /\ \A p : p \in DOMAIN new <=>
                   \/ p \in DOMAIN m
                   \/ p \in DOMAIN old /\ \A q \in Above(p) : q \in DOMAIN m => m[q] = Section
      /\ \A p \in DOMAIN new : p \in DOMAIN m => new[p] = m[p]
      /\ \A p \in DOMAIN new : p \notin DOMAIN m => new[p] = old[p]
  BY <1>1, MergeIs
<1>3. /\ \A p \in DOMAIN m : p \in Seq(STRING) /\ p # <<>>
      /\ \A p \in DOMAIN m : \A q \in Above(p) : q \in DOMAIN m /\ m[q] = Section
  BY TreeFacts, Zenon
<1>4. /\ \A p \in DOMAIN old : p \in Seq(STRING) /\ p # <<>>
      /\ \A p \in DOMAIN old : \A q \in Above(p) : q \in DOMAIN old /\ old[q] = Section
  BY TreeFacts, Zenon
<1>5. \A p \in DOMAIN new : p \in Seq(STRING) /\ p # <<>>
  BY <1>2, <1>3, <1>4, Zenon
<1>6. ASSUME NEW p \in DOMAIN new, NEW q \in Above(p)
      PROVE  q \in DOMAIN new /\ new[q] = Section
  <2>1. CASE p \in DOMAIN m
    BY <1>2, <1>3, <2>1, Zenon
  <2>2. CASE p \notin DOMAIN m
    <3>1. p \in DOMAIN old /\ \A r \in Above(p) : r \in DOMAIN m => m[r] = Section
      BY <1>2, <2>2, Zenon
    <3>2. q \in DOMAIN old /\ old[q] = Section
      BY <1>4, <3>1, Zenon
    <3>3. \A r \in Above(q) : r \in Above(p)
      BY <1>5, AboveAbove, Zenon
    <3>4. q \in DOMAIN new
      BY <1>2, <3>1, <3>2, <3>3, Zenon
    <3>5. q \in DOMAIN m => new[q] = Section
      BY <1>2, <3>1, <3>4, Zenon
    <3>6. q \notin DOMAIN m => new[q] = Section
      BY <1>2, <3>2, <3>4, Zenon
    <3> QED
      BY <3>4, <3>5, <3>6, Zenon
  <2> QED
    BY <2>1, <2>2, Zenon
<1>7. IsTree(new)
  BY <1>2, <1>5, <1>6, TreeFrom, Zenon
<1>8. ASSUME NEW p \in Seq(STRING)
      PROVE  At(new, p) = IF Speaks(m, p) THEN At(m, p) ELSE At(old, p)
  <2>1. CASE p \in DOMAIN m
    <3>1. p \in DOMAIN new /\ new[p] = m[p] /\ Speaks(m, p)
      BY <1>2, <2>1, Zenon DEF Speaks
    <3>2. At(new, p) = At(m, p)
      BY <2>1, <3>1, AtSame, Zenon
    <3> QED
      BY <3>1, <3>2, Zenon
  <2>2. CASE p \notin DOMAIN m /\ Speaks(m, p)
    <3>1. p \notin DOMAIN new
      BY <1>2, <2>2, Zenon DEF Speaks
    <3> QED
      BY <2>2, <3>1, AtIs, Zenon
  <2>3. CASE ~Speaks(m, p)
    <3>1. p \notin DOMAIN m /\ \A q \in Above(p) : q \in DOMAIN m => m[q] = Section
      BY <2>3, Zenon DEF Speaks
    <3>2. p \in DOMAIN new <=> p \in DOMAIN old
      BY <1>2, <3>1, Zenon
    <3>3. p \in DOMAIN new => new[p] = old[p]
      BY <1>2, <3>1, Zenon
    <3>4. At(new, p) = At(old, p)
      BY <3>2, <3>3, AtSame, Zenon
    <3> QED
      BY <2>3, <3>4, Zenon
  <2> QED
    BY <2>1, <2>2, <2>3, Zenon
<1> QED
  BY <1>1, <1>7, <1>8, Zenon DEF Takes

\* A skipped file changes nothing.
LEMMA NothingTakes ==
    ASSUME NEW old, IsTree(old)
    PROVE  Takes(old, old, NoKeys)
<1>1. \A p : p \notin DOMAIN NoKeys
  BY Zenon DEF NoKeys
<1>2. \A p : ~Speaks(NoKeys, p)
  BY <1>1, Zenon DEF Speaks
<1> QED
  BY <1>2, Zenon DEF Takes

-----------------------------------------------------------------------------
LEMMA VariableIs ==
    ASSUME NEW kv, NEW keys, keys = kv.keys, NEW m, m = Variable(kv)
    PROVE  /\ \A p : p \in DOMAIN m <=> p \in Above(keys) \/ p = keys
           /\ m[keys] = Scalar("string", kv.val)
           /\ \A p \in DOMAIN m : p # keys => m[p] = Section
<1> DEFINE leaves == [p \in {keys} |-> Scalar("string", kv.val)]
<1>1. m = [p \in DOMAIN leaves \cup UNION {Above(q) : q \in DOMAIN leaves} |->
              IF p \in DOMAIN leaves THEN leaves[p] ELSE Section]
  BY Zenon DEF Variable, Tree
<1>2. DOMAIN leaves = {keys} /\ leaves[keys] = Scalar("string", kv.val)
  BY Zenon
<1> HIDE DEF leaves
<1>3. m = [p \in {keys} \cup UNION {Above(q) : q \in {keys}} |-> IF p \in {keys} THEN leaves[p] ELSE Section]
  BY <1>1, <1>2, Zenon
<1>4. \A p : p \in {keys} \cup UNION {Above(q) : q \in {keys}} <=> p \in Above(keys) \/ p = keys
  BY Zenon
<1>5. DOMAIN m = {keys} \cup UNION {Above(q) : q \in {keys}}
  BY <1>3, Zenon
<1>6. \A p \in DOMAIN m : m[p] = IF p \in {keys} THEN leaves[p] ELSE Section
  BY <1>3, <1>5, Zenon
<1>7. keys \in DOMAIN m
  BY <1>4, <1>5, Zenon
<1>8. m[keys] = Scalar("string", kv.val)
  BY <1>2, <1>6, <1>7, Zenon
<1> QED
  BY <1>4, <1>5, <1>6, <1>8, Zenon

LEMMA ScalarIsNoSection == \A v : Scalar("string", v) # Section
<1>1. \A v : Scalar("string", v).type = "string"
  BY DEF Scalar
<1>2. Section.type = "map"
  BY DEF Section, Scalar
<1>3. "string" # "map"
  OBVIOUS
<1> QED
  BY <1>1, <1>2, <1>3, Zenon

LEMMA SetIs ==
    ASSUME NEW old, NEW keys, NEW v, NEW new, new = setNested(old, keys, v)
    PROVE  /\ new = [p \in DOMAIN new |-> new[p]]
           /\ \A p : p \in DOMAIN new <=> p \in Above(keys) \/ p = keys \/ (p \in DOMAIN old /\ keys \notin Above(p))
           /\ \A p \in DOMAIN new : new[p] = IF p = keys THEN v ELSE IF p \in Above(keys) THEN Section ELSE old[p]
<1> DEFINE D == Above(keys) \cup {keys} \cup {p \in DOMAIN old : keys \notin Above(p)}
<1>1. new = [p \in D |-> IF p = keys THEN v ELSE IF p \in Above(keys) THEN Section ELSE old[p]]
  BY Zenon DEF setNested
<1>2. \A p : p \in D <=> p \in Above(keys) \/ p = keys \/ (p \in DOMAIN old /\ keys \notin Above(p))
  BY Zenon
<1> HIDE DEF D
<1>3. DOMAIN new = D
  BY <1>1, Zenon
<1>4. \A p \in D : new[p] = IF p = keys THEN v ELSE IF p \in Above(keys) THEN Section ELSE old[p]
  BY <1>1, Zenon
<1>5. new = [p \in DOMAIN new |-> new[p]]
  BY <1>1, Zenon
<1> QED
  BY <1>2, <1>3, <1>4, <1>5, Zenon

LEMMA SetTakes ==
    ASSUME NEW old, IsTree(old), NEW kv, kv.keys \in Seq(STRING), kv.keys # <<>>
    PROVE  Takes(setNested(old, kv.keys, Scalar("string", kv.val)), old, Variable(kv))
<1>0. PICK keys : keys = kv.keys
  BY Zenon
<1>a. PICK m : m = Variable(kv)
  BY Zenon
<1>v. PICK v : v = Scalar("string", kv.val)
  BY Zenon
<1>1. PICK new : new = setNested(old, keys, v)
  BY Zenon
<1>2. /\ new = [p \in DOMAIN new |-> new[p]]
      /\ \A p : p \in DOMAIN new <=> p \in Above(keys) \/ p = keys \/ (p \in DOMAIN old /\ keys \notin Above(p))
      /\ \A p \in DOMAIN new : new[p] = IF p = keys THEN v ELSE IF p \in Above(keys) THEN Section ELSE old[p]
  BY <1>1, SetIs
<1>3. /\ \A p : p \in DOMAIN m <=> p \in Above(keys) \/ p = keys
      /\ m[keys] = v
      /\ \A p \in DOMAIN m : p # keys => m[p] = Section
  BY <1>0, <1>a, <1>v, VariableIs
<1>4. /\ \A p \in DOMAIN old : p \in Seq(STRING) /\ p # <<>>
      /\ \A p \in DOMAIN old : \A q \in Above(p) : q \in DOMAIN old /\ old[q] = Section
  BY TreeFacts, Zenon
<1>5. keys \in Seq(STRING) /\ keys # <<>> /\ keys \notin Above(keys)
  BY <1>0, NotAboveItself, Zenon
<1>6. \A p \in Above(keys) : p \in Seq(STRING) /\ p # <<>>
  <2> SUFFICES ASSUME NEW p \in Above(keys)
               PROVE  p \in Seq(STRING) /\ p # <<>>
    BY Zenon
  <2>1. p \in Seq(STRING) /\ Len(p) \in 1..(Len(keys) - 1)
    BY <1>5, AboveIs
  <2> QED
    BY <2>1
<1>7. \A p \in DOMAIN new : p \in Seq(STRING) /\ p # <<>>
  BY <1>2, <1>4, <1>5, <1>6, Zenon
<1>8. ASSUME NEW p \in DOMAIN new, NEW q \in Above(p)
      PROVE  q \in DOMAIN new /\ new[q] = Section
  <2>a. \A r \in Above(q) : r \in Above(p)
    BY <1>7, AboveAbove, Zenon
  <2>1. CASE p \in Above(keys) \/ p = keys
    <3>1. q \in Above(keys)
      BY <1>5, <2>1, AboveAbove, Zenon
    <3>2. q # keys
      BY <1>5, <3>1, Zenon
    <3> QED
      BY <1>2, <3>1, <3>2, Zenon
  <2>2. CASE ~(p \in Above(keys) \/ p = keys)
    <3>1. p \in DOMAIN old /\ keys \notin Above(p)
      BY <1>2, <2>2, Zenon
    <3>2. q \in DOMAIN old /\ old[q] = Section
      BY <1>4, <3>1, Zenon
    <3>3. keys \notin Above(q) /\ q # keys
      BY <2>a, <3>1, Zenon
    <3>4. q \in DOMAIN new
      BY <1>2, <3>2, <3>3, Zenon
    <3> QED
      BY <1>2, <3>2, <3>3, <3>4, Zenon
  <2> QED
    BY <2>1, <2>2, Zenon
<1>9. IsTree(new)
  BY <1>2, <1>7, <1>8, TreeFrom, Zenon
<1>10. ASSUME NEW p \in Seq(STRING)
       PROVE  At(new, p) = IF Speaks(m, p) THEN At(m, p) ELSE At(old, p)
  <2>1. CASE p \in DOMAIN m
    <3>1. p \in DOMAIN new /\ new[p] = m[p]
      BY <1>2, <1>3, <2>1, Zenon
    <3>2. Speaks(m, p)
      BY <2>1, Zenon DEF Speaks
    <3>3. At(new, p) = At(m, p)
      BY <2>1, <3>1, AtSame, Zenon
    <3> QED
      BY <3>2, <3>3, Zenon
  <2>2. CASE p \notin DOMAIN m /\ keys \in Above(p)
    <3>1. p \notin DOMAIN new
      BY <1>2, <1>3, <2>2, Zenon
    <3>2. keys \in DOMAIN m /\ m[keys] # Section
      BY <1>3, <1>v, ScalarIsNoSection, Zenon
    <3>3. Speaks(m, p)
      BY <2>2, <3>2, Zenon DEF Speaks
    <3> QED
      BY <2>2, <3>1, <3>3, AtIs, Zenon
  <2>3. CASE p \notin DOMAIN m /\ keys \notin Above(p)
    <3>1. ~Speaks(m, p)
      BY <1>3, <2>3, Zenon DEF Speaks
    <3>2. p \in DOMAIN new <=> p \in DOMAIN old
      BY <1>2, <1>3, <2>3, Zenon
    <3>3. p \in DOMAIN new => new[p] = old[p]
      BY <1>2, <1>3, <2>3, Zenon
    <3>4. At(new, p) = At(old, p)
      BY <3>2, <3>3, AtSame, Zenon
    <3> QED
      BY <3>1, <3>4, Zenon
  <2> QED
    BY <2>1, <2>2, <2>3, Zenon
<1> QED
  BY <1>0, <1>a, <1>v, <1>1, <1>9, <1>10, Zenon DEF Takes

-----------------------------------------------------------------------------
\* What the first sources put at a path, up to number n.
WordAfter(n, p) ==
    UNION {At(Source(i), p) : i \in {k \in 0..n : Speaks(Source(k), p) /\ \A j \in 0..n : Speaks(Source(j), p) => j <= k}}

\* The map that the first sources make.
MadeOf(m, n) == IsTree(m) /\ \A p \in Seq(STRING) : At(m, p) = WordAfter(n, p)

\* One more source.
LEMMA NextSource ==
    ASSUME NEW n \in Nat, NEW old, NEW new, MadeOf(old, n), Takes(new, old, Source(n + 1))
    PROVE  MadeOf(new, n + 1)
<1> DEFINE Latest(p, N) == {k \in 0..N : Speaks(Source(k), p) /\ \A j \in 0..N : Speaks(Source(j), p) => j <= k}
<1>1. \A k : k \in 0..(n + 1) <=> k \in 0..n \/ k = n + 1
  OBVIOUS
<1>2. \A k \in 0..n : k <= n + 1 /\ ~(n + 1 <= k)
  OBVIOUS
<1>3. n + 1 <= n + 1
  OBVIOUS
<1>4. PICK N : N = n + 1
  BY Zenon
<1>5. ASSUME NEW p \in Seq(STRING)
      PROVE  At(new, p) = WordAfter(N, p)
  <2>1. CASE Speaks(Source(N), p)
    <3>1. At(new, p) = At(Source(N), p)
      BY <1>4, <2>1, Zenon DEF Takes
    <3>2. \A k : k \in Latest(p, N) <=> k = N
      BY <1>1, <1>2, <1>3, <1>4, <2>1, Zenon
    <3>3. WordAfter(N, p) = UNION {At(Source(i), p) : i \in Latest(p, N)}
      BY Zenon DEF WordAfter
    <3> HIDE DEF Latest
    <3>4. \A x : x \in UNION {At(Source(i), p) : i \in Latest(p, N)} <=> x \in At(Source(N), p)
      BY <3>2, Zenon
    <3> QED
      BY <3>1, <3>3, <3>4, Zenon
  <2>2. CASE ~Speaks(Source(N), p)
    <3>1. At(new, p) = At(old, p)
      BY <1>4, <2>2, Zenon DEF Takes
    <3>2. \A k : k \in Latest(p, N) <=> k \in Latest(p, n)
      BY <1>1, <1>4, <2>2, Zenon
    <3>3. Latest(p, N) = Latest(p, n)
      <4> HIDE DEF Latest
      <4> QED
        BY <3>2, Zenon
    <3>4. WordAfter(N, p) = UNION {At(Source(i), p) : i \in Latest(p, N)}
      BY Zenon DEF WordAfter
    <3>5. WordAfter(n, p) = UNION {At(Source(i), p) : i \in Latest(p, n)}
      BY Zenon DEF WordAfter
    <3>6. At(old, p) = WordAfter(n, p)
      BY Zenon DEF MadeOf
    <3> HIDE DEF Latest
    <3> QED
      BY <3>1, <3>3, <3>4, <3>5, <3>6, Zenon
  <2> QED
    BY <2>1, <2>2, Zenon
<1>6. IsTree(new)
  BY Zenon DEF Takes
<1> QED
  BY <1>4, <1>5, <1>6, Zenon DEF MadeOf

LEMMA FirstSource == MadeOf(Defaults, 0)
<1>1. Source(0) = Defaults
  BY Zenon DEF Source
<1>2. \A k : k \in 0..0 <=> k = 0
  OBVIOUS
<1>3. 0 <= 0
  OBVIOUS
<1>4. IsTree(Defaults)
  BY LoadAssumption, Zenon
<1>5. ASSUME NEW p \in Seq(STRING)
      PROVE  At(Defaults, p) = WordAfter(0, p)
  <2> DEFINE L == {k \in 0..0 : Speaks(Source(k), p) /\ \A j \in 0..0 : Speaks(Source(j), p) => j <= k}
  <2>1. \A k : k \in L <=> k = 0 /\ Speaks(Defaults, p)
    BY <1>1, <1>2, <1>3, Zenon
  <2>2. WordAfter(0, p) = UNION {At(Source(i), p) : i \in L}
    BY Zenon DEF WordAfter
  <2> HIDE DEF L
  <2>3. ~Speaks(Defaults, p) => At(Defaults, p) = {}
    BY AtIs, Zenon DEF Speaks
  <2>4. \A x : x \in WordAfter(0, p) <=> x \in At(Defaults, p)
    BY <1>1, <2>1, <2>2, <2>3, Zenon
  <2> QED
    BY <2>4, Zenon
<1> QED
  BY <1>4, <1>5, Zenon DEF MadeOf

-----------------------------------------------------------------------------
\* The loop over the files and the loop over the variables, as in cleanActions.
FileTurn(files, m, n) == IF files[n].err = "skip" THEN m ELSE mergeMap(m, files[n].map)
IsRead(files, f, n) == f = [k \in 0..n |-> IF k = 0 THEN Defaults ELSE FileTurn(files, f[k - 1], k)]

EnvTurn(env, m, n) == setNested(m, env[n].keys, Scalar("string", env[n].val))
IsEnv(root, env, f, n) == f = [k \in 0..n |-> IF k = 0 THEN root ELSE EnvTurn(env, f[k - 1], k)]

LEMMA ReadExists ==
    ASSUME NEW files, NEW N \in Nat
    PROVE  \E f : IsRead(files, f, N)
<1> DEFINE S == {n \in Nat : \E f : IsRead(files, f, n)}
<1>1. 0 \in S
  <2> DEFINE f == [k \in 0..0 |-> Defaults]
  <2>1. f = [k \in 0..0 |-> IF k = 0 THEN Defaults ELSE FileTurn(files, f[k - 1], k)]
    OBVIOUS
  <2> QED
    BY <2>1 DEF IsRead
<1>2. ASSUME NEW n \in Nat, n \in S
      PROVE  n + 1 \in S
  <2>1. PICK f : IsRead(files, f, n)
    BY <1>2
  <2> DEFINE g == [k \in 0..(n + 1) |-> IF k = n + 1 THEN FileTurn(files, f[n], n + 1) ELSE f[k]]
  <2>2. \A k \in 0..n : f[k] = IF k = 0 THEN Defaults ELSE FileTurn(files, f[k - 1], k)
    BY <2>1 DEF IsRead
  <2>3. ASSUME NEW k \in 0..(n + 1)
        PROVE  g[k] = IF k = 0 THEN Defaults ELSE FileTurn(files, g[k - 1], k)
    <3>1. k # 0 => k - 1 \in 0..n /\ k - 1 \in 0..(n + 1) /\ k - 1 # n + 1
      OBVIOUS
    <3>2. k # 0 => g[k - 1] = f[k - 1]
      BY <3>1
    <3>3. CASE k = n + 1
      BY <3>2, <3>3
    <3>4. CASE k # n + 1
      <4>1. k \in 0..n /\ g[k] = f[k]
        BY <3>4
      <4> HIDE DEF g
      <4> QED
        BY <2>2, <3>2, <4>1
    <3> QED
      BY <3>3, <3>4
  <2>4. g = [k \in 0..(n + 1) |-> IF k = 0 THEN Defaults ELSE FileTurn(files, g[k - 1], k)]
    <3>1. g = [k \in 0..(n + 1) |-> g[k]]
      OBVIOUS
    <3> HIDE DEF g
    <3> QED
      BY <2>3, <3>1
  <2> HIDE DEF g
  <2> QED
    BY <2>4 DEF IsRead
<1>3. Nat \subseteq S
  <2> HIDE DEF S
  <2> QED
    BY <1>1, <1>2, CountUp
<1> QED
  BY <1>3

LEMMA EnvExists ==
    ASSUME NEW root, NEW env, NEW N \in Nat
    PROVE  \E f : IsEnv(root, env, f, N)
<1> DEFINE S == {n \in Nat : \E f : IsEnv(root, env, f, n)}
<1>1. 0 \in S
  <2> DEFINE f == [k \in 0..0 |-> root]
  <2>1. f = [k \in 0..0 |-> IF k = 0 THEN root ELSE EnvTurn(env, f[k - 1], k)]
    OBVIOUS
  <2> QED
    BY <2>1 DEF IsEnv
<1>2. ASSUME NEW n \in Nat, n \in S
      PROVE  n + 1 \in S
  <2>1. PICK f : IsEnv(root, env, f, n)
    BY <1>2
  <2> DEFINE g == [k \in 0..(n + 1) |-> IF k = n + 1 THEN EnvTurn(env, f[n], n + 1) ELSE f[k]]
  <2>2. \A k \in 0..n : f[k] = IF k = 0 THEN root ELSE EnvTurn(env, f[k - 1], k)
    BY <2>1 DEF IsEnv
  <2>3. ASSUME NEW k \in 0..(n + 1)
        PROVE  g[k] = IF k = 0 THEN root ELSE EnvTurn(env, g[k - 1], k)
    <3>1. k # 0 => k - 1 \in 0..n /\ k - 1 \in 0..(n + 1) /\ k - 1 # n + 1
      OBVIOUS
    <3>2. k # 0 => g[k - 1] = f[k - 1]
      BY <3>1
    <3>3. CASE k = n + 1
      BY <3>2, <3>3
    <3>4. CASE k # n + 1
      <4>1. k \in 0..n /\ g[k] = f[k]
        BY <3>4
      <4> HIDE DEF g
      <4> QED
        BY <2>2, <3>2, <4>1
    <3> QED
      BY <3>3, <3>4
  <2>4. g = [k \in 0..(n + 1) |-> IF k = 0 THEN root ELSE EnvTurn(env, g[k - 1], k)]
    <3>1. g = [k \in 0..(n + 1) |-> g[k]]
      OBVIOUS
    <3> HIDE DEF g
    <3> QED
      BY <2>3, <3>1
  <2> HIDE DEF g
  <2> QED
    BY <2>4 DEF IsEnv
<1>3. Nat \subseteq S
  <2> HIDE DEF S
  <2> QED
    BY <1>1, <1>2, CountUp
<1> QED
  BY <1>3

LEMMA ReadMakes ==
    ASSUME call \in Loads
    PROVE  MadeOf(readFiles(call.files), Len(call.files))
<1> DEFINE files == call.files
           N == Len(files)
           f == CHOOSE g : IsRead(files, g, N)
           S == {n \in Nat : n <= N => MadeOf(f[n], n)}
<1>1. N \in Nat /\ DOMAIN files = 1..N
  BY LoadAssumption
<1>2. readFiles(files) = f[N]
  BY Zenon DEF readFiles, IsRead, FileTurn
<1>3. IsRead(files, f, N)
  BY <1>1, ReadExists, Zenon
<1>t. \A i \in DOMAIN files : IsTree(files[i].map)
  BY LoadAssumption, Zenon
<1> HIDE DEF f
<1>4. \A k \in 0..N : f[k] = IF k = 0 THEN Defaults ELSE FileTurn(files, f[k - 1], k)
  BY <1>3 DEF IsRead
<1>5. 0 \in S
  <2>1. 0 \in 0..N
    BY <1>1
  <2>2. f[0] = Defaults
    BY <1>4, <2>1, Zenon
  <2>3. MadeOf(f[0], 0)
    BY <2>2, FirstSource, Zenon
  <2> QED
    BY <2>3
<1>6. ASSUME NEW n \in Nat, n \in S
      PROVE  n + 1 \in S
  <2> SUFFICES ASSUME n + 1 <= N
               PROVE  MadeOf(f[n + 1], n + 1)
    OBVIOUS
  <2>1. n <= N /\ n + 1 \in 0..N /\ n + 1 # 0 /\ (n + 1) - 1 = n /\ n + 1 \in DOMAIN files /\ ~(n + 1 > N)
    BY <1>1
  <2>2. f[n + 1] = FileTurn(files, f[n], n + 1)
    BY <1>4, <2>1
  <2>3. MadeOf(f[n], n)
    BY <1>6, <2>1
  <2>4. IsTree(f[n])
    BY <2>3, Zenon DEF MadeOf
  <2>5. Source(n + 1) = IF files[n + 1].err = "skip" THEN NoKeys ELSE files[n + 1].map
    BY <2>1, Zenon DEF Source
  <2>6. Takes(f[n + 1], f[n], Source(n + 1))
    <3>1. CASE files[n + 1].err = "skip"
      <4>1. f[n + 1] = f[n] /\ Source(n + 1) = NoKeys
        BY <2>2, <2>5, <3>1, Zenon DEF FileTurn
      <4> QED
        BY <2>4, <4>1, NothingTakes, Zenon
    <3>2. CASE files[n + 1].err # "skip"
      <4>1. f[n + 1] = mergeMap(f[n], files[n + 1].map) /\ Source(n + 1) = files[n + 1].map
        BY <2>2, <2>5, <3>2, Zenon DEF FileTurn
      <4>2. IsTree(files[n + 1].map)
        BY <1>t, <2>1, Zenon
      <4> QED
        BY <2>4, <4>1, <4>2, MergeTakes, Zenon
    <3> QED
      BY <3>1, <3>2, Zenon
  <2> QED
    BY <2>3, <2>6, NextSource, Zenon
<1>7. Nat \subseteq S
  <2> HIDE DEF S
  <2> QED
    BY <1>5, <1>6, CountUp
<1> QED
  BY <1>1, <1>2, <1>7

LEMMA BehindFiles ==
    ASSUME NEW F \in Nat, NEW n \in Nat
    PROVE  F + (n + 1) = (F + n) + 1 /\ F + n \in Nat /\ (F + n) + 1 # 0 /\ (F + n) + 1 > F /\ ((F + n) + 1) - F = n + 1
  OBVIOUS

LEMMA EnvMakes ==
    ASSUME call \in Loads, NEW root, MadeOf(root, Len(call.files))
    PROVE  MadeOf(applyEnv(root, call.env), Len(call.files) + Len(call.env))
<1> DEFINE env == call.env
           F == Len(call.files)
           N == Len(env)
           f == CHOOSE g : IsEnv(root, env, g, N)
           S == {n \in Nat : n <= N => MadeOf(f[n], F + n)}
<1>1. N \in Nat /\ DOMAIN env = 1..N /\ F \in Nat
  BY LoadAssumption
<1>2. applyEnv(root, env) = f[N]
  BY Zenon DEF applyEnv, IsEnv, EnvTurn
<1>3. IsEnv(root, env, f, N)
  BY <1>1, EnvExists, Zenon
<1>t. \A i \in DOMAIN env : env[i].keys \in Seq(STRING) /\ env[i].keys # <<>>
  <2>1. env \in Seq([keys : Seq(STRING) \ {<<>>}, val : STRING])
    BY LoadAssumption, Zenon
  <2>2. \A i \in DOMAIN env : env[i] \in [keys : Seq(STRING) \ {<<>>}, val : STRING]
    BY <2>1, ElementOf
  <2>3. \A i \in DOMAIN env : env[i].keys \in Seq(STRING) \ {<<>>}
    BY <2>2
  <2> QED
    BY <2>3, Zenon
<1> HIDE DEF f
<1>s. \A n \in Nat : n \in S <=> (n <= N => MadeOf(f[n], F + n))
  BY Zenon
<1>4. \A k \in 0..N : f[k] = IF k = 0 THEN root ELSE EnvTurn(env, f[k - 1], k)
  BY <1>3 DEF IsEnv
<1>5. 0 \in S
  <2>1. 0 \in 0..N /\ F + 0 = F
    BY <1>1
  <2>2. f[0] = root
    BY <1>4, <2>1, Zenon
  <2>3. MadeOf(f[0], F + 0)
    BY <2>1, <2>2, Zenon
  <2> QED
    BY <2>3
<1>6. ASSUME NEW n \in Nat, n \in S
      PROVE  n + 1 \in S
  <2> SUFFICES ASSUME n + 1 <= N
               PROVE  MadeOf(f[n + 1], F + (n + 1))
    <3>1. n + 1 \in Nat
      OBVIOUS
    <3> QED
      BY <1>s, <3>1, Zenon
  <2>1. n <= N /\ n + 1 \in 0..N /\ n + 1 # 0 /\ (n + 1) - 1 = n /\ n + 1 \in DOMAIN env
    BY <1>1
  <2>2. f[n + 1] = EnvTurn(env, f[n], n + 1)
    BY <1>4, <2>1
  <2>3. MadeOf(f[n], F + n)
    BY <1>6, <2>1
  <2>4. IsTree(f[n])
    BY <2>3, Zenon DEF MadeOf
  <2>5. F + (n + 1) = (F + n) + 1 /\ F + n \in Nat /\ (F + n) + 1 # 0 /\ (F + n) + 1 > F /\ ((F + n) + 1) - F = n + 1
    BY <1>1, BehindFiles, Zenon
  <2>6. Source((F + n) + 1) = Variable(env[n + 1])
    BY <2>5, Zenon DEF Source
  <2>7. Takes(f[n + 1], f[n], Source((F + n) + 1))
    BY <1>t, <2>1, <2>2, <2>4, <2>6, SetTakes, Zenon DEF EnvTurn
  <2> QED
    BY <2>3, <2>5, <2>7, NextSource, Zenon
<1>7. Nat \subseteq S
  <2> HIDE DEF S
  <2> QED
    BY <1>5, <1>6, CountUp
<1>8. N <= N
  BY <1>1
<1> QED
  BY <1>1, <1>2, <1>7, <1>8, <1>s, Zenon

LEMMA LastSource == Asked => LastSourceWins
<1> DEFINE merged == applyEnv(readFiles(call.files), call.env)
<1>1. SUFFICES ASSUME call \in Loads
               PROVE  IsTree(merged) /\ \A p \in DOMAIN Fields : \A q \in Above(p) \cup {p} : At(merged, q) = LastWord(q)
  BY Zenon DEF LastSourceWins, Asked
<1>2. MadeOf(merged, Len(call.files) + Len(call.env))
  BY <1>1, ReadMakes, EnvMakes, Zenon
<1>3. \A q : LastWord(q) = WordAfter(Len(call.files) + Len(call.env), q)
  BY Zenon DEF LastWord, IsLastWord, WordAfter, Places
<1>4. \A p \in DOMAIN Fields : p \in Seq(STRING)
  BY LoadAssumption, Zenon
<1>5. \A p \in DOMAIN Fields : \A q \in Above(p) : q \in Seq(STRING)
  BY <1>4, AboveIs
<1> QED
  BY <1>2, <1>3, <1>4, <1>5, Zenon DEF MadeOf

LEMMA NoFailure ==
    ASSUME NEW checks, DOMAIN checks \subseteq Nat, \A i \in DOMAIN checks : checks[i][1] => checks[i][2] # "",
           FirstError(checks) = ""
    PROVE  \A i \in DOMAIN checks : ~checks[i][1]
<1> DEFINE bad == {i \in DOMAIN checks : checks[i][1]}
<1>1. FirstError(checks) = IF bad = {} THEN "" ELSE checks[Min(bad)][2]
  BY DEF FirstError
<1>2. ASSUME bad # {}
      PROVE  FALSE
  <2>1. Min(bad) \in bad
    BY <1>2, MinExists
  <2>2. checks[Min(bad)][2] # ""
    BY <2>1, Zenon
  <2> QED
    BY <1>1, <1>2, <2>2, Zenon
<1> QED
  BY <1>2, Zenon

LEMMA DecodedFields == \A e, v : [err |-> e, val |-> v].err = e /\ [err |-> e, val |-> v].val = v
  OBVIOUS

LEMMA LoadedFields == \A e, c : [err |-> e, cfg |-> c].err = e /\ [err |-> e, cfg |-> c].cfg = c
  OBVIOUS

\* A field that is decoded without an error.
DecodesTo(val, m, p, type) ==
    /\ \A a \in At(m, p) : a.type # "null" => a.type = type /\ val = a.val
    /\ type # "null" /\ (\A a \in At(m, p) : a.type = "null") => val = Zero(type)

LEMMA Decoded ==
    ASSUME NEW m, NEW p, NEW type, decodeField(m, p, type).err = ""
    PROVE  DecodesTo(decodeField(m, p, type).val, m, p, type)
<1>1. PICK e : e = "decode config"
  BY Zenon
<1>2. e # ""
  BY <1>1
<1>3. PICK d : d = decodeField(m, p, type)
  BY Zenon
<1>4. ~\E q \in Above(p) : q \in DOMAIN m /\ m[q].type \notin {"map", "null"}
  <2> SUFFICES ASSUME \E q \in Above(p) : q \in DOMAIN m /\ m[q].type \notin {"map", "null"}
               PROVE  FALSE
    BY Zenon
  <2>1. d = [err |-> e, val |-> ""]
    BY <1>1, <1>3, Zenon DEF decodeField
  <2>2. d.err = e
    BY <2>1, DecodedFields, Zenon
  <2> QED
    BY <1>2, <1>3, <2>2, Zenon
<1>5. CASE p \notin DOMAIN m
  <2>1. d = [err |-> "", val |-> Zero(type)]
    BY <1>3, <1>4, <1>5, Zenon DEF decodeField
  <2>2. d.val = Zero(type)
    BY <2>1, DecodedFields, Zenon
  <2>3. At(m, p) = {}
    BY <1>5, AtIs, Zenon
  <2> QED
    BY <1>3, <2>2, <2>3, Zenon DEF DecodesTo
<1>6. CASE p \in DOMAIN m
  <2>1. PICK a : a = m[p]
    BY Zenon
  <2>2. At(m, p) = {a}
    BY <1>6, <2>1, AtIs, Zenon
  <2>3. d = decodeLeaf(a, type)
    BY <1>3, <1>4, <1>6, <2>1, Zenon DEF decodeField
  <2>4. CASE a.type = type
    <3>1. d = [err |-> "", val |-> a.val]
      BY <2>3, <2>4, Zenon DEF decodeLeaf
    <3>2. d.val = a.val
      BY <3>1, DecodedFields, Zenon
    <3> QED
      BY <1>3, <2>2, <2>4, <3>2, Zenon DEF DecodesTo
  <2>5. CASE a.type # type /\ a.type = "null"
    <3>1. d = [err |-> "", val |-> Zero(type)]
      BY <2>3, <2>5, Zenon DEF decodeLeaf
    <3>2. d.val = Zero(type)
      BY <3>1, DecodedFields, Zenon
    <3> QED
      BY <1>3, <2>2, <2>5, <3>2, Zenon DEF DecodesTo
  <2>6. CASE a.type # type /\ a.type # "null"
    <3>1. d = [err |-> e, val |-> ""]
      BY <1>1, <2>3, <2>6, Zenon DEF decodeLeaf
    <3>2. d.err = e
      BY <3>1, DecodedFields, Zenon
    <3> QED
      BY <1>2, <1>3, <3>2, Zenon
  <2> QED
    BY <2>4, <2>5, <2>6, Zenon
<1> QED
  BY <1>5, <1>6, Zenon

FileChecks(files) == [i \in DOMAIN files |-> <<files[i].err \notin {"", "skip"}, files[i].err>>]

\* What a Load without an error comes down to.
Loaded(r, files, m) ==
    /\ FirstError(FileChecks(files)) = ""
    /\ \A p \in DOMAIN Fields : decodeField(m, p, Fields[p]).err = ""
    /\ \A p \in DOMAIN Fields : r.cfg[p] = OrFallback(p, decodeField(m, p, Fields[p]).val)

LEMMA LoadIs ==
    ASSUME NEW files, NEW env, Load(files, env).err = "", NEW m, m = applyEnv(readFiles(files), env)
    PROVE  Loaded(Load(files, env), files, m)
<1>1. PICK e : e = FirstError(FileChecks(files))
  BY Zenon
<1>2. PICK d : d = "decode config"
  BY Zenon
<1>3. d # ""
  BY <1>2
<1>4. PICK c : c = [p \in DOMAIN Fields |-> OrFallback(p, decodeField(m, p, Fields[p]).val)]
  BY Zenon
<1>5. PICK r : r = Load(files, env)
  BY Zenon
<1>6. r = IF e # "" THEN [err |-> e, cfg |-> Fields]
          ELSE IF \E p \in DOMAIN Fields : decodeField(m, p, Fields[p]).err # "" THEN [err |-> d, cfg |-> Fields]
          ELSE [err |-> "", cfg |-> c]
  BY <1>1, <1>2, <1>4, <1>5, Zenon DEF Load, FileChecks
<1>7. e = ""
  <2> SUFFICES ASSUME e # ""
               PROVE  FALSE
    BY Zenon
  <2>1. r = [err |-> e, cfg |-> Fields]
    BY <1>6, Zenon
  <2>2. r.err = e
    BY <2>1, LoadedFields, Zenon
  <2> QED
    BY <1>5, <2>2, Zenon
<1>8. ~\E p \in DOMAIN Fields : decodeField(m, p, Fields[p]).err # ""
  <2> SUFFICES ASSUME \E p \in DOMAIN Fields : decodeField(m, p, Fields[p]).err # ""
               PROVE  FALSE
    BY Zenon
  <2>1. r = [err |-> d, cfg |-> Fields]
    BY <1>6, <1>7, Zenon
  <2>2. r.err = d
    BY <2>1, LoadedFields, Zenon
  <2> QED
    BY <1>3, <1>5, <2>2, Zenon
<1>9. r = [err |-> "", cfg |-> c]
  BY <1>6, <1>7, <1>8, Zenon
<1>10. r.cfg = c
  BY <1>9, LoadedFields, Zenon
<1>11. \A p \in DOMAIN Fields : c[p] = OrFallback(p, decodeField(m, p, Fields[p]).val)
  BY <1>4, Zenon
<1> QED
  BY <1>1, <1>5, <1>7, <1>8, <1>10, <1>11, Zenon DEF Loaded

LEMMA PositionsOf ==
    ASSUME NEW X, NEW s \in Seq(X)
    PROVE  DOMAIN s \subseteq Nat
  OBVIOUS

LEMMA FailuresAreSeen ==
    ASSUME NEW X, NEW files \in Seq(X), FirstError(FileChecks(files)) = ""
    PROVE  \A i \in DOMAIN files : files[i].err \in {"", "skip"}
<1> DEFINE checks == FileChecks(files)
<1>1. DOMAIN checks = DOMAIN files /\ \A i \in DOMAIN files : checks[i] = <<files[i].err \notin {"", "skip"}, files[i].err>>
  BY Zenon DEF FileChecks
<1>2. DOMAIN checks \subseteq Nat
  <2>1. DOMAIN files \subseteq Nat
    BY PositionsOf, Zenon
  <2> QED
    BY <1>1, <2>1, Zenon
<1>3. \A i \in DOMAIN checks : checks[i][1] = (files[i].err \notin {"", "skip"}) /\ checks[i][2] = files[i].err
  <2> SUFFICES ASSUME NEW i \in DOMAIN checks
               PROVE  checks[i][1] = (files[i].err \notin {"", "skip"}) /\ checks[i][2] = files[i].err
    BY Zenon
  <2>1. PICK b : b = (files[i].err \notin {"", "skip"})
    BY Zenon
  <2>2. PICK x : x = files[i].err
    BY Zenon
  <2>3. PICK c : c = checks[i]
    BY Zenon
  <2>4. c = <<b, x>>
    BY <1>1, <2>1, <2>2, <2>3, Zenon
  <2>5. c[1] = b /\ c[2] = x
    BY <2>4, PairParts, Zenon
  <2> QED
    BY <2>1, <2>2, <2>3, <2>5, Zenon
<1>4. \A i \in DOMAIN checks : checks[i][1] => checks[i][2] # ""
  BY <1>3, Zenon
<1> HIDE DEF checks
<1>5. \A i \in DOMAIN checks : ~checks[i][1]
  BY <1>2, <1>4, NoFailure, Zenon DEF checks
<1> QED
  BY <1>1, <1>3, <1>5, Zenon

LEMMA OverridesAreSeen == Asked => OverrideIsSeen
<1> DEFINE r == Load(call.files, call.env)
<1>1. SUFFICES ASSUME Asked, kind = "load", call \in Loads, r.err = ""
               PROVE  /\ \A i \in DOMAIN call.files : call.files[i].err \in {"", "skip"}
                      /\ \A p \in DOMAIN Fields :
                           /\ \A a \in LastWord(p) : a.type # "null" => a.type = Fields[p] /\ r.cfg[p] = OrFallback(p, a.val)
                           /\ (\A a \in LastWord(p) : a.type = "null") => r.cfg[p] = OrFallback(p, Zero(Fields[p]))
  BY Zenon DEF OverrideIsSeen, Asked
<1>2. PICK m : m = applyEnv(readFiles(call.files), call.env)
  BY Zenon
<1>3. /\ FirstError(FileChecks(call.files)) = ""
      /\ \A p \in DOMAIN Fields : decodeField(m, p, Fields[p]).err = ""
      /\ \A p \in DOMAIN Fields : r.cfg[p] = OrFallback(p, decodeField(m, p, Fields[p]).val)
  <2>1. Loaded(r, call.files, m)
    BY <1>1, <1>2, LoadIs, Zenon
  <2> HIDE DEF r
  <2> QED
    BY <2>1, Zenon DEF Loaded
<1> HIDE DEF r
<1>4. call.files \in Seq(Range(call.files))
  BY <1>1, LoadAssumption, Zenon
<1>5. \A i \in DOMAIN call.files : call.files[i].err \in {"", "skip"}
  BY <1>3, <1>4, FailuresAreSeen, Zenon
<1>6. \A p \in DOMAIN Fields : At(m, p) = LastWord(p)
  BY <1>1, <1>2, LastSource, Zenon DEF LastSourceWins
<1>7. \A p \in DOMAIN Fields : Fields[p] # "null"
  <2>1. Fields \in [DOMAIN Fields -> {"string", "bool", "int"}]
    BY LoadAssumption, Zenon
  <2> QED
    BY <2>1
<1>8. ASSUME NEW p \in DOMAIN Fields
      PROVE  /\ \A a \in LastWord(p) : a.type # "null" => a.type = Fields[p] /\ r.cfg[p] = OrFallback(p, a.val)
             /\ (\A a \in LastWord(p) : a.type = "null") => r.cfg[p] = OrFallback(p, Zero(Fields[p]))
  <2>1. DecodesTo(decodeField(m, p, Fields[p]).val, m, p, Fields[p])
    BY <1>3, Decoded, Zenon
  <2>2. r.cfg[p] = OrFallback(p, decodeField(m, p, Fields[p]).val)
    BY <1>3, Zenon
  <2> QED
    BY <1>6, <1>7, <2>1, <2>2, Zenon DEF DecodesTo
<1> QED
  BY <1>5, <1>8, Zenon

(***************************************************************************)
(* Load is faithful to its sources, for any number of files and variables  *)
(* and maps of any depth: the merged map is a map of maps in which the     *)
(* last source to speak of a path has its word, and what is decoded from   *)
(* it is that word or an error.                                            *)
(***************************************************************************)
THEOREM LoadSafety == Spec => []LoadIsFaithful
<1>1. Asked => LoadIsFaithful
  BY LastSource, OverridesAreSeen DEF LoadIsFaithful
<1> QED
  BY <1>1, QuestionStays, PTL
=============================================================================
