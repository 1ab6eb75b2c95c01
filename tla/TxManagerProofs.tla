--------------------------- MODULE TxManagerProofs ---------------------------
(***************************************************************************)
(* Proofs about TxManager: the transaction that a context carries is that  *)
(* of the outermost WithTx, whose rows are therefore pending together in   *)
(* one transaction until its goroutine, and no other, finishes it.         *)
(***************************************************************************)
EXTENDS TxManager, FiniteSetTheorems, TLAPS

Frame == [own : BOOLEAN, tx : Txs, outer : {NoTx} \cup Txs]

\* g is in the WithTx call that began the transaction of its context.
Owns(g) == frames[g] # <<>> /\ frames[g][1].own

\* What TypeOK leaves open.
Shapes ==
    /\ pool \in Nat
    /\ owner \in Seq({NoTx} \cup Txs)
    /\ frames \in [Goroutines -> Seq(Frame)]
    /\ carry \in [Goroutines -> {NoTx} \cup Txs] /\ unit \in [Goroutines -> {NoTx} \cup Txs]
    /\ IsFiniteSet(want)
    /\ failed \subseteq Txs

\* Transactions begin in the order of their numbers, and one is left for every
\* goroutine that waits.
Numbering ==
    /\ \E n \in 0..MaxTx : Unused = (n + 1)..MaxTx
    /\ Cardinality(want) <= Cardinality(Unused)

\* Every frame of a goroutine runs in the transaction of its context; only the
\* outermost may have begun it, and leaves the context without one.
FrameShape(g, i) ==
    LET f == frames[g][i]
    IN /\ f.tx = carry[g]
       /\ f.own => i = 1 /\ f.outer = NoTx
       /\ ~f.own => f.outer = carry[g]

Contexts ==
    \A g \in Goroutines :
        /\ unit[g] = carry[g]
        /\ carry[g] = NoTx => frames[g] = <<>>
        /\ g \in want => carry[g] = NoTx
        /\ \A i \in DOMAIN frames[g] : FrameShape(g, i)

\* A transaction belongs to one WithTx call, which ends it if nobody has before.
Ownership ==
    /\ \A g, h \in Goroutines : Owns(g) /\ Owns(h) /\ carry[g] = carry[h] => g = h
    /\ \A g \in Goroutines : Owns(g) => tx[carry[g]] \in {"active", "dropped"}
    /\ \A t \in Active : \E g \in Goroutines : Owns(g) /\ carry[g] = t

\* The rows of a unit are pending in its transaction, and in the table if and only
\* if it is committed.
Together ==
    \A t \in Txs :
        /\ pending[t] = Written(t)
        /\ tx[t] = "committed" => Written(t) \subseteq table
        /\ tx[t] # "committed" => Written(t) \cap table = {}

\* What WithTx returned agrees with what became of its transaction.
Outcomes ==
    \A t \in Txs :
        /\ result[t] = "nil" => tx[t] = "committed"
        /\ result[t] = "err" \/ t \in failed => tx[t] = "dropped"

Inv == TypeOK /\ Shapes /\ Numbering /\ Contexts /\ Ownership /\ Together /\ Outcomes

-----------------------------------------------------------------------------
(* The invariant *)

\* The invariant holds before the first call.
LEMMA InvInit == Init => Inv
  <1> SUFFICES ASSUME Init PROVE Inv
    OBVIOUS
  <1>1. Unused = 1..MaxTx /\ Active = {}
    BY DEF Init, Unused, Active, Txs
  <1>2. /\ Cardinality(want) = 0 /\ IsFiniteSet(want) /\ Cardinality(Active) = 0
        /\ Cardinality(Unused) \in Nat
    <2>1. IsFiniteSet(1..MaxTx)
      BY FS_Interval, TxManagerAssumption
    <2> QED
      BY <1>1, <2>1, FS_EmptySet, FS_CardinalityType DEF Init
  <1>3. Len(owner) = 0 /\ owner \in Seq({NoTx} \cup Txs) /\ DOMAIN owner = {}
    BY DEF Init
  <1>4. pool \in Nat /\ TypeOK
    BY <1>1, <1>2, <1>3, TxManagerAssumption DEF Init, TypeOK, NoTx
  <1>5. Shapes
    BY <1>2, <1>3, <1>4 DEF Init, Shapes
  <1>6. Numbering
    <2>1. 0 \in 0..MaxTx /\ Unused = (0 + 1)..MaxTx
      BY <1>1, TxManagerAssumption
    <2> QED
      BY <2>1, <1>2 DEF Numbering
  <1>7. Contexts
    BY DEF Init, Contexts
  <1>8. Ownership
    BY <1>1 DEF Init, Ownership, Owns
  <1>9. Together
    BY <1>3 DEF Init, Together, Written
  <1>10. Outcomes
    BY DEF Init, Outcomes
  <1> QED
    BY <1>4, <1>5, <1>6, <1>7, <1>8, <1>9, <1>10 DEF Inv

\* What is left when a step changes neither the transactions nor the rows.
LEMMA DatabaseStays ==
    ASSUME Inv, UNCHANGED <<pool, dbVars, owner, failed, result>>
    PROVE  /\ Unused' = Unused /\ Active' = Active /\ Together' /\ Outcomes'
           /\ Shapes' <=> /\ frames' \in [Goroutines -> Seq(Frame)]
                          /\ carry' \in [Goroutines -> {NoTx} \cup Txs]
                          /\ unit' \in [Goroutines -> {NoTx} \cup Txs]
                          /\ IsFiniteSet(want')
  <1>1. Unused' = Unused /\ Active' = Active
    BY DEF Unused, Active, dbVars
  <1>2. Together' /\ Outcomes'
    BY DEF Inv, Together, Outcomes, Written, dbVars
  <1> QED
    BY <1>1, <1>2 DEF Inv, Shapes, dbVars

\* When no context, frame or waiting goroutine changes.
LEMMA ContextsStay ==
    ASSUME Inv, UNCHANGED ctxVars
    PROVE  Contexts' /\ \A g \in Goroutines : (Owns(g)' <=> Owns(g)) /\ carry'[g] = carry[g]
  BY DEF Inv, Contexts, FrameShape, Owns, ctxVars

\* WithTx pushes a frame of the transaction in the context, or waits for a new one.
LEMMA WithTxStep ==
    ASSUME Inv, NEW g \in Goroutines, WithTx(g)
    PROVE  Inv'
  <1> USE DEF Inv
  <1>1. UNCHANGED <<pool, dbVars, owner, failed, result, carry, unit>>
    BY DEF WithTx
  <1>2. Unused' = Unused /\ Active' = Active /\ Together' /\ Outcomes'
    BY <1>1, DatabaseStays
  <1>3. CASE carry[g] # NoTx
    <2> DEFINE f == [own |-> FALSE, tx |-> carry[g], outer |-> carry[g]]
    <2>1. frames' = [frames EXCEPT ![g] = Append(@, f)] /\ want' = want
      BY <1>3 DEF WithTx, TxFromContext
    <2>2. f \in Frame
      BY <1>3 DEF Frame, Shapes
    <2>3. frames[g] \in Seq(Frame)
      BY DEF Shapes
    <2> DEFINE s == Append(frames[g], f)
    <2>4. /\ s \in Seq(Frame) /\ Len(s) = Len(frames[g]) + 1 /\ s # <<>>
          /\ \A i \in 1..Len(frames[g]) : s[i] = frames[g][i]
          /\ s[Len(frames[g]) + 1] = f
      BY <2>2, <2>3
    <2>5. /\ frames' \in [Goroutines -> Seq(Frame)] /\ frames'[g] = s
          /\ \A h \in Goroutines \ {g} : frames'[h] = frames[h]
      BY <2>1, <2>4 DEF Shapes
    <2> HIDE DEF f, s
    <2>6. \A i \in DOMAIN s : i \in DOMAIN frames[g] \/ s[i] = f
      BY <2>3, <2>4
    <2>7. Shapes'
      BY <1>1, <2>1, <2>5, DatabaseStays DEF Shapes
    <2>8. TypeOK'
      <3>a. carry[g] \in Txs \ Unused
        BY <1>3 DEF TypeOK
      <3>1. \A i \in DOMAIN s : s[i].tx \in Txs \ Unused
        BY <2>3, <2>4, <2>6, <3>a DEF TypeOK, f
      <3>2. \A h \in Goroutines : \A i \in DOMAIN frames'[h] : frames'[h][i].tx \in Txs \ Unused
        BY <2>5, <3>1 DEF TypeOK
      <3> QED
        BY <1>1, <1>2, <2>1, <3>2 DEF TypeOK, dbVars
    <2>9. Numbering'
      BY <1>2, <2>1 DEF Numbering
    <2>10. Contexts'
      <3>1. \A i \in DOMAIN s : FrameShape(g, i)'
        BY <1>1, <2>3, <2>4, <2>5, <2>6 DEF FrameShape, Contexts, f
      <3>2. \A h \in Goroutines \ {g} : \A i \in DOMAIN frames'[h] : FrameShape(h, i)'
        BY <1>1, <2>5 DEF FrameShape, Contexts
      <3> QED
        BY <1>1, <1>3, <2>1, <2>5, <3>1, <3>2 DEF Contexts
    <2>11. \A h \in Goroutines : Owns(h)' <=> Owns(h)
      <3>1. frames[g] = <<>> => s[1] = f
        BY <2>3, <2>4
      <3>2. frames[g] # <<>> => s[1] = frames[g][1]
        BY <2>3, <2>4
      <3> QED
        BY <2>4, <2>5, <3>1, <3>2 DEF Owns, f
    <2>12. Ownership'
      BY <1>1, <1>2, <2>11 DEF Ownership, dbVars
    <2> QED
      BY <1>2, <2>7, <2>8, <2>9, <2>10, <2>12
  <1>4. CASE carry[g] = NoTx
    <2>1. /\ want' = want \cup {g} /\ frames' = frames /\ g \notin want
          /\ Cardinality(want) < Cardinality(Unused)
      BY <1>4 DEF WithTx, TxFromContext
    <2>2. IsFiniteSet(want') /\ Cardinality(want') = Cardinality(want) + 1
      BY <2>1, FS_AddElement DEF Shapes
    <2>3. Shapes'
      BY <1>1, <2>1, <2>2, DatabaseStays DEF Shapes
    <2>4. TypeOK'
      BY <1>1, <1>2, <2>1 DEF TypeOK, dbVars
    <2>5. Numbering'
      <3>1. Cardinality(want) \in Nat /\ Cardinality(Unused) \in Nat
        BY FS_CardinalityType, FS_Interval, TxManagerAssumption DEF Shapes, Numbering
      <3> QED
        BY <1>2, <2>1, <2>2, <3>1 DEF Numbering
    <2>6. Contexts'
      BY <1>1, <1>4, <2>1 DEF Contexts, FrameShape
    <2>7. Ownership'
      BY <1>1, <1>2, <2>1 DEF Ownership, Owns, dbVars
    <2> QED
      BY <1>2, <2>3, <2>4, <2>5, <2>6, <2>7
  <1> QED
    BY <1>3, <1>4

\* A goroutine that waits gives up.
LEMMA BeginFailsStep ==
    ASSUME Inv, NEW g \in Goroutines, BeginFails(g)
    PROVE  Inv'
  <1> USE DEF Inv
  <1>1. UNCHANGED <<pool, dbVars, owner, failed, result, carry, unit, frames>> /\ want' = want \ {g} /\ g \in want
    BY DEF BeginFails
  <1>2. Unused' = Unused /\ Active' = Active /\ Together' /\ Outcomes'
    BY <1>1, DatabaseStays
  <1>3. IsFiniteSet(want') /\ Cardinality(want') = Cardinality(want) - 1 /\ Cardinality(want) \in Nat
    BY <1>1, FS_RemoveElement, FS_CardinalityType DEF Shapes
  <1>4. Cardinality(Unused) \in Nat
    BY FS_CardinalityType, FS_Interval, TxManagerAssumption DEF Numbering
  <1>5. Shapes'
    BY <1>1, <1>3, DatabaseStays DEF Shapes
  <1>6. TypeOK'
    BY <1>1, <1>2 DEF TypeOK, dbVars
  <1>7. Numbering'
    BY <1>1, <1>2, <1>3, <1>4 DEF Numbering
  <1>8. Contexts'
    BY <1>1 DEF Contexts, FrameShape
  <1>9. Ownership'
    BY <1>1, <1>2 DEF Ownership, Owns, dbVars
  <1> QED
    BY <1>2, <1>5, <1>6, <1>7, <1>8, <1>9

\* A goroutine gets the context of another, or drops it, while it is in no WithTx.
LEMMA GoStep ==
    ASSUME Inv, NEW h \in Goroutines, GoEnds(h) \/ \E g \in Goroutines : Go(g, h)
    PROVE  Inv'
  <1> USE DEF Inv
  <1>1. PICK c \in {NoTx} \cup (Txs \ Unused) :
          carry' = [carry EXCEPT ![h] = c] /\ unit' = [unit EXCEPT ![h] = c]
    <2>1. \A g \in Goroutines : carry[g] \in {NoTx} \cup (Txs \ Unused) /\ unit[g] = carry[g]
      BY DEF TypeOK, Contexts
    <2> QED
      BY <2>1 DEF Go, GoEnds
  <1>2. UNCHANGED <<pool, dbVars, owner, failed, result, frames, want>> /\ frames[h] = <<>> /\ h \notin want
    BY DEF Go, GoEnds, Contexts
  <1>3. Unused' = Unused /\ Active' = Active /\ Together' /\ Outcomes'
    BY <1>2, DatabaseStays
  <1>4. Shapes'
    BY <1>1, <1>2, DatabaseStays DEF Shapes
  <1>5. /\ carry'[h] = c /\ unit'[h] = c
        /\ \A g \in Goroutines \ {h} : carry'[g] = carry[g] /\ unit'[g] = unit[g]
    BY <1>1 DEF Shapes
  <1>6. TypeOK'
    <2>1. \A g \in Goroutines : {carry'[g], unit'[g]} \subseteq {NoTx} \cup (Txs \ Unused)
      BY <1>5 DEF TypeOK
    <2> QED
      BY <1>2, <1>3, <2>1 DEF TypeOK, dbVars
  <1>7. Numbering'
    BY <1>2, <1>3 DEF Numbering
  <1>8. Contexts'
    <2>1. \A g \in Goroutines : \A i \in DOMAIN frames'[g] : FrameShape(g, i)'
      BY <1>2, <1>5 DEF Contexts, FrameShape
    <2> QED
      BY <1>2, <1>5, <2>1 DEF Contexts
  <1>9. Ownership'
    <2>1. ~Owns(h) /\ \A g \in Goroutines : Owns(g)' <=> Owns(g)
      BY <1>2 DEF Owns
    <2> QED
      BY <1>2, <1>3, <1>5, <2>1 DEF Ownership, dbVars
  <1> QED
    BY <1>3, <1>4, <1>6, <1>7, <1>8, <1>9

\* A row is written: in the transaction of the context, or in none.
LEMMA ExecStep ==
    ASSUME Inv, NEW g \in Goroutines, Exec(g)
    PROVE  Inv'
  <1> USE DEF Inv
  <1> DEFINE r == Len(owner) + 1
  <1> DEFINE t == carry[g]
  <1>1. /\ owner' = Append(owner, t)
        /\ UNCHANGED <<pool, tx, broken, failed, result>> /\ UNCHANGED ctxVars
        /\ Len(owner) < MaxRow
    BY DEF Exec, Contexts
  <1>2. t \in {NoTx} \cup Txs
    BY DEF Shapes
  <1>3. \/ t = NoTx /\ table' = table \cup {r} /\ pending' = pending
        \/ t \in Active /\ pending' = [pending EXCEPT ![t] = @ \cup {r}] /\ table' = table
    BY DEF Exec, TxFromContext
  <1>4. /\ owner' \in Seq({NoTx} \cup Txs) /\ Len(owner') = r /\ Len(owner) \in Nat
        /\ \A q \in 1..Len(owner) : owner'[q] = owner[q]
        /\ owner'[r] = t
        /\ DOMAIN owner' = 1..r /\ DOMAIN owner = 1..Len(owner)
    BY <1>1, <1>2 DEF Shapes
  <1> HIDE DEF t
  <1>5. \A u \in Txs : Written(u)' = Written(u) \cup (IF u = t THEN {r} ELSE {})
    BY <1>4 DEF Written
  <1>6. Unused' = Unused /\ Active' = Active /\ Txs \subseteq Nat \ {NoTx}
    BY <1>1, TxManagerAssumption DEF Unused, Active, Txs, NoTx
  <1>7. table \subseteq 1..Len(owner) /\ table' \subseteq 1..r
    <2>1. 1..Len(owner) \subseteq 1..r /\ r \in 1..r
      BY <1>4
    <2> QED
      BY <1>3, <2>1 DEF TypeOK
  <1>8. TypeOK'
    <2>1. pending' \in [Txs -> SUBSET (1..r)]
      <3>1. 1..Len(owner) \subseteq 1..r /\ r \in 1..r
        BY <1>4
      <3>2. pending \in [Txs -> SUBSET (1..r)]
        BY <3>1 DEF TypeOK
      <3> QED
        BY <1>3, <3>1, <3>2
    <2>2. Len(owner') <= MaxRow
      BY <1>1, <1>4, TxManagerAssumption
    <2> QED
      BY <1>1, <1>4, <1>6, <1>7, <2>1, <2>2 DEF TypeOK, ctxVars
  <1>9. Shapes'
    BY <1>1, <1>4 DEF Shapes, ctxVars
  <1>10. Numbering'
    BY <1>1, <1>6 DEF Numbering, ctxVars
  <1>11. Contexts'
    BY <1>1, ContextsStay
  <1>12. Ownership'
    BY <1>1, <1>6, ContextsStay DEF Ownership
  <1>13. Together'
    <2>1. r \notin table /\ \A u \in Txs : r \notin Written(u)
      BY <1>4, <1>7 DEF Written
    <2> SUFFICES ASSUME NEW u \in Txs
                 PROVE  /\ pending'[u] = Written(u)'
                        /\ tx'[u] = "committed" => Written(u)' \subseteq table'
                        /\ tx'[u] # "committed" => Written(u)' \cap table' = {}
      BY DEF Together
    <2>2. /\ pending[u] = Written(u) /\ Written(u)' = Written(u) \cup (IF u = t THEN {r} ELSE {})
          /\ tx[u] = "committed" => Written(u) \subseteq table
          /\ tx[u] # "committed" => Written(u) \cap table = {}
      BY <1>5 DEF Together
    <2>3. CASE t = NoTx
      BY <1>1, <1>3, <1>6, <2>1, <2>2, <2>3 DEF Active
    <2>4. CASE t # NoTx
      <3>1. t \in Active /\ t \in Txs /\ tx[t] # "committed" /\ table' = table
        BY <1>3, <2>4 DEF Active
      <3>2. pending'[u] = pending[u] \cup (IF u = t THEN {r} ELSE {})
        BY <1>3, <2>4 DEF TypeOK
      <3> QED
        BY <1>1, <2>1, <2>2, <3>1, <3>2
    <2> QED
      BY <2>3, <2>4
  <1>14. Outcomes'
    BY <1>1 DEF Outcomes
  <1> QED
    BY <1>8, <1>9, <1>10, <1>11, <1>12, <1>13, <1>14

\* A failed statement aborts its transaction.
LEMMA ExecFailsStep ==
    ASSUME Inv, NEW g \in Goroutines, ExecFails(g)
    PROVE  Inv'
  <1>1. /\ UNCHANGED <<pool, table, tx, pending, owner, failed, result>> /\ UNCHANGED ctxVars
        /\ carry[g] \in Active /\ broken' = broken \cup {carry[g]}
    BY DEF ExecFails, TxFromContext
  <1>2. Unused' = Unused /\ Active' = Active /\ Active \subseteq Txs \ Unused
    BY <1>1 DEF Unused, Active
  <1>3. TypeOK'
    BY <1>1, <1>2 DEF Inv, TypeOK, ctxVars
  <1>4. Shapes' /\ Numbering'
    BY <1>1, <1>2 DEF Inv, Shapes, Numbering, ctxVars
  <1>5. Contexts' /\ Ownership'
    BY <1>1, <1>2, ContextsStay DEF Inv, Ownership
  <1>6. Together' /\ Outcomes'
    BY <1>1 DEF Inv, Together, Outcomes, Written
  <1> QED
    BY <1>3, <1>4, <1>5, <1>6 DEF Inv

\* Active transactions that end free their connections.
LEMMA TxsEnd ==
    ASSUME Inv, NEW S \in SUBSET Active, NEW e \in {"committed", "dropped"}, pool' = pool,
           tx' = [t \in Txs |-> IF t \in S THEN e ELSE tx[t]]
    PROVE  /\ Unused' = Unused /\ Active' = Active \ S /\ Cardinality(Active') <= pool'
           /\ tx' \in [Txs -> {"unused", "active", "committed", "dropped"}]
           /\ \A t \in Txs : tx'[t] = IF t \in S THEN e ELSE tx[t]
  <1>1. Unused' = Unused /\ Active' = Active \ S
    BY DEF Unused, Active
  <1>2. tx' \in [Txs -> {"unused", "active", "committed", "dropped"}]
    BY DEF Inv, TypeOK
  <1>3. IsFiniteSet(Txs) /\ Active \subseteq Txs /\ Active' \subseteq Active
    BY <1>1, FS_Interval, TxManagerAssumption DEF Txs, Active
  <1>4. IsFiniteSet(Active)
    BY <1>3, FS_Subset
  <1>5. Cardinality(Active') <= Cardinality(Active) /\ IsFiniteSet(Active')
    BY <1>3, <1>4, FS_Subset
  <1>6. Cardinality(Active) \in Nat /\ Cardinality(Active') \in Nat
    BY <1>4, <1>5, FS_CardinalityType
  <1>7. Cardinality(Active') <= pool'
    BY <1>5, <1>6 DEF Inv, TypeOK, Shapes
  <1> QED
    BY <1>1, <1>2, <1>7

\* database/sql rolls a transaction back whose context has ended.
LEMMA CancelStep ==
    ASSUME Inv, NEW t \in Txs, Cancel(t)
    PROVE  Inv'
  <1> USE DEF Inv
  <1>1. /\ UNCHANGED <<pool, table, broken, pending, owner, failed, result>> /\ UNCHANGED ctxVars
        /\ t \in Active
    BY DEF Cancel
  <1>2. tx' = [u \in Txs |-> IF u \in {t} THEN "dropped" ELSE tx[u]]
    BY DEF Cancel, TypeOK
  <1>3. /\ Unused' = Unused /\ Active' = Active \ {t} /\ Cardinality(Active') <= pool'
        /\ tx' \in [Txs -> {"unused", "active", "committed", "dropped"}]
        /\ \A u \in Txs : tx'[u] = IF u \in {t} THEN "dropped" ELSE tx[u]
    BY <1>1, <1>2, TxsEnd
  <1>4. tx[t] = "active"
    BY <1>1 DEF Active
  <1>5. TypeOK'
    BY <1>1, <1>3 DEF TypeOK, ctxVars
  <1>6. Shapes' /\ Numbering'
    BY <1>1, <1>3 DEF Shapes, Numbering, ctxVars
  <1>7. Contexts'
    BY <1>1, ContextsStay
  <1>8. Ownership'
    <2>1. \A g \in Goroutines : Owns(g) => carry[g] \in Txs
      BY DEF Shapes, Contexts, Owns
    <2> QED
      BY <1>1, <1>3, <2>1, ContextsStay DEF Ownership
  <1>9. Together'
    BY <1>1, <1>3, <1>4 DEF Together, Written
  <1>10. Outcomes'
    BY <1>1, <1>3, <1>4 DEF Outcomes
  <1> QED
    BY <1>5, <1>6, <1>7, <1>8, <1>9, <1>10

\* The process dies: the database rolls back what was open.
LEMMA CrashStep ==
    ASSUME Inv, Crash
    PROVE  Inv'
  <1> USE DEF Inv
  <1>1. /\ UNCHANGED <<pool, table, broken, pending, owner, failed, result>> /\ want' = {}
        /\ frames' = [g \in Goroutines |-> <<>>]
        /\ carry' = [g \in Goroutines |-> NoTx] /\ unit' = [g \in Goroutines |-> NoTx]
    BY DEF Crash
  <1>2. tx' = [u \in Txs |-> IF u \in Active THEN "dropped" ELSE tx[u]]
    BY DEF Crash, Active
  <1>3. /\ Unused' = Unused /\ Active' = {} /\ Cardinality(Active') <= pool'
        /\ tx' \in [Txs -> {"unused", "active", "committed", "dropped"}]
        /\ \A u \in Txs : tx'[u] = IF u \in Active THEN "dropped" ELSE tx[u]
    <2>1. Active \in SUBSET Active /\ Active \ Active = {} /\ "dropped" \in {"committed", "dropped"} /\ pool' = pool
      BY <1>1
    <2> HIDE DEF Inv
    <2> QED
      BY <1>2, <2>1, TxsEnd
  <1>4. TypeOK'
    BY <1>1, <1>3 DEF TypeOK
  <1>5. Shapes' /\ Numbering'
    <2>1. IsFiniteSet(want') /\ Cardinality(want') = 0
      BY <1>1, FS_EmptySet
    <2>2. Cardinality(Unused) \in Nat
      BY FS_CardinalityType, FS_Interval, TxManagerAssumption DEF Numbering
    <2> QED
      BY <1>1, <1>3, <2>1, <2>2 DEF Shapes, Numbering
  <1>6. Contexts' /\ Ownership'
    BY <1>1, <1>3 DEF Contexts, Ownership, Owns
  <1>7. Together' /\ Outcomes'
    BY <1>1, <1>3 DEF Together, Outcomes, Written, Active
  <1> QED
    BY <1>4, <1>5, <1>6, <1>7

\* The number that Begin takes is that of an unused transaction, the first.
LEMMA BeginNumber ==
    ASSUME Inv, NEW g \in want
    PROVE  LET t == MaxTx + 1 - Cardinality(Unused)
           IN /\ t \in Unused /\ t \in Txs
              /\ \A u \in Unused : t <= u
              /\ IsFiniteSet(Unused) /\ Cardinality(Unused) \in Nat
              /\ \E n \in 0..MaxTx : Unused \ {t} = (n + 1)..MaxTx
  <1> DEFINE t == MaxTx + 1 - Cardinality(Unused)
  <1>1. PICK n \in 0..MaxTx : Unused = (n + 1)..MaxTx
    BY DEF Inv, Numbering
  <1>2. n \in Nat /\ n <= MaxTx /\ MaxTx \in Nat
    BY <1>1, TxManagerAssumption
  <1>3. IsFiniteSet((n + 1)..MaxTx) /\ Cardinality((n + 1)..MaxTx) = IF n + 1 > MaxTx THEN 0 ELSE MaxTx - (n + 1) + 1
    BY <1>2, FS_Interval
  <1>4. IsFiniteSet(Unused) /\ Cardinality(Unused) = MaxTx - n
    BY <1>1, <1>2, <1>3
  <1>5. Cardinality(want) \in Nat /\ Cardinality(want) # 0
    BY FS_EmptySet, FS_CardinalityType DEF Inv, Shapes
  <1>6. n < MaxTx /\ t = n + 1
    BY <1>2, <1>4, <1>5 DEF Inv, Numbering
  <1>7. t \in Unused /\ t \in Txs
    BY <1>1, <1>2, <1>6 DEF Txs
  <1>8. \A u \in Unused : t <= u
    BY <1>1, <1>2, <1>6
  <1>9. Unused \ {t} = ((n + 1) + 1)..MaxTx /\ n + 1 \in 0..MaxTx
    BY <1>1, <1>2, <1>6
  <1>10. Cardinality(Unused) \in Nat
    BY <1>4, FS_CardinalityType
  <1> QED
    BY <1>4, <1>7, <1>8, <1>9, <1>10

\* WithTx gets a connection and begins a transaction, which nobody has used.
LEMMA BeginStep ==
    ASSUME Inv, NEW g \in Goroutines, Begin(g)
    PROVE  Inv'
  <1> USE DEF Inv
  <1> DEFINE t == MaxTx + 1 - Cardinality(Unused)
  <1> DEFINE f == [own |-> TRUE, tx |-> t, outer |-> NoTx]
  <1>1. g \in want /\ carry[g] = NoTx /\ unit[g] = NoTx /\ frames[g] = <<>>
    BY DEF Begin, Contexts
  <1>2. /\ t \in Unused /\ t \in Txs /\ IsFiniteSet(Unused) /\ Cardinality(Unused) \in Nat
        /\ \E n \in 0..MaxTx : Unused \ {t} = (n + 1)..MaxTx
    BY <1>1, BeginNumber
  <1>3. /\ tx' = [tx EXCEPT ![t] = "active"] /\ Cardinality(Active) < pool
        /\ frames' = [frames EXCEPT ![g] = Append(@, f)]
        /\ carry' = [carry EXCEPT ![g] = t] /\ unit' = [unit EXCEPT ![g] = t]
        /\ want' = want \ {g}
        /\ UNCHANGED <<pool, table, broken, pending, owner, failed, result>>
    BY <1>1 DEF Begin, FreeConn
  <1> HIDE DEF t
  <1>4. f \in Frame /\ Append(<<>>, f) = <<f>> /\ <<f>> \in Seq(Frame)
    BY <1>2 DEF Frame
  <1> HIDE DEF f
  <1>5. /\ frames'[g] = <<f>> /\ carry'[g] = t /\ unit'[g] = t
        /\ \A h \in Goroutines \ {g} : frames'[h] = frames[h] /\ carry'[h] = carry[h] /\ unit'[h] = unit[h]
    BY <1>1, <1>3, <1>4 DEF Shapes
  <1>6. \A u \in Txs : tx'[u] = IF u = t THEN "active" ELSE tx[u]
    BY <1>3 DEF TypeOK
  <1>7. t \in Txs /\ tx[t] = "unused" /\ t # NoTx /\ t \notin Active
    BY <1>2, TxManagerAssumption DEF Unused, Active, Txs, NoTx
  <1>8. Unused' = Unused \ {t} /\ Active' = Active \cup {t}
    BY <1>6, <1>7 DEF Unused, Active
  <1>9. Cardinality(Active') <= pool
    <2>1. IsFiniteSet(Txs) /\ Active \subseteq Txs
      BY FS_Interval, TxManagerAssumption DEF Txs, Active
    <2>2. IsFiniteSet(Active)
      BY <2>1, FS_Subset
    <2>3. Cardinality(Active') = Cardinality(Active) + 1 /\ Cardinality(Active) \in Nat
      BY <1>7, <1>8, <2>2, FS_AddElement, FS_CardinalityType
    <2> QED
      BY <1>3, <2>3 DEF Shapes
  <1>10. Shapes'
    <2>1. frames' \in [Goroutines -> Seq(Frame)]
      BY <1>1, <1>3, <1>4 DEF Shapes
    <2>2. IsFiniteSet(want')
      BY <1>3, FS_RemoveElement DEF Shapes
    <2> QED
      BY <1>2, <1>3, <2>1, <2>2 DEF Shapes
  <1>11. TypeOK'
    <2>1. tx' \in [Txs -> {"unused", "active", "committed", "dropped"}]
      BY <1>3 DEF TypeOK
    <2>2. \A h \in Goroutines : {carry'[h], unit'[h]} \subseteq {NoTx} \cup (Txs \ Unused')
      BY <1>5, <1>7, <1>8 DEF TypeOK
    <2>3. \A h \in Goroutines : \A i \in DOMAIN frames'[h] : frames'[h][i].tx \in Txs \ Unused'
      <3>1. \A i \in DOMAIN <<f>> : <<f>>[i].tx = t
        BY DEF f
      <3> QED
        BY <1>5, <1>7, <1>8, <3>1 DEF TypeOK
    <2>4. broken \subseteq Txs \ Unused'
      BY <1>8 DEF TypeOK
    <2> QED
      BY <1>3, <1>9, <2>1, <2>2, <2>3, <2>4 DEF TypeOK
  <1>12. Numbering'
    <2>1. Cardinality(Unused') = Cardinality(Unused) - 1
      BY <1>2, <1>8, FS_RemoveElement
    <2>2. Cardinality(want') = Cardinality(want) - 1 /\ Cardinality(want) \in Nat
      BY <1>1, <1>3, FS_RemoveElement, FS_CardinalityType DEF Shapes
    <2> QED
      BY <1>2, <1>8, <2>1, <2>2 DEF Numbering
  <1>13. Contexts'
    <2>1. \A i \in DOMAIN <<f>> : i = 1 /\ <<f>>[i] = f
      OBVIOUS
    <2>2. \A i \in DOMAIN frames'[g] : FrameShape(g, i)'
      BY <1>5, <2>1 DEF FrameShape, f
    <2>3. \A h \in Goroutines \ {g} : \A i \in DOMAIN frames'[h] : FrameShape(h, i)'
      BY <1>5 DEF FrameShape, Contexts
    <2> QED
      BY <1>3, <1>5, <1>7, <2>2, <2>3 DEF Contexts
  <1>14. Ownership'
    <2>1. Owns(g)' /\ \A h \in Goroutines \ {g} : Owns(h)' <=> Owns(h)
      BY <1>5 DEF Owns, f
    <2>2. \A h \in Goroutines : Owns(h) => carry[h] # t
      BY <1>7 DEF Ownership
    <2>3. \A h \in Goroutines : Owns(h) => carry[h] \in Txs
      BY DEF Shapes, Contexts, Owns
    <2>4. \A h \in Goroutines : Owns(h)' => tx'[carry'[h]] \in {"active", "dropped"}
      BY <1>5, <1>6, <1>7, <2>1, <2>3 DEF Ownership
    <2>5. \A u \in Active' : \E h \in Goroutines : Owns(h)' /\ carry'[h] = u
      <3> SUFFICES ASSUME NEW u \in Active' PROVE \E h \in Goroutines : Owns(h)' /\ carry'[h] = u
        OBVIOUS
      <3>1. CASE u = t
        BY <1>5, <2>1, <3>1
      <3>2. CASE u # t
        <4>1. PICK h \in Goroutines : Owns(h) /\ carry[h] = u
          BY <1>8, <3>2 DEF Ownership
        <4>2. h # g
          BY <1>1, <4>1 DEF Owns
        <4> QED
          BY <1>5, <2>1, <4>1, <4>2
      <3> QED
        BY <3>1, <3>2
    <2> QED
      BY <1>5, <2>1, <2>2, <2>4, <2>5 DEF Ownership
  <1>15. Together'
    BY <1>3, <1>6, <1>7 DEF Together, Written
  <1>16. Outcomes'
    BY <1>3, <1>6, <1>7 DEF Outcomes
  <1> QED
    BY <1>10, <1>11, <1>12, <1>13, <1>14, <1>15, <1>16

\* The innermost WithTx of g returns.
LEMMA ReturnStep ==
    ASSUME Inv, NEW g \in Goroutines, NEW how \in {"nil", "err", "panic"}, Return(g, how)
    PROVE  Inv'
  <1> USE DEF Inv
  <1> DEFINE n == Len(frames[g])
  <1> DEFINE f == frames[g][n]
  <1>1. /\ g \notin want /\ frames[g] # <<>>
        /\ IF f.own THEN Finish(f.tx, how) /\ failed' = failed \cup (IF how = "nil" THEN {} ELSE {f.tx})
           ELSE UNCHANGED <<table, tx, failed, result>>
        /\ carry' = [carry EXCEPT ![g] = f.outer]
        /\ unit' = [unit EXCEPT ![g] = IF f.outer = NoTx THEN NoTx ELSE @]
        /\ frames' = [frames EXCEPT ![g] = SubSeq(@, 1, n - 1)]
        /\ UNCHANGED <<pool, broken, pending, want, owner>>
    BY DEF Return, Last, Front
  <1>2. frames[g] \in Seq(Frame) /\ n \in Nat \ {0} /\ n \in DOMAIN frames[g] /\ f \in Frame
    BY <1>1 DEF Shapes
  <1> DEFINE s == SubSeq(frames[g], 1, n - 1)
  <1>3. /\ s \in Seq(Frame) /\ Len(s) = n - 1
        /\ \A i \in DOMAIN s : i \in DOMAIN frames[g] /\ i \in 1..(n - 1) /\ s[i] = frames[g][i]
    BY <1>2
  <1>4. /\ frames' \in [Goroutines -> Seq(Frame)] /\ frames'[g] = s
        /\ \A h \in Goroutines \ {g} : frames'[h] = frames[h]
    BY <1>1, <1>3 DEF Shapes
  <1>5. FrameShape(g, n)
    BY <1>2 DEF Contexts
  <1> HIDE DEF n, f, s
  <1>6. f.own \in BOOLEAN /\ f.tx \in Txs /\ f.outer \in {NoTx} \cup Txs
    BY <1>2 DEF Frame
  <1>7. /\ f.tx = carry[g] /\ carry[g] = unit[g]
        /\ f.own => n = 1 /\ f.outer = NoTx
        /\ ~f.own => f.outer = carry[g]
    BY <1>5 DEF FrameShape, f, Contexts
  <1>8. CASE f.own
    <2> DEFINE t == carry[g]
    <2>1. /\ t \in Txs /\ Owns(g) /\ tx[t] \in {"active", "dropped"}
          /\ frames'[g] = <<>> /\ carry'[g] = NoTx /\ unit'[g] = NoTx
          /\ \A h \in Goroutines \ {g} : carry'[h] = carry[h] /\ unit'[h] = unit[h]
      <3>1. n = 1 /\ f = frames[g][1] /\ t \in Txs /\ s = <<>>
        BY <1>3, <1>6, <1>7, <1>8 DEF f
      <3>2. Owns(g)
        BY <1>1, <1>8, <3>1 DEF Owns
      <3>3. tx[t] \in {"active", "dropped"}
        BY <3>2 DEF Ownership
      <3> QED
        BY <1>1, <1>4, <1>7, <1>8, <3>1, <3>2, <3>3 DEF Shapes
    <2>2. Finish(t, how) /\ failed' = failed \cup (IF how = "nil" THEN {} ELSE {t})
      BY <1>1, <1>7, <1>8
    <2> HIDE DEF t
    <2>3. \E e \in {"committed", "dropped"}, r \in {"nil", "unclear", "err"} :
            /\ tx' = [u \in Txs |-> IF u \in {t} \cap Active THEN e ELSE tx[u]]
            /\ result' = [result EXCEPT ![t] = r]
            /\ \/ /\ e = "committed" /\ r # "err" /\ how = "nil" /\ t \in Active
                  /\ table' = table \cup pending[t]
               \/ e = "dropped" /\ r = "err" /\ table' = table
      <3>1. ASSUME Commits(t), how = "nil", NEW r \in {"nil", "unclear"}, result' = [result EXCEPT ![t] = r]
            PROVE  <2>3
        <4>1. tx' = [u \in Txs |-> IF u \in {t} \cap Active THEN "committed" ELSE tx[u]]
          BY <3>1, <2>1 DEF Commits, TypeOK
        <4> QED
          BY <3>1, <4>1 DEF Commits
      <3>2. ASSUME tx' = [tx EXCEPT ![t] = IF @ = "active" THEN "dropped" ELSE @],
                   result' = [result EXCEPT ![t] = "err"], table' = table
            PROVE  <2>3
        <4>1. tx' = [u \in Txs |-> IF u \in {t} \cap Active THEN "dropped" ELSE tx[u]]
          BY <3>2, <2>1 DEF Active, TypeOK
        <4> QED
          BY <3>2, <4>1
      <3> QED
        BY <2>2, <3>1, <3>2 DEF Finish
    <2>4. PICK e \in {"committed", "dropped"}, r \in {"nil", "unclear", "err"} : <2>3!(e, r)
      BY <2>3
    <2> DEFINE S == {t} \cap Active
    <2>5. /\ Unused' = Unused /\ Active' = Active \ S /\ Cardinality(Active') <= pool'
          /\ tx' \in [Txs -> {"unused", "active", "committed", "dropped"}]
          /\ \A u \in Txs : tx'[u] = IF u \in S THEN e ELSE tx[u]
      <3>1. S \in SUBSET Active /\ pool' = pool
        BY <1>1
      <3> QED
        BY <2>4, <3>1, TxsEnd
    <2>6. /\ t \in S <=> tx[t] = "active"
          /\ \A u \in Txs : u # t => tx'[u] = tx[u]
          /\ tx'[t] = IF tx[t] = "active" THEN e ELSE tx[t]
      BY <2>1, <2>5 DEF Active
    <2>7. /\ result' \in [Txs -> {"none", "nil", "unclear", "err"}] /\ result'[t] = r
          /\ \A u \in Txs : u # t => result'[u] = result[u]
      BY <2>1, <2>4 DEF TypeOK
    <2> HIDE DEF S
    <2>8. table' \subseteq 1..Len(owner)
      BY <2>1, <2>4 DEF TypeOK
    <2>9. TypeOK'
      <3>1. \A h \in Goroutines : {carry'[h], unit'[h]} \subseteq {NoTx} \cup (Txs \ Unused)
        BY <2>1 DEF TypeOK
      <3>2. \A h \in Goroutines : \A i \in DOMAIN frames'[h] : frames'[h][i].tx \in Txs \ Unused
        BY <1>4, <2>1 DEF TypeOK
      <3> QED
        BY <1>1, <2>5, <2>7, <2>8, <3>1, <3>2 DEF TypeOK
    <2>10. Shapes'
      <3>1. carry' \in [Goroutines -> {NoTx} \cup Txs] /\ unit' \in [Goroutines -> {NoTx} \cup Txs]
        BY <1>1, <1>7, <1>8 DEF Shapes
      <3>2. failed' \subseteq Txs
        BY <2>1, <2>2 DEF Shapes
      <3> QED
        BY <1>1, <1>4, <3>1, <3>2 DEF Shapes
    <2>11. Numbering'
      BY <1>1, <2>5 DEF Numbering
    <2>12. Contexts'
      <3>1. \A h \in Goroutines : \A i \in DOMAIN frames'[h] : FrameShape(h, i)'
        BY <1>4, <2>1 DEF Contexts, FrameShape
      <3> QED
        BY <1>1, <1>4, <2>1, <3>1 DEF Contexts
    <2>13. Ownership'
      <3>1. ~Owns(g)' /\ \A h \in Goroutines \ {g} : Owns(h)' <=> Owns(h)
        BY <1>4, <2>1 DEF Owns
      <3>2. \A h \in Goroutines : Owns(h) => carry[h] \in Txs
        BY DEF Shapes, Contexts, Owns
      <3>3. \A h \in Goroutines \ {g} : Owns(h) => carry[h] # t
        BY <2>1 DEF Ownership, t
      <3>4. \A h \in Goroutines : Owns(h)' => tx'[carry'[h]] \in {"active", "dropped"}
        BY <2>1, <2>6, <3>1, <3>2, <3>3 DEF Ownership
      <3>5. \A u \in Active' : \E h \in Goroutines : Owns(h)' /\ carry'[h] = u
        <4> SUFFICES ASSUME NEW u \in Active' PROVE \E h \in Goroutines : Owns(h)' /\ carry'[h] = u
          OBVIOUS
        <4>1. u \in Active /\ u # t
          BY <2>5 DEF S
        <4>2. PICK h \in Goroutines : Owns(h) /\ carry[h] = u
          BY <4>1 DEF Ownership
        <4>3. h # g
          BY <4>1, <4>2 DEF t
        <4> QED
          BY <2>1, <3>1, <4>2, <4>3
      <3> QED
        BY <2>1, <3>1, <3>4, <3>5 DEF Ownership
    <2>14. Together'
      <3> SUFFICES ASSUME NEW u \in Txs
                   PROVE  /\ pending'[u] = Written(u)'
                          /\ tx'[u] = "committed" => Written(u)' \subseteq table'
                          /\ tx'[u] # "committed" => Written(u)' \cap table' = {}
        BY DEF Together
      <3>1. /\ pending' = pending /\ pending[u] = Written(u) /\ Written(u)' = Written(u)
            /\ pending[t] = Written(t)
            /\ tx[u] = "committed" => Written(u) \subseteq table
            /\ tx[u] # "committed" => Written(u) \cap table = {}
        BY <1>1, <2>1 DEF Together, Written
      <3>2. u # t => Written(u) \cap Written(t) = {}
        BY DEF Written
      <3>3. CASE e = "committed"
        BY <2>4, <2>6, <3>1, <3>2, <3>3 DEF Active
      <3>4. CASE e = "dropped"
        BY <2>1, <2>4, <2>6, <3>1, <3>4
      <3> QED
        BY <2>4, <3>3, <3>4
    <2>15. Outcomes'
      <3> SUFFICES ASSUME NEW u \in Txs
                   PROVE  /\ result'[u] = "nil" => tx'[u] = "committed"
                          /\ result'[u] = "err" \/ u \in failed' => tx'[u] = "dropped"
        BY DEF Outcomes
      <3>1. /\ result[u] = "nil" => tx[u] = "committed"
            /\ result[u] = "err" \/ u \in failed => tx[u] = "dropped"
        BY DEF Outcomes
      <3>2. CASE u # t
        BY <2>2, <2>6, <2>7, <3>1, <3>2
      <3>3. CASE u = t /\ e = "committed"
        <4>1. tx[t] = "active" /\ how = "nil" /\ r # "err"
          BY <2>4, <3>3 DEF Active
        <4> QED
          BY <2>2, <2>6, <2>7, <3>1, <3>3, <4>1
      <3>4. CASE u = t /\ e = "dropped"
        <4>1. tx'[u] = "dropped" /\ r = "err"
          BY <2>1, <2>4, <2>6, <3>4
        <4> QED
          BY <2>7, <3>4, <4>1
      <3> QED
        BY <2>4, <3>2, <3>3, <3>4
    <2> QED
      BY <2>9, <2>10, <2>11, <2>12, <2>13, <2>14, <2>15
  <1>9. CASE ~f.own
    <2>1. UNCHANGED <<pool, dbVars, owner, failed, result, want>>
      BY <1>1, <1>9 DEF dbVars
    <2>2. Unused' = Unused /\ Active' = Active /\ Together' /\ Outcomes'
      BY <2>1, DatabaseStays
    <2>3. carry' = carry /\ unit' = unit /\ carry[g] # NoTx
      BY <1>1, <1>6, <1>7, <1>9, TxManagerAssumption DEF Shapes, Txs, NoTx
    <2>4. Shapes'
      BY <1>4, <2>1, <2>3, DatabaseStays DEF Shapes
    <2>5. TypeOK'
      <3>1. \A h \in Goroutines : \A i \in DOMAIN frames'[h] : frames'[h][i].tx \in Txs \ Unused
        BY <1>3, <1>4 DEF TypeOK
      <3> QED
        BY <2>1, <2>2, <2>3, <3>1 DEF TypeOK, dbVars
    <2>6. Numbering'
      BY <2>1, <2>2 DEF Numbering
    <2>7. Contexts'
      <3>1. \A h \in Goroutines : \A i \in DOMAIN frames'[h] : FrameShape(h, i)'
        BY <1>3, <1>4, <2>3 DEF Contexts, FrameShape
      <3>2. \A h \in Goroutines : carry[h] = NoTx => frames'[h] = <<>>
        BY <1>4, <2>3 DEF Contexts
      <3> QED
        BY <2>1, <2>3, <3>1, <3>2 DEF Contexts
    <2>8. Owns(g)' <=> Owns(g)
      <3>1. CASE n = 1
        <4>1. s = <<>>
          BY <1>3, <3>1
        <4> QED
          BY <1>4, <1>9, <3>1, <4>1 DEF Owns, f
      <3>2. CASE n # 1
        <4>1. 1 \in DOMAIN s /\ s # <<>>
          BY <1>2, <1>3, <3>2
        <4> QED
          BY <1>1, <1>3, <1>4, <4>1 DEF Owns
      <3> QED
        BY <3>1, <3>2
    <2>9. \A h \in Goroutines : Owns(h)' <=> Owns(h)
      BY <1>4, <2>8 DEF Owns
    <2>10. Ownership'
      BY <2>1, <2>2, <2>3, <2>9 DEF Ownership, dbVars
    <2> QED
      BY <2>2, <2>4, <2>5, <2>6, <2>7, <2>10
  <1> QED
    BY <1>6, <1>8, <1>9

\* Every step preserves the invariant.
LEMMA InvStep == Inv /\ [Next]_vars => Inv'
  <1> SUFFICES ASSUME Inv, [Next]_vars PROVE Inv'
    OBVIOUS
  <1>1. CASE UNCHANGED vars
    <2>1. UNCHANGED <<pool, dbVars, owner, failed, result>> /\ UNCHANGED ctxVars
      BY <1>1 DEF vars
    <2>2. Unused' = Unused /\ Active' = Active /\ Together' /\ Outcomes' /\ Shapes'
      BY <2>1, DatabaseStays DEF Inv, Shapes, ctxVars
    <2>3. Contexts' /\ Ownership'
      BY <2>1, <2>2, ContextsStay DEF Inv, Ownership, dbVars
    <2> QED
      BY <2>1, <2>2, <2>3 DEF Inv, TypeOK, Numbering, dbVars, ctxVars
  <1> QED
    BY <1>1, WithTxStep, BeginStep, BeginFailsStep, ExecStep, ExecFailsStep, ReturnStep, GoStep,
       CancelStep, CrashStep DEF Next, Returns

\* The invariant holds throughout every behaviour.
THEOREM Invariance == Spec => []Inv
  <1>1. Init => Inv
    BY InvInit
  <1>2. Inv /\ [Next]_vars => Inv'
    BY InvStep
  <1> QED
    BY <1>1, <1>2, PTL DEF Spec

\* Contexts and frames name transactions that have begun, and the pool is never
\* exceeded, whatever number of goroutines, transactions and connections there are.
THEOREM TypeCorrectness == Spec => []TypeOK
  <1>1. Inv => TypeOK
    BY DEF Inv
  <1> QED
    BY <1>1, Invariance, PTL

\* What WithTx returns is what became of the rows of its unit.
THEOREM ResultSafety == Spec => []ResultIsTrue
  <1>1. Inv => ResultIsTrue
    BY DEF Inv, Together, Outcomes, ResultIsTrue
  <1> QED
    BY <1>1, Invariance, PTL

\* Only a WithTx call that has not returned holds a connection.
THEOREM LeakSafety == Spec => []NoTxLeaks
  <1>1. Inv => NoTxLeaks
    <2> SUFFICES ASSUME Inv, NEW t \in Active
                 PROVE  \E g \in Goroutines : \E i \in DOMAIN frames[g] : frames[g][i].own /\ frames[g][i].tx = t
      BY DEF NoTxLeaks
    <2>1. PICK g \in Goroutines : Owns(g) /\ carry[g] = t
      BY DEF Inv, Ownership
    <2>2. 1 \in DOMAIN frames[g]
      BY <2>1 DEF Inv, Shapes, Owns
    <2> QED
      BY <2>1, <2>2 DEF Inv, Contexts, FrameShape, Owns
  <1> QED
    BY <1>1, Invariance, PTL

-----------------------------------------------------------------------------
(* WithTx implements a unit of work *)

\* Every step is a step of the abstract unit of work, or leaves it unchanged.
LEMMA RefinementStep == Inv /\ Inv' /\ [Next]_vars => [Units!Next]_Units!vars
  <1> SUFFICES ASSUME Inv, Inv', [Next]_vars PROVE [Units!Next]_Units!vars
    OBVIOUS
  <1> DEFINE work == [u \in Txs |-> Written(u)]
  <1>1. ASSUME UNCHANGED <<table, tx, owner>>
        PROVE  UNCHANGED Units!vars
    BY <1>1 DEF Units!vars, Written
  <1>2. ASSUME UNCHANGED owner PROVE work' = work
    BY <1>2 DEF Written
  <1>3. ASSUME NEW g \in Goroutines, WithTx(g) \/ BeginFails(g) \/ ExecFails(g) \/ GoEnds(g) \/ \E h \in Goroutines : Go(g, h)
        PROVE  UNCHANGED Units!vars
    BY <1>1, <1>3 DEF WithTx, BeginFails, ExecFails, GoEnds, Go, dbVars
  <1>4. ASSUME NEW g \in Goroutines, Begin(g)
        PROVE  Units!Next
    <2> DEFINE t == MaxTx + 1 - Cardinality(Unused)
    <2>1. t \in Txs /\ t \in Unused
      BY <1>4, BeginNumber DEF Begin
    <2>2. tx[t] = "unused" /\ tx' = [tx EXCEPT ![t] = "active"] /\ UNCHANGED <<table, owner>>
      BY <1>4, <2>1 DEF Begin, Unused
    <2> HIDE DEF t
    <2>3. Units!Open(t)
      BY <1>2, <2>2 DEF Units!Open
    <2> QED
      BY <2>1, <2>3 DEF Units!Next
  <1>5. ASSUME NEW g \in Goroutines, Exec(g)
        PROVE  Units!Next
    <2> DEFINE r == Len(owner) + 1
    <2> DEFINE t == carry[g]
    <2>1. /\ owner' = Append(owner, t) /\ owner \in Seq({NoTx} \cup Txs) /\ t \in {NoTx} \cup Txs
          /\ Len(owner) \in Nat /\ r \in Rows /\ tx' = tx /\ table \subseteq 1..Len(owner)
      BY <1>5, TxManagerAssumption DEF Exec, Inv, Contexts, Shapes, TypeOK, Rows
    <2>2. \/ t = NoTx /\ table' = table \cup {r}
          \/ t \in Active /\ table' = table
      BY <1>5 DEF Exec, TxFromContext
    <2>3. r \notin table /\ \A u \in Txs : r \notin Written(u)
      BY <2>1 DEF Written
    <2> HIDE DEF t
    <2>4. \A u \in Txs : Written(u)' = Written(u) \cup (IF u = t THEN {r} ELSE {})
      BY <2>1 DEF Written
    <2>5. Units!New(r)
      BY <2>3 DEF Units!New
    <2>6. CASE t = NoTx
      <3>1. work' = work
        <4>1. \A u \in Txs : u # t
          BY <2>6, TxManagerAssumption DEF Txs, NoTx
        <4>2. \A u \in Txs : Written(u)' = Written(u)
          BY <2>4, <4>1
        <4> QED
          BY <4>2
      <3>2. Units!WriteAlone(r)
        BY <2>1, <2>2, <2>5, <2>6, <3>1 DEF Units!WriteAlone, Active, Txs, NoTx
      <3> QED
        BY <2>1, <3>2 DEF Units!Next
    <2>7. CASE t # NoTx
      <3>1. t \in Txs /\ tx[t] = "active" /\ table' = table
        BY <2>2, <2>7 DEF Active
      <3>2. work' = [work EXCEPT ![t] = @ \cup {r}]
        BY <2>4, <3>1
      <3>3. Units!Write(t, r)
        BY <2>1, <2>5, <3>1, <3>2 DEF Units!Write
      <3> QED
        BY <2>1, <3>1, <3>3 DEF Units!Next
    <2> QED
      BY <2>6, <2>7
  <1>6. ASSUME NEW S \in SUBSET Txs, \A u \in S : tx[u] = "active", UNCHANGED <<table, owner>>,
               tx' = [u \in Txs |-> IF u \in S THEN "dropped" ELSE tx[u]]
        PROVE  Units!Next
    BY <1>2, <1>6 DEF Units!Next, Units!Drop
  <1>7. ASSUME NEW g \in Goroutines, Returns(g)
        PROVE  [Units!Next]_Units!vars
    <2> DEFINE t == Last(frames[g]).tx
    <2>1. PICK how \in {"nil", "err", "panic"} : Return(g, how)
      BY <1>7 DEF Returns
    <2>2. owner' = owner /\ (UNCHANGED <<table, tx>> \/ Finish(t, how))
      BY <2>1 DEF Return
    <2>3. t \in Txs
      <3>1. frames[g] \in Seq(Frame) /\ frames[g] # <<>>
        BY <2>1 DEF Return, Inv, Shapes
      <3>2. Last(frames[g]) \in Frame
        BY <3>1 DEF Last
      <3> QED
        BY <3>2 DEF Frame
    <2> HIDE DEF t
    <2>4. CASE Commits(t)
      <3>1. pending[t] = work[t]
        BY <2>3 DEF Inv, Together
      <3>2. Units!Commit(t)
        BY <1>2, <2>2, <2>4, <3>1 DEF Commits, Units!Commit, Active
      <3> QED
        BY <2>3, <3>2 DEF Units!Next
    <2>5. CASE tx' = [tx EXCEPT ![t] = IF @ = "active" THEN "dropped" ELSE @] /\ table' = table
      <3>1. {t} \cap Active \in SUBSET Txs /\ \A u \in {t} \cap Active : tx[u] = "active"
        BY DEF Active
      <3>2. tx' = [u \in Txs |-> IF u \in {t} \cap Active THEN "dropped" ELSE tx[u]]
        BY <2>3, <2>5 DEF Active, Inv, TypeOK
      <3> QED
        BY <1>6, <2>2, <2>5, <3>1, <3>2
    <2> QED
      BY <1>1, <2>2, <2>4, <2>5 DEF Finish
  <1>8. ASSUME NEW t \in Txs, Cancel(t)
        PROVE  Units!Next
    <2>1. tx' = [u \in Txs |-> IF u \in {t} THEN "dropped" ELSE tx[u]]
      BY <1>8 DEF Cancel, Inv, TypeOK
    <2> QED
      BY <1>6, <1>8, <2>1 DEF Cancel, Active
  <1>9. ASSUME Crash
        PROVE  Units!Next
    <2>1. Active \in SUBSET Txs /\ \A u \in Active : tx[u] = "active"
      BY DEF Active
    <2>2. tx' = [u \in Txs |-> IF u \in Active THEN "dropped" ELSE tx[u]] /\ UNCHANGED <<table, owner>>
      BY <1>9 DEF Crash, Active
    <2> QED
      BY <1>6, <2>1, <2>2
  <1>10. CASE UNCHANGED vars
    BY <1>1, <1>10 DEF vars, dbVars
  <1> QED
    BY <1>3, <1>4, <1>5, <1>7, <1>8, <1>9, <1>10 DEF Next

\* What the code of an outermost WithTx writes is committed in one step or never, for
\* any number of goroutines, nested calls, transactions and rows.
THEOREM Refinement == Spec => ImplementsUnitOfWork
  <1>1. Init => Units!Init
    BY DEF Init, Units!Init, Written
  <1>2. Inv /\ Inv' /\ [Next]_vars => [Units!Next]_Units!vars
    BY RefinementStep
  <1> QED
    BY <1>1, <1>2, Invariance, PTL DEF Spec, ImplementsUnitOfWork, Units!Spec
=============================================================================
