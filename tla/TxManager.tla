------------------------------ MODULE TxManager ------------------------------
(***************************************************************************)
(* db/tx.go: WithTx and DB of TxManager, which hand a transaction on in    *)
(* the context, over gorm's Transaction and a database/sql pool.           *)
(*                                                                         *)
(* Transactions and rows are numbered in the order they begin and are      *)
(* written; none is used twice.  A row stands for one statement.           *)
(***************************************************************************)
EXTENDS Naturals, Sequences, FiniteSets, SequencesExt

CONSTANTS
    Goroutines,
    MaxTx,          \* bound: transactions begun
    MaxRow,         \* bound: rows written
    MaxDepth,       \* bound: WithTx calls that a goroutine is in
    PoolSizes       \* values of MaxOpenConns

ASSUME TxManagerAssumption ==
    /\ MaxTx \in Nat /\ MaxRow \in Nat /\ MaxDepth \in Nat \ {0}
    /\ PoolSizes \subseteq Nat \ {0}

Txs == 1..MaxTx
Rows == 1..MaxRow
NoTx == 0

VARIABLES
    pool, aborts,   \* MaxOpenConns; whether a failed statement aborts its transaction
                    \* (as in Postgres) or not (as in MySQL)
    table,          \* the committed rows
    tx,             \* tx[t]: "unused", "active", "committed" or "dropped"
    broken,         \* transactions that a failed statement has aborted
    pending,        \* pending[t]: rows written in transaction t
    frames,         \* frames[g]: the WithTx calls g is in, the innermost last
    carry,          \* carry[g]: the transaction in the context of g
    want,           \* goroutines that wait for a connection to begin on
    unit,           \* history: the outermost WithTx that g's code belongs to
    owner,          \* history: owner[r]: the unit whose code wrote row r, in order
    failed,         \* history: transactions whose fn returned an error or panicked
    result          \* history: what the WithTx of t returned

dbVars == <<table, tx, broken, pending>>
ctxVars == <<frames, carry, want, unit>>
vars == <<pool, aborts, dbVars, ctxVars, owner, failed, result>>

Init ==
    /\ pool \in PoolSizes /\ aborts \in BOOLEAN
    /\ table = {} /\ broken = {}
    /\ tx = [t \in Txs |-> "unused"]
    /\ pending = [t \in Txs |-> {}]
    /\ frames = [g \in Goroutines |-> <<>>]
    /\ carry = [g \in Goroutines |-> NoTx]
    /\ want = {}
    /\ unit = [g \in Goroutines |-> NoTx]
    /\ owner = <<>>
    /\ failed = {} /\ result = [t \in Txs |-> "none"]

Unused == {t \in Txs : tx[t] = "unused"}
Active == {t \in Txs : tx[t] = "active"}
FreeConn == Cardinality(Active) < pool

-----------------------------------------------------------------------------
(* tx.go *)

\* Mutant: a transaction that is over counts as none.
TxFromContextLive(g) == IF carry[g] \in Active THEN carry[g] ELSE NoTx

TxFromContext(g) == carry[g]

\* Mutant: a nested WithTx begins a transaction of its own.
WithTxOwn(g) ==
    /\ g \notin want /\ Len(frames[g]) < MaxDepth
    /\ Cardinality(want) < Cardinality(Unused)
    /\ want' = want \cup {g}
    /\ UNCHANGED <<pool, aborts, dbVars, frames, carry, unit, owner, failed, result>>

\* fn runs in the transaction of the context, active or not, or in a new one.
WithTx(g) ==
    /\ g \notin want /\ Len(frames[g]) < MaxDepth
    /\ IF TxFromContext(g) # NoTx
       THEN /\ frames' = [frames EXCEPT ![g] = Append(@, [own |-> FALSE, tx |-> TxFromContext(g), outer |-> carry[g]])]
            /\ UNCHANGED want
       ELSE /\ Cardinality(want) < Cardinality(Unused)
            /\ want' = want \cup {g}
            /\ UNCHANGED frames
    /\ UNCHANGED <<pool, aborts, dbVars, carry, unit, owner, failed, result>>

\* Mutant: MaxOpenConns is not set on the pool.
BeginUnlimited(g) ==
    /\ g \in want
    /\ LET t == MaxTx + 1 - Cardinality(Unused)
       IN /\ tx' = [tx EXCEPT ![t] = "active"]
          /\ frames' = [frames EXCEPT ![g] = Append(@, [own |-> TRUE, tx |-> t, outer |-> carry[g]])]
          /\ carry' = [carry EXCEPT ![g] = t]
          /\ unit' = [unit EXCEPT ![g] = IF @ = NoTx THEN t ELSE @]
    /\ want' = want \ {g}
    /\ UNCHANGED <<pool, aborts, table, broken, pending, owner, failed, result>>

\* NewTxContext: fn gets a context with the new transaction.
Begin(g) ==
    /\ g \in want /\ FreeConn
    /\ LET t == MaxTx + 1 - Cardinality(Unused)
       IN /\ tx' = [tx EXCEPT ![t] = "active"]
          /\ frames' = [frames EXCEPT ![g] = Append(@, [own |-> TRUE, tx |-> t, outer |-> carry[g]])]
          /\ carry' = [carry EXCEPT ![g] = t]
          /\ unit' = [unit EXCEPT ![g] = IF @ = NoTx THEN t ELSE @]
    /\ want' = want \ {g}
    /\ UNCHANGED <<pool, aborts, table, broken, pending, owner, failed, result>>

\* The context ends while WithTx waits, or BEGIN fails: fn is not called.
BeginFails(g) ==
    /\ g \in want
    /\ want' = want \ {g}
    /\ UNCHANGED <<pool, aborts, dbVars, frames, carry, unit, owner, failed, result>>

\* A statement on DB(ctx): in the transaction of the context, or by itself.
Exec(g) ==
    /\ g \notin want /\ Len(owner) < MaxRow
    /\ LET t == TxFromContext(g)
           r == Len(owner) + 1
       IN \/ /\ t = NoTx /\ FreeConn
             /\ table' = table \cup {r}
             /\ UNCHANGED pending
          \/ /\ t \in Active \ broken
             /\ pending' = [pending EXCEPT ![t] = @ \cup {r}]
             /\ UNCHANGED table
    /\ owner' = Append(owner, unit[g])
    /\ UNCHANGED <<pool, aborts, tx, broken, ctxVars, failed, result>>

\* The database refuses a statement in a transaction.
ExecFails(g) ==
    /\ g \notin want /\ TxFromContext(g) \in Active /\ aborts
    /\ broken' = broken \cup {TxFromContext(g)}
    /\ UNCHANGED <<pool, aborts, table, tx, pending, ctxVars, owner, failed, result>>

-----------------------------------------------------------------------------
(* gorm's Transaction, when fn has returned nil or an error or panicked (external) *)

Commits(t) ==
    /\ t \in Active \ broken
    /\ table' = table \cup pending[t]
    /\ tx' = [tx EXCEPT ![t] = "committed"]

\* Mutant: there is no rollback when fn panics.
FinishWithoutRecovery(t, how) ==
    \/ /\ how = "nil" /\ Commits(t)
       /\ result' = [result EXCEPT ![t] = "nil"]
    \/ /\ how # "panic"
       /\ tx' = [tx EXCEPT ![t] = IF @ = "active" THEN "dropped" ELSE @]
       /\ result' = [result EXCEPT ![t] = "err"]
       /\ UNCHANGED table
    \/ /\ how = "panic"
       /\ result' = [result EXCEPT ![t] = "err"]
       /\ UNCHANGED <<table, tx>>

Finish(t, how) ==
    \/ /\ how = "nil" /\ Commits(t)
       /\ result' = [result EXCEPT ![t] = "nil"]
    \/ /\ how = "nil" /\ Commits(t)         \* the reply to COMMIT is lost
       /\ result' = [result EXCEPT ![t] = "unclear"]
    \/ /\ tx' = [tx EXCEPT ![t] = IF @ = "active" THEN "dropped" ELSE @]
       /\ result' = [result EXCEPT ![t] = "err"]
       /\ UNCHANGED table

\* Mutant: an error of fn is logged, and what was written so far committed.
ReturnAnyway(g, how) ==
    /\ g \notin want /\ frames[g] # <<>>
    /\ LET f == Last(frames[g])
       IN /\ IF f.own THEN Finish(f.tx, "nil") /\ failed' = failed \cup (IF how = "nil" THEN {} ELSE {f.tx})
             ELSE UNCHANGED <<table, tx, failed, result>>
          /\ carry' = [carry EXCEPT ![g] = f.outer]
          /\ unit' = [unit EXCEPT ![g] = IF f.outer = NoTx THEN NoTx ELSE @]
    /\ frames' = [frames EXCEPT ![g] = Front(@)]
    /\ UNCHANGED <<pool, aborts, broken, pending, want, owner>>

\* fn returns.  Who called a nested WithTx may pass its error on or drop it.
Return(g, how) ==
    /\ g \notin want /\ frames[g] # <<>>
    /\ LET f == Last(frames[g])
       IN /\ IF f.own THEN Finish(f.tx, how) /\ failed' = failed \cup (IF how = "nil" THEN {} ELSE {f.tx})
             ELSE UNCHANGED <<table, tx, failed, result>>
          /\ carry' = [carry EXCEPT ![g] = f.outer]
          /\ unit' = [unit EXCEPT ![g] = IF f.outer = NoTx THEN NoTx ELSE @]
    /\ frames' = [frames EXCEPT ![g] = Front(@)]
    /\ UNCHANGED <<pool, aborts, broken, pending, want, owner>>

-----------------------------------------------------------------------------
(* Callers and faults (external) *)

\* The context that t was begun with ends: database/sql rolls back.
Cancel(t) ==
    /\ t \in Active
    /\ tx' = [tx EXCEPT ![t] = "dropped"]
    /\ UNCHANGED <<pool, aborts, table, broken, pending, ctxVars, owner, failed, result>>

\* fn starts a goroutine with its context; the goroutine may outlive the transaction.
Go(g, h) ==
    /\ g # h /\ carry[g] # NoTx /\ carry[h] = NoTx /\ h \notin want
    /\ carry' = [carry EXCEPT ![h] = carry[g]]
    /\ unit' = [unit EXCEPT ![h] = unit[g]]
    /\ UNCHANGED <<pool, aborts, dbVars, frames, want, owner, failed, result>>

GoEnds(h) ==
    /\ carry[h] # NoTx /\ frames[h] = <<>> /\ h \notin want
    /\ carry' = [carry EXCEPT ![h] = NoTx]
    /\ unit' = [unit EXCEPT ![h] = NoTx]
    /\ UNCHANGED <<pool, aborts, dbVars, frames, want, owner, failed, result>>

\* The process dies and starts again: the database rolls back what was open.
Crash ==
    /\ tx' = [t \in Txs |-> IF tx[t] = "active" THEN "dropped" ELSE tx[t]]
    /\ frames' = [g \in Goroutines |-> <<>>]
    /\ carry' = [g \in Goroutines |-> NoTx]
    /\ unit' = [g \in Goroutines |-> NoTx]
    /\ want' = {}
    /\ UNCHANGED <<pool, aborts, table, broken, pending, owner, failed, result>>

Returns(g) == \E how \in {"nil", "err", "panic"} : Return(g, how)

Next ==
    \/ \E g \in Goroutines :
          \/ WithTx(g) \/ Begin(g) \/ BeginFails(g) \/ Exec(g) \/ ExecFails(g)
          \/ Returns(g) \/ GoEnds(g)
          \/ \E h \in Goroutines : Go(g, h)
    \/ \E t \in Txs : Cancel(t)
    \/ Crash

EndsUnit(g) == Len(frames[g]) = 1 /\ Returns(g)

\* What callers pass as fn returns, after finitely many nested calls; the pool serves
\* those who wait for a connection.
Fairness ==
    \A g \in Goroutines : WF_vars(Returns(g)) /\ SF_vars(EndsUnit(g)) /\ SF_vars(Begin(g))

Spec == Init /\ [][Next]_vars /\ Fairness

-----------------------------------------------------------------------------
(* Properties *)

(***************************************************************************)
(* Type correctness: contexts and frames name transactions that have begun,*)
(* and a committed row was written.                                        *)
(***************************************************************************)
TypeOK ==
    /\ table \subseteq 1..Len(owner) /\ Len(owner) <= MaxRow
    /\ tx \in [Txs -> {"unused", "active", "committed", "dropped"}]
    /\ Cardinality(Active) <= pool
    /\ broken \subseteq Txs \ Unused /\ pending \in [Txs -> SUBSET (1..Len(owner))]
    /\ want \subseteq Goroutines
    /\ \A g \in Goroutines :
          /\ {carry[g], unit[g]} \subseteq {NoTx} \cup (Txs \ Unused)
          /\ \A i \in DOMAIN frames[g] : frames[g][i].tx \in Txs \ Unused
    /\ result \in [Txs -> {"none", "nil", "unclear", "err"}]

Written(u) == {r \in DOMAIN owner : owner[r] = u}

Units == INSTANCE UnitOfWork WITH Units <- Txs, work <- [u \in Txs |-> Written(u)], state <- tx

(***************************************************************************)
(* The outermost WithTx is a unit of work: what its code writes, nested    *)
(* WithTx calls and goroutines that got its context included, is committed *)
(* in one step or never, whether nested errors are passed on or dropped,   *)
(* and a goroutine that outlives it writes nothing.                        *)
(***************************************************************************)
ImplementsUnitOfWork == Units!Spec

(***************************************************************************)
(* When WithTx returns nil its rows are in the table; when fn fails or     *)
(* panics, or WithTx returns an error, none is, unless the reply to its    *)
(* COMMIT was lost.                                                        *)
(***************************************************************************)
ResultIsTrue ==
    \A t \in Txs :
        /\ result[t] = "nil" => Written(t) \subseteq table
        /\ result[t] = "err" \/ t \in failed => Written(t) \cap table = {}

(***************************************************************************)
(* A connection is held only by a WithTx that has not returned: neither an *)
(* error, a panic, the end of the context nor a goroutine left behind      *)
(* keeps a transaction open.                                               *)
(***************************************************************************)
NoTxLeaks ==
    \A t \in Active : \E g \in Goroutines : \E i \in DOMAIN frames[g] : frames[g][i].own /\ frames[g][i].tx = t

(***************************************************************************)
(* Every WithTx that waits for a connection gets one, or gives up: nested  *)
(* calls reuse the connection of their unit, so that the goroutines never  *)
(* wait for each other, or for themselves, in the pool.                    *)
(***************************************************************************)
WithTxProceeds == \A g \in Goroutines : g \in want ~> g \notin want
=============================================================================
