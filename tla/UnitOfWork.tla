----------------------------- MODULE UnitOfWork ------------------------------
(***************************************************************************)
(* What WithTx promises: the rows written inside a unit, by whatever code  *)
(* runs in it, enter the table together or not at all, and never after the *)
(* unit has ended; a row written outside every unit enters alone.          *)
(***************************************************************************)
EXTENDS Naturals

CONSTANTS Units, Rows

VARIABLES
    table,      \* the committed rows
    work,       \* work[u]: the rows written in unit u
    state       \* state[u]: "unused", "active", "committed" or "dropped"

vars == <<table, work, state>>

Init ==
    /\ table = {}
    /\ work = [u \in Units |-> {}]
    /\ state = [u \in Units |-> "unused"]

New(r) == r \notin table /\ \A u \in Units : r \notin work[u]

Open(u) ==
    /\ state[u] = "unused"
    /\ state' = [state EXCEPT ![u] = "active"]
    /\ UNCHANGED <<table, work>>

Write(u, r) ==
    /\ state[u] = "active" /\ New(r)
    /\ work' = [work EXCEPT ![u] = @ \cup {r}]
    /\ UNCHANGED <<table, state>>

WriteAlone(r) ==
    /\ New(r)
    /\ table' = table \cup {r}
    /\ UNCHANGED <<work, state>>

Commit(u) ==
    /\ state[u] = "active"
    /\ table' = table \cup work[u]
    /\ state' = [state EXCEPT ![u] = "committed"]
    /\ UNCHANGED work

\* A crash drops every open unit at once.
Drop(S) ==
    /\ \A u \in S : state[u] = "active"
    /\ state' = [u \in Units |-> IF u \in S THEN "dropped" ELSE state[u]]
    /\ UNCHANGED <<table, work>>

Next ==
    \/ \E u \in Units : Open(u) \/ Commit(u) \/ \E r \in Rows : Write(u, r)
    \/ \E r \in Rows : WriteAlone(r)
    \/ \E S \in SUBSET Units : Drop(S)

Spec == Init /\ [][Next]_vars
=============================================================================
