------------------------------ MODULE LeaseLock ------------------------------
(***************************************************************************)
(* What a user of the lock of package cache may rely on: a lock with       *)
(* leases.  The lock is free or taken; when it is taken it has an owner,   *)
(* or none that is left.  A process gains time only when a call of its own *)
(* returns while it is the owner, it gives time up only by calling, and an *)
(* owner with time left does not lose the lock.  Nothing here knows of     *)
(* Redis, tokens, retries or late commands: module RedisLock implements    *)
(* it.                                                                     *)
(***************************************************************************)
EXTENDS Naturals

CONSTANT Procs

VARIABLES
    taken,      \* whether the lock is taken
    owner,      \* the set of its owner, empty if there is none
    busy,       \* the processes in a call
    lease       \* lease[p]: ticks for which p may rely on the lock

Init ==
    /\ taken = FALSE /\ owner = {} /\ busy = {}
    /\ lease = [p \in Procs |-> 0]

\* p loses sight of the lock, and so do all: it stays taken until it expires.
Forgets(p) == owner' = owner \ {p} /\ lease'[p] = 0

\* A call may shorten the lease of its caller, down to nothing.
Call(p) ==
    /\ p \notin busy /\ busy' = busy \cup {p}
    /\ lease'[p] \in 0..lease[p] /\ lease' = [lease EXCEPT ![p] = lease'[p]]
    /\ owner' = owner \/ Forgets(p)
    /\ UNCHANGED taken

\* A refused attempt of a call that goes on trying.
Retry(p) == p \in busy /\ Forgets(p) /\ UNCHANGED <<taken, busy, lease>>

\* What p gains it gains as the owner, and no answer takes time away.
Return(p) ==
    /\ p \in busy /\ busy' = busy \ {p}
    /\ lease'[p] \in Nat /\ lease' = [lease EXCEPT ![p] = lease'[p]]
    /\ lease'[p] = lease[p] \/ (lease'[p] > lease[p] /\ p \in owner)
    /\ owner' = owner \/ Forgets(p)
    /\ UNCHANGED taken

\* The lock is taken for a process, or for one that has given up on it.
Take ==
    /\ ~taken /\ taken'
    /\ owner' = {} \/ \E p \in Procs : owner' = {p}
    /\ UNCHANGED <<busy, lease>>

\* It is released, or expires early; not while its owner has time left.
Release ==
    /\ taken' = FALSE /\ owner' = {}
    /\ \A p \in owner : lease'[p] = 0
    /\ UNCHANGED <<busy, lease>>

Pass ==
    /\ lease' = [p \in Procs |-> IF lease[p] > 0 THEN lease[p] - 1 ELSE 0]
    /\ \/ UNCHANGED <<taken, owner>>
       \/ taken' = FALSE /\ owner' = {} /\ \A p \in owner : lease'[p] = 0
    /\ UNCHANGED busy

Next == Take \/ Release \/ Pass \/ \E p \in Procs : Call(p) \/ Retry(p) \/ Return(p)

Spec == Init /\ [][Next]_<<taken, owner, busy, lease>>
=============================================================================
