------------------------------- MODULE Paging --------------------------------
(***************************************************************************)
(* db/page.go: NormalizePage, Paginate and PaginateSafe.  Rows are their   *)
(* positions in the order of the query.  Go's int wraps around at the      *)
(* number Half, 2^63, in two's complement.                                 *)
(***************************************************************************)
EXTENDS Strings

CONSTANTS
    Half,           \* 2^(w-1) for an int of w bits
    DefaultSize,    \* 20
    MaxSize         \* 200

ASSUME PagingAssumption ==
    /\ Half \in Nat /\ MaxSize \in Nat
    /\ DefaultSize \in 1..MaxSize /\ MaxSize < Half

MaxInt == Half - 1
Wrap(n) == ((n + Half) % (2 * Half)) - Half

NormalizePage(req) ==
    [req EXCEPT !.page = IF @ <= 0 THEN 1 ELSE @,
                !.size = IF @ <= 0 THEN DefaultSize ELSE IF @ > MaxSize THEN MaxSize ELSE @]

\* The rows that OFFSET and LIMIT leave of a table; gorm writes no OFFSET that is not
\* positive (external).
Find(rows, offset, limit) ==
    {i \in 1..rows : LET o == IF offset > 0 THEN offset ELSE 0 IN o < i /\ i <= o + limit}

\* Mutant: pages are counted from zero.
OffsetZeroBased(req) == Wrap(Wrap(req.page) * req.size)

Offset(req) == Wrap(Wrap(req.page - 1) * req.size)

\* strings.EqualFold
Direction(req) == IF req.sortOrder \in {"desc", "DESC"} THEN "desc" ELSE "asc"

\* The order that a request and an allowlist (a function from keys to columns) ask for.
ApplySort(req, allowedSorts) ==
    IF DOMAIN allowedSorts # {}
    THEN IF req.sortBy \notin DOMAIN allowedSorts \/ TrimSpace(allowedSorts[req.sortBy]) = "" THEN <<>>
         ELSE <<allowedSorts[req.sortBy], Direction(req)>>
    ELSE IF req.sort # "" THEN <<req.sort>> ELSE <<>>

\* Count and Find are two statements: the table may have changed in between.
Paginate(counted, found, req0) ==
    LET req == NormalizePage(req0)
    IN  [items |-> Find(found, Offset(req), req.size), total |-> counted, page |-> req.page, size |-> req.size]
=============================================================================
