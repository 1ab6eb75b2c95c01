----------------------------- MODULE ObjectReads -----------------------------
(***************************************************************************)
(* objectstore/minio.go: GetObject with its byte range and the Stat that   *)
(* follows, and the loop of ListObjects over the channel of minio-go.      *)
(* Offsets are int64 values that wrap around as in module Paging.          *)
(***************************************************************************)
EXTENDS Paging

NoRange == <<>>

\* minio-go's GetObjectOptions.SetRange: the Range header, or an error (external).
SetRange(start, end) ==
    IF (start = 0 /\ end < 0) \/ (0 < start /\ end = 0) \/ (0 <= start /\ start <= end)
    THEN [err |-> "", range |-> <<start, end>>]
    ELSE [err |-> "invalid range", range |-> NoRange]

\* The options with which GetObject opens the object.
RangeOptions(offset, length) ==
    IF length > 0 THEN SetRange(offset, Wrap(offset + length - 1))
    ELSE IF offset > 0 THEN SetRange(offset, 0)
    ELSE [err |-> "", range |-> NoRange]

\* The bytes of an object that the server sends for a Range header (external).
Served(range, size) ==
    IF range = NoRange THEN 0..(size - 1)
    ELSE {i \in 0..(size - 1) :
             IF range[2] < 0 THEN i >= size + range[2]
             ELSE range[1] <= i /\ (i <= range[2] \/ (range[2] = 0 /\ range[1] > 0))}

\* minio-go's Object (external): a Stat that is the first request on it takes the Range
\* header out of the options, also for the reads that follow, and asks for the object's
\* size; a read that is the first request keeps the header.
AfterStat(range) == NoRange

Failed(e) == [err |-> e, bytes |-> {}, size |-> 0]

\* Mutant: the error of Stat is not looked at.
GetObjectUnchecked(offset, length, size, stat) ==
    LET o == RangeOptions(offset, length)
    IN  IF o.err # "" THEN Failed(o.err)
        ELSE [err |-> "", bytes |-> IF stat # "" THEN {} ELSE Served(AfterStat(o.range), size),
              size |-> IF stat # "" THEN 0 ELSE size]

\* stat is the error that the server answers the Stat with; bytes is what the reader
\* yields and size the Size of the ObjectInfo.
GetObject(offset, length, size, stat) ==
    LET o == RangeOptions(offset, length)
    IN  IF o.err # "" THEN Failed(o.err)
        ELSE IF stat # "" THEN Failed(stat)
        ELSE [err |-> "", bytes |-> Served(AfterStat(o.range), size), size |-> size]

\* The listing is what minio-go would send: keys, and an error as its last item at most.
\* left counts the items that nobody receives: its goroutine waits for the context.
Received(listing, limit) ==
    LET stops == {i \in DOMAIN listing : listing[i] = "error" \/ (limit > 0 /\ i >= limit)}
    IN  IF stops = {} THEN Len(listing) ELSE Min(stops)

ListObjects(listing, limit) ==
    LET n == Received(listing, limit)
    IN  IF n > 0 /\ listing[n] = "error" THEN [err |-> "error", items |-> <<>>, left |-> Len(listing) - n]
        ELSE [err |-> "", items |-> SubSeq(listing, 1, n), left |-> Len(listing) - n]
=============================================================================
