------------------------------- MODULE Column --------------------------------
(***************************************************************************)
(* db/jsonb.go: JSONB[T], a column that holds a value of type T as JSON.   *)
(*                                                                         *)
(* A value of T is a function from some of its fields to values: fields    *)
(* that it lacks have their zero value, which json.Marshal leaves out      *)
(* (omitempty) or writes, as the type says.  JSON is a function of the     *)
(* same kind, or the text null or a text that T cannot be read from.       *)
(***************************************************************************)
EXTENDS Strings

CONSTANTS FieldNames, ZeroValue

Blank == [f \in {} |-> ZeroValue]
Json(kind, m) == [kind |-> kind, map |-> m]

\* JSONB[T]: Data with its zero fields filled in.
Jsonb(m, null) == [data |-> Over(m, [f \in FieldNames |-> ZeroValue]), null |-> null]
Empty == Jsonb(Blank, TRUE)

\* A value of type JSONB[T].
IsJsonb(j) == j.null \in BOOLEAN /\ j = [data |-> [f \in FieldNames |-> j.data[f]], null |-> j.null]

\* json.Marshal(j.Data), for a T with omitempty or without.
Marshal(d, omitempty) ==
    Json("object", [f \in {g \in FieldNames : ~omitempty \/ d[g] # ZeroValue} |-> d[f]])

Value(j, omitempty) == IF j.null THEN Json("sql null", Blank) ELSE Marshal(j.data, omitempty)
MarshalJSON(j, omitempty) == IF j.null THEN Json("null", Blank) ELSE Marshal(j.data, omitempty)

\* json.Unmarshal into data that may hold something already: what the text does not
\* mention stays, and null changes nothing.
Unmarshal(src, d) == IF src.kind = "object" THEN Over(src.map, d) ELSE d

Scan(j, src) ==
    IF src.kind \in {"sql null", "empty"} THEN [err |-> "", j |-> Empty]
    ELSE IF src.kind = "other type" THEN [err |-> "unsupported", j |-> j]
    ELSE [err |-> IF src.kind = "bad" THEN "unmarshal" ELSE "", j |-> [data |-> Unmarshal(src, j.data), null |-> FALSE]]

UnmarshalJSON(j, src) ==
    IF src.kind = "null" THEN [err |-> "", j |-> Empty]
    ELSE [err |-> IF src.kind = "bad" THEN "unmarshal" ELSE "", j |-> [data |-> Unmarshal(src, j.data), null |-> FALSE]]

MustGet(j) == IF j.null THEN [err |-> "ErrJSONBNull", data |-> Empty.data] ELSE [err |-> "", data |-> j.data]
=============================================================================
