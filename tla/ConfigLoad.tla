----------------------------- MODULE ConfigLoad ------------------------------
(***************************************************************************)
(* config.Load: the defaults, then the files, then the environment, merged *)
(* as maps of maps, and decoded into Config at the end.                    *)
(*                                                                         *)
(* A map of maps is a function of the paths at which something stands: a   *)
(* map of its own, Section, or a scalar with its YAML type.                *)
(***************************************************************************)
EXTENDS Strings

CONSTANTS
    Fields,         \* Fields[p]: the type of the field of Config at path p
    Defaults,       \* what Default() marshals to
    Fallbacks       \* Fallbacks[p]: what Load puts for an empty string at p

Scalar(type, v) == [type |-> type, val |-> v]
Section == Scalar("map", "")
Null == Scalar("null", "")

NoKeys == [p \in {} |-> Null]

\* The paths on the way to p.
Above(p) == {SubSeq(p, 1, n) : n \in 1..(Len(p) - 1)}

\* What makes such a function a map of maps: only a map has something below it.
IsTree(m) ==
    /\ m = [p \in DOMAIN m |-> m[p]]
    /\ DOMAIN m \subseteq Seq(STRING) \ {<<>>}
    /\ \A p \in DOMAIN m : \A q \in Above(p) : q \in DOMAIN m /\ m[q] = Section

\* Mutant: a section replaces the section before it.
mergeMapShallow(dst, src) == Over(src, Restrict(dst, {p \in DOMAIN dst : <<p[1]>> \notin DOMAIN src}))

\* Two maps at one path are merged; whatever else stands there in src replaces what dst has
\* there and below.
mergeMap(dst, src) ==
    Over(src, Restrict(dst, {p \in DOMAIN dst : \A q \in Above(p) : q \in DOMAIN src => src[q] = Section}))

\* On the way to keys there are maps then, new ones where there was none.
setNested(m, keys, v) ==
    [p \in Above(keys) \cup {keys} \cup {p \in DOMAIN m : keys \notin Above(p)} |->
        IF p = keys THEN v ELSE IF p \in Above(keys) THEN Section ELSE m[p]]

\* A variable is a path and a text: every value from the environment is a string.
applyEnv(root, env) ==
    LET m[n \in 0..Len(env)] ==
            IF n = 0 THEN root ELSE setNested(m[n - 1], env[n].keys, Scalar("string", env[n].val))
    IN  m[Len(env)]

Zero(type) == CASE type = "string" -> "" [] type = "bool" -> "false" [] type = "int" -> "0"

\* json.Unmarshal of one value into a field; null leaves the field alone.
decodeLeaf(node, type) ==
    CASE node.type = type -> [err |-> "", val |-> node.val]
      [] node.type # type /\ node.type = "null" -> [err |-> "", val |-> Zero(type)]
      [] OTHER -> [err |-> "decode config", val |-> ""]

\* ... and of the field at a path below a map: a section that is missing or null leaves
\* its fields alone, one that is no map is an error.
decodeField(m, path, type) ==
    IF \E q \in Above(path) : q \in DOMAIN m /\ m[q].type \notin {"map", "null"}
    THEN [err |-> "decode config", val |-> ""]
    ELSE IF path \in DOMAIN m THEN decodeLeaf(m[path], type) ELSE [err |-> "", val |-> Zero(type)]

\* What the files make of the defaults when each can be read.  A file is [err, map]; an empty
\* path is skipped.
readFiles(files) ==
    LET merged[n \in 0..Len(files)] ==
            IF n = 0 THEN Defaults
            ELSE IF files[n].err = "skip" THEN merged[n - 1] ELSE mergeMap(merged[n - 1], files[n].map)
    IN  merged[Len(files)]

OrFallback(p, v) == IF v = "" /\ p \in DOMAIN Fallbacks THEN Fallbacks[p] ELSE v

\* The first file that cannot be read or parsed ends Load.
Load(files, env) ==
    LET err == FirstError([i \in DOMAIN files |-> <<files[i].err \notin {"", "skip"}, files[i].err>>])
        field(p) == decodeField(applyEnv(readFiles(files), env), p, Fields[p])
    IN  IF err # "" THEN [err |-> err, cfg |-> Fields]
        ELSE IF \E p \in DOMAIN Fields : field(p).err # "" THEN [err |-> "decode config", cfg |-> Fields]
        ELSE [err |-> "", cfg |-> [p \in DOMAIN Fields |-> OrFallback(p, field(p).val)]]
=============================================================================
