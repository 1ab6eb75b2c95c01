------------------------------- MODULE Strings -------------------------------
(***************************************************************************)
(* What the pure parts of several packages share.  Strings are TLA+        *)
(* strings.  strings.TrimSpace is a constant operator, so that an instance *)
(* chooses which of its few strings carry white space.  A value of type    *)
(* (T, error) is a record with a field err, "" for nil.                    *)
(***************************************************************************)
EXTENDS Integers, Sequences, SequencesExt, FiniteSetsExt

CONSTANT TrimSpace(_)       \* strings.TrimSpace on the strings in use

(***************************************************************************)
(* A chain of "if cond { return err }" statements: the error of the first  *)
(* condition that holds, "" when none does.                                *)
(***************************************************************************)
FirstError(checks) ==
    LET bad == {i \in DOMAIN checks : checks[i][1]}
    IN  IF bad = {} THEN "" ELSE checks[Min(bad)][2]

\* A map written over another one.
Over(f, g) == [x \in DOMAIN f \cup DOMAIN g |-> IF x \in DOMAIN f THEN f[x] ELSE g[x]]

firstNonEmpty(v, w) == IF v # "" THEN v ELSE w
=============================================================================
