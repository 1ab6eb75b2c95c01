------------------------------ MODULE MCAccess ------------------------------
(* Instances of Access for TLC. *)
EXTENDS Access, TLC

CONSTANTS c1, c2

MCCallId == 1..3
ClientSymmetry == Permutations({c1, c2})

\* A token that parses to a user, one whose name claim is empty, a bad one.
MCTokens == {"", "good", "nameless", "bad"}
OneToken == {"good"}
MCClaims == [t \in {"good", "nameless", "bad"} |->
               [ok |-> t # "bad", name |-> IF t = "nameless" THEN "" ELSE t, subject |-> "good"]]

\* A check without an action is refused before any call.
Ask(act, ext) == [obj |-> "skill:s", act |-> act, ext |-> ext]
MCChecks == {Ask("skill.read", ""), Ask("", "")}
OneCheck == {Ask("skill.read", "")}
DomainChecks == {Ask("skill.read", "org1")}

Rq(id, ext) == [sub |-> [type |-> "user", id |-> id], obj |-> "skill:s", act |-> "skill.read", ext |-> ext]
MCRequests == {Rq("good", ""), Rq("bad", "")}
OneRequest == {Rq("good", "")}
DomainRequests == {Rq("good", ""), Rq("good", "org1")}
MCNone == {}
=============================================================================
