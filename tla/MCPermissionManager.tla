------------------------ MODULE MCPermissionManager -------------------------
(* Instances of PermissionManager for TLC. *)
EXTENDS PermissionManager

CONSTANTS c1, c2

MCTrimSpace(s) == CASE s = " " -> "" [] s = " viewer " -> "viewer" [] OTHER -> s

\* An application mapper that knows one role.
MCCustomMapper(fn, res, role, custom) ==
    IF role = "viewer" THEN [actions |-> <<"skill.read">>, err |-> ""]
    ELSE [actions |-> <<>>, err |-> "ErrUnsupportedRole"]

MCCallId == 1..3
MCSubjects == {"user:u"}
MCResources == {"skill:s"}
MCActionNames == {"skill.read", "skill.download"}

P(a) == [ptype |-> "p", sub |-> "user:u", obj |-> "skill:s", act |-> a]
MCInitPolicies == {}

G(action, role, actions) ==
    [subject |-> "user:u", subjectType |-> "", subjectID |-> "", resource |-> "skill:s",
     action |-> action, role |-> role, actions |-> actions, expires |-> FALSE]

S(type, id, role) ==
    [subjectType |-> type, subjectID |-> id, resource |-> "skill:s", role |-> role,
     actions |-> <<>>, expires |-> FALSE]

Q(action, wide) ==
    [subject |-> "user:u", principal |-> "", resource |-> "skill:s", action |-> action, wide |-> wide]

MCNone == {}

ClientSymmetry == Permutations({c1, c2})

\* Role grants: two rules per operation.
RoleRequests == {G("", "viewer", <<>>)}

\* A single action.
ReadRequests == {G("skill.read", "", <<>>)}

\* Reads and deletes against grants; a grouping rule that List must not report.
GroupRule == [ptype |-> "g", sub |-> "user:u", obj |-> "skill:s", act |-> "skill.read"]
MixedPolicies == {GroupRule, P("skill.download")}
ReadChecks == {Q("skill.read", FALSE)}
AllFilter == {NoRule}
DownloadFilter == {[NoRule EXCEPT !.act = "skill.download"]}
SkillDeletes == {"skill:s"}

\* Every entry point, with requests that its checks refuse and contexts of
\* every kind.
EntryGrants == {G("skill.read", "", <<>>), G("", " viewer ", <<>>), G("", "", <<" ">>),
                G("", "admin", <<>>), G(" ", "", <<>>)}
EntryRevokes == {G("", "viewer", <<>>)}
EntryShares == {S("user", "u", "viewer"), S("user", "", "viewer")}
EntryChecks == {Q("skill.read", FALSE), Q("skill.read", TRUE), Q("", FALSE)}
EntryDeletes == {"skill:s", ""}
EntryMappers == {DefaultMapper, "ReadOnlyMapper"}
=============================================================================
