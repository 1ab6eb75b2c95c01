----------------------------- MODULE Permission -----------------------------
(***************************************************************************)
(* The pure part of package permission: validation and normalisation of    *)
(* grants and share requests, and the expansion of a role into Casbin      *)
(* actions.                                                                *)
(***************************************************************************)
EXTENDS Strings

CONSTANT CustomMapper(_, _, _, _)    \* (mapper, resource, role, custom): what a mapper
                                     \* installed by the application answers

\* The mapper that is in force when none was installed.
DefaultMapper == "DefaultRoleActionMapper"

Subject(subjectType, id) ==
    LET t == TrimSpace(subjectType)
        i == TrimSpace(id)
    IN  IF t = "" THEN i ELSE IF i = "" THEN t ELSE t \o ":" \o i

NormalizeGrant(g) ==
    LET sub == IF g.subject = "" /\ g.subjectType # ""
               THEN Subject(g.subjectType, g.subjectID) ELSE g.subject
        n   == [g EXCEPT !.subject = TrimSpace(sub),
                         !.action  = TrimSpace(g.action),
                         !.role    = TrimSpace(g.role)]
    IN  [grant |-> n,
         err   |-> FirstError(<<
                      <<n.subject = "", "ErrEmptySubject">>,
                      <<n.resource = "", "ErrEmptyResource">>,
                      <<n.action = "" /\ n.role = "" /\ n.actions = <<>>, "ErrEmptyAction">>,
                      <<n.expires, "ErrNotSupported">> >>)]

(***************************************************************************)
(* NormalizeShare's own checks are on the raw fields; only NormalizeGrant, *)
(* called last, trims.                                                     *)
(***************************************************************************)
NormalizeShare(req) ==
    LET g == [subject     |-> Subject(req.subjectType, req.subjectID),
              subjectType |-> req.subjectType,
              subjectID   |-> req.subjectID,
              resource    |-> req.resource,
              action      |-> "",
              role        |-> req.role,
              actions     |-> req.actions,
              expires     |-> req.expires]
        err == FirstError(<<
                 <<req.subjectType = "", "ErrEmptySubject">>,
                 <<req.subjectType # "public" /\ req.subjectID = "", "ErrEmptySubject">>,
                 <<req.resource = "", "ErrEmptyResource">>,
                 <<req.role = "" /\ req.actions = <<>>, "ErrEmptyRole">> >>)
    IN  IF err # "" THEN [grant |-> g, err |-> err] ELSE NormalizeGrant(g)

\* Trimmed, blanks dropped, first occurrence of each action kept, in order:
\* out[n] is what the loop has after n actions.
cleanActions(in) ==
    LET out[n \in 0..Len(in)] ==
            IF n = 0 THEN <<>>
            ELSE LET a == TrimSpace(in[n])
                 IN  IF a = "" \/ a \in Range(out[n - 1]) THEN out[n - 1] ELSE Append(out[n - 1], a)
    IN  out[Len(in)]

\* The fields of a grant.
IsGrant(g) ==
    /\ g = [f \in {"subject", "subjectType", "subjectID", "resource", "action", "role", "actions", "expires"} |-> g[f]]
    /\ g.actions \in Seq(STRING)

ViewerActions == <<"skill.read", "skill.download">>
EditorActions == ViewerActions \o <<"skill.update", "skill.upload", "skill.publish">>
OwnerActions == EditorActions \o <<"skill.share", "skill.delete">>

DefaultRoleActionMapper(res, role, custom) ==
    IF custom # <<>> THEN [actions |-> cleanActions(custom), err |-> ""]
    ELSE CASE role = "viewer" -> [actions |-> ViewerActions, err |-> ""]
           [] role = "editor" -> [actions |-> EditorActions, err |-> ""]
           [] role = "owner"  -> [actions |-> OwnerActions,  err |-> ""]
           [] role = ""       -> [actions |-> <<>>, err |-> "ErrEmptyRole"]
           [] OTHER           -> [actions |-> <<>>, err |-> "ErrUnsupportedRole"]

\* fn is the process-wide mapper read under roleMapper.RLock.
RoleActionsForResource(fn, res, role, custom) ==
    IF fn = DefaultMapper THEN DefaultRoleActionMapper(res, role, custom)
    ELSE CustomMapper(fn, res, role, custom)

(***************************************************************************)
(* What one manager call works on.  Grant with an explicit action and      *)
(* Revoke with one use that action; otherwise the role or the custom       *)
(* actions are expanded by the mapper in force.  Grant without an action   *)
(* goes through GrantRole, which normalises the grant a second time.       *)
(***************************************************************************)
GrantRoleActions(fn, g) ==
    LET n == NormalizeGrant(g)
    IN  IF n.err # "" THEN [subject |-> "", actions |-> <<>>, err |-> n.err]
        ELSE LET e == RoleActionsForResource(fn, n.grant.resource, n.grant.role, n.grant.actions)
             IN  [subject |-> n.grant.subject, actions |-> e.actions, err |-> e.err]

GrantActions(fn, g) ==
    LET n == NormalizeGrant(g)
    IN  IF n.err # "" THEN [subject |-> "", actions |-> <<>>, err |-> n.err]
        ELSE IF n.grant.action = "" THEN GrantRoleActions(fn, n.grant)
        ELSE [subject |-> n.grant.subject, actions |-> <<n.grant.action>>, err |-> ""]

ShareActions(fn, req) ==
    LET n == NormalizeShare(req)
    IN  IF n.err # "" THEN [subject |-> "", actions |-> <<>>, err |-> n.err]
        ELSE GrantRoleActions(fn, n.grant)

\* Mutant: Revoke expands roles with the default mapper.
RevokeActionsDefault(fn, g) ==
    LET n == NormalizeGrant(g)
        e == IF n.grant.action # "" THEN [actions |-> <<n.grant.action>>, err |-> ""]
             ELSE DefaultRoleActionMapper(n.grant.resource, n.grant.role, n.grant.actions)
    IN  IF n.err # "" THEN [subject |-> "", actions |-> <<>>, err |-> n.err]
        ELSE [subject |-> n.grant.subject, actions |-> e.actions, err |-> e.err]

RevokeActions(fn, g) ==
    LET n == NormalizeGrant(g)
        e == IF n.grant.action # "" THEN [actions |-> <<n.grant.action>>, err |-> ""]
             ELSE RoleActionsForResource(fn, n.grant.resource, n.grant.role, n.grant.actions)
    IN  IF n.err # "" THEN [subject |-> "", actions |-> <<>>, err |-> n.err]
        ELSE [subject |-> n.grant.subject, actions |-> e.actions, err |-> e.err]
=============================================================================
