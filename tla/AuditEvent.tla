----------------------------- MODULE AuditEvent ------------------------------
(***************************************************************************)
(* The fields of an audit event on their way to Casdoor: RequireAndAudit   *)
(* and Record of access.Guard, audit.Normalize, audit.Merge and the record *)
(* that the adapter sends.                                                 *)
(*                                                                         *)
(* An event is a function of its fields.  uri stands for the fields that   *)
(* are only copied.  A name is a sequence of parts, a time a number, and   *)
(* the principal in the context a record, or Nobody.                       *)
(***************************************************************************)
EXTENDS Strings

CONSTANTS
    Now,            \* time.Now(), the same all through one Record
    GuardComponent, \* WithComponent
    Organization    \* Config.Organization

ASSUME AuditEventAssumption == Now \in Nat \ {0}

Nobody == [subject |-> "", org |-> "", project |-> ""]

\* The zero event.
ZeroEvent ==
    [name |-> <<>>, actor |-> Nobody, action |-> "", operation |-> "", resource |-> "", result |-> "", message |-> "",
     uri |-> "", component |-> "", orgID |-> "", projectID |-> "", statusCode |-> 0,
     startedAt |-> 0, finishedAt |-> 0, duration |-> 0]

\* A value of type audit.Event: it has these fields.
IsEvent(e) == e = [f \in DOMAIN ZeroEvent |-> e[f]]

Merge(base, override) ==
    [f \in DOMAIN base |-> IF override[f] # ZeroEvent[f] THEN override[f] ELSE base[f]]

OrElse(v, zero, w) == IF v # zero THEN v ELSE w

Normalize(p, base, err) ==
    LET e == [base EXCEPT !.startedAt = OrElse(@, 0, Now), !.finishedAt = OrElse(@, 0, Now)]
    IN  [e EXCEPT !.duration = e.finishedAt - e.startedAt,
                  !.result = firstNonEmpty(@, IF err # "" THEN "failed" ELSE "success"),
                  !.statusCode = OrElse(@, 0, IF err # "" THEN 500 ELSE 200),
                  !.message = firstNonEmpty(@, err),
                  !.actor = IF p # Nobody THEN p ELSE @,
                  !.orgID = firstNonEmpty(@, p.org),
                  !.projectID = firstNonEmpty(@, p.project),
                  !.name = OrElse(@, <<>>, <<firstNonEmpty(e.action, e.operation), e.resource>>)]

\* Guard.Record: the actor and the duration of the caller's event are not taken over.
GuardEvent(p, ev) ==
    Normalize(p, [ev EXCEPT !.actor = Nobody, !.duration = 0, !.component = firstNonEmpty(@, GuardComponent),
                            !.startedAt = OrElse(@, 0, Now), !.finishedAt = OrElse(@, 0, Now)], "")

\* Mutant: a result of the caller's is kept.
AuditedEventKeeps(err, ev) ==
    IF err # "" THEN [ev EXCEPT !.result = firstNonEmpty(@, "failed"), !.message = firstNonEmpty(@, err),
                                !.statusCode = OrElse(@, 0, 403)]
    ELSE [ev EXCEPT !.result = firstNonEmpty(@, "success")]

\* What RequireAndAudit makes of the event before Record.
AuditedEvent(err, ev) ==
    IF err # "" THEN [ev EXCEPT !.result = "failed", !.message = firstNonEmpty(@, err), !.statusCode = OrElse(@, 0, 403)]
    ELSE [ev EXCEPT !.result = firstNonEmpty(@, "success")]

\* The record of Adapter.Record; its object is the whole event.
CasdoorRecord(e) ==
    [owner |-> Organization, name |-> OrElse(e.name, <<>>, <<"record">>),
     organization |-> IF e.actor # Nobody THEN firstNonEmpty(e.actor.org, Organization) ELSE Organization,
     user |-> IF e.actor # Nobody THEN e.actor.subject ELSE "anonymous",
     requestUri |-> firstNonEmpty(e.uri, e.operation),
     action |-> e.action, statusCode |-> e.statusCode, response |-> e.message, object |-> e]
=============================================================================
