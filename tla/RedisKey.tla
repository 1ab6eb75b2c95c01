------------------------------ MODULE RedisKey -------------------------------
(***************************************************************************)
(* One Redis key and the clients that send commands for it through         *)
(* go-redis, as package session and cache/json.go do: SET with an expiry,  *)
(* GET, GETDEL and EXISTS.  A command is executed at one moment; its reply *)
(* may be lost and go-redis sends it again; when the client gives up, or   *)
(* its context ends, a command that is still on its way may be executed    *)
(* later.                                                                  *)
(*                                                                         *)
(* Keys do not influence each other, so that one key shows all there is to *)
(* show about a state, a token or a cache entry.                           *)
(***************************************************************************)
EXTENDS Naturals, FiniteSets

CONSTANTS
    Clients,
    Values,         \* what may be stored
    NoValue,        \* the key is absent
    MaxRetries,     \* go-redis Options.MaxRetries
    MaxLate         \* bound: abandoned commands that Redis may still execute

ASSUME RedisKeyAssumption == NoValue \notin Values /\ MaxRetries \in Nat /\ MaxLate \in Nat

VARIABLES
    val, ttl,       \* the key: its value and the ticks it has left; 0 if it has no expiry
    late,           \* abandoned commands that change the key
    call            \* call[c]: the operation of client c and its command, if one is under way

keyVars == <<val, ttl, late, call>>

(***************************************************************************)
(* call[c].op is the operation; cmd, arg and exp its command with value    *)
(* and expiry; stage is "sent" until Redis has executed the command and    *)
(* "done" while its reply (reply, the value found) is on its way; tries is *)
(* what go-redis has left.  ret is what the last operation returned, and   *)
(* found the value it returned.                                            *)
(***************************************************************************)
Idle == [op |-> "idle", cmd |-> "none", arg |-> NoValue, exp |-> 0, stage |-> "none",
         reply |-> NoValue, tries |-> 0, ret |-> "none", found |-> NoValue]

KeyInit ==
    /\ val = NoValue /\ ttl = 0
    /\ late = {}
    /\ call = [c \in Clients |-> Idle]

IsIdle(c) == call[c].op = "idle"

\* Operation op of client c sends a command.
Sending(op, cmd, arg, exp) ==
    [Idle EXCEPT !.op = op, !.cmd = cmd, !.arg = arg, !.exp = exp, !.stage = "sent", !.tries = MaxRetries]

Send(c, op, cmd, arg, exp) ==
    /\ call' = [call EXCEPT ![c] = Sending(op, cmd, arg, exp)]
    /\ UNCHANGED <<val, ttl, late>>

\* The operation of c returns r, with value v.
Returning(r, v) == [Idle EXCEPT !.ret = r, !.found = v]

Return(c, r, v) ==
    /\ call' = [call EXCEPT ![c] = Returning(r, v)]
    /\ UNCHANGED <<val, ttl, late>>

HasReply(c, op) == call[c].op = op /\ call[c].stage = "done"

-----------------------------------------------------------------------------
(* Redis and go-redis (external) *)

Command == [cmd : {"set", "getdel"}, arg : Values \cup {NoValue}, exp : Nat]

\* What a command does to the key.  SET replaces value and expiry.
Effect(m) ==
    CASE m.cmd = "set" -> val' = m.arg /\ ttl' = m.exp
      [] m.cmd = "getdel" -> val' = NoValue /\ ttl' = 0
      [] OTHER -> UNCHANGED <<val, ttl>>

Execute(c) ==
    /\ call[c].stage = "sent"
    /\ Effect(call[c])
    /\ call' = [call EXCEPT ![c].stage = "done", ![c].reply = val]
    /\ UNCHANGED late

LateExecute(m) ==
    /\ Effect(m)
    /\ late' = late \ {m}
    /\ UNCHANGED call

LateLost(m) ==
    /\ late' = late \ {m}
    /\ UNCHANGED <<val, ttl, call>>

\* An attempt that is given up before it was executed may be executed later.
Abandon(c) ==
    \/ late' = late
    \/ /\ call[c].stage = "sent" /\ call[c].cmd \in {"set", "getdel"} /\ Cardinality(late) < MaxLate
       /\ late' = late \cup {[cmd |-> call[c].cmd, arg |-> call[c].arg, exp |-> call[c].exp]}

Resend(c) ==
    /\ call[c].stage # "none" /\ call[c].tries > 0
    /\ Abandon(c)
    /\ call' = [call EXCEPT ![c].stage = "sent", ![c].tries = @ - 1]
    /\ UNCHANGED <<val, ttl>>

\* go-redis returns an error, or the context ended: the operation returns r, v.
CommandFails(c, r, v) ==
    /\ call[c].stage # "none"
    /\ Abandon(c)
    /\ call' = [call EXCEPT ![c] = Returning(r, v)]
    /\ UNCHANGED <<val, ttl>>

\* A tick of time on the key.
Expire ==
    /\ val' = IF ttl = 1 THEN NoValue ELSE val
    /\ ttl' = IF ttl > 0 THEN ttl - 1 ELSE 0
    /\ UNCHANGED <<late, call>>

KeyTypeOK(ops) ==
    /\ val \in Values \cup {NoValue} /\ ttl \in Nat /\ (val = NoValue => ttl = 0)
    /\ late \subseteq Command
    /\ \A c \in Clients :
          /\ call[c].op \in ops \cup {"idle"} /\ call[c].tries \in 0..MaxRetries
          /\ call[c].stage \in {"none", "sent", "done"}
          /\ call[c].op = "idle" => call[c].stage = "none"
=============================================================================
