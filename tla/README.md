# A TLA+ development for aisphere-kit

`aisphere-kit` is a Go library that AI Sphere services are built on. It starts a
service's dependencies (database, Redis, MinIO, Casdoor), authenticates requests,
asks Casdoor for authorization decisions, manages Casdoor policies, records audit
events, and offers a Redis lock, sessions, a cache and transactions. It keeps little state of its own. What is hard in
it is the way it drives remote systems: calls that are retried, cancelled and
abandoned, answers that come late, loops of calls of which one fails, pools that
are opened and closed by several hands. The modules here model that.

## 1. The system

| component | state | operations | what is hard |
|---|---|---|---|
| `retry`, `casdoor/adapter.go` (`callWithContext`) | one activation of `retry.Do`; goroutines left behind; HTTP requests on their way | `Do`, `callWithContext` | cancellation abandons a goroutine whose request may still be processed; timeouts; retries of what was already done |
| `permission` | the process-wide role mapper | `NormalizeGrant`, `NormalizeShare`, `RoleActionsForResource`, `SetRoleActionMapper` | blank, padded and missing fields; `Grant` and `Revoke` take different ways to one set of rules |
| `casdoor/policy.go` | Casbin rules (in Casdoor) | `Grant`, `GrantRole`, `Share`, `Revoke`, `Check`, `List`, `DeleteResourcePolicies(Ex)` | several SDK calls per operation, other clients in between, late effects of operations that have returned |
| `authn`, `principal`, `authz`, `access` | the principal in the context | `AuthenticateToken`, `Can`, `Require`, `RequireAndAudit`, `Record` | errors and cancellations between decision and record |
| `audit` | the channel that bounds `RecordAsync` | `Record`, `RecordAsync` | a full channel, a timeout, a slot that must come back |
| `cache/lock.go` | a Redis key with a token and an expiry | `TryLock`, `LockWithWait`, `Refresh`, `Unlock` | expiry, commands retried by go-redis or executed late, waiting with a deadline |
| `config`, `starter`, `db`, `cache/redis.go`, `objectstore`, `metrics` | open pools and clients, the cleanup stack | `NewRuntimeFromConfig`, `NewRuntime`, `CleanupStack.Close`, `cleanupWithTimeout` | a failure at any step; cleanup that times out and goes on; several replicas at once |
| `health` | none | `Check` | runs beside cleanup |
| `session` | Redis keys of OAuth states and of revoked tokens | `NewState`, `VerifyState`, `RevokeToken`, `IsRevoked` | two callers with one state, lost replies, expiry, commands executed late |
| `cache/json.go` | a Redis key | `GetJSON`, `SetJSON`, `RememberJSON` | a value that is loaded before and stored after a newer one |
| `db/tx.go` | a transaction in the context | `WithTx`, `DB`, `TxFromContext`, `Exec` | nesting, panics, dropped errors, goroutines that outlive their transaction, a full pool |
| `config.Load`, DSNs (`db/postgres.go`), `db/page.go`, `db/jsonb.go`, `casdoor/oauth.go`, `casdoor/config.go`, `audit.Normalize`/`Merge`, `objectstore` reads | none | pure functions | boundaries, overflow, contradictory sources |
| `resource`, `action`, `logx`, `version` | none | names, logging | |

Services call `access.Guard` and `permission.Manager`; both end in the Casdoor
adapter, which wraps every SDK function in `retry.Do` around `callWithContext`.
`starter` builds everything and hands it out in one `Runtime`; `health.Check`
reads that `Runtime`.

## 2. The modules

| module | models | state and actions |
|---|---|---|
| `SdkCall` | `retry/retry.go`, `callWithContext` | `do[c]` is one activation of `retry.Do` (its program counter, iteration, the channel `done` and the variable its closure assigns), `calls[id]` a goroutine and its HTTP request, `ctx[c]` the context. One action per branch of the loop and of the two selects |
| `Permission` | `permission/permission.go` and the expansion part of the manager's operations | operators; `(T, error)` is a record with a field `err` |
| `PermissionManager` | `casdoor/policy.go` | extends both. `op[c]` is the operation client `c` is in, with the rules it works on and how many are acknowledged; `policies` is Casdoor's rule set |
| `Access` | `authn`, `principal`, `authz`, `access`, `audit`, `Authenticate`/`Authorize`/`Record` of the adapter | extends `SdkCall`. `op[c]` with the phase `retry.Do` runs for, `slots` the channel of `RecordAsync` (none is taken when its limit is nil), `permitted` what the policies allow |
| `RedisLock` | `cache/lock.go` | the key and its remaining time, one command per process with the ttl of its call, late commands, countdowns that `Tick` lowers |
| `LeaseLock` | what a user of the lock may rely on | the abstract specification: the lock is `taken` or free and has at most one `owner`; a process gains time on its `lease` only when a call of its own returns while it is the owner, loses it only by calling and by the clock, and an owner with time left keeps the lock. `RedisLock` implements it (`ImplementsLeaseLock`), with the key as the lock and whoever has its token as the owner |
| `RedisKey` | Redis and go-redis below `session` and `cache/json.go` | one key with value and expiry, one command per client, late commands |
| `Session`, `CacheAside` | `session/session.go`, `cache/json.go` | each extends `RedisKey`; a pair of actions (send, reply) per operation |
| `RedisValues` | the two together | `use` says what the key is for; keys of different uses have different prefixes |
| `UnitOfWork` | what `WithTx` promises | the abstract specification: rows of a unit enter the table together or never. `TxManager` implements it (`ImplementsUnitOfWork`), with `state` the states of transactions and `work[u]` the rows that code of unit `u` wrote |
| `TxManager` | `db/tx.go` over gorm's `Transaction` and the pool of `database/sql` | `carry[g]` is the transaction in the context of goroutine `g`, `frames[g]` the `WithTx` calls it is in, `want` who waits for a connection |
| `Strings` | what the pure modules share | `firstNonEmpty`, chains of early returns, `TrimSpace` as a constant |
| `ConfigLoad` | `config.Load`, `mergeMap`, `applyEnv`, `setNested`, decoding | operators on maps of maps, each a function of the paths at which it has something: a map (`Section`) or a scalar. `IsTree` says when such a function is a map of maps; `mergeMap` and `setNested` say, without recursion, what the recursion of the code leaves behind at every path |
| `OAuth` | `casdoor/oauth.go` | operators on `url.Values` |
| `Paging`, `Column` | `db/page.go`, `db/jsonb.go` | operators; an `int` goes from `-Half` to `Half - 1` |
| `Dsn` | the DSN functions of `db/postgres.go` | operators on a DSN as a sequence of settings whose values are words |
| `AuditEvent` | `audit.Normalize`, `audit.Merge`, the events of `access.Guard` and `Adapter.Record` | operators on events |
| `ObjectReads` | `GetObject`, `ListObjects` | operators; extends `Paging` for its integers. `GetObject` is the range, the `Stat` and the bytes that the reader then yields |
| `Certificate` | `casdoor/config.go` | operators on a text as a sequence of PEM blocks |
| `PureFunctions` | all of these and `Permission`, asked for every small argument | `fn`, the mapper, and `kind` and `call`, the function asked and its arguments |
| `Runtime` | `starter`, `health`, the constructors of `db`, `cache`, `objectstore`, `metrics`, and `config.Validate` | `pc` follows `NewRuntime` step by step, `open` is what is open, `stack` the cleanup stack, `idx[g]` the activations of `Close`, `probe` a health check |
| `PermissionManagerProofs`, `PermissionReadProofs`, `AccessProofs`, `RedisLockProofs`, `RedisValuesProofs`, `TxManagerProofs`, `RuntimeProofs`, `PureFunctionsProofs` | | theorems and their proofs, about the modules they are named after |
| `MC*` | | instances for TLC |

`PROJECT.json` maps every definition to its lines. Variables whose
comment says history are read by no action of the code's; `lease` of `RedisLock`
says how long a careful caller relies on its lock: no longer than the ttl in whole
milliseconds, counted from before the call, and, since a `Refresh` that was given up may be executed
later, no longer than the shortest ttl it has passed to `Refresh` (`least`).

### External parts

Casdoor, Redis, PostgreSQL/MySQL, MinIO and the HTTP and Redis clients are not part
of the repository. They are modelled by what the code relies on:

- Casdoor applies a request at one moment, at any time while it is on its way;
  adding a rule that is there and removing one that is not succeed (the adapter
  treats the answer `false` as success). An `Enforce` request with a domain or extra
  values has more fields than the stored three-field rules and matches none of them.
- A reply may be lost after the request was applied, and the HTTP client may time
  out while the request is still on its way.
- go-redis retries a command on network errors `MaxRetries` times (the code leaves
  the default); a command that was abandoned may be executed later. `SET NX PX`
  and the two Lua scripts are atomic. `SetNX` rounds a ttl below one millisecond up.
- `gorm.Open` holds no connection when it returns an error. It may leave a `*sql.DB` and its
  goroutine behind when its first ping fails, which the code does not close and the model does not
  count as open. `db.DB()` on what `gorm.Open` returned does not fail; if it did, the pool would
  stay open at mysql.go:86-93, postgres.go:86-93 and postgres.go:141-144, which return without closing. A
  ping on a closed pool fails. Closers return.
- `GETDEL` and `EXISTS` are atomic, `SET` replaces value and expiry.
- gorm's `Transaction` commits when `fn` returns nil and rolls back when it returns an
  error or panics; `database/sql` rolls a transaction back when its context ends, and
  refuses statements on one that is over. A statement that fails aborts its
  transaction (Postgres) or leaves it as it is (most errors of MySQL): `aborts` is either. Errors with
  which MySQL ends the whole transaction, a deadlock above all, are not in the model: a caller that
  drops such an error and goes on writes outside of any transaction, and `ImplementsUnitOfWork` says
  nothing of it.
- At most one goroutine at a time uses one `*Lock`.
- gorm writes no `OFFSET` that is not positive; minio-go's `SetRange`, `pem.Decode` and
  `json.Unmarshal` into a value that is not empty behave as documented. In
  minio-go v7.0.88 (go.mod) a `Stat` that is the first request on an `Object` deletes the `Range` header from
  the options that the later reads use (`AfterStat`).
- In `Runtime`, configuration values other than the flags and the driver are valid;
  where a constructor checks one again, it may fail.

### Abstractions

Strings are model values or a few TLA+ strings, and `strings.TrimSpace` is a constant
operator, so that an instance has padded and blank strings. Subject `type:id` of a
principal stays a pair. Domain and extra values of a check are one field `ext`
(`Access`), or a flag (`checkWide` in `PermissionManager`). Nil receivers, logs, metrics
values and durations of observations are left out; in `Access` so are the fields of an
event, which `AuditEvent` has. One Redis key shows all there is to show about a state, a
token or a cache entry, because keys do not influence each other. A row of `TxManager` is
one statement, a value of `CacheAside` the version of the source it was made from. In `Dsn` a
text with a URL prefix is a URL that `url.Parse` accepts (one that it refuses goes on as a keyword DSN in
`normalizePostgresDSN`, is refused by `postgresMaintenanceDSN`, and by the driver in any case), and has no
blanks around it, which only `postgresMaintenanceDSN` cuts off. The caller
of an operation is free: any client calls any operation in any order.

## 3. What is checked

Bounds are named constants: `Attempts` (the retry policy), `MaxLate` (requests that
arrive after their client gave up), `MaxOutstanding` (operations and abandoned
goroutines at one time), `AsyncLimit`, `MaxRetries`, `TTLs`, `Waits`, `Intervals`, `MaxCleanups`, `MaxVersion` (of a cached
value's source), `MaxTx`, `MaxRow`, `MaxDepth` (transactions, statements, nesting). Apart
from these three, a client calls operations for ever, so that the length of a history is not bounded.
Deadlock is checked in every run.

| run | bounds | shows |
|---|---|---|
| `PermissionWrites` | 2 clients, 2 attempts, role of 2 actions, cancellation | `AcknowledgedRulesHold`, `NoSharedVariableRace` |
| `PermissionReads` | 2 clients, 2 attempts, a grouping rule stored; check, list and purge against grants and revokes | `ReadsAreCurrent`, `DeleteIsComplete` |
| `PermissionEntry` | 1 client, every entry point, refused requests, a custom mapper, nil/live/done contexts, 2 attempts, 1 late request | `TypeOK`, `CancelledOperationReturns`, `EveryOperationReturns` |
| `PureFunctions` | 49 381 calls, 2 mappers: 27 648 permission requests; up to 2 files of 7 and 2 variables of 5, fields at depths 2 and 3; 2 880 OAuth requests; pages of 5-bit integers, all page numbers; DSNs of up to 3 settings in both forms; events with and without every field that is filled in | `EntryPointsAgree`, `LoadIsFaithful`, `PagesAreRight`, `DsnKeepsSettings`, `EventIsTruthful`, `StoredIsRead`, `LoginIsGenuine` |
| `RedisValues` | 2 clients, 1 retry, 1 late command, ttls of 1 to 3 ticks, 3 versions of the source | `AcceptedOnce`, `MismatchIsRight`, `RevokedIsSeen`, `ReadsFollowWrites`, `TypeOK` |
| `Transactions` | 2 goroutines, 2 transactions, 2 rows, nesting 2, pools of 1 and 2 connections | `ImplementsUnitOfWork`, `ResultIsTrue`, `NoTxLeaks`, `WithTxProceeds`, `TypeOK` |
| `RedisLockLeases` | 2 processes, ttls of 1 and 3 ticks in any call, 2 ticks to a millisecond, 1 retry, 1 late command, 4 tokens, no waiting | `LeaseExclusion`, `RefusalIsRight`, `ImplementsLeaseLock`, `TypeOK` |
| `RedisLockReturns` | 2 processes, ttl 2, wait 1, interval 1, 3 tokens, no retry, no late command | `LockWithWaitReturns`, `OrphanExpires` |
| `AccessDecisions` | 1 client, every entry point, 4 tokens, 2 attempts, 1 late request, changing policies | `GuardIsSound`, `AuditTrail`, `TypeOK` |
| `AccessAsync` | 2 clients, 1 slot and calls without a limit, no fairness for the SDK | `SlotsAreHeld`, `AsyncReturns` |
| `RuntimeLife` | 64 flag sets, 3 drivers, 2 cleanups, health checks, crashes, others that create the database or the bucket | `StartIsWhole`, `CleanupIsRight`, `HealthyMeansServing`, `CleanupFinishes`, `TypeOK` |

Some properties are conjunctions of parts that are stated, each with its comment, on
their own:

| property | parts |
|---|---|
| `EntryPointsAgree` | `RevokeMirrorsGrant`, `ShareIsRoleGrant`, `CleanExpansion` |
| `LoadIsFaithful` | `LastSourceWins`, `OverrideIsSeen` |
| `PagesAreRight` | `RowOnItsPage`, `SortIsAllowed` |
| `DsnKeepsSettings` | `NormalizeOnlyAdds`, `MaintenanceKeepsSettings` |
| `EventIsTruthful` | `AuditTellsOutcome`, `ResolverWins` |
| `StoredIsRead` | `ReadIsStated`, `ListIsPrefix`, `ColumnRoundTrip` |
| `LoginIsGenuine` | `ExtraNeverOverrides`, `TokensAreUsable`, `CertificateIsPublic` |
| `GuardIsSound` | `AllowedIsAuthenticated`, `DecisionIsCurrent` |
| `AuditTrail` | `AuditIsStored`, `ResultIsRecorded` |
| `StartIsWhole` | `FailedStartLeaksNothing`, `ReadyIsComplete` |
| `CleanupIsRight` | `CleanupIsOrdered`, `CleanupIsComplete` |

Why these bounds are enough for the cases that matter: two clients are an
operation and everybody who disturbs it; the goroutine of a cancelled
operation, or one late request, is an abandoned write that lands after a later,
acknowledged one; two attempts have
a first, a last and a backoff between them; two actions per role have a rule that
is acknowledged and one that fails. Four tokens are those of two processes, the key
and a late command. Ttls of 1 and 3 ticks, with 2 ticks to a millisecond, are one that is rounded (up to a
millisecond by `SetNX`, down to 0 by `Refresh`) and a longer one that loses a part: a late `Refresh` with the
short one after an acknowledged `Refresh` with the long one is among the cases. If a lease counted the ttl of the
last `Refresh` instead of the shortest, TLC would find two leases at a time in a behaviour of 11 states.
`RedisLockReturns` has lost replies but no late commands, so that `OrphanExpires` is about a `SETNX` that was
executed and not answered. Two clients of a Redis key are two callers with one state, or a writer
and a reader, and one late command is a write that comes back. Two transactions of two
rows are one that commits a row beside one that loses its row, or one unit whose second
row is written by a nested call or by a goroutine it left behind; a pool of one
connection is the one in which a second would be waited for for ever. The theorems of
section 5 remove the bounds from all safety properties. One process is enough for `Runtime`: replicas meet only
in the database and the bucket, and `CreatedElsewhere` does there what another replica
can. A context that may be cancelled at any moment includes one that is done from the
start and one that never is; where the difference is in the code (nil contexts, the
check before the first attempt) `PermissionEntry` has each kind. `SYMMETRY` is used for
clients, processes and tokens, in runs without liveness only; no action or property
tells them apart.

### Fairness

- `CallerFairness`: a goroutine that can go on does. Nothing is asked of Casdoor, of
  the SDK or of whoever cancels. `CancelledOperationReturns` needs no more.
- `SdkFairness`: an SDK call ends, because `newAdapter` gives the HTTP client a
  timeout (adapter.go:97). It is the hypothesis of `EveryOperationReturns`.
- `RecordAsync` runs under `context.WithTimeout`, so its context ends
  (`Cancel`, for asynchronous operations only).
- `RedisLock`: go-redis's read timeout ends an attempt, and time passes. That Redis
  executes a command is not assumed.
- `Runtime`: every closer returns. Nothing is asked of the callers of cleanup.
- `TxManager`: the functions that callers pass to `WithTx` return, after finitely many
  nested calls (`Returns`, `EndsUnit`), and `database/sql` serves those who wait for a
  connection in turn (`Begin`, strongly fair). Nothing is asked of contexts: no deadline
  has to help.

## 4. Where code and text differ

One run is expected to fail; it checks what a comment of the repository says.

| run | the text | what the run shows |
|---|---|---|
| `AccessDomain` | access.go:25 "Check describes one authorization decision." | `Require` drops `Domain` and `Extra` of the check, `Can` does not |

Met while modelling, in the models, and without a run of their own:

- minio.go:182: `GetObject` calls `obj.Stat()` before the first read. In minio-go v7.0.88 (go.mod) this removes the
  `Range` header, so that the reader yields the whole object from its first byte on, though "`GetOptions` now
  supports ranged reads; MinIO implementation applies it" (FIX_MATRIX.md:8). `ReadIsStated` says what is read
  instead: with a length or an offset in `GetOptions`, more bytes than were asked for.
- access.go:176: the record of `RequireAndAudit` is sent with the context of the request; a
  request that is cancelled during its check leaves no record, though "performs an
  authorization check and records the result" (access.go:163). `ResultIsRecorded` holds of
  all others.
- postgres.go:157: when another replica creates the database between the query and
  `CREATE DATABASE`, the start fails with "already exists", though the function "creates the
  configured target database if it does not already exist" (postgres.go:114). `MakeBucket`
  (minio.go:128) fails in the same way. `StartIsWhole` says that such a start leaves nothing open.
- page.go:69: with an empty allowlist `PaginateSafe` uses the raw `Sort`, though it "applies
  sorting only when req.SortBy is present in allowedSorts" (page.go:46). `SortIsAllowed` is
  about lists that are not empty.
- jsonb.go:21: "An empty JSONB[T]{} marshals to the JSON literal `null`" holds only of one
  whose `Null` is set, or whose `Data` marshals to null.
- postgres.go:238: a blank or an escape in a value of a keyword DSN changes the settings of
  the maintenance connection; postgres.go:223 escapes the name of the maintenance database
  twice. `MaintenanceKeepsSettings` leaves these out by name (`Tame`, `Special`).
- postgres.go:277: `containsKeyword` looks for a text in the whole DSN. When a value that a later
  setting of the same key replaces holds "sslmode=", the DSN of the service gets no `sslmode` of
  its own, while the maintenance DSN, from which that value is gone, gets one: the two connections
  differ. The same happens when the database name holds that text. TLC found it on the way to the
  proof of `MaintenanceKeepsSettings`, which leaves it out by name (`Tame`, `Overwritten`).
- page.go:60: a page number whose offset overflows may give rows of another page:
  `RowOnItsPage` ends where the offset no longer fits.
- session.go:102: a second revocation with a shorter ttl ends the first one early;
  `RevokedIsSeen` counts with it.
- permission.go:182: a grant whose custom actions are all blank is accepted and makes no
  policy, though "permission action is required" (permission.go:24).
- lock.go:89: a positive ttl below a millisecond becomes `PEXPIRE 0`; `Refresh` answers
  true and the lock is gone. `LeaseExclusion` is stated for ttls in whole milliseconds.
- lock.go:89: a `Refresh` whose caller gave up may be executed after a later `Refresh` with a longer ttl
  was acknowledged, and shortens the key again. Whoever counts on the longer ttl may find the lock with
  somebody else; `lease` counts on the shortest.
- audit.go:119: `RecordAsync` gives its slot back at its timeout while the SDK goroutine
  runs on, so that more `AddRecord` calls may run than there are slots ("async audit is
  bounded", FIX_MATRIX.md:13). `SlotsAreHeld` is about the calls of `Record`.
- retry.go:64: with a nil context, which the loop head and `callWithContext` provide for, the
  backoff panics (`BackoffNilContext`).
- page.go:56: `Count` and `Find` are two statements, so that `Total` may not fit the items.
- tx.go:26: `DB(ctx)` inside a transaction returns the transaction with the context it was
  begun with; the deadline of a context derived later is ignored. Not in the model.
- postgres.go:184: a search path with a blank ("app, public") is written into `options`
  without the backslash that Postgres asks for there. Not in the model, whose search paths
  are single words.
- config.go:57: nothing reads the `tracing` flag, though "Added tracing middleware wiring through Kratos when
  enabled" (FIX_MATRIX.md:21). `ReadyIsComplete` is about the other flags (`Buildable`).
- json.go:50, session.go:65, minio.go:231, jsonb.go:67: the hazards of `PROJECT.json` without a
  property are things that do happen; their notes say which property leaves them out, or why none is about them.
- metrics.go:62: after `AlreadyRegisteredError` the new, unregistered collector is kept, and a
  second runtime of the process counts into nothing. Not in the model.

## 5. What is proved

TLAPS checks these for every value of the constants that satisfies the named
assumptions, all of which TLC evaluates in the runs. The assumptions say what kind of
thing a constant is, and little more: `SdkCallAssumption`, `PermissionAssumption`,
`RequestAssumption`, `RedisLockAssumption`, `RuntimeAssumption`, `TxManagerAssumption`,
`RedisKeyAssumption`, `SessionAssumption`, `CacheAsideAssumption`, `AccessAssumption`
(also: "no request" is not a request), `PagingAssumption` (also: the page sizes of the
code fit an `int`), `AuditEventAssumption`, and one for each kind of argument in
`PureFunctions`, among them `DsnAssumption` (a DSN has keys, none of them empty, and nothing in it
is escaped too often yet; URLs that repeat a parameter are left out) and `LoadAssumption` (defaults and files are maps of maps, and a
variable names a path). Of `TrimSpace` they say that it leaves the built-in names alone and that
trimming twice is trimming once; of a listing, that nothing follows its error.

Every safety invariant and both refinements that a passing run checks are proved.

**Permission manager, writes** (`PermissionManagerProofs`): `TypeCorrectness`,
`SharedVariableSafety` and `AcknowledgementSafety`, from one inductive invariant:

- `TypeOK`;
- `Shape`: an operation is running exactly when `retry.Do` is, and then there is a
  rule left to work on;
- `CallShape`: a call that belongs to the running operation asks for nothing that
  works against it (calls of earlier operations may, and do);
- `GoroutineShape`: which goroutines of its own an operation may have, by the place
  `retry.Do` is at. The core is that a goroutine is abandoned only when the context is
  done, and then the loop head lets no further attempt begin;
- `CurrentHeld`: from the moment the server processed the current request its rule
  is as wanted, or a request of another operation changed it since;
- `AcknowledgedRulesHold` itself.

`AcknowledgedRulesHold` alone is not inductive: that an answer "ok" means the rule is
held depends on the answer belonging to the current request, which is what
`GoroutineShape` says, and on late requests of one's own being harmless, which is what
`CallShape` says.

**Permission manager, reads** (`PermissionReadProofs`): `ReadSafety` (`ReadsAreCurrent`) and
`DeleteSafety` (`DeleteIsComplete`). On top of the invariant above, `ReadInv` follows an
answer from the server to the caller: `AnswerOf` and `ReturnedOf` (an answer that is on its
way, or was returned, was true of the rules there were at the call, but for those that
others changed since), `SteadyOf` and `HarmlessOf` (a rule that nobody else changed is as it
was, because a read's own requests, abandoned ones included, change nothing),
`PurgeOf` (what is left of the resource is in the list that the purge still works on, or was
added by others). The history variable that says what others changed is read by no action.

**Access** (`AccessProofs`): `TypeCorrectness`, `GuardSafety`, `AuditSafety`, `SlotSafety`. The
invariant is `Types`, `Owners` (every call under way is somebody's), `Slots` (the channel holds
a slot for each `RecordAsync` that runs) and, for each client, `ClientInv`: `Together` (an
operation and its `retry.Do` are at fitting places, and it asks for a principal that was
authenticated), `Counted` (one `AddRecord` for each attempt), `Stored` (no request is stored
twice, and one that was answered is stored), `Owned` (the call that `retry.Do` waits for is the
operation's; if another of its calls still runs, it was abandoned, the context has ended and the
operation cannot succeed) and `Truthful` (an answer on its way, and a decision, was right at
some moment since the operation began).

**Lock** (`RedisLockProofs`): `TypeCorrectness`, `LeaseSafety`, `RefusalSafety`, `Refinement` and
`AbstractExclusion`, for ttls that differ from call to call. `LeaseExclusion` follows from `Backed`: whoever
has a lease has its token in the key, with at least as much time left. To keep that, the invariant adds
`Promised` (the same for an answer that is still on its way, with the time that is left of what its caller
counts on, `left`), `LateShape` (a late command with the token of a live lease is harmless: a late unlock
means that its owner called `Unlock`, and a late refresh leaves the key at least as much time as the
lease has, because no lease is longer than the shortest ttl its holder has passed to `Refresh`), `TokenShape`
(tokens are distinct) and `ClaimShape`. `Refinement` says that `RedisLock` implements `LeaseLock`. It says more
than exclusion: a `Release` of the abstract lock is not enabled while the owner has time left, so that no
unlock, expiry or late command may delete such a key; time is gained by the owner alone, and no
answer takes any away. One lemma per kind of step maps it to a step of the abstract lock or to a stutter.
`AbstractExclusion` is about the abstract lock only: each of its leases is the owner's, and there is one
owner, so that whatever implements it has `LeaseExclusion`.

**Sessions and cache** (`RedisValuesProofs`): `TypeCorrectness`, `AcceptedOnceAlways`,
`MismatchAlwaysRight`, `RevokedAlwaysSeen`, `ReadsAlwaysFollow`. The invariant has a part that all
uses of a key share (`Histories`, `Key`, `Calls`) and one per use: for a state `Making` (before
`NewState` returned nobody verifies), `Once` (the state is in one place: in Redis, with one
`VerifyState`, or accepted) and `Kept` (a state that was handed out is in the key until it is
consumed or expires); for a token `Listed` and `Seen`, which compare the time that the key has
left with the claims of acknowledged revocations; for a cached value `Current` (as long as the
source has not changed beside a `SET`, every `SET` under way stores the current version, and the
key is not behind what was acknowledged).

**Transactions** (`TxManagerProofs`): `TypeCorrectness`, `ResultSafety`, `LeakSafety` and
`Refinement` of `UnitOfWork`. The invariant: `Shapes`, `Numbering` (transactions are used in
order, and one is left for every goroutine that waits), `Contexts` (all `WithTx` calls that a
goroutine is in run in the transaction of its context, and only the outermost may have begun
it), `Ownership` (an open transaction was begun by exactly one call that has not returned), `Together` (the rows of a unit are pending in one transaction, and in the table if and
only if it committed) and `Outcomes`. `Together` is what makes a commit one step of the abstract
specification: the rows it adds are all those of one unit.

**Start, cleanup, health** (`RuntimeProofs`): `TypeCorrectness`, `StartSafety`, `CleanupSafety`,
`HealthSafety`. The invariant: `StackShape` (what is on the cleanup stack, by the place that
`NewRuntime` is at, in the order of construction), `OpenShape` (during the start exactly what is on the
stack is open, and the pool that a constructor is just trying), `CleanupShape` (however many cleanups
overlap, what they leave open is a prefix of the stack), `Activity`, `FieldShape` and `ProbeShape`
(what is open now, and what a health check found alive, was open when the check began).

**Functions without state** (`PureFunctionsProofs`): `EntrySafety`, `PageSafety`, `EventSafety`,
`StoreSafety`, `LoginSafety`, `DsnSafety`, `LoadSafety`, each for every argument and not only the small ones. Nothing but
the mapper changes, so that the invariant is only that the question stays the same (`Asked`); the
work is in the lemmas about the operators: a chain of early returns passes exactly when no
condition holds (`NoError`, from the least element of a set of numbers, `MinExists`);
normalising a grant a second time changes nothing (`NormalizeAgain`); the loop of
`cleanActions`, a recursive function, exists and keeps its output trimmed and free of
repetitions (`LoopExists`, `ActionsAreClean`). The last is an induction over the length of the list,
done with a set in place of an operator (`CountUp`: a set that has 0 and with each number the next has
all).

`StoreSafety` contains the arithmetic of ranges: the end of a range wraps around exactly when it does not fit an
int64 (`EndWraps`), and then, or with a negative offset, minio-go refuses it (`RangesRefused`); every other
read is stated (`ReadsAreStated`).

`DsnSafety` rests on one reading of a DSN: the value of a key is that of the last setting with this
key (`MeaningIs`). To append a setting then changes the meaning at one key (`AddMeaning`), which gives
`NormalizeOnlyAdds` for URLs (`URLOnlyAdds`) and for keyword DSNs (`KeywordsOnlyAdd`). For the
maintenance DSN, `SplitIsMeaning` shows that splitting a tame keyword DSN at blanks finds its meaning,
`JoinMeans` that to join the parts, in any order, loses none, and `AddExcept` that the new
database name and the added `sslmode` do not disturb each other.

`LoadSafety` follows the sources one by one. `MadeOf(m, n)` says that `m` is a map of maps in which each
path has the word of the last of the first `n` sources that speaks of it, nothing if that one
speaks of something above it only. It holds of the defaults (`FirstSource`), and a file that is merged
(`MergeTakes`) or a variable that is set (`SetTakes`) carries it from `n` to `n + 1` (`NextSource`);
`ReadMakes` and `EnvMakes` are the inductions over files and variables. That defaults and files are
maps of maps is needed at every step: without it something could survive below a scalar. The
rest is that decoding a field gives what stands at its path, the zero value, or an error (`Decoded`), and
that a file that failed ends `Load` (`FailuresAreSeen`).

The invariants were run through TLC as invariants before they were proved.

**Only model-checked.** The liveness properties (`CancelledOperationReturns`,
`EveryOperationReturns`, `WithTxProceeds`, `LockWithWaitReturns`, `OrphanExpires`, `AsyncReturns`,
`CleanupFinishes`), since fairness needs `ENABLED`, which is out of the prover's reach. No
theorem claims these.

## 6. Mutants

Each property of a passing run has a mutant in `PROJECT.json`: an operator that
stands directly before the definition it replaces, says in its comment what bug it is,
and makes TLC find the property violated.

## 7. Not modelled, and the plan

Not modelled: `ExtractBearer` and the white space work of `normalizePEMText` (string
splitting), object transfer in `objectstore` apart from ranges and listings (each one call
passed on), the names in `resource` and `action`, `logx`, `version`, the values of metrics,
and the checks of `config.Validate` for empty strings. They keep no state and have no order
of steps that could go wrong. What an HTTP exchange of a token does to Casdoor is not
modelled either: `exchangeToken` sends one request and does not retry.

What is left to do: the checks of `config.Validate` for empty strings could join `Runtime` when their
order or number begins to matter; the liveness properties wait for a prover that knows `ENABLED`.
