------------------------------ MODULE Runtime -------------------------------
(***************************************************************************)
(* The life of a service built on package starter: NewRuntimeFromConfig    *)
(* opens what the feature flags ask for, in a fixed order, through the     *)
(* constructors of db, cache, objectstore and casdoor; a failure closes    *)
(* what is open; the returned cleanup closes it at shutdown, within        *)
(* cleanupWithTimeout or not, once or twice; health.Check may run beside   *)
(* it.  Replicas and other programs share one database server and one      *)
(* object store.                                                           *)
(***************************************************************************)
EXTENDS Naturals, Sequences, FiniteSets

CONSTANTS
    FeatureSets,        \* feature flags that configurations turn on
    Drivers,            \* database.driver values
    AutoCreateDatabase, \* auto_create_database or its legacy alias
    AutoCreateBucket,
    MaxCleanups         \* bound: calls of the cleanup function

Feature == {"metrics", "db", "cache", "session", "s3", "authn", "authz", "audit", "permission", "sharing",
            "tracing"}

\* The features that something is built for; nothing reads the tracing flag.
Buildable == Feature \ {"tracing"}

ASSUME RuntimeAssumption ==
    /\ FeatureSets \subseteq SUBSET Feature
    /\ {AutoCreateDatabase, AutoCreateBucket} \subseteq BOOLEAN
    /\ MaxCleanups \in Nat

VARIABLES
    features, driver, \* configuration
    pc,           \* where NewRuntime is, "ready" or "failed"
    open,         \* connection pools and clients that are open
    stack,        \* CleanupStack.funcs, named by what they close
    fields,       \* the features whose Runtime fields are set
    idx,          \* idx[g]: closers that activation g of Close has left
    caller,       \* caller[g]: what became of the call of cleanup g
    probe,        \* the health check that runs or ran last
    dbExists, bucketExists \* the database and the bucket (external, shared)

service == <<features, driver, pc, open, stack, fields, idx, caller, probe>>
vars == <<service, dbExists, bucketExists>>

CasdoorFeatures == {"authn", "authz", "audit", "permission"}
Closable == {"db", "redis"}

\* Activation 0 is NewRuntime's own call of Close on an error.
Activations == 0..MaxCleanups

NoProbe == [pc |-> "idle", todo |-> {}, bad |-> {}, had |-> {}, pinged |-> {}]

\* A process that has not done anything.
Fresh(f, d, p) ==
    /\ features' = f
    /\ driver' = d
    /\ pc' = p
    /\ open' = {}
    /\ stack' = <<>>
    /\ fields' = {}
    /\ idx' = [g \in Activations |-> 0]
    /\ caller' = [g \in Activations |-> "idle"]
    /\ probe' = NoProbe
    /\ UNCHANGED <<dbExists, bucketExists>>

Init ==
    /\ features = {}
    /\ driver = ""
    /\ pc = "off"
    /\ open = {}
    /\ stack = <<>>
    /\ fields = {}
    /\ idx = [g \in Activations |-> 0]
    /\ caller = [g \in Activations |-> "idle"]
    /\ probe = NoProbe
    /\ dbExists \in BOOLEAN /\ bucketExists \in BOOLEAN

-----------------------------------------------------------------------------
(* Configuration *)

canonicalDriver(s) ==
    CASE s \in {"", "mysql"} -> "mysql"
      [] s \in {"postgres", "postgresql", "pgx"} -> "postgres"
      [] OTHER -> s

\* What Validate says of flags and driver; other values are taken to be valid.
Validate(f, d) ==
    /\ "db" \in f => canonicalDriver(d) \in {"mysql", "postgres"}
    /\ "session" \in f => "cache" \in f
    /\ "sharing" \notin f

\* The process starts, or starts again, and loads its configuration.
Start(f, d) ==
    /\ pc \in {"off", "failed"}
    /\ Fresh(f, d, IF Validate(f, d) THEN "metrics" ELSE "failed")

\* The process ends; the operating system closes its connections.
Crash ==
    /\ pc # "off"
    /\ Fresh({}, "", "off")

-----------------------------------------------------------------------------
(* NewRuntime *)

\* Mutant: a constructor forgets to close what it opened.
FailKeepsOpen ==
    /\ pc' = "failing"
    /\ idx' = [idx EXCEPT ![0] = Len(stack)]
    /\ UNCHANGED <<features, driver, open, stack, fields, caller, probe, dbExists, bucketExists>>

\* The constructor under way returns an error, having closed what it opened
\* itself; NewRuntime calls cleanups.Close.
Fail ==
    /\ pc' = "failing"
    /\ open' = open \cap {stack[i] : i \in DOMAIN stack}
    /\ idx' = [idx EXCEPT ![0] = Len(stack)]
    /\ UNCHANGED <<features, driver, stack, fields, caller, probe, dbExists, bucketExists>>

\* NewRuntime goes on at step p, with o open.
Goto(p, o) ==
    /\ pc' = p
    /\ open' = o
    /\ UNCHANGED <<features, driver, stack, fields, idx, caller, probe>>

World == UNCHANGED <<dbExists, bucketExists>>

\* A component is there: its fields fs are set and its closer, if any, is added.
Built(fs, closers, p) ==
    /\ fields' = fields \cup fs
    /\ stack' = stack \o closers
    /\ pc' = p
    /\ UNCHANGED <<features, driver, open, idx, caller, probe, dbExists, bucketExists>>

\* The steps of NewRuntime and the features that make it take them.
Skip(p, fs, q) ==
    /\ pc = p /\ features \cap fs = {}
    /\ Built({}, <<>>, q)

At(p, fs) == pc = p /\ features \cap fs # {}

Metrics ==
    /\ At("metrics", {"metrics"})
    /\ Built({"metrics"}, <<>>, "db") \/ Fail

\* NewDatabase: NewMySQL, or NewPostgres with or without EnsurePostgresDatabase.
NewDatabase ==
    /\ At("db", {"db"})
    /\ \/ /\ World
          /\ Goto(IF canonicalDriver(driver) = "postgres" /\ AutoCreateDatabase
                     THEN "ensure" ELSE "open", open)
       \/ Fail

\* EnsurePostgresDatabase opens a pool on the maintenance database ...
EnsureOpen ==
    /\ pc = "ensure"
    /\ (Goto("exists", open \cup {"maintenance"}) /\ World) \/ Fail

\* ... looks for the target and creates it, as two statements, of which the second fails
\* if somebody created it in between; the deferred Close runs on every return.
EnsureQuery ==
    /\ pc = "exists"
    /\ \/ /\ World
          /\ IF dbExists THEN Goto("open", open \ {"maintenance"})
             ELSE Goto("create", open)
       \/ Fail

EnsureCreate ==
    /\ pc = "create"
    /\ \/ /\ ~dbExists
          /\ dbExists' = TRUE /\ UNCHANGED bucketExists
          /\ Goto("open", open \ {"maintenance"})
       \/ Fail

\* gorm.Open, which holds no connection when it returns an error; db.DB() on it does not fail.
GormOpen ==
    /\ pc = "open"
    /\ (dbExists /\ Goto("ping", open \cup {"db"}) /\ World) \/ Fail

\* applyPool and pingWithDeps.
PingDatabase ==
    /\ pc = "ping"
    /\ Built({"db"}, <<"db">>, "cache") \/ Fail

NewRedis ==
    /\ At("cache", {"cache"})
    /\ (Goto("redis", open \cup {"redis"}) /\ World) \/ Fail

PingRedis ==
    /\ pc = "redis"
    /\ \/ Built({"cache"} \cup (features \cap {"session"}), <<"redis">>, "s3")
       \/ Fail

\* NewMinIO looks for the bucket ...
NewMinIO ==
    /\ At("s3", {"s3"})
    /\ \/ (bucketExists \/ ~AutoCreateBucket) /\ Built({"s3"}, <<>>, "casdoor")
       \/ ~bucketExists /\ AutoCreateBucket /\ Goto("bucket", open) /\ World
       \/ Fail

\* ... and EnsureBucket looks again before it creates it.
EnsureBucket ==
    /\ pc = "bucket"
    /\ \/ bucketExists /\ Built({"s3"}, <<>>, "casdoor")
       \/ ~bucketExists /\ Goto("make", open) /\ World
       \/ Fail

MakeBucket ==
    /\ pc = "make"
    /\ \/ /\ ~bucketExists
          /\ bucketExists' = TRUE /\ UNCHANGED dbExists
          /\ Goto("made", open)
       \/ Fail

BucketMade ==
    /\ pc = "made"
    /\ Built({"s3"}, <<>>, "casdoor")

\* One adapter serves all four; only authn checks the certificate, and permission
\* alone is behind its own flag.  The guard comes last and cannot fail.
NewCasdoor ==
    /\ At("casdoor", CasdoorFeatures)
    /\ \/ Built({"authn", "authz", "audit"} \cup (features \cap {"permission"}), <<>>, "ready")
       \/ "authn" \in features /\ Fail

Initialise ==
    \/ Skip("metrics", {"metrics"}, "db") \/ Metrics
    \/ Skip("db", {"db"}, "cache") \/ NewDatabase
    \/ EnsureOpen \/ EnsureQuery \/ EnsureCreate \/ GormOpen \/ PingDatabase
    \/ Skip("cache", {"cache"}, "s3") \/ NewRedis \/ PingRedis
    \/ Skip("s3", {"s3"}, "casdoor") \/ NewMinIO \/ EnsureBucket \/ MakeBucket \/ BucketMade
    \/ Skip("casdoor", CasdoorFeatures, "ready") \/ NewCasdoor

-----------------------------------------------------------------------------
(* CleanupStack.Close and its callers *)

\* Mutant: the closers run in the order they were added.
CloseNextInOrder(g) ==
    /\ idx[g] > 0
    /\ open' = open \ {stack[Len(stack) - idx[g] + 1]}
    /\ idx' = [idx EXCEPT ![g] = @ - 1]
    /\ UNCHANGED <<features, driver, pc, stack, fields, caller, probe, dbExists, bucketExists>>

\* One closer, from the last to the first; an error does not stop the loop.
CloseNext(g) ==
    /\ idx[g] > 0
    /\ open' = open \ {stack[idx[g]]}
    /\ idx' = [idx EXCEPT ![g] = @ - 1]
    /\ UNCHANGED <<features, driver, pc, stack, fields, caller, probe, dbExists, bucketExists>>

\* NewRuntime returns its error.
Failed ==
    /\ pc = "failing" /\ idx[0] = 0
    /\ pc' = "failed"
    /\ UNCHANGED <<features, driver, open, stack, fields, idx, caller, probe, dbExists, bucketExists>>

\* Mutant: the loop starts one too high.
CleanupTooHigh(g) ==
    /\ pc = "ready" /\ g # 0 /\ caller[g] = "idle"
    /\ \A h \in 1..(g - 1) : caller[h] # "idle"
    /\ caller' = [caller EXCEPT ![g] = "waiting"]
    /\ idx' = [idx EXCEPT ![g] = Len(stack) + 1]
    /\ UNCHANGED <<features, driver, pc, open, stack, fields, probe, dbExists, bucketExists>>

\* cleanupWithTimeout starts a goroutine for the cleanup function.
Cleanup(g) ==
    /\ pc = "ready" /\ g # 0 /\ caller[g] = "idle"
    /\ \A h \in 1..(g - 1) : caller[h] # "idle"
    /\ caller' = [caller EXCEPT ![g] = "waiting"]
    /\ idx' = [idx EXCEPT ![g] = Len(stack)]
    /\ UNCHANGED <<features, driver, pc, open, stack, fields, probe, dbExists, bucketExists>>

CleanupReturns(g) ==
    /\ caller[g] = "waiting" /\ idx[g] = 0
    /\ caller' = [caller EXCEPT ![g] = "returned"]
    /\ UNCHANGED <<features, driver, pc, open, stack, fields, idx, probe, dbExists, bucketExists>>

\* Mutant: the goroutine ends with the timeout.
CleanupAborted(g) ==
    /\ caller[g] = "waiting"
    /\ caller' = [caller EXCEPT ![g] = "timeout"]
    /\ idx' = [idx EXCEPT ![g] = 0]
    /\ UNCHANGED <<features, driver, pc, open, stack, fields, probe, dbExists, bucketExists>>

\* DeadlineExceeded; the goroutine goes on.
CleanupTimesOut(g) ==
    /\ caller[g] = "waiting"
    /\ caller' = [caller EXCEPT ![g] = "timeout"]
    /\ UNCHANGED <<features, driver, pc, open, stack, fields, idx, probe, dbExists, bucketExists>>

-----------------------------------------------------------------------------
(* health.Check *)

\* What Check pings: the fields of rt that are not nil.
Dependencies(fs) ==
    (IF "db" \in fs THEN {"db"} ELSE {}) \cup (IF "cache" \in fs THEN {"redis"} ELSE {})
    \cup (IF "s3" \in fs THEN {"s3"} ELSE {})
    \cup (IF fs \cap CasdoorFeatures # {} THEN {"casdoor"} ELSE {})

PingOrder == <<"db", "redis", "s3", "casdoor">>

Check ==
    /\ pc = "ready" /\ probe.pc # "running"
    /\ probe' = [NoProbe EXCEPT !.pc = "running", !.had = open,
                               !.todo = Dependencies(fields)]
    /\ UNCHANGED <<features, driver, pc, open, stack, fields, idx, caller, dbExists, bucketExists>>

\* Mutant: only the last result counts.
PingLast ==
    /\ probe.pc = "running" /\ probe.todo # {}
    /\ \E d \in probe.todo, ok \in BOOLEAN :
          /\ ok => d \in open \/ d \notin Closable
          /\ probe' = [probe EXCEPT !.todo = @ \ {d}, !.pinged = @ \cup {d},
                                    !.bad = IF ok THEN {} ELSE {d}]
    /\ UNCHANGED <<features, driver, pc, open, stack, fields, idx, caller, dbExists, bucketExists>>

\* The next ping; on a closed pool or client it fails.
Ping ==
    /\ probe.pc = "running" /\ probe.todo # {}
    /\ LET i == CHOOSE i \in DOMAIN PingOrder : /\ PingOrder[i] \in probe.todo
                                                /\ \A j \in 1..(i - 1) : PingOrder[j] \notin probe.todo
           d == PingOrder[i]
       IN  \E ok \in BOOLEAN :
              /\ ok => d \in open \/ d \notin Closable
              /\ probe' = [probe EXCEPT !.todo = @ \ {d},
                                        !.pinged = @ \cup {d},
                                        !.bad = IF ok THEN @ ELSE @ \cup {d}]
    /\ UNCHANGED <<features, driver, pc, open, stack, fields, idx, caller, dbExists, bucketExists>>

CheckReturns ==
    /\ probe.pc = "running" /\ probe.todo = {}
    /\ probe' = [probe EXCEPT !.pc = "done"]
    /\ UNCHANGED <<features, driver, pc, open, stack, fields, idx, caller, dbExists, bucketExists>>

IsHealthy(p) == p.pc = "done" /\ p.bad = {}

-----------------------------------------------------------------------------
(* The servers (external) *)

\* Another replica, or another program, creates the database or the bucket.
CreatedElsewhere ==
    /\ \/ ~dbExists /\ dbExists' = TRUE /\ UNCHANGED bucketExists
       \/ ~bucketExists /\ bucketExists' = TRUE /\ UNCHANGED dbExists
    /\ UNCHANGED service

-----------------------------------------------------------------------------
Next ==
    \/ \E f \in FeatureSets, d \in Drivers : Start(f, d)
    \/ Crash
    \/ Initialise
    \/ Failed
    \/ \E g \in Activations : CloseNext(g) \/ Cleanup(g) \/ CleanupReturns(g) \/ CleanupTimesOut(g)
    \/ Check \/ Ping \/ CheckReturns
    \/ CreatedElsewhere

Spec == Init /\ [][Next]_vars

\* Every closer returns; nothing is asked of the callers.
FairSpec == Spec /\ \A g \in Activations : WF_vars(CloseNext(g))

-----------------------------------------------------------------------------
(* Properties *)

Step == {"off", "metrics", "db", "ensure", "exists", "create", "open", "ping", "cache", "redis", "s3",
         "bucket", "make", "made", "casdoor", "ready", "failing", "failed"}

(***************************************************************************)
(* Type correctness: the steps of NewRuntime and what they open, and no    *)
(* activation of CleanupStack.Close reaches beyond the stack it works on.  *)
(***************************************************************************)
TypeOK ==
    /\ features \subseteq Feature
    /\ pc \in Step
    /\ open \subseteq Closable \cup {"maintenance"}
    /\ stack \in Seq(Closable)
    /\ fields \subseteq Feature
    /\ idx \in [Activations -> Nat]
    /\ \A g \in Activations : idx[g] <= Len(stack)
    /\ caller \in [Activations -> {"idle", "waiting", "returned", "timeout"}]
    /\ dbExists \in BOOLEAN /\ bucketExists \in BOOLEAN

(***************************************************************************)
(* A start that failed leaves nothing open, wherever it failed, and the    *)
(* pool on the maintenance database never outlives                         *)
(* EnsurePostgresDatabase.                                                 *)
(***************************************************************************)
FailedStartLeaksNothing ==
    /\ pc = "failed" => open = {}
    /\ "maintenance" \in open => pc \in {"exists", "create"}

(***************************************************************************)
(* A runtime that is handed out has every component its flags turned on    *)
(* (tracing turns nothing on), and until somebody calls cleanup every pool and client behind them is   *)
(* open.                                                                   *)
(***************************************************************************)
ReadyIsComplete ==
    pc = "ready" =>
        /\ features \cap Buildable \subseteq fields
        /\ (\A g \in Activations : caller[g] = "idle") =>
              open = Closable \cap Dependencies(features)

(***************************************************************************)
(* A start is all or nothing: NewRuntime hands out a complete runtime, or  *)
(* fails and leaves nothing open.                                          *)
(***************************************************************************)
StartIsWhole == FailedStartLeaksNothing /\ ReadyIsComplete

(***************************************************************************)
(* What was opened last is closed first ("ordered cleanup stack"): the     *)
(* database outlives the Redis client, though a second cleanup may run     *)
(* beside one that timed out.                                              *)
(***************************************************************************)
CleanupIsOrdered ==
    "redis" \in open /\ "db" \in features => "db" \in open

(***************************************************************************)
(* A cleanup that returned in time has closed everything, the second one   *)
(* and one that overlaps another too.                                      *)
(***************************************************************************)
CleanupIsComplete ==
    \A g \in Activations : caller[g] = "returned" => open = {}

(***************************************************************************)
(* Cleanup closes everything, and in the reverse order of the start,       *)
(* however many cleanups overlap.                                          *)
(***************************************************************************)
CleanupIsRight == CleanupIsOrdered /\ CleanupIsComplete

(***************************************************************************)
(* health.Check reports healthy only if it pinged every dependency that    *)
(* the flags turned on, and each of those was still open when it began.    *)
(***************************************************************************)
HealthyMeansServing ==
    IsHealthy(probe) =>
        /\ Dependencies(features) \subseteq probe.pinged
        /\ Closable \cap Dependencies(features) \subseteq probe.had

(***************************************************************************)
(* Once cleanup was called everything is closed in the end, though the     *)
(* caller gave up waiting for it.                                          *)
(***************************************************************************)
CleanupFinishes ==
    (\E g \in Activations : caller[g] # "idle") ~> open = {}
=============================================================================
