---------------------------- MODULE RuntimeProofs ----------------------------
(***************************************************************************)
(* Proofs about Runtime: at every step of NewRuntime the closers that are  *)
(* on the stack and the pools and clients that are open agree, and every   *)
(* activation of Close leaves a prefix of the stack open.                  *)
(***************************************************************************)
EXTENDS Runtime, SequenceTheorems, TLAPS

\* The closers that the configuration asks for.
DbPart == IF "db" \in features THEN <<"db">> ELSE <<>>
RedisPart == IF "cache" \in features THEN <<"redis">> ELSE <<>>
Whole == DbPart \o RedisPart

Names(s) == {s[i] : i \in DOMAIN s}
First(m) == {stack[i] : i \in 1..m}

Ensuring == {"ensure", "exists", "create", "open", "ping"}
Late == {"s3", "bucket", "make", "made", "casdoor", "ready"}
Over == {"off", "failing", "failed"}

\* A closer is on the stack once its component is there.
StackShape ==
    /\ pc \in {"off", "metrics", "db"} \cup Ensuring => stack = <<>>
    /\ pc \in {"cache", "redis"} => stack = DbPart
    /\ pc \in Late => stack = Whole
    /\ pc \in {"failing", "failed"} => stack \in {<<>>, DbPart, Whole}

\* What is open at each step.
OpenShape ==
    /\ pc \in {"off", "metrics", "db", "ensure", "open", "failed"} => open = {}
    /\ pc \in {"exists", "create"} => open = {"maintenance"}
    /\ pc = "ping" => open = {"db"}
    /\ pc = "redis" => open = Names(stack) \cup {"redis"}
    /\ pc \in (Late \ {"ready"}) \cup {"cache"} => open = Names(stack)
    /\ pc = "failing" => open = First(idx[0])

\* Overlapping cleanups leave the prefix open that the one furthest on has left.
CleanupShape ==
    pc = "ready" =>
        \E m \in 0..Len(stack) :
            /\ open = First(m)
            /\ (\A g \in Activations : caller[g] = "idle") => m = Len(stack)
            /\ \A g \in Activations : caller[g] # "idle" => m <= idx[g]

\* NewRuntime's own Close runs when the start failed, the others when it succeeded.
Activity ==
    \A g \in Activations :
        /\ caller[g] # "idle" => pc = "ready" /\ g # 0
        /\ idx[g] > 0 => (g = 0 /\ pc = "failing") \/ caller[g] # "idle"
        /\ caller[g] = "returned" => idx[g] = 0

\* The features that NewRuntime is through with at step p.
Through(p) ==
    CASE p = "metrics" -> {}
      [] p \in {"db"} \cup Ensuring -> {"metrics"}
      [] p \in {"cache", "redis"} -> {"metrics", "db"}
      [] p \in {"s3", "bucket", "make", "made"} -> {"metrics", "db", "cache", "session"}
      [] p = "casdoor" -> {"metrics", "db", "cache", "session", "s3"}
      [] p = "ready" -> Buildable
      [] OTHER -> {}

FieldShape ==
    /\ pc \notin Over => Validate(features, driver)
    /\ pc \in Ensuring => "db" \in features
    /\ pc = "redis" => "cache" \in features
    /\ features \cap Through(pc) \subseteq fields

Pinged == {"db", "redis", "s3", "casdoor"}

ProbeType == [pc : {"idle", "running", "done"}, todo : SUBSET Pinged, bad : SUBSET Pinged,
              had : SUBSET (Closable \cup {"maintenance"}), pinged : SUBSET Pinged]

\* A check began with every dependency of the flags still to ping, and what is open
\* now was open then.
ProbeShape ==
    /\ probe \in ProbeType
    /\ probe.pc # "idle" =>
          /\ pc = "ready"
          /\ Dependencies(features) \subseteq probe.pinged \cup probe.todo
          /\ open \subseteq probe.had
          /\ \A d \in probe.pinged \ probe.bad : d \in Closable => d \in probe.had
    /\ probe.pc = "done" => probe.todo = {}

Inv == TypeOK /\ StackShape /\ OpenShape /\ CleanupShape /\ Activity /\ FieldShape /\ ProbeShape

-----------------------------------------------------------------------------
(* Stacks *)

\* The stacks that NewRuntime builds, written out.
LEMMA Stacks ==
    /\ Whole = IF "db" \in features
               THEN IF "cache" \in features THEN <<"db", "redis">> ELSE <<"db">>
               ELSE IF "cache" \in features THEN <<"redis">> ELSE <<>>
    /\ \A s \in {<<>>, DbPart, Whole} : s \in {<<>>, <<"db">>, <<"redis">>, <<"db", "redis">>}
  <1>1. /\ <<"db">> \o <<"redis">> = <<"db", "redis">> /\ <<"db">> \o <<>> = <<"db">>
        /\ <<>> \o <<"redis">> = <<"redis">> /\ <<>> \o <<>> = <<>>
    <2>1. <<"db">> \in Seq(Closable) /\ <<"redis">> \in Seq(Closable) /\ <<>> \in Seq(Closable)
      BY DEF Closable
    <2>2. <<"db">> \o <<>> = <<"db">> /\ <<>> \o <<"redis">> = <<"redis">> /\ <<>> \o <<>> = <<>>
      BY <2>1, ConcatEmptySeq
    <2>3. <<"db">> \o <<"redis">> = <<"db", "redis">>
      <3>1. Append(<<"db">>, "redis") = <<"db">> \o <<"redis">>
        BY <2>1, AppendIsConcat DEF Closable
      <3>2. Append(<<"db">>, "redis") = <<"db", "redis">>
        <4> DEFINE a == Append(<<"db">>, "redis")
        <4> DEFINE b == <<"db", "redis">>
        <4>1. a \in Seq(Closable) /\ Len(a) = 2 /\ a[1] = "db" /\ a[2] = "redis"
          BY <2>1, AppendProperties DEF Closable
        <4>2. b \in Seq(Closable) /\ Len(b) = 2 /\ b[1] = "db" /\ b[2] = "redis"
          BY DEF Closable
        <4> HIDE DEF a, b
        <4>3. \A i \in 1..Len(a) : a[i] = b[i]
          BY <4>1, <4>2
        <4> QED
          BY <4>1, <4>2, <4>3, SeqEqual DEF a, b
      <3> QED
        BY <3>1, <3>2
    <2> QED
      BY <2>2, <2>3
  <1>2. Whole = IF "db" \in features
                THEN IF "cache" \in features THEN <<"db", "redis">> ELSE <<"db">>
                ELSE IF "cache" \in features THEN <<"redis">> ELSE <<>>
    BY <1>1 DEF Whole, DbPart, RedisPart
  <1> QED
    BY <1>2 DEF DbPart

\* A stack closes nothing twice, and the database last.
LEMMA StackElements ==
    ASSUME NEW s \in {<<>>, <<"db">>, <<"redis">>, <<"db", "redis">>}
    PROVE  /\ s \in Seq(Closable) /\ Len(s) \in Nat /\ DOMAIN s = 1..Len(s)
           /\ \A i, j \in 1..Len(s) : s[i] = s[j] => i = j
           /\ \A i \in 1..Len(s) : s[i] \in Closable
           /\ \A i, j \in 1..Len(s) : s[i] = "db" /\ s[j] = "redis" => i < j
           /\ Names(s) \subseteq Closable
  <1>1. s \in Seq(Closable) /\ Len(s) \in Nat /\ DOMAIN s = 1..Len(s)
    <2>1. <<>> \in Seq(Closable) /\ <<"db">> \in Seq(Closable) /\ <<"redis">> \in Seq(Closable)
      BY DEF Closable
    <2>2. <<"db", "redis">> \in Seq(Closable)
      BY DEF Closable
    <2>3. s \in Seq(Closable)
      BY <2>1, <2>2
    <2> QED
      BY <2>3
  <1>2. \A i, j \in 1..Len(s) : /\ s[i] = s[j] => i = j
                                /\ s[i] = "db" /\ s[j] = "redis" => i < j
    OBVIOUS
  <1>3. \A i \in 1..Len(s) : s[i] \in Closable
    BY DEF Closable
  <1> QED
    BY <1>1, <1>2, <1>3 DEF Names

\* The stack of every state is one of them.
LEMMA StackIs ==
    ASSUME Inv
    PROVE  stack \in {<<>>, <<"db">>, <<"redis">>, <<"db", "redis">>}
  BY Stacks DEF Inv, StackShape, TypeOK, Step, Ensuring, Late

\* Names of the stacks.
LEMMA NamesOf ==
    /\ Names(<<>>) = {} /\ Names(<<"db">>) = {"db"} /\ Names(<<"redis">>) = {"redis"}
    /\ Names(<<"db", "redis">>) = {"db", "redis"}
    /\ Names(DbPart) = {"db"} \cap features
    /\ Names(Whole) = Closable \cap Dependencies(features)
  <1>1. Names(<<>>) = {} /\ Names(<<"db">>) = {"db"} /\ Names(<<"redis">>) = {"redis"}
    BY DEF Names
  <1>2. Names(<<"db", "redis">>) = {"db", "redis"}
    <2>1. DOMAIN <<"db", "redis">> = {1, 2}
      OBVIOUS
    <2> QED
      BY <2>1 DEF Names
  <1>3. Names(DbPart) = {"db"} \cap features
    BY <1>1 DEF DbPart
  <1>4. Names(Whole) = Closable \cap Dependencies(features)
    BY <1>1, <1>2, Stacks DEF Closable, Dependencies
  <1> QED
    BY <1>1, <1>2, <1>3, <1>4

-----------------------------------------------------------------------------
(* The invariant *)

\* The invariant holds before the first Start.
LEMMA InvInit == Init => Inv
  <1> SUFFICES ASSUME Init PROVE Inv
    OBVIOUS
  <1>1. TypeOK
    <2>1. <<>> \in Seq(Closable) /\ Len(<<>>) = 0
      OBVIOUS
    <2>2. dbExists \in BOOLEAN /\ bucketExists \in BOOLEAN
      BY DEF Init
    <2>3. /\ features = {} /\ pc = "off" /\ open = {} /\ stack = <<>> /\ fields = {}
          /\ idx = [g \in Activations |-> 0] /\ caller = [g \in Activations |-> "idle"]
      BY DEF Init
    <2> QED
      BY <2>1, <2>2, <2>3 DEF TypeOK, Step
  <1>2. StackShape /\ OpenShape
    BY DEF Init, StackShape, OpenShape, Ensuring, Late
  <1>a. CleanupShape /\ Activity
    <2>1. pc = "off" /\ idx = [g \in Activations |-> 0] /\ caller = [g \in Activations |-> "idle"]
      BY DEF Init
    <2> QED
      BY <2>1 DEF CleanupShape, Activity
  <1>3. FieldShape
    BY DEF Init, FieldShape, Over, Ensuring
  <1>4. ProbeShape
    BY DEF Init, ProbeShape, NoProbe, ProbeType
  <1> QED
    BY <1>1, <1>2, <1>a, <1>3, <1>4 DEF Inv

\* The process starts or ends.
LEMMA FreshStep ==
    ASSUME Inv, NEW f \in SUBSET Feature, NEW d, NEW p \in {"off", "metrics", "failed"},
           p = "metrics" => Validate(f, d), Fresh(f, d, p)
    PROVE  Inv'
  <1>1. TypeOK'
    BY RuntimeAssumption DEF Fresh, TypeOK, Step, Activations, Closable, Inv
  <1>2. StackShape' /\ OpenShape' /\ CleanupShape' /\ Activity'
    BY DEF Fresh, StackShape, OpenShape, CleanupShape, Activity, Ensuring, Late, Activations
  <1>3. FieldShape'
    BY DEF Fresh, FieldShape, Over, Ensuring, Through
  <1>4. ProbeShape'
    BY DEF Fresh, ProbeShape, NoProbe, ProbeType
  <1> QED
    BY <1>1, <1>2, <1>3, <1>4 DEF Inv

\* While NewRuntime builds, nobody closes and nobody checks, and everything on the
\* stack is open.
Building == pc \in Step \ {"off", "ready", "failing", "failed"}

LEMMA Quiet ==
    ASSUME Inv, Building
    PROVE  /\ \A g \in Activations : caller[g] = "idle" /\ idx[g] = 0
           /\ probe.pc = "idle" /\ Names(stack) \subseteq open
           /\ Validate(features, driver)
  <1>1. \A g \in Activations : caller[g] = "idle" /\ idx[g] = 0
    BY DEF Inv, Activity, TypeOK, Building
  <1>2. probe.pc = "idle"
    BY DEF Inv, ProbeShape, ProbeType, Building
  <1>3. Names(stack) \subseteq open
    BY NamesOf DEF Inv, StackShape, OpenShape, Building, Step, Ensuring, Late
  <1>4. Validate(features, driver)
    BY DEF Inv, FieldShape, Over, Building
  <1> QED
    BY <1>1, <1>2, <1>3, <1>4

\* The constructor under way fails.
LEMMA FailStep ==
    ASSUME Inv, Building, Fail
    PROVE  Inv'
  <1> USE DEF Inv
  <1>1. /\ pc' = "failing" /\ open' = open \cap Names(stack) /\ idx' = [idx EXCEPT ![0] = Len(stack)]
        /\ UNCHANGED <<features, driver, stack, fields, caller, probe, dbExists, bucketExists>>
    BY DEF Fail, Names
  <1>2. /\ \A g \in Activations : caller[g] = "idle" /\ idx[g] = 0
        /\ probe.pc = "idle" /\ Names(stack) \subseteq open
    BY Quiet
  <1>3. 0 \in Activations /\ stack \in Seq(Closable) /\ Len(stack) \in Nat
    BY RuntimeAssumption DEF Activations, TypeOK
  <1>4. idx' \in [Activations -> Nat] /\ idx'[0] = Len(stack) /\ \A g \in Activations : g # 0 => idx'[g] = 0
    BY <1>1, <1>2, <1>3 DEF TypeOK
  <1>5. TypeOK'
    <2>1. \A g \in Activations : idx'[g] <= Len(stack)
      BY <1>3, <1>4
    <2> QED
      BY <1>1, <1>4, <2>1 DEF TypeOK, Step
  <1>6. StackShape'
    BY <1>1 DEF StackShape, DbPart, RedisPart, Whole, Building, Step, Ensuring, Late
  <1>7. OpenShape'
    <2>1. open' = Names(stack) /\ First(Len(stack)) = Names(stack)
      BY <1>1, <1>2, <1>3 DEF First, Names
    <2>2. First(idx[0])' = First(Len(stack))
      BY <1>1, <1>4 DEF First
    <2> QED
      BY <1>1, <2>1, <2>2 DEF OpenShape, Late
  <1>8. CleanupShape' /\ Activity'
    BY <1>1, <1>2, <1>4 DEF CleanupShape, Activity
  <1>9. FieldShape'
    BY <1>1 DEF FieldShape, Over, Ensuring, Through, Late
  <1>10. ProbeShape'
    BY <1>1, <1>2 DEF ProbeShape
  <1> QED
    BY <1>5, <1>6, <1>7, <1>8, <1>9, <1>10

\* NewRuntime goes on with a step that adds nothing: what the shapes of the next
\* step ask for is left to show.
LEMMA GotoStep ==
    ASSUME Inv, Building, NEW p \in Step \ {"off", "ready", "failing", "failed"}, NEW o \in SUBSET (Closable \cup {"maintenance"}),
           Goto(p, o), dbExists' \in BOOLEAN, bucketExists' \in BOOLEAN,
           StackShape', OpenShape', FieldShape'
    PROVE  Inv'
  <1>1. pc' = p /\ open' = o /\ UNCHANGED <<features, driver, stack, fields, idx, caller, probe>>
    BY DEF Goto
  <1>2. TypeOK'
    BY <1>1 DEF Inv, TypeOK
  <1>3. \A g \in Activations : caller[g] = "idle" /\ idx[g] = 0 /\ probe.pc = "idle"
    BY Quiet
  <1>4. CleanupShape' /\ Activity'
    BY <1>1, <1>3 DEF CleanupShape, Activity
  <1>5. ProbeShape'
    BY <1>1, Quiet DEF Inv, ProbeShape
  <1> QED
    BY <1>2, <1>4, <1>5 DEF Inv

\* The same for a step that ends a component.
LEMMA BuiltStep ==
    ASSUME Inv, Building, NEW fs \in SUBSET Feature, NEW c \in {<<>>, <<"db">>, <<"redis">>},
           NEW p \in Step \ {"off", "failing", "failed"}, Built(fs, c, p),
           StackShape', OpenShape', FieldShape', p = "ready" => open = Names(stack')
    PROVE  Inv'
  <1>1. /\ fields' = fields \cup fs /\ stack' = stack \o c /\ pc' = p
        /\ UNCHANGED <<features, driver, open, idx, caller, probe, dbExists, bucketExists>>
    BY DEF Built
  <1>2. stack \in Seq(Closable) /\ c \in Seq(Closable)
    BY StackElements DEF Inv, TypeOK
  <1>3. stack' \in Seq(Closable) /\ Len(stack') \in Nat
    BY <1>1, <1>2
  <1>4. \A g \in Activations : caller[g] = "idle" /\ idx[g] = 0
    BY Quiet
  <1>5. TypeOK'
    BY <1>1, <1>3, <1>4 DEF Inv, TypeOK
  <1>6. Activity'
    BY <1>1, <1>4 DEF Activity
  <1>7. CleanupShape'
    <2>a. DOMAIN stack' = 1..Len(stack')
      BY <1>3
    <2>1. pc' = "ready" => open' = First(Len(stack))'
      BY <1>1, <2>a DEF Names, First
    <2>2. Len(stack') \in 0..Len(stack')
      BY <1>3
    <2> QED
      BY <1>1, <1>4, <2>1, <2>2 DEF CleanupShape
  <1>8. ProbeShape'
    BY <1>1, Quiet DEF Inv, ProbeShape
  <1> QED
    BY <1>5, <1>6, <1>7, <1>8 DEF Inv

\* A feature that is off, and metrics, add nothing to the stack.
LEMMA SkipStep ==
    ASSUME Inv, NEW fs \in SUBSET Feature, NEW p, NEW q,
           <<p, q>> \in {<<"metrics", "db">>, <<"db", "cache">>, <<"cache", "s3">>, <<"s3", "casdoor">>,
                         <<"bucket", "casdoor">>, <<"made", "casdoor">>, <<"casdoor", "ready">>},
           pc = p, Built(fs, <<>>, q), (Through(q) \ Through(p)) \cap features \subseteq fs,
           p = "db" => "db" \notin features, p = "cache" => "cache" \notin features
    PROVE  Inv'
  <1>1. pc \in {"metrics", "db", "cache", "s3", "bucket", "made", "casdoor"} /\ q \in {"db", "cache", "s3", "casdoor", "ready"}
    BY Zenon
  <1>2. Building /\ q \in Step \ {"off", "failing", "failed"}
    BY <1>1 DEF Building, Step
  <1>3. stack \in Seq(Closable)
    BY DEF Inv, TypeOK
  <1>4. stack \o <<>> = stack
    BY <1>3, ConcatEmptySeq
  <1>5. /\ fields' = fields \cup fs /\ stack' = stack /\ pc' = q
        /\ UNCHANGED <<features, driver, open, idx, caller, probe, dbExists, bucketExists>>
    BY <1>4 DEF Built
  <1>6. Whole = IF p = "cache" THEN DbPart ELSE Whole
    <2>1. DbPart \in Seq(Closable)
      BY StackElements DEF DbPart
    <2> QED
      BY <2>1, ConcatEmptySeq DEF Whole, RedisPart
  <1>7. StackShape'
    <2>1. DbPart' = DbPart /\ Whole' = Whole
      BY <1>5 DEF DbPart, RedisPart, Whole
    <2> QED
      BY <1>1, <1>5, <1>6, <2>1 DEF Inv, StackShape, Ensuring, Late, DbPart
  <1>8. open = IF p \in {"metrics", "db"} THEN {} ELSE Names(stack)
    BY <1>1 DEF Inv, OpenShape, Late
  <1>9. p = "db" => Names(stack) = {}
    BY NamesOf, <1>5, <1>7 DEF Inv, StackShape
  <1>10. OpenShape'
    BY <1>1, <1>5, <1>8, <1>9 DEF OpenShape, Late, Names
  <1>11. FieldShape'
    <2>1. features \cap Through(p) \subseteq fields /\ Validate(features, driver)
      BY <1>2, Quiet DEF Inv, FieldShape
    <2>2. features \cap Through(q) \subseteq fields'
      BY <1>5, <2>1
    <2> QED
      BY <1>1, <1>5, <2>1, <2>2 DEF FieldShape, Ensuring, Over, Validate
  <1>12. q = "ready" => open = Names(stack')
    BY <1>5, <1>8, <1>1
  <1> QED
    BY <1>2, <1>5, <1>7, <1>10, <1>11, <1>12, BuiltStep

\* The database is there, or the Redis client: its closer is added.
LEMMA CloserStep ==
    ASSUME Inv, \/ pc = "ping" /\ Built({"db"}, <<"db">>, "cache")
                \/ pc = "redis" /\ Built({"cache"} \cup (features \cap {"session"}), <<"redis">>, "s3")
    PROVE  Inv'
  <1>1. Building /\ Validate(features, driver) /\ features \cap Through(pc) \subseteq fields
    <2>1. Building
      BY DEF Building, Step
    <2> QED
      BY <2>1, Quiet DEF Inv, FieldShape
  <1>2. UNCHANGED <<features, driver, open>> /\ DbPart' = DbPart /\ Whole' = Whole
    BY DEF Built, DbPart, RedisPart, Whole
  <1>3. CASE pc = "ping"
    <2>1. Built({"db"}, <<"db">>, "cache")
      BY <1>3
    <2>2. "db" \in features /\ stack = <<>> /\ open = {"db"}
      BY <1>3 DEF Inv, FieldShape, Ensuring, StackShape, OpenShape
    <2>3. <<>> \o <<"db">> = <<"db">>
      <3>1. <<"db">> \in Seq(Closable)
        BY StackElements
      <3> QED
        BY <3>1, ConcatEmptySeq
    <2>4. stack' = <<"db">> /\ pc' = "cache" /\ fields' = fields \cup {"db"}
      BY <2>1, <2>2, <2>3 DEF Built
    <2>5. StackShape'
      BY <1>2, <2>2, <2>4 DEF StackShape, DbPart, Ensuring, Late
    <2>6. OpenShape'
      <3>1. Names(stack)' = {"db"}
        BY <2>4 DEF Names
      <3> QED
        BY <1>2, <2>2, <2>4, <3>1 DEF OpenShape, Late
    <2>7. FieldShape'
      BY <1>1, <1>2, <1>3, <2>4 DEF FieldShape, Through, Ensuring, Over
    <2>8. {"db"} \in SUBSET Feature /\ "cache" \in Step \ {"off", "failing", "failed"} /\ "cache" # "ready"
      BY DEF Feature, Step
    <2> QED
      BY <1>1, <2>1, <2>5, <2>6, <2>7, <2>8, BuiltStep
  <1>4. CASE pc = "redis"
    <2> DEFINE fs == {"cache"} \cup (features \cap {"session"})
    <2>1. Built(fs, <<"redis">>, "s3")
      BY <1>4
    <2>2. "cache" \in features /\ stack = DbPart /\ open = Names(stack) \cup {"redis"}
      BY <1>4 DEF Inv, FieldShape, StackShape, OpenShape
    <2>3. DbPart \o <<"redis">> = Whole
      BY <2>2 DEF Whole, RedisPart
    <2>4. stack' = Whole /\ pc' = "s3" /\ fields' = fields \cup fs
      BY <2>1, <2>2, <2>3 DEF Built
    <2>5. StackShape'
      BY <1>2, <2>4 DEF StackShape, Ensuring, Late
    <2>6. OpenShape'
      <3>1. Names(stack)' = Names(Whole)
        BY <2>4 DEF Names
      <3>2. Names(Whole) = ({"db"} \cap features) \cup {"redis"} /\ Names(stack) = {"db"} \cap features
        BY <2>2, NamesOf DEF Closable, Dependencies
      <3> QED
        BY <1>2, <2>2, <2>4, <3>1, <3>2 DEF OpenShape, Late
    <2>7. FieldShape'
      BY <1>1, <1>2, <1>4, <2>4 DEF FieldShape, Through, Ensuring, Over
    <2>8. fs \in SUBSET Feature /\ "s3" \in Step \ {"off", "failing", "failed"} /\ "s3" # "ready"
      BY DEF Feature, Step
    <2> HIDE DEF fs
    <2> QED
      BY <1>1, <2>1, <2>5, <2>6, <2>7, <2>8, BuiltStep
  <1> QED
    BY <1>3, <1>4

\* A step within NewDatabase, NewRedis or NewMinIO.
LEMMA WithinStep ==
    ASSUME Inv, NEW p, NEW o, Goto(p, o), dbExists' \in BOOLEAN, bucketExists' \in BOOLEAN,
           \/ pc = "db" /\ "db" \in features /\ p \in {"ensure", "open"} /\ o = open
           \/ pc = "ensure" /\ p = "exists" /\ o = open \cup {"maintenance"}
           \/ pc = "exists" /\ p = "create" /\ o = open
           \/ pc \in {"exists", "create"} /\ p = "open" /\ o = open \ {"maintenance"}
           \/ pc = "open" /\ p = "ping" /\ o = open \cup {"db"}
           \/ pc = "cache" /\ "cache" \in features /\ p = "redis" /\ o = open \cup {"redis"}
           \/ pc \in {"s3", "bucket", "make"} /\ p \in {"bucket", "make", "made"} /\ o = open
    PROVE  Inv'
  <1>1. pc' = p /\ open' = o /\ UNCHANGED <<features, driver, stack, fields, idx, caller, probe>>
    BY DEF Goto
  <1>2. Building /\ p \in Step \ {"off", "ready", "failing", "failed"}
    BY DEF Building, Step
  <1>3. Validate(features, driver) /\ features \cap Through(pc) \subseteq fields
    BY <1>2, Quiet DEF Inv, FieldShape
  <1>4. o \in SUBSET (Closable \cup {"maintenance"})
    BY DEF Inv, TypeOK, Closable
  <1>5. StackShape'
    <2>1. DbPart' = DbPart /\ Whole' = Whole
      BY <1>1 DEF DbPart, RedisPart, Whole
    <2> QED
      BY <1>1, <2>1 DEF Inv, StackShape, Ensuring, Late
  <1>6. OpenShape'
    <2>1. Names(stack)' = Names(stack)
      BY <1>1 DEF Names
    <2> QED
      BY <1>1, <2>1 DEF Inv, OpenShape, Late
  <1>7. FieldShape'
    <2>1. Through(p) = Through(pc)
      BY DEF Through, Ensuring
    <2>2. p \in Ensuring => "db" \in features
      BY DEF Inv, FieldShape, Ensuring
    <2> QED
      BY <1>1, <1>3, <2>1, <2>2 DEF FieldShape
  <1> QED
    BY <1>2, <1>4, <1>5, <1>6, <1>7, GotoStep

\* Every step of NewRuntime, the failures included.
LEMMA InitialiseStep ==
    ASSUME Inv, Initialise
    PROVE  Inv'
  <1>1. Building
    BY DEF Initialise, Skip, At, Metrics, NewDatabase, EnsureOpen, EnsureQuery, EnsureCreate, GormOpen,
           PingDatabase, NewRedis, PingRedis, NewMinIO, EnsureBucket, MakeBucket, BucketMade, NewCasdoor,
           Building, Step
  <1>2. /\ Validate(features, driver) /\ features \subseteq Feature /\ fields \subseteq Feature
        /\ dbExists \in BOOLEAN /\ bucketExists \in BOOLEAN
    BY <1>1, Quiet DEF Inv, TypeOK
  <1>3. CASE Fail
    BY <1>1, <1>3, FailStep
  <1>4. CASE Skip("metrics", {"metrics"}, "db") \/ Skip("db", {"db"}, "cache") \/ Skip("cache", {"cache"}, "s3")
               \/ Skip("s3", {"s3"}, "casdoor") \/ Skip("casdoor", CasdoorFeatures, "ready")
    <2>1. PICK p, q, fs : /\ pc = p /\ features \cap fs = {} /\ Built({}, <<>>, q)
                          /\ \/ p = "metrics" /\ q = "db" /\ fs = {"metrics"}
                             \/ p = "db" /\ q = "cache" /\ fs = {"db"}
                             \/ p = "cache" /\ q = "s3" /\ fs = {"cache"}
                             \/ p = "s3" /\ q = "casdoor" /\ fs = {"s3"}
                             \/ p = "casdoor" /\ q = "ready" /\ fs = CasdoorFeatures
      BY <1>4, Zenon DEF Skip
    <2>2. (Through(q) \ Through(p)) \cap features \subseteq {}
      BY <1>2, <2>1 DEF Through, Validate, Feature, Buildable, CasdoorFeatures, Ensuring
    <2>3. (p = "db" => "db" \notin features) /\ (p = "cache" => "cache" \notin features)
      BY <2>1
    <2>4. /\ {} \in SUBSET Feature
          /\ <<p, q>> \in {<<"metrics", "db">>, <<"db", "cache">>, <<"cache", "s3">>, <<"s3", "casdoor">>,
                           <<"bucket", "casdoor">>, <<"made", "casdoor">>, <<"casdoor", "ready">>}
      BY <2>1
    <2> QED
      BY <2>1, <2>2, <2>3, <2>4, SkipStep
  <1>5. CASE pc = "metrics" /\ Built({"metrics"}, <<>>, "db")
    <2>1. (Through("db") \ Through("metrics")) \cap features \subseteq {"metrics"} /\ {"metrics"} \in SUBSET Feature
      BY DEF Through, Feature
    <2> QED
      BY <1>5, <2>1, SkipStep
  <1>6. CASE pc \in {"s3", "bucket", "made"} /\ Built({"s3"}, <<>>, "casdoor")
    <2>1. (Through("casdoor") \ Through(pc)) \cap features \subseteq {"s3"} /\ {"s3"} \in SUBSET Feature
      BY <1>6 DEF Through, Feature, Ensuring
    <2>2. <<pc, "casdoor">> \in {<<"metrics", "db">>, <<"db", "cache">>, <<"cache", "s3">>, <<"s3", "casdoor">>,
                                 <<"bucket", "casdoor">>, <<"made", "casdoor">>, <<"casdoor", "ready">>}
      BY <1>6
    <2> QED
      BY <1>6, <2>1, <2>2, SkipStep
  <1>7. CASE pc = "casdoor" /\ Built({"authn", "authz", "audit"} \cup (features \cap {"permission"}), <<>>, "ready")
    <2> DEFINE fs == {"authn", "authz", "audit"} \cup (features \cap {"permission"})
    <2>1. (Through("ready") \ Through("casdoor")) \cap features \subseteq fs /\ fs \in SUBSET Feature
      BY <1>2 DEF Through, Feature, Buildable, Ensuring, Validate
    <2> HIDE DEF fs
    <2> QED
      BY <1>7, <2>1, SkipStep DEF fs
  <1>8. CASE \/ pc = "ping" /\ Built({"db"}, <<"db">>, "cache")
             \/ pc = "redis" /\ Built({"cache"} \cup (features \cap {"session"}), <<"redis">>, "s3")
    BY <1>8, CloserStep
  <1>9. CASE NewDatabase \/ EnsureOpen \/ EnsureQuery \/ EnsureCreate \/ GormOpen
    <2>1. ASSUME NewDatabase, ~Fail PROVE Inv'
      <3>1. PICK p \in {"ensure", "open"} : Goto(p, open) /\ World /\ pc = "db" /\ "db" \in features
        BY <2>1 DEF NewDatabase, At
      <3> QED
        BY <1>2, <3>1, WithinStep DEF World
    <2>2. ASSUME EnsureOpen \/ EnsureQuery, ~Fail PROVE Inv'
      BY <1>2, <2>2, WithinStep DEF EnsureOpen, EnsureQuery, World
    <2>3. ASSUME EnsureCreate \/ GormOpen, ~Fail PROVE Inv'
      BY <1>2, <2>3, WithinStep DEF EnsureCreate, GormOpen, World
    <2> QED
      BY <1>3, <1>9, <2>1, <2>2, <2>3
  <1>10. CASE NewRedis \/ NewMinIO \/ EnsureBucket \/ MakeBucket
    <2>1. ASSUME NewRedis, ~Fail PROVE Inv'
      BY <1>2, <2>1, WithinStep DEF NewRedis, At, World
    <2>2. ASSUME NewMinIO \/ EnsureBucket, ~Fail PROVE Inv'
      BY <1>2, <1>6, <2>2, WithinStep DEF NewMinIO, EnsureBucket, At, World
    <2>3. ASSUME MakeBucket, ~Fail PROVE Inv'
      BY <1>2, <2>3, WithinStep DEF MakeBucket
    <2> QED
      BY <1>3, <1>10, <2>1, <2>2, <2>3
  <1>11. CASE Metrics \/ PingDatabase \/ PingRedis \/ BucketMade \/ NewCasdoor
    BY <1>3, <1>5, <1>6, <1>7, <1>8, <1>11 DEF Metrics, PingDatabase, PingRedis, BucketMade, NewCasdoor, At
  <1> QED
    BY <1>4, <1>9, <1>10, <1>11 DEF Initialise

\* One closer runs: a prefix of the stack stays open.
LEMMA CloseNextStep ==
    ASSUME Inv, NEW g \in Activations, CloseNext(g)
    PROVE  Inv'
  <1> USE DEF Inv
  <1> DEFINE k == idx[g]
  <1>1. /\ open' = open \ {stack[k]} /\ idx' = [idx EXCEPT ![g] = k - 1]
        /\ UNCHANGED <<features, driver, pc, stack, fields, caller, probe, dbExists, bucketExists>>
    BY DEF CloseNext
  <1>2. k \in Nat \ {0} /\ k <= Len(stack) /\ Len(stack) \in Nat
    BY DEF CloseNext, TypeOK
  <1> HIDE DEF k
  <1>3. \A i, j \in 1..Len(stack) : stack[i] = stack[j] => i = j
    BY StackIs, StackElements
  <1>4. /\ idx' \in [Activations -> Nat] /\ idx'[g] = k - 1
        /\ \A h \in Activations : h # g => idx'[h] = idx[h]
    BY <1>1, <1>2 DEF TypeOK
  <1>5. (g = 0 /\ pc = "failing") \/ (caller[g] # "idle" /\ pc = "ready" /\ g # 0)
    BY <1>2 DEF Activity, k
  <1>6. TypeOK'
    <2>a. \A h \in Activations : idx[h] <= Len(stack)
      BY DEF TypeOK
    <2>1. \A h \in Activations : idx'[h] <= Len(stack)
      BY <1>2, <1>4, <2>a
    <2> QED
      BY <1>1, <1>4, <2>1 DEF TypeOK
  <1>7. \A m \in 0..Len(stack) : (k > m => First(m) \ {stack[k]} = First(m)) /\ (k = m => First(m) \ {stack[k]} = First(k - 1))
    BY <1>2, <1>3 DEF First
  <1>8. \A m : First(m)' = First(m)
    BY <1>1 DEF First
  <1>9. StackShape' /\ FieldShape'
    BY <1>1 DEF StackShape, FieldShape, DbPart, RedisPart, Whole, Validate, Through
  <1>10. OpenShape'
    <2>1. pc' = "failing" => open' = First(idx[0])'
      <3>1. pc = "failing" => g = 0 /\ open = First(k)
        BY <1>5 DEF OpenShape, k
      <3> QED
        BY <1>1, <1>2, <1>4, <1>7, <1>8, <3>1
    <2> QED
      BY <1>1, <1>5, <2>1 DEF OpenShape, Late
  <1>11. CleanupShape'
    <2> SUFFICES ASSUME pc = "ready"
                 PROVE  \E m \in 0..Len(stack) :
                          /\ open' = First(m)
                          /\ (\A h \in Activations : caller[h] = "idle") => m = Len(stack)
                          /\ \A h \in Activations : caller[h] # "idle" => m <= idx'[h]
      BY <1>1, <1>8 DEF CleanupShape
    <2>1. PICK m \in 0..Len(stack) :
             open = First(m) /\ \A h \in Activations : caller[h] # "idle" => m <= idx[h]
      BY DEF CleanupShape
    <2>2. caller[g] # "idle" /\ m <= k
      BY <1>5, <2>1 DEF k
    <2>3. CASE k > m
      <3>1. open' = First(m)
        BY <1>1, <1>7, <2>1, <2>3
      <3>2. \A h \in Activations : caller[h] # "idle" => m <= idx'[h]
        BY <1>2, <1>4, <2>1, <2>3
      <3> QED
        BY <2>2, <3>1, <3>2
    <2>4. CASE k = m
      <3>1. open' = First(k - 1) /\ k - 1 \in 0..Len(stack)
        BY <1>1, <1>2, <1>7, <2>1, <2>4
      <3>2. \A h \in Activations : caller[h] # "idle" => k - 1 <= idx'[h]
        BY <1>2, <1>4, <2>1, <2>4 DEF TypeOK
      <3> QED
        BY <2>2, <3>1, <3>2
    <2> QED
      BY <1>2, <2>2, <2>3, <2>4
  <1>12. Activity'
    <2>1. \A h \in Activations : idx'[h] > 0 => idx[h] > 0
      BY <1>2, <1>4 DEF k
    <2>2. \A h \in Activations : idx[h] = 0 => idx'[h] = 0
      BY <1>2, <1>4 DEF k
    <2> QED
      BY <1>1, <2>1, <2>2 DEF Activity
  <1>13. ProbeShape'
    BY <1>1 DEF ProbeShape
  <1> QED
    BY <1>6, <1>9, <1>10, <1>11, <1>12, <1>13

\* NewRuntime returns its error when its Close is done.
LEMMA FailedStep ==
    ASSUME Inv, Failed
    PROVE  Inv'
  <1> USE DEF Inv
  <1>1. /\ pc = "failing" /\ idx[0] = 0 /\ pc' = "failed"
        /\ UNCHANGED <<features, driver, open, stack, fields, idx, caller, probe, dbExists, bucketExists>>
    BY DEF Failed
  <1>2. TypeOK'
    BY <1>1 DEF TypeOK, Step
  <1>3. StackShape'
    BY <1>1 DEF StackShape, DbPart, RedisPart, Whole, Ensuring, Late
  <1>4. OpenShape'
    <2>1. First(0) = {}
      BY DEF First
    <2>2. open' = {}
      BY <1>1, <2>1 DEF OpenShape
    <2> QED
      BY <1>1, <2>2 DEF OpenShape, Late
  <1>5. CleanupShape' /\ FieldShape' /\ ProbeShape'
    BY <1>1 DEF CleanupShape, FieldShape, ProbeShape, Through, Ensuring, Over
  <1>6. Activity'
    BY <1>1 DEF Activity
  <1> QED
    BY <1>2, <1>3, <1>4, <1>5, <1>6

\* A cleanup is called; it starts at the top of the stack.
LEMMA CleanupStep ==
    ASSUME Inv, NEW g \in Activations, Cleanup(g)
    PROVE  Inv'
  <1> USE DEF Inv
  <1>1. /\ pc = "ready" /\ g # 0 /\ caller[g] = "idle"
        /\ caller' = [caller EXCEPT ![g] = "waiting"] /\ idx' = [idx EXCEPT ![g] = Len(stack)]
        /\ UNCHANGED <<features, driver, pc, open, stack, fields, probe, dbExists, bucketExists>>
    BY DEF Cleanup
  <1>2. Len(stack) \in Nat
    BY DEF TypeOK
  <1>3. /\ idx' \in [Activations -> Nat] /\ idx'[g] = Len(stack)
        /\ \A h \in Activations : h # g => idx'[h] = idx[h]
    BY <1>1, <1>2 DEF TypeOK
  <1>4. /\ caller' \in [Activations -> {"idle", "waiting", "returned", "timeout"}] /\ caller'[g] = "waiting"
        /\ \A h \in Activations : h # g => caller'[h] = caller[h]
    BY <1>1 DEF TypeOK
  <1>5. TypeOK'
    <2>1. \A h \in Activations : idx[h] <= Len(stack)
      BY DEF TypeOK
    <2>2. \A h \in Activations : idx'[h] <= Len(stack)
      BY <1>2, <1>3, <2>1
    <2> QED
      BY <1>1, <1>3, <1>4, <2>2 DEF TypeOK
  <1>6. StackShape' /\ FieldShape' /\ ProbeShape' /\ OpenShape'
    BY <1>1 DEF StackShape, FieldShape, ProbeShape, OpenShape, DbPart, RedisPart, Whole, Late, Validate, Through
  <1>7. CleanupShape'
    <2>1. PICK m \in 0..Len(stack) :
             open = First(m) /\ \A h \in Activations : caller[h] # "idle" => m <= idx[h]
      BY <1>1 DEF CleanupShape
    <2>2. open' = First(m)' /\ m \in 0..Len(stack')
      BY <1>1, <2>1 DEF First
    <2>3. \A h \in Activations : caller'[h] # "idle" => m <= idx'[h]
      BY <1>2, <1>3, <1>4, <2>1
    <2>4. ~\A h \in Activations : caller'[h] = "idle"
      BY <1>4
    <2> QED
      BY <2>2, <2>3, <2>4 DEF CleanupShape
  <1>8. Activity'
    BY <1>1, <1>3, <1>4 DEF Activity
  <1> QED
    BY <1>5, <1>6, <1>7, <1>8

\* The caller of a cleanup returns or gives up.
LEMMA CallerStep ==
    ASSUME Inv, NEW g \in Activations, CleanupReturns(g) \/ CleanupTimesOut(g)
    PROVE  Inv'
  <1> USE DEF Inv
  <1>1. PICK c \in {"returned", "timeout"} :
          /\ caller[g] = "waiting" /\ caller' = [caller EXCEPT ![g] = c] /\ (c = "returned" => idx[g] = 0)
          /\ UNCHANGED <<features, driver, pc, open, stack, fields, idx, probe, dbExists, bucketExists>>
    BY DEF CleanupReturns, CleanupTimesOut
  <1>2. /\ caller' \in [Activations -> {"idle", "waiting", "returned", "timeout"}] /\ caller'[g] = c
        /\ \A h \in Activations : h # g => caller'[h] = caller[h]
    BY <1>1 DEF TypeOK
  <1>3. TypeOK'
    BY <1>1, <1>2 DEF TypeOK
  <1>4. StackShape' /\ FieldShape' /\ ProbeShape' /\ OpenShape'
    BY <1>1 DEF StackShape, FieldShape, ProbeShape, OpenShape, DbPart, RedisPart, Whole, Late, Validate, Through, First
  <1>5. \A h \in Activations : caller'[h] = "idle" <=> caller[h] = "idle"
    BY <1>1, <1>2
  <1>6. CleanupShape'
    <2>1. \A m : First(m)' = First(m)
      BY <1>1 DEF First
    <2> QED
      BY <1>1, <1>5, <2>1 DEF CleanupShape
  <1>7. Activity'
    BY <1>1, <1>2, <1>5 DEF Activity
  <1> QED
    BY <1>3, <1>4, <1>6, <1>7

\* A health check only changes its own record.
LEMMA ProbeStep ==
    ASSUME Inv, ProbeShape', UNCHANGED <<features, driver, pc, open, stack, fields, idx, caller, dbExists, bucketExists>>
    PROVE  Inv'
  <1>1. TypeOK' /\ Activity'
    BY DEF Inv, TypeOK, Activity
  <1>2. StackShape' /\ FieldShape'
    BY DEF Inv, StackShape, FieldShape, DbPart, RedisPart, Whole, Validate, Through
  <1>3. OpenShape' /\ CleanupShape'
    BY DEF Inv, OpenShape, CleanupShape, First, Names
  <1> QED
    BY <1>1, <1>2, <1>3 DEF Inv

\* A check begins with every dependency of the runtime.
LEMMA CheckStep ==
    ASSUME Inv, Check
    PROVE  Inv'
  <1>1. /\ pc = "ready" /\ features \cap Buildable \subseteq fields /\ fields \subseteq Feature
        /\ open \subseteq Closable \cup {"maintenance"}
    BY DEF Inv, TypeOK, FieldShape, Through, Check, Ensuring
  <1>2. Dependencies(features) \subseteq Dependencies(fields) /\ Dependencies(fields) \subseteq Pinged
    BY <1>1 DEF Dependencies, Pinged, Buildable, Feature, CasdoorFeatures
  <1>3. probe' = [pc |-> "running", todo |-> Dependencies(fields), bad |-> {}, had |-> open, pinged |-> {}]
    BY DEF Check, NoProbe
  <1>4. UNCHANGED <<features, driver, pc, open, stack, fields, idx, caller, dbExists, bucketExists>>
    BY DEF Check
  <1>5. probe' \in ProbeType
    BY <1>1, <1>2, <1>3 DEF ProbeType
  <1>6. ProbeShape'
    <2>1. Dependencies(features)' = Dependencies(features)
      BY <1>4 DEF Dependencies
    <2> QED
      BY <1>1, <1>2, <1>3, <1>4, <1>5, <2>1 DEF ProbeShape
  <1> QED
    BY <1>4, <1>6, ProbeStep

\* The next dependency is one that is left.
LEMMA NextPing ==
    ASSUME NEW T \in SUBSET Pinged, T # {}
    PROVE  LET i == CHOOSE i \in DOMAIN PingOrder : /\ PingOrder[i] \in T
                                                    /\ \A j \in 1..(i - 1) : PingOrder[j] \notin T
           IN  PingOrder[i] \in T
  <1>1. /\ DOMAIN PingOrder = 1..4 /\ PingOrder[1] = "db" /\ PingOrder[2] = "redis" /\ PingOrder[3] = "s3"
        /\ PingOrder[4] = "casdoor"
    BY DEF PingOrder
  <1>2. \E i \in DOMAIN PingOrder : /\ PingOrder[i] \in T
                                    /\ \A j \in 1..(i - 1) : PingOrder[j] \notin T
    <2>1. CASE "db" \in T
      BY <1>1, <2>1
    <2>2. CASE "db" \notin T /\ "redis" \in T
      BY <1>1, <2>2
    <2>3. CASE "db" \notin T /\ "redis" \notin T /\ "s3" \in T
      BY <1>1, <2>3
    <2>4. CASE "db" \notin T /\ "redis" \notin T /\ "s3" \notin T /\ "casdoor" \in T
      BY <1>1, <2>4
    <2> QED
      BY <2>1, <2>2, <2>3, <2>4 DEF Pinged
  <1> QED
    BY <1>2

\* A ping succeeds only on what is still open.
LEMMA PingStep ==
    ASSUME Inv, Ping
    PROVE  Inv'
  <1>1. /\ probe \in ProbeType /\ probe.pc = "running" /\ probe.todo # {}
        /\ UNCHANGED <<features, driver, pc, open, stack, fields, idx, caller, dbExists, bucketExists>>
    BY DEF Inv, ProbeShape, Ping
  <1>2. PICK d \in probe.todo, ok \in BOOLEAN :
          /\ ok => d \in open \/ d \notin Closable
          /\ probe' = [probe EXCEPT !.todo = @ \ {d}, !.pinged = @ \cup {d}, !.bad = IF ok THEN @ ELSE @ \cup {d}]
    <2>1. probe.todo \in SUBSET Pinged
      BY <1>1 DEF ProbeType
    <2> QED
      BY <1>1, <2>1, NextPing DEF Ping
  <1>3. /\ probe' \in ProbeType /\ probe'.pc = "running" /\ probe'.had = probe.had
        /\ probe'.todo = probe.todo \ {d} /\ probe'.pinged = probe.pinged \cup {d}
        /\ probe'.bad = IF ok THEN probe.bad ELSE probe.bad \cup {d}
    BY <1>1, <1>2 DEF ProbeType
  <1>4. ProbeShape'
    <2>1. Dependencies(features)' = Dependencies(features)
      BY <1>1 DEF Dependencies
    <2>2. /\ pc = "ready" /\ Dependencies(features) \subseteq probe.pinged \cup probe.todo
          /\ open \subseteq probe.had /\ \A e \in probe.pinged \ probe.bad : e \in Closable => e \in probe.had
      BY <1>1 DEF Inv, ProbeShape
    <2>3. Dependencies(features) \subseteq probe'.pinged \cup probe'.todo
      BY <1>3, <2>2
    <2>4. \A e \in probe'.pinged \ probe'.bad : e \in Closable => e \in probe'.had
      BY <1>2, <1>3, <2>2
    <2> QED
      BY <1>1, <1>3, <2>1, <2>2, <2>3, <2>4 DEF ProbeShape
  <1> QED
    BY <1>1, <1>4, ProbeStep

\* Check returns when it has pinged them all.
LEMMA CheckReturnsStep ==
    ASSUME Inv, CheckReturns
    PROVE  Inv'
  <1>1. /\ probe \in ProbeType /\ probe.pc = "running" /\ probe.todo = {}
        /\ probe' = [probe EXCEPT !.pc = "done"]
        /\ UNCHANGED <<features, driver, pc, open, stack, fields, idx, caller, dbExists, bucketExists>>
    BY DEF Inv, ProbeShape, CheckReturns
  <1>2. /\ probe' \in ProbeType /\ probe'.pc = "done" /\ probe'.had = probe.had
        /\ probe'.todo = probe.todo /\ probe'.pinged = probe.pinged /\ probe'.bad = probe.bad
    BY <1>1 DEF ProbeType
  <1>3. ProbeShape'
    <2>1. Dependencies(features)' = Dependencies(features)
      BY <1>1 DEF Dependencies
    <2> QED
      BY <1>1, <1>2, <2>1 DEF Inv, ProbeShape
  <1> QED
    BY <1>1, <1>3, ProbeStep

\* What is not in service changes nothing of the invariant.
LEMMA WorldStep ==
    ASSUME Inv, UNCHANGED service, dbExists' \in BOOLEAN, bucketExists' \in BOOLEAN
    PROVE  Inv'
  <1> USE DEF service
  <1>1. TypeOK' /\ Activity'
    BY DEF Inv, TypeOK, Activity
  <1>2. StackShape' /\ FieldShape'
    BY DEF Inv, StackShape, FieldShape, DbPart, RedisPart, Whole, Validate, Through
  <1>3. OpenShape' /\ CleanupShape'
    BY DEF Inv, OpenShape, CleanupShape, First, Names
  <1>4. ProbeShape'
    BY DEF Inv, ProbeShape, Dependencies
  <1> QED
    BY <1>1, <1>2, <1>3, <1>4 DEF Inv

\* Every step preserves the invariant.
LEMMA InvStep == Inv /\ [Next]_vars => Inv'
  <1> SUFFICES ASSUME Inv, [Next]_vars PROVE Inv'
    OBVIOUS
  <1>1. ASSUME NEW f \in FeatureSets, NEW d \in Drivers, Start(f, d)
        PROVE  Inv'
    <2>1. f \in SUBSET Feature
      BY RuntimeAssumption
    <2>2. PICK p \in {"metrics", "failed"} : Fresh(f, d, p) /\ (p = "metrics" => Validate(f, d))
      BY <1>1 DEF Start
    <2> QED
      BY <2>1, <2>2, FreshStep
  <1>2. CASE Crash
    BY <1>2, FreshStep DEF Crash
  <1>3. CASE CreatedElsewhere
    <2>1. UNCHANGED service /\ dbExists' \in BOOLEAN /\ bucketExists' \in BOOLEAN
      BY <1>3 DEF CreatedElsewhere, Inv, TypeOK
    <2> QED
      BY <2>1, WorldStep
  <1>4. CASE UNCHANGED vars
    <2>1. UNCHANGED service /\ dbExists' \in BOOLEAN /\ bucketExists' \in BOOLEAN
      BY <1>4 DEF vars, Inv, TypeOK
    <2> QED
      BY <2>1, WorldStep
  <1> QED
    BY <1>1, <1>2, <1>3, <1>4, InitialiseStep, FailedStep, CloseNextStep, CleanupStep, CallerStep,
       CheckStep, PingStep, CheckReturnsStep DEF Next

\* The invariant holds throughout every behaviour.
THEOREM Invariance == Spec => []Inv
  <1>1. Init => Inv
    BY InvInit
  <1>2. Inv /\ [Next]_vars => Inv'
    BY InvStep
  <1> QED
    BY <1>1, <1>2, PTL DEF Spec

-----------------------------------------------------------------------------
(* What follows *)

\* No activation of Close reaches beyond its stack, whatever the configuration and
\* however many cleanups there are.
THEOREM TypeCorrectness == Spec => []TypeOK
  <1>1. Inv => TypeOK
    BY DEF Inv
  <1> QED
    BY <1>1, Invariance, PTL

\* A start is all or nothing, for every configuration.
THEOREM StartSafety == Spec => []StartIsWhole
  <1>1. ASSUME Inv PROVE FailedStartLeaksNothing
    <2>1. Names(stack) \subseteq Closable /\ \A m \in 0..Len(stack) : First(m) \subseteq Closable
      BY <1>1, StackIs, StackElements DEF First
    <2>2. idx[0] \in 0..Len(stack)
      BY <1>1, RuntimeAssumption DEF Inv, TypeOK, Activations
    <2>3. pc = "ready" => open \subseteq Closable
      BY <1>1, <2>1 DEF Inv, CleanupShape
    <2>4. "maintenance" \in open => pc \in {"exists", "create"}
      BY <1>1, <2>1, <2>2, <2>3 DEF Inv, OpenShape, TypeOK, Step, Late, Closable
    <2> QED
      BY <1>1, <2>4 DEF Inv, OpenShape, FailedStartLeaksNothing
  <1>2. ASSUME Inv PROVE ReadyIsComplete
    <2> SUFFICES ASSUME pc = "ready"
                 PROVE  /\ features \cap Buildable \subseteq fields
                        /\ (\A g \in Activations : caller[g] = "idle") => open = Closable \cap Dependencies(features)
      BY DEF ReadyIsComplete
    <2>1. features \cap Buildable \subseteq fields
      BY <1>2 DEF Inv, TypeOK, FieldShape, Through, Ensuring
    <2>2. stack = Whole /\ DOMAIN stack = 1..Len(stack)
      BY <1>2 DEF Inv, StackShape, TypeOK, Late
    <2>3. First(Len(stack)) = Closable \cap Dependencies(features)
      BY <2>2, NamesOf DEF First, Names
    <2> QED
      BY <1>2, <2>1, <2>3 DEF Inv, CleanupShape
  <1> QED
    BY <1>1, <1>2, Invariance, PTL DEF StartIsWhole

\* Cleanup closes everything, and the database last, however many cleanups overlap.
THEOREM CleanupSafety == Spec => []CleanupIsRight
  <1>1. ASSUME Inv PROVE CleanupIsOrdered
    <2> SUFFICES ASSUME "redis" \in open, "db" \in features
                 PROVE  "db" \in open
      BY DEF CleanupIsOrdered
    <2>1. \A m \in 0..Len(stack) : "redis" \in First(m) => "db" \in First(m)
      <3> SUFFICES ASSUME NEW m \in 0..Len(stack), "redis" \in First(m)
                   PROVE  "db" \in First(m)
        OBVIOUS
      <3>1. stack \in {<<>>, <<"db">>, <<"db", "redis">>}
        BY <1>1, Stacks DEF Inv, StackShape, TypeOK, Step, Ensuring, Late, DbPart
      <3>2. PICK i \in 1..m : stack[i] = "redis"
        BY DEF First
      <3>3. Len(stack) \in Nat /\ i \in 1..Len(stack)
        BY <1>1 DEF Inv, TypeOK
      <3>4. stack = <<"db", "redis">>
        BY <3>1, <3>2, <3>3
      <3>5. stack[1] = "db" /\ 1 \in 1..m
        BY <3>2, <3>4
      <3> QED
        BY <3>5 DEF First
    <2>2. idx[0] \in 0..Len(stack)
      BY <1>1, RuntimeAssumption DEF Inv, TypeOK, Activations
    <2>3. CASE pc = "ready"
      BY <1>1, <2>1, <2>3 DEF Inv, CleanupShape
    <2>4. CASE pc = "failing"
      BY <1>1, <2>1, <2>2, <2>4 DEF Inv, OpenShape
    <2>5. CASE pc \notin {"ready", "failing"}
      BY <1>1, <2>5, NamesOf DEF Inv, StackShape, OpenShape, TypeOK, Step, Ensuring, Late, Closable, Dependencies
    <2> QED
      BY <2>3, <2>4, <2>5
  <1>2. ASSUME Inv PROVE CleanupIsComplete
    <2> SUFFICES ASSUME NEW g \in Activations, caller[g] = "returned"
                 PROVE  open = {}
      BY DEF CleanupIsComplete
    <2>1. pc = "ready" /\ idx[g] = 0
      BY <1>2 DEF Inv, Activity
    <2>2. PICK m \in 0..Len(stack) : open = First(m) /\ m <= 0
      BY <1>2, <2>1 DEF Inv, CleanupShape
    <2> QED
      BY <2>2 DEF First
  <1> QED
    BY <1>1, <1>2, Invariance, PTL DEF CleanupIsRight

\* A healthy report means that every dependency answered and was open when it began.
THEOREM HealthSafety == Spec => []HealthyMeansServing
  <1>1. Inv => HealthyMeansServing
    BY DEF Inv, ProbeShape, HealthyMeansServing, IsHealthy
  <1> QED
    BY <1>1, Invariance, PTL
=============================================================================
