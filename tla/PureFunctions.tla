---------------------------- MODULE PureFunctions ----------------------------
(***************************************************************************)
(* The functions of the library that keep no state, over every argument    *)
(* built from a few values: kind says which function is asked, and call    *)
(* holds its arguments.  The one thing that changes is the role mapper.    *)
(***************************************************************************)
EXTENDS Permission, ConfigLoad, OAuth, Paging, Dsn, AuditEvent, ObjectReads, Column, Certificate

CONSTANTS
    Grants,                     \* requests of package permission
    Mappers,                    \* mappers the application may install
    Loads,                      \* config files with environment variables
    Logins, Answers,            \* OAuth requests and answers to a token request
    Pages, Sorts,               \* page sizes with a number of rows; orders with an allowlist
    Dsns,                       \* DSNs with the configuration beside them
    Audits, Merges,             \* decisions with the event to record; pairs of events
    Reads, Lists,               \* ranges and listings
    Columns, Texts              \* columns with a variable to scan into; PEM texts

(***************************************************************************)
(* The arguments have the types of the parameters, as far as a theorem     *)
(* needs them.  TrimSpace is only known on the strings in use.             *)
(***************************************************************************)
Names(g) == {g.subject, g.action, g.role, Subject(g.subjectType, g.subjectID)} \cup Range(g.actions)

ASSUME GrantAssumption ==
    /\ \A s \in Range(OwnerActions) \cup {""} : TrimSpace(s) = s
    /\ \A g \in Grants : IsGrant(g) /\ \A s \in Names(g) : TrimSpace(TrimSpace(s)) = TrimSpace(s)

ASSUME LoadAssumption ==
    /\ Fields \in [DOMAIN Fields -> {"string", "bool", "int"}] /\ DOMAIN Fields \subseteq Seq(STRING)
    /\ IsTree(Defaults)
    /\ \A l \in Loads :
          /\ l.files \in Seq(Range(l.files)) /\ \A i \in DOMAIN l.files : IsTree(l.files[i].map)
          /\ l.env \in Seq([keys : Seq(STRING) \ {<<>>}, val : STRING])

ASSUME PageAssumption == Pages \subseteq [rows : Nat, size : Int]

ASSUME DsnAssumption == \A d \in Dsns : IsDsn(d.dsn)

ASSUME EventAssumption ==
    /\ \A a \in Audits : IsEvent(a.event)
    /\ \A m \in Merges : IsEvent(m.base) /\ IsEvent(m.override)

ASSUME StoreAssumption ==
    /\ Reads \subseteq [offset : (-Half)..MaxInt, length : (-Half)..MaxInt, size : Nat, stat : STRING]
    /\ \A l \in Lists : /\ l.listing \in Seq(STRING) /\ l.limit \in Int
                       /\ \A i \in 1..(Len(l.listing) - 1) : l.listing[i] # "error"
    /\ \A c \in Columns : IsJsonb(c.old) /\ IsJsonb(c.new) /\ c.omitempty \in BOOLEAN

ASSUME LoginAssumption ==
    /\ \A l \in Logins : IsRequest(l) /\ \A k \in DOMAIN l.extra : l.extra[k] \in Seq(STRING)
    /\ \A a \in Answers : a.status \in Int
    /\ \A t \in Texts : t.inline \in Seq(Chunks) /\ t.file.text \in Seq(Chunks)

VARIABLES fn, kind, call

Ask(k, S) == kind = k /\ call \in S

Init ==
    /\ fn = DefaultMapper
    /\ \/ Ask("grant", Grants)
       \/ Ask("load", Loads)
       \/ Ask("login", Logins) \/ Ask("answer", Answers)
       \/ Ask("page", Pages) \/ Ask("sort", Sorts)
       \/ Ask("dsn", Dsns)
       \/ Ask("audit", Audits) \/ Ask("merge", Merges)
       \/ Ask("read", Reads) \/ Ask("list", Lists)
       \/ Ask("column", Columns)
       \/ Ask("cert", Texts)

SetRoleActionMapper(f) == fn' = f /\ UNCHANGED <<kind, call>>

Next == \E f \in Mappers : SetRoleActionMapper(f)

Spec == Init /\ [][Next]_<<fn, kind, call>>

-----------------------------------------------------------------------------
(* Permission *)

\* The share request with the same fields.
ShareOf(g) == [subjectType |-> g.subjectType, subjectID |-> g.subjectID, resource |-> g.resource,
               role |-> g.role, actions |-> g.actions, expires |-> g.expires]

(***************************************************************************)
(* Revoke undoes Grant: under one mapper both come down to the same rules, *)
(* or to the same error, although Grant takes the way through GrantRole    *)
(* (and normalises twice) and Revoke expands the role itself.              *)
(***************************************************************************)
RevokeMirrorsGrant == kind = "grant" => GrantActions(fn, call) = RevokeActions(fn, call)

(***************************************************************************)
(* A share that is accepted is the role grant to the subject it names: the *)
(* checks of NormalizeShare, on raw fields, let nothing through that the   *)
(* grant's own checks, on trimmed fields, would refuse.                    *)
(***************************************************************************)
ShareIsRoleGrant ==
    kind = "grant" =>
        LET s == ShareActions(fn, ShareOf(call))
            g == GrantRoleActions(fn, [call EXCEPT !.subject = "", !.action = ""])
        IN  /\ s.err = "" => s = g
            /\ g.err = "" /\ call.subjectType # "" /\ (call.subjectType = "public" \/ call.subjectID # "")
                  => s = g

(***************************************************************************)
(* What an accepted request sends to Casdoor: a subject without padding,   *)
(* and under the default mapper no blank action and none twice, so that    *)
(* the loop over actions makes no call in vain.                            *)
(***************************************************************************)
CleanExpansion ==
    kind = "grant" =>
        \A e \in {GrantActions(fn, call), GrantRoleActions(fn, call), RevokeActions(fn, call)} :
            e.err = "" =>
                /\ e.subject # "" /\ e.subject = TrimSpace(e.subject)
                /\ fn = DefaultMapper =>
                      /\ IsInjective(e.actions)
                      /\ \A a \in Range(e.actions) : a # "" /\ a = TrimSpace(a)

(***************************************************************************)
(* The entry points of the permission manager agree: Grant, GrantRole,     *)
(* Share and Revoke of one request come down to the same rules, without    *)
(* padding, blanks and repetitions, or to the same error.                  *)
(***************************************************************************)
EntryPointsAgree == RevokeMirrorsGrant /\ ShareIsRoleGrant /\ CleanExpansion

-----------------------------------------------------------------------------
(* Configuration *)

\* The map of maps with these leaves, and the one that a variable stands for.
Tree(leaves) ==
    [p \in DOMAIN leaves \cup UNION {Above(q) : q \in DOMAIN leaves} |->
        IF p \in DOMAIN leaves THEN leaves[p] ELSE Section]
Variable(kv) == Tree([p \in {kv.keys} |-> Scalar("string", kv.val)])

\* The maps that count, the weakest first: the defaults, the files, the variables.
Places == 0..(Len(call.files) + Len(call.env))
Source(n) ==
    IF n = 0 THEN Defaults
    ELSE IF n > Len(call.files) THEN Variable(call.env[n - Len(call.files)])
    ELSE IF call.files[n].err = "skip" THEN NoKeys ELSE call.files[n].map

\* What stands at a path, if anything; a map also speaks of the paths that it cuts off.
At(m, p) == {m[q] : q \in {p} \cap DOMAIN m}
Speaks(m, p) == p \in DOMAIN m \/ \E q \in Above(p) : q \in DOMAIN m /\ m[q] # Section

\* What the last source that speaks of a path puts there.
IsLastWord(n, p) == Speaks(Source(n), p) /\ \A k \in Places : Speaks(Source(k), p) => k <= n
LastWord(p) == UNION {At(Source(n), p) : n \in {k \in Places : IsLastWord(k, p)}}

(***************************************************************************)
(* The order of Load: at every path of the merged configuration stands     *)
(* what the last of defaults, files and variables says of it, variables    *)
(* after files.  A section that a later source sets to null, or to a text, *)
(* takes its defaults with it, even if a third source opens it again.  The *)
(* result is a map of maps again.                                          *)
(***************************************************************************)
LastSourceWins ==
    kind = "load" =>
        LET merged == applyEnv(readFiles(call.files), call.env)
        IN  IsTree(merged) /\ \A p \in DOMAIN Fields : \A q \in Above(p) \cup {p} : At(merged, q) = LastWord(q)

(***************************************************************************)
(* No override is ignored: when Load succeeds, every file was read, and a  *)
(* field has the value that the last source gave it, or none if that was   *)
(* null; a value of another type, as every variable for a bool or an int   *)
(* is, makes Load fail.                                                    *)
(***************************************************************************)
OverrideIsSeen ==
    kind = "load" =>
        LET r == Load(call.files, call.env)
        IN  r.err = "" =>
                /\ \A i \in DOMAIN call.files : call.files[i].err \in {"", "skip"}
                /\ \A p \in DOMAIN Fields :
                      /\ \A a \in LastWord(p) : a.type # "null" => a.type = Fields[p] /\ r.cfg[p] = OrFallback(p, a.val)
                      /\ (\A a \in LastWord(p) : a.type = "null") => r.cfg[p] = OrFallback(p, Zero(Fields[p]))

(***************************************************************************)
(* Load is faithful to its sources, from the merged map to the decoded     *)
(* fields.                                                                 *)
(***************************************************************************)
LoadIsFaithful == LastSourceWins /\ OverrideIsSeen

-----------------------------------------------------------------------------
(* OAuth *)

RequestOf(r, c) ==
    CASE r = "login" -> LoginURL(c, c) [] r = "logout" -> LogoutURL(c)
      [] r = "exchange" -> ExchangeCodeForm(c) [] r = "refresh" -> RefreshTokenForm(c)

EndsIn(s, t) == s = SubSeq(s, 1, Len(s) - Len(t)) \o t

(***************************************************************************)
(* Extra parameters never take the place of those that the library sets:   *)
(* without them the request would have the same first values and the same  *)
(* error, and none of them is lost.                                        *)
(***************************************************************************)
ExtraNeverOverrides ==
    kind = "login" =>
        \A r \in {"login", "logout", "exchange", "refresh"} :
            LET with == RequestOf(r, call)
                without == RequestOf(r, [call EXCEPT !.extra = NoValues])
            IN  /\ with.err = without.err
                /\ \A k \in DOMAIN without.values : Head(with.values[k]) = Head(without.values[k])
                /\ with.err = "" => \A k \in DOMAIN call.extra : EndsIn(with.values[k], call.extra[k])

(***************************************************************************)
(* A token response without an error holds an access token and its type:   *)
(* an OAuth error that arrives with status 200 is no login.                *)
(***************************************************************************)
TokensAreUsable ==
    kind = "answer" =>
        LET t == exchangeToken(call)
        IN  t.err = "" => t.access # "" /\ t.type # "" /\ call.status \in 200..299

-----------------------------------------------------------------------------
(* Pages *)

(***************************************************************************)
(* Row i of a table is on page ceil(i / size) and on no other, and page    *)
(* sizes are between 1 and the maximum, as long as (Page - 1) * PageSize   *)
(* fits an int; page numbers below 1 are the first page.                   *)
(***************************************************************************)
RowOnItsPage ==
    kind = "page" =>
        \A page \in -1..MaxInt :
            LET r == Paginate(call.rows, call.rows, [page |-> page, size |-> call.size])
            IN  /\ r.size \in 1..MaxSize
                /\ (r.page - 1) * r.size <= MaxInt =>
                      r.items = {i \in 1..call.rows : r.page = (i + r.size - 1) \div r.size}

(***************************************************************************)
(* With an allowlist the order is one of its columns, ascending unless     *)
(* desc is asked for, or none: the raw Sort of the request never gets      *)
(* through.                                                                *)
(***************************************************************************)
SortIsAllowed ==
    kind = "sort" /\ DOMAIN call.allowed # {} =>
        LET o == ApplySort(call, call.allowed)
        IN  o # <<>> => o[1] \in Range(call.allowed) /\ (o[2] = "desc") = (call.sortOrder \in {"desc", "DESC"})

(***************************************************************************)
(* Paginate and PaginateSafe return the rows of the page that was asked    *)
(* for, in an order that is allowed.                                       *)
(***************************************************************************)
PagesAreRight == RowOnItsPage /\ SortIsAllowed

-----------------------------------------------------------------------------
(* DSNs *)

\* A value that the maintenance DSN does not take over.
Overwritten(dsn, i) ==
    LET s == dsn.settings IN s[i].key = "dbname" \/ \E j \in DOMAIN s : i < j /\ s[j].key = s[i].key

\* Keyword DSNs on which splitKeywordDSN does no harm: no blank and no escape in a value, and
\* no text "sslmode=" in a value that is dropped.
Tame(dsn) ==
    \/ dsn.form = "url"
    \/ \A i \in DOMAIN dsn.settings :
          LET v == dsn.settings[i].val
          IN  Len(v.words) = 1 /\ ~IsSpecial(v) /\ (Overwritten(dsn, i) => v.words[1].key # "sslmode")

Normalized(dsn, sp) == Meaning(normalizePostgresDSN(dsn, call.sslMode, sp))

(***************************************************************************)
(* normalizePostgresDSN changes nothing that the DSN says and is done      *)
(* after one time; sslmode is set, unless a value of a keyword DSN holds   *)
(* that text, and so is the search path, except that a keyword DSN with    *)
(* options of its own is left without it.                                  *)
(***************************************************************************)
NormalizeOnlyAdds ==
    kind = "dsn" =>
        LET n == normalizePostgresDSN(call.dsn, call.sslMode, call.searchPath)
        IN  /\ \A k \in DOMAIN Meaning(call.dsn) \ {"options"} : Given(call.dsn, k) => Meaning(n)[k] = Meaning(call.dsn)[k]
            /\ Normalized(n, call.searchPath) = Meaning(n)
            /\ Given(n, "sslmode") \/ (call.dsn.form = "keyword" /\ containsKeyword(call.dsn, "sslmode"))
            /\ TrimSpace(call.searchPath) # "" =>
                  \/ containsKeyword(n, "search_path")
                  \/ call.dsn.form = "keyword" /\ containsKeyword(call.dsn, "options")

(***************************************************************************)
(* The connection that creates the database differs from the one that uses *)
(* it in the database name alone, sslmode and password included, for every *)
(* URL and for keyword DSNs without blanks and escapes in which no dropped *)
(* value holds the text "sslmode="; and the database it creates is the one *)
(* that the DSN names.                                                     *)
(***************************************************************************)
MaintenanceKeepsSettings ==
    kind = "dsn" =>
        LET m == postgresMaintenanceDSN(call.dsn, call.maintenanceDB)
            name == firstNonEmpty(TrimSpace(call.maintenanceDB), "postgres")
        IN  m.err = "" /\ Tame(call.dsn) =>
                /\ m.target = Meaning(call.dsn)["dbname"]
                /\ name \notin Special =>
                      Normalized(m.dsn, "") = [Normalized(call.dsn, "") EXCEPT !["dbname"] = Plain(name)]

(***************************************************************************)
(* Rewriting a DSN loses none of its settings, for the pool of the service *)
(* and for the one that creates the database.                              *)
(***************************************************************************)
DsnKeepsSettings == NormalizeOnlyAdds /\ MaintenanceKeepsSettings

-----------------------------------------------------------------------------
(* Audit events *)

(***************************************************************************)
(* The record that RequireAndAudit sends tells what was decided and about  *)
(* whom, whatever the caller filled in: a denial is failed and has the     *)
(* reason, with 403 unless the caller chose a code; the user is the        *)
(* principal of the context, and the duration fits the times.              *)
(***************************************************************************)
AuditTellsOutcome ==
    kind = "audit" =>
        LET r == CasdoorRecord(GuardEvent(call.principal, AuditedEvent(call.err, call.event)))
            e == r.object
        IN  /\ call.err # "" => e.result = "failed" /\ r.response # ""
            /\ call.event.statusCode = 0 => r.statusCode = IF call.err # "" THEN 403 ELSE 200
            /\ call.event.result = "" => (e.result = "success") = (call.err = "")
            /\ r.user = IF call.principal = Nobody THEN "anonymous" ELSE call.principal.subject
            /\ e.duration = e.finishedAt - e.startedAt /\ e.startedAt # 0 /\ e.finishedAt # 0
            /\ e.name # <<>> /\ e.component = firstNonEmpty(call.event.component, GuardComponent)

(***************************************************************************)
(* Merge and then Normalize, the way of an event with a Resolver: every    *)
(* field that the override sets arrives, with two exceptions: the actor is *)
(* the principal of the context, and the duration that of the times.       *)
(***************************************************************************)
ResolverWins ==
    kind = "merge" =>
        LET e == Normalize(call.principal, Merge(call.base, call.override), call.err)
        IN  \A f \in DOMAIN e \ {"duration"} :
                call.override[f] # ZeroEvent[f] => \/ e[f] = call.override[f]
                                                   \/ f = "actor" /\ e[f] = call.principal /\ call.principal # Nobody

(***************************************************************************)
(* An audit event arrives as it was decided and filled in, though four     *)
(* functions after each other complete it.                                 *)
(***************************************************************************)
EventIsTruthful == AuditTellsOutcome /\ ResolverWins

-----------------------------------------------------------------------------
(* Objects, columns and certificates *)

\* The bytes that a caller of GetObject asks for: Length from Offset, or all from there.
AskedBytes(c) ==
    {i \in 0..(c.size - 1) : i >= c.offset /\ (c.length > 0 => i < c.offset + c.length)}

(***************************************************************************)
(* GetObject hands out a reader only after Stat has answered: a range that *)
(* is refused (a length with a negative offset, or with an end beyond the  *)
(* largest int64) and a Stat that fails are errors without a reader, and   *)
(* nothing else is.  Size counts the bytes that the reader yields: those   *)
(* that were asked for are among them, and, since Stat comes before the    *)
(* first read, so are all the others of the object.                        *)
(***************************************************************************)
ReadIsStated ==
    kind = "read" =>
        LET r == GetObject(call.offset, call.length, call.size, call.stat)
            refused == call.length > 0 /\ (call.offset < 0 \/ call.offset + call.length - 1 > MaxInt)
        IN  IF refused \/ call.stat # ""
            THEN r = Failed(IF refused THEN "invalid range" ELSE call.stat)
            ELSE r.err = "" /\ r.size = call.size /\ r.bytes = 0..(r.size - 1) /\ AskedBytes(call) \subseteq r.bytes

\* A listing that ends in an error.
Ended(listing) == listing # <<>> /\ listing[Len(listing)] = "error"

(***************************************************************************)
(* ListObjects returns the listing up to the limit; an error counts only   *)
(* when it comes before the limit is reached, and items that are left over *)
(* in minio-go's channel mean that the limit was reached.                  *)
(***************************************************************************)
ListIsPrefix ==
    kind = "list" =>
        LET r == ListObjects(call.listing, call.limit)
            ended == Ended(call.listing)
            keys == IF ended THEN Len(call.listing) - 1 ELSE Len(call.listing)
            short == call.limit <= 0 \/ keys < call.limit
        IN  /\ r.err # "" <=> (short /\ ended)
            /\ r.err = "" => r.items = SubSeq(call.listing, 1, IF short THEN keys ELSE call.limit)
            /\ r.left > 0 => ~short

(***************************************************************************)
(* A column survives the way to the database and back, and the way through *)
(* JSON, into a new variable; into a variable that held another row it     *)
(* does when T writes all of its fields, and NULL never leaves data of the *)
(* row before.                                                             *)
(***************************************************************************)
ColumnRoundTrip ==
    kind = "column" =>
        LET stored == Value(call.new, call.omitempty)
            same == IF call.new.null THEN Empty ELSE call.new
        IN  /\ Scan(Jsonb(Blank, FALSE), stored) = [err |-> "", j |-> same]
            /\ UnmarshalJSON(Jsonb(Blank, FALSE), MarshalJSON(call.new, call.omitempty)) = [err |-> "", j |-> same]
            /\ call.new.null \/ ~call.omitempty => Scan(call.old, stored).j = same
            /\ MustGet(Scan(call.old, stored).j).err = "" <=> ~call.new.null

(***************************************************************************)
(* What is stored is read as it is: objects and listings of the object     *)
(* store, and JSON columns.                                                *)
(***************************************************************************)
StoredIsRead == ReadIsStated /\ ListIsPrefix /\ ColumnRoundTrip

(***************************************************************************)
(* A certificate that is accepted holds one readable PEM block, and that   *)
(* is a public RSA key: a private key is never accepted, before or behind  *)
(* a public one either, and the file never when there is an inline text.   *)
(***************************************************************************)
CertificateIsPublic ==
    kind = "cert" =>
        LET c == NormalizedCertificate(call.inline, call.hasFile, call.file)
        IN  c.err = "" =>
                /\ c.text = IF call.inline # <<>> THEN call.inline ELSE call.file.text
                /\ Cardinality(Blocks(c.text)) = 1
                /\ \A i \in Blocks(c.text) :
                      c.text[i].rsa /\ c.text[i].type \in {"CERTIFICATE", "PUBLIC KEY", "RSA PUBLIC KEY"}

(***************************************************************************)
(* A login is genuine: its requests carry the library's own parameters     *)
(* first, its answer holds a token, and tokens are verified with a public  *)
(* key.                                                                    *)
(***************************************************************************)
LoginIsGenuine == ExtraNeverOverrides /\ TokensAreUsable /\ CertificateIsPublic
=============================================================================
