--------------------------------- MODULE Dsn ---------------------------------
(***************************************************************************)
(* db/postgres.go: normalizePostgresDSN and postgresMaintenanceDSN, on     *)
(* DSNs in URL form and in keyword form.                                   *)
(*                                                                         *)
(* A DSN is its form and its settings, a sequence of [key, val]; in a URL  *)
(* the path is the setting dbname.  A value is a sequence of words, which  *)
(* a keyword DSN separates by blanks inside quotes, and a word has a key   *)
(* when it reads key=val itself.  level counts how often a value that      *)
(* needs escaping is escaped more than it should be.                       *)
(***************************************************************************)
EXTENDS Strings

CONSTANT Special        \* words that must be escaped

Word(key, val) == [key |-> key, val |-> val]
Text(words) == [words |-> words, level |-> 0]
Plain(val) == Text(<<Word("", val)>>)

\* What a DSN is before anything has been escaped.  A URL has each key once.
IsDsn(dsn) ==
    /\ dsn = [form |-> dsn.form, settings |-> dsn.settings]
    /\ dsn.form \in {"url", "keyword"}
    /\ dsn.settings \in Seq([key : STRING \ {""}, val : [words : Seq([key : STRING, val : STRING]), level : {0}]])
    /\ dsn.form = "url" => \A i, j \in DOMAIN dsn.settings : dsn.settings[i].key = dsn.settings[j].key => i = j

IsSpecial(v) == \E i \in DOMAIN v.words : v.words[i].val \in Special
Escape(v) == IF IsSpecial(v) THEN [v EXCEPT !.level = @ + 1] ELSE v

\* What the server is asked for: the last value of each key.
Keys(dsn) == {dsn.settings[i].key : i \in DOMAIN dsn.settings}
Meaning(dsn) ==
    [k \in Keys(dsn) |-> dsn.settings[Max({i \in DOMAIN dsn.settings : dsn.settings[i].key = k})].val]

\* url.Values.Get: an empty value counts as none.
Given(dsn, key) == key \in DOMAIN Meaning(dsn) /\ Meaning(dsn)[key] # Plain("")
Add(dsn, key, val) == [dsn EXCEPT !.settings = Append(@, [key |-> key, val |-> val])]

\* The text "key=" occurs somewhere: as a setting or inside a value.
containsKeyword(dsn, key) ==
    \E i \in DOMAIN dsn.settings :
        LET s == dsn.settings[i] IN s.key = key \/ \E j \in DOMAIN s.val.words : s.val.words[j].key = key

SearchPathWords(sp) == <<Word("", "-c"), Word("search_path", sp)>>

normalizeURL(dsn, mode, sp) ==
    LET withMode == IF Given(dsn, "sslmode") THEN dsn ELSE Add(dsn, "sslmode", Plain(mode))
        options == IF Given(dsn, "options") THEN Meaning(dsn)["options"].words ELSE <<>>
    IN  IF sp = "" \/ \E j \in DOMAIN options : options[j].key = "search_path" THEN withMode
        ELSE Add(withMode, "options", Text(options \o SearchPathWords(sp)))

\* escapeSingleQuoted doubles a quote, which a keyword DSN escapes by a backslash.
normalizeKeywords(dsn, mode, sp) ==
    LET withMode == IF containsKeyword(dsn, "sslmode") THEN dsn ELSE Add(dsn, "sslmode", Plain(mode))
    IN  IF sp = "" \/ containsKeyword(withMode, "options") \/ containsKeyword(withMode, "search_path") THEN withMode
        ELSE Add(withMode, "options", Escape(Text(SearchPathWords(sp))))

normalizePostgresDSN(dsn, sslMode, searchPath) ==
    LET mode == firstNonEmpty(sslMode, "disable")
        sp == TrimSpace(searchPath)
    IN  IF dsn.form = "url" THEN normalizeURL(dsn, mode, sp) ELSE normalizeKeywords(dsn, mode, sp)

-----------------------------------------------------------------------------
\* strings.Fields and strings.Cut know no quotes: every word of a value is a field of its
\* own, and one without "=" is dropped.  Quotes are cut off, escapes are left in.
\* Of the fields with one key, the last counts.
splitKeywordDSN(dsn) ==
    LET Words(i) == dsn.settings[i].val.words
        Places == UNION {{i} \X DOMAIN Words(i) : i \in DOMAIN dsn.settings}
        Key(f) == IF f[2] = 1 THEN dsn.settings[f[1]].key ELSE Words(f[1])[f[2]].key
        Val(f) == LET w == Words(f[1])[f[2]] IN Escape(Text(<<IF f[2] = 1 THEN w ELSE Word("", w.val)>>))
        LastAt(k) == CHOOSE f \in Places :
                      /\ Key(f) = k
                      /\ \A g \in Places : Key(g) = k => g[1] < f[1] \/ (g[1] = f[1] /\ g[2] <= f[2])
    IN  [k \in {Key(f) : f \in Places} \ {""} |-> Val(LastAt(k))]

\* quoteKeywordValue escapes what needs it: the server reads the parts as they are.
joinKeywordDSN(parts) ==
    [form |-> "keyword",
     settings |-> LET keys == SetToSeq(DOMAIN parts) IN [i \in DOMAIN keys |-> [key |-> keys[i], val |-> parts[keys[i]]]]]

\* url.PathEscape escapes the name, and u.String() escapes the path once more.
replaceName(dsn, name) ==
    [dsn EXCEPT !.settings = [i \in DOMAIN @ |->
        IF @[i].key = "dbname" THEN [@[i] EXCEPT !.val = Escape(Plain(name))] ELSE @[i]]]

\* Mutant: only the name is passed on.
maintenanceKeywordsBare(dsn, name) == [form |-> "keyword", settings |-> <<[key |-> "dbname", val |-> Plain(name)]>>]

maintenanceKeywords(dsn, name) == joinKeywordDSN([splitKeywordDSN(dsn) EXCEPT !["dbname"] = Plain(name)])

postgresMaintenanceDSN(dsn, maintenanceDB) ==
    LET name == firstNonEmpty(TrimSpace(maintenanceDB), "postgres")
        parts == IF dsn.form = "url" THEN Meaning(dsn) ELSE splitKeywordDSN(dsn)
    IN  IF "dbname" \notin DOMAIN parts \/ parts["dbname"] = Plain("")
        THEN [err |-> "dsn must include a database name", target |-> Plain(""), dsn |-> dsn]
        ELSE [err |-> "", target |-> parts["dbname"],
              dsn |-> IF dsn.form = "url" THEN replaceName(dsn, name) ELSE maintenanceKeywords(dsn, name)]
=============================================================================
