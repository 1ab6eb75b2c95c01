--------------------------- MODULE MCPureFunctions ---------------------------
(* Instances of PureFunctions for TLC. *)
EXTENDS PureFunctions, TLC

MCTrimSpace(s) == CASE s = " " -> "" [] s = " viewer " -> "viewer" [] s = " u " -> "u" [] OTHER -> s

-----------------------------------------------------------------------------
(* Permission *)

\* An application mapper that knows one role and passes custom actions on as
\* they are.
MCCustomMapper(f, res, role, custom) ==
    IF custom # <<>> THEN [actions |-> custom, err |-> ""]
    ELSE IF role = "viewer" THEN [actions |-> <<"skill.read">>, err |-> ""]
    ELSE [actions |-> <<>>, err |-> "ErrUnsupportedRole"]

MCMappers == {DefaultMapper, "AgentMapper"}

MCNames == {"", " ", "u", " u "}
MCRoles == {"", " ", "viewer", " viewer ", "owner", "admin"}
MCGrants == [subject : MCNames, subjectType : {"", " ", "user", "public"}, subjectID : MCNames,
             resource : {"", "skill:s"}, action : MCRoles, role : MCRoles,
             actions : {<<>>, <<"viewer", " viewer ", "skill.run">>, <<" ", "skill.run">>}, expires : BOOLEAN]

-----------------------------------------------------------------------------
(* Configuration: fields at depths two and three, of each type *)

Addr == <<"server", "http", "addr">>
Cache == <<"features", "cache">>
Conns == <<"database", "max_open_conns">>
Scope == <<"casdoor", "default_scope">>

MCFields == Addr :> "string" @@ Cache :> "bool" @@ Conns :> "int" @@ Scope :> "string"
MCFallbacks == Scope :> "openid profile email"

MCDefaults == Tree(Addr :> Scalar("string", "0.0.0.0:8000") @@ Cache :> Scalar("bool", "true")
                   @@ Conns :> Scalar("int", "50") @@ Scope :> Scalar("string", ""))

File(leaves) == [err |-> "", map |-> Tree(leaves)]

MCFiles == {
    [err |-> "skip", map |-> NoKeys], [err |-> "load config", map |-> NoKeys],
    File(Addr :> Scalar("string", "file")),
    File(<<"server", "http">> :> Null),
    File(<<"server">> :> Scalar("string", "file") @@ Cache :> Scalar("bool", "false")),
    File(<<"server">> :> Section @@ <<"features">> :> Null),
    File(Conns :> Scalar("int", "7") @@ Scope :> Scalar("string", "openid"))}

MCVariables == {[keys |-> Addr, val |-> "env"], [keys |-> <<"server", "http">>, val |-> "env"],
                [keys |-> Cache, val |-> "false"], [keys |-> Conns, val |-> "9"], [keys |-> Scope, val |-> ""]}
MCLoads == [files : SeqOf(MCFiles, 2), env : SeqOf(MCVariables, 2)]

-----------------------------------------------------------------------------
(* OAuth *)

MCExtra == {NoValues, "client_id" :> <<"x">>, "scope" :> <<"x", "y">> @@ "state" :> <<"x">> @@ "redirect_uri" :> <<"x">>,
            "client_secret" :> <<"x">> @@ "grant_type" :> <<"x">>, "code" :> <<"x">> @@ "refresh_token" :> <<"x">>}
MCLogins == [redirectURI : {"", " ", "u"}, scope : {"", " ", "u"}, defaultScope : {"", "u"}, state : {"", "u"},
             prompt : {"", "u"}, hint : {"", "u"}, code : {" ", "u"}, refresh : {"", "u"}, extra : MCExtra]

MCAnswers == [sent : BOOLEAN, read : BOOLEAN, status : {199, 200, 299, 300, 401}, json : BOOLEAN,
              access : {"", "t"}, type : {"", "Bearer"}]

-----------------------------------------------------------------------------
(* Pages *)

MCPages == [rows : 0..7, size : -1..5]
MCAllowed == {[k \in {} |-> ""], "name" :> "t.name", "name" :> "t.name" @@ "age" :> " "}
MCSorts == [sortBy : {"", "name", "age", "x"}, sortOrder : {"", "desc", "DESC", "x"}, sort : {"", "raw"}, allowed : MCAllowed]

-----------------------------------------------------------------------------
(* DSNs *)

Setting(k, v) == [key |-> k, val |-> v]
MCSettings == {Setting("dbname", Plain("hub")), Setting("sslmode", Plain("require")), Setting("sslmode", Plain("")),
               Setting("password", Plain("p'w")), Setting("password", Plain("pw")), Setting("password", Text(<<Word("sslmode", "x")>>)),
               Setting("options", Text(SearchPathWords("app"))), Setting("options", Plain("-e"))}
MCDsn == {d \in [form : {"url", "keyword"}, settings : SeqOf(MCSettings, 3)] :
              d.form = "url" => IsInjective([i \in DOMAIN d.settings |-> d.settings[i].key])}
MCDsns == [dsn : MCDsn, sslMode : {"", "verify-full"}, searchPath : {"", "app", "p'w"}, maintenanceDB : {" ", "admin", "p'w"}]

-----------------------------------------------------------------------------
(* Audit events *)

MCPrincipals == {Nobody, [subject |-> "alice", org |-> "o1", project |-> ""], [subject |-> "bob", org |-> "", project |-> "p"]}
MCEvents == {[ZeroEvent EXCEPT !.result = r, !.message = m, !.statusCode = c, !.startedAt = s, !.finishedAt = f,
                               !.orgID = o, !.action = a, !.operation = "op", !.duration = 9] :
                r \in {"", "success", "failed"}, m \in {"", "m"}, c \in {0, 200}, s \in {0, 2}, f \in {0, 4},
                o \in {"", "o2"}, a \in {"", "a"}}
MCAudits == [err : {"", "denied"}, principal : MCPrincipals, event : MCEvents]

MCBases == {ZeroEvent, [ZeroEvent EXCEPT !.name = <<"base">>, !.result = "success", !.statusCode = 200, !.startedAt = 1,
                                         !.duration = 3, !.actor = [subject |-> "base", org |-> "", project |-> ""]]}
MCOverrides == MCBases \cup {[ZeroEvent EXCEPT !.name = <<"over">>, !.actor = [subject |-> "over", org |-> "", project |-> ""],
                                               !.result = "failed", !.statusCode = 418, !.message = "m",
                                               !.startedAt = 2, !.finishedAt = 3, !.duration = 7, !.orgID = "o2"]}
MCMerges == [base : MCBases, override : MCOverrides, principal : MCPrincipals, err : {"", "failure"}]

-----------------------------------------------------------------------------
(* Objects, columns and certificates *)

MCReads == [offset : (-2..4) \cup {14, 15}, length : (-1..4) \cup {15}, size : 0..4, stat : {"", "NoSuchKey"}]
MCLists == [listing : SeqOf({"k"}, 3) \cup {Append(s, "error") : s \in SeqOf({"k"}, 3)}, limit : -1..4]

MCValues == [{"a", "b"} -> {ZeroValue, "v"}]
MCJsonb == {Jsonb(m, FALSE) : m \in MCValues} \cup {Jsonb(Blank, TRUE), Jsonb("a" :> "v", TRUE)}
MCColumns == [old : MCJsonb, new : MCJsonb, omitempty : BOOLEAN]

MCChunks == {Junk, Broken, Chunk("CERTIFICATE", TRUE, TRUE), Chunk("CERTIFICATE", TRUE, FALSE), Chunk("PUBLIC KEY", FALSE, FALSE),
             Chunk("RSA PUBLIC KEY", TRUE, TRUE), Chunk("RSA PRIVATE KEY", TRUE, TRUE), Chunk("DH PARAMETERS", TRUE, FALSE)}
MCTexts == [inline : SeqOf(MCChunks, 2), hasFile : BOOLEAN,
            file : {[err |-> "read", text |-> <<>>], [err |-> "", text |-> <<Chunk("PUBLIC KEY", TRUE, TRUE)>>]}]
=============================================================================
