-------------------------------- MODULE OAuth --------------------------------
(***************************************************************************)
(* casdoor/oauth.go: the query of the login and the logout URL, the forms  *)
(* of the token requests, and what becomes of Casdoor's answer.            *)
(*                                                                         *)
(* url.Values is a function from keys to sequences of values, of which     *)
(* url.Values.Get, and most servers, use the first.                        *)
(***************************************************************************)
EXTENDS Strings

CONSTANTS ClientID, ClientSecret    \* of Config

\* The fields of the request types, with the configured scope beside them.
IsRequest(c) ==
    c = [f \in {"redirectURI", "scope", "defaultScope", "state", "prompt", "hint", "code", "refresh", "extra"} |-> c[f]]

NoValues == [k \in {} |-> <<>>]

Get(q, k) == IF k \in DOMAIN q THEN q[k] ELSE <<>>

\* Set with a value that is left out when it is empty.
Opt(k, v) == IF v = "" THEN NoValues ELSE [x \in {k} |-> <<v>>]

\* Mutant: Extra is written with Set.
WithExtraSet(q, extra) == Over(extra, q)

\* The loops over Extra: its values are added behind those that are there.
WithExtra(q, extra) == [k \in DOMAIN q \cup DOMAIN extra |-> Get(q, k) \o Get(extra, k)]

Refused(err) == [err |-> err, values |-> NoValues]
Built(q) == [err |-> "", values |-> q]

DefaultLoginScope == "openid profile email"

LoginScope(cfg, req) ==
    firstNonEmpty(firstNonEmpty(TrimSpace(req.scope), TrimSpace(cfg.defaultScope)), DefaultLoginScope)

LoginURL(cfg, req) ==
    IF TrimSpace(req.redirectURI) = "" THEN Refused("redirect_uri is required")
    ELSE Built(WithExtra(
            Over([client_id |-> <<ClientID>>, response_type |-> <<"code">>, redirect_uri |-> <<req.redirectURI>>,
                  scope |-> <<LoginScope(cfg, req)>>],
                 Over(Opt("state", req.state), Opt("prompt", req.prompt))), req.extra))

LogoutURL(req) ==
    Built(WithExtra(
        Over(Over(Opt("post_logout_redirect_uri", req.redirectURI), Opt("redirect_uri", req.redirectURI)),
             Over(Opt("id_token_hint", req.hint), Opt("state", req.state))), req.extra))

Credentials(grant) == [grant_type |-> <<grant>>, client_id |-> <<ClientID>>, client_secret |-> <<ClientSecret>>]

ExchangeCodeForm(req) ==
    LET err == FirstError(<< <<TrimSpace(req.code) = "", "code is required">>,
                             <<TrimSpace(req.redirectURI) = "", "redirect_uri is required">> >>)
    IN  IF err # "" THEN Refused(err)
        ELSE Built(WithExtra(Over(Credentials("authorization_code"),
                                  [code |-> <<req.code>>, redirect_uri |-> <<req.redirectURI>>]), req.extra))

RefreshTokenForm(req) ==
    IF TrimSpace(req.refresh) = "" THEN Refused("refresh_token is required")
    ELSE Built(WithExtra(Over(Credentials("refresh_token"),
                              Over([refresh_token |-> <<req.refresh>>], Opt("scope", req.scope))), req.extra))

\* Casdoor answers some failures with status 200 and an error instead of a token.
exchangeToken(resp) ==
    LET err == FirstError(<< <<~resp.sent, "transport">>, <<~resp.read, "read">>,
                             <<resp.status < 200 \/ resp.status >= 300, "status">>, <<~resp.json, "decode">>,
                             <<resp.access = "", "missing access_token">> >>)
    IN  IF err # "" THEN [err |-> err, access |-> "", type |-> ""]
        ELSE [err |-> "", access |-> resp.access, type |-> firstNonEmpty(resp.type, "Bearer")]
=============================================================================
