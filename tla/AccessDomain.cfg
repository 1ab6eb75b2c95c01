SPECIFICATION Spec
CONSTANTS
    c1 = c1
    c2 = c2
    Clients = {c1}
    CallId <- MCCallId
    NoCall = NoCall
    NoClient = NoClient
    NoRequest = NoRequest
    Attempts = 1
    BackoffPositive = TRUE
    MaxLate = 0
    MaxOutstanding = 1
    Tokens <- OneToken
    Claims <- MCClaims
    AllowAnonymous = FALSE
    Checks <- DomainChecks
    Requests <- DomainRequests
    InitPermitted <- MCNone
    Entries = {"can", "require"}
    ContextKinds = {"live"}
    HasAuthenticator = TRUE
    HasAuthorizer = TRUE
    HasRecorder = TRUE
    HasSelector = TRUE
    AsyncLimit = 1
INVARIANT
    WholeCheckIsDecided
