SPECIFICATION Spec
CONSTANTS
    c1 = c1
    c2 = c2
    Clients = {c1}
    CallId <- MCCallId
    NoCall = NoCall
    NoClient = NoClient
    NoRequest = NoRequest
    Attempts = 2
    BackoffPositive = TRUE
    MaxLate = 1
    MaxOutstanding = 2
    Tokens <- MCTokens
    Claims <- MCClaims
    AllowAnonymous = FALSE
    Checks <- MCChecks
    Requests <- MCRequests
    InitPermitted <- MCNone
    Entries = {"can", "require", "audited", "record", "async"}
    ContextKinds = {"live"}
    HasAuthenticator = TRUE
    HasAuthorizer = TRUE
    HasRecorder = TRUE
    HasSelector = TRUE
    AsyncLimit = 1
INVARIANTS
    TypeOK
    GuardIsSound
    AuditTrail
