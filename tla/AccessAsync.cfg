SPECIFICATION FairSpec
CONSTANTS
    c1 = c1
    c2 = c2
    Clients = {c1, c2}
    CallId <- MCCallId
    NoCall = NoCall
    NoClient = NoClient
    NoRequest = NoRequest
    Attempts = 1
    BackoffPositive = TRUE
    MaxLate = 0
    MaxOutstanding = 2
    Tokens <- OneToken
    Claims <- MCClaims
    AllowAnonymous = FALSE
    Checks <- OneCheck
    Requests <- MCNone
    InitPermitted <- MCNone
    Entries = {"audited", "async"}
    ContextKinds = {"live"}
    HasAuthenticator = TRUE
    HasAuthorizer = TRUE
    HasRecorder = TRUE
    HasSelector = TRUE
    AsyncLimit = 1
INVARIANTS
    SlotsAreHeld
PROPERTY
    AsyncReturns
