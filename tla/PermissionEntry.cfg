SPECIFICATION CallerFairSpec
CONSTANTS
    c1 = c1
    c2 = c2
    Clients = {c1}
    CallId <- MCCallId
    NoCall = NoCall
    NoClient = NoClient
    NoRequest = NoRequest
    Attempts = 2
    BackoffPositive = TRUE
    MaxLate = 1
    MaxOutstanding = 1
    TrimSpace <- MCTrimSpace
    CustomMapper <- MCCustomMapper
    Subjects <- MCSubjects
    Resources <- MCResources
    ActionNames <- MCActionNames
    InitPolicies <- MixedPolicies
    GrantRequests <- EntryGrants
    ShareRequests <- EntryShares
    RevokeRequests <- EntryRevokes
    CheckRequests <- EntryChecks
    ListFilters <- DownloadFilter
    DeleteRequests <- EntryDeletes
    Mappers <- EntryMappers
    ContextKinds = {"nil", "live", "done"}
    HasPolicyTarget = TRUE
INVARIANTS
    TypeOK
PROPERTIES
    CancelledOperationReturns
    EveryOperationReturns
