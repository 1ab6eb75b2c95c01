SPECIFICATION Spec
CONSTANTS
    c1 = c1
    c2 = c2
    Clients = {c1, c2}
    CallId <- MCCallId
    NoCall = NoCall
    NoClient = NoClient
    NoRequest = NoRequest
    Attempts = 2
    BackoffPositive = TRUE
    MaxLate = 0
    MaxOutstanding = 2
    TrimSpace <- MCTrimSpace
    CustomMapper <- MCCustomMapper
    Subjects <- MCSubjects
    Resources <- MCResources
    ActionNames <- MCActionNames
    InitPolicies <- MixedPolicies
    GrantRequests <- ReadRequests
    ShareRequests <- MCNone
    RevokeRequests <- ReadRequests
    CheckRequests <- ReadChecks
    ListFilters <- AllFilter
    DeleteRequests <- SkillDeletes
    Mappers <- MCNone
    ContextKinds = {"background"}
    HasPolicyTarget = TRUE
SYMMETRY ClientSymmetry
INVARIANTS
    ReadsAreCurrent
    DeleteIsComplete
