SPECIFICATION Spec
CONSTANTS
    c1 = c1
    c2 = c2
    login = login
    link = link
    Mark = Mark
    Clients = {c1, c2}
    Values <- MCValues
    NoValue = NoValue
    MaxRetries = 1
    MaxLate = 1
    Subjects <- MCSubjects
    StateTTL = 2
    RevokeTTLs <- MCRevokeTTLs
    RevokeDefault = 2
    MaxVersion = 2
    Undecodable = Undecodable
    TTL = 2
SYMMETRY ClientSymmetry
INVARIANTS
    TypeOK
    AcceptedOnce
    MismatchIsRight
    RevokedIsSeen
    ReadsFollowWrites
