SPECIFICATION Spec
CONSTANTS
    TrimSpace <- MCTrimSpace
    CustomMapper <- MCCustomMapper
    Grants <- MCGrants
    Mappers <- MCMappers
    Fields <- MCFields
    Defaults <- MCDefaults
    Fallbacks <- MCFallbacks
    Loads <- MCLoads
    ClientID = "client"
    ClientSecret = "secret"
    Logins <- MCLogins
    Answers <- MCAnswers
    Half = 16
    DefaultSize = 2
    MaxSize = 4
    Pages <- MCPages
    Sorts <- MCSorts
    Special = {"p'w"}
    Dsns <- MCDsns
    Now = 5
    GuardComponent = "guard"
    Organization = "org"
    Audits <- MCAudits
    Merges <- MCMerges
    Reads <- MCReads
    Lists <- MCLists
    FieldNames = {"a", "b"}
    ZeroValue = "zero"
    Columns <- MCColumns
    Texts <- MCTexts
INVARIANTS
    EntryPointsAgree
    LoadIsFaithful
    PagesAreRight
    DsnKeepsSettings
    EventIsTruthful
    
    LoginIsGenuine
