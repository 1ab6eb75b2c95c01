SPECIFICATION FairSpec
CONSTANTS
    FeatureSets <- AllFeatures
    Drivers <- AllDrivers
    AutoCreateDatabase = TRUE
    AutoCreateBucket = TRUE
    MaxCleanups = 2
INVARIANTS
    TypeOK
    HealthyMeansServing
    StartIsWhole
    CleanupIsRight
PROPERTY
    CleanupFinishes
