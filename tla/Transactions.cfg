SPECIFICATION Spec
CONSTANTS
    g1 = g1
    g2 = g2
    Goroutines = {g1, g2}
    MaxTx = 2
    MaxRow = 2
    MaxDepth = 2
    PoolSizes <- MCPoolSizes
INVARIANTS
    TypeOK
    ResultIsTrue
    NoTxLeaks
PROPERTIES
    ImplementsUnitOfWork
    WithTxProceeds
