SPECIFICATION Spec
CONSTANTS
    MinInterval = 2
    MaxInterval = 6
    Samples <- MCSamples
    RestEveryMin = 2
    RestEveryMax = 4
    RestDurationMin = 3
    RestDurationMax = 5
    CatalogDelay = 0
    Pages = 2
    Lags <- MCLags
INVARIANTS
    NeverExceedsCap
