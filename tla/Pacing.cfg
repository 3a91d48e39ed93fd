SPECIFICATION Spec
CONSTANTS
    MinInterval = 2
    MaxInterval = 1
    Samples <- MCSamples
    RestEveryMin = 2
    RestEveryMax = 4
    RestDurationMin = 3
    RestDurationMax = 5
    CatalogDelay = 3
    Pages = 2
    Lags <- MCLags
INVARIANTS
    NeverExceedsCap
    RestsComeInTime
    PacingInv
PROPERTIES
    RestsAsAnnounced
