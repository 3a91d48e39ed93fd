SPECIFICATION Spec
CONSTANTS
    f1 = f1
    f2 = f2
    c1 = c1
    c2 = c2
    w1 = w1
    w2 = w2
    Files <- MCFiles
    Contents <- MCContents
    NoBody = NoBody
    NoDigest = NoDigest
    Workers <- MCWorkers
    Recorded <- MCRecorded
    Faults <- MCFaults
INVARIANTS
    CleanExit
    Accounted
    MirrorInv
PROPERTIES
    LandsVerified
    MirrorEnds
