SPECIFICATION Spec
CONSTANTS
    f1 = f1
    f2 = f2
    c1 = c1
    c2 = c2
    Files <- MCFiles
    Contents <- MCOneBody
    NoBody = NoBody
    NoDigest = NoDigest
    NoFile = NoFile
    MaxAttempts = 1
    Remote = FALSE
    Faults <- NoFaults
INVARIANTS
    EveryBodyDigested
