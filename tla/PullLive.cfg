SPECIFICATION LiveSpec
CONSTANTS
    f1 = f1
    f2 = f2
    c1 = c1
    Files <- MCFiles
    Contents <- MCContents
    NoBody = NoBody
    NoDigest = NoDigest
    NoFile = NoFile
    MaxAttempts = 2
    Remote = FALSE
    Faults <- LiveFaults
    MaxInterrupts = 1
PROPERTIES
    RunTerminates
    Converges
