SPECIFICATION Spec
CONSTANTS
    f1 = f1
    f2 = f2
    c1 = c1
    c2 = c2
    Files <- MCFiles
    Contents <- MCContents
    NoBody = NoBody
    NoDigest = NoDigest
    NoFile = NoFile
    MaxAttempts = 2
    Remote = FALSE
    Faults <- LocalFaults
SYMMETRY Symmetry
INVARIANTS
    TypeOK
    RecordsHonest
    NoRefetch
    NoCasualtyRecorded
    ExitSaved
    CompletionSettles
PROPERTIES
    VerdictsFinal
    BodiesWriteOnce
