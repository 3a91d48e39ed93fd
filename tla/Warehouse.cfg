SPECIFICATION Spec
CONSTANTS
    Stations <- MCStations
    Kinds <- MCKinds
    PeriodOf <- MCPeriodOf
    Slots <- MCSlots
    Readings <- MCReadings
    NoRow = "-"
    Places <- MCPlaces
    NoPlace = "-"
    Snapshots = {"old", "new"}
    CellOf <- MCCellOf
    Hours <- MCHours
    Spans <- MCSpans
    Manifest <- MCManifest
    Requests <- MCRequests
    IngestFaults = {"database"}
    Series <- MCSeries
    PowerFaults = {"api"}
    Impossible = {"zero"}
    VerbRules <- MCVerbRules
    GateRules <- MCGateRules
    MaxEvents = 4
INVARIANTS TypeOK References OrphansClosed GateQuiet
PROPERTIES ImplementsStore CompleteMeans OnlyOldRowsReaped PowerAccounts
