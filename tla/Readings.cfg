SPECIFICATION Spec
CONSTANTS
  Inputs <- MCInputs
  Pages <- MCPages
  Cases <- MCCases
  DaysInMonth = 8
  wmoMissingThreshold = 4
  wmoConsecutiveThreshold = 3
  MinReadings = 10
  Registry <- MCRegistry
  Served <- MCServed
  Requests <- MCRequests
  BatchCap <- MCBatchCap
  MaxAttempts = 4
  Jobs <- MCJobs
  Width = 2
  Workers = {w1, w2}
  Cap = 2
INVARIANT ParsedAsPublished
INVARIANT Flagged
INVARIANT FetchedWhole
INVARIANT Compared
