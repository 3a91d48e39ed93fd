SPECIFICATION Spec
CONSTANTS
    StateOrder <- MCStateOrder
    Views <- MCViews
    DocsFiles <- MCDocsFiles
    Requests <- MCRequests
    MaxTopLevelFiles = 100
    MaxEvents = 3
INVARIANTS TypeOK CopiesAgree WholeCountry
PROPERTIES Vouched SealLast
