SPECIFICATION Spec
CONSTANTS
  NULL = NULL
  MaxAddress = 4
  MaxQueries = 2
  MaxRows = 2
  MaxStatus = 2
  MaxCalls = 3
  MaxBreaks = 1
INVARIANTS ReferencesExact OpenResultsOwned RowsComplete AbortedUnreadable ClosedHoldsNothing
