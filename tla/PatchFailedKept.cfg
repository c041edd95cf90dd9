CONSTANTS
  Edits <- MCEdits
  Kind <- MCKind
  MaxEdits = 0
  MaxFaults = 1
SPECIFICATION Spec
CHECK_DEADLOCK FALSE
INVARIANT FailedRunsAreKept
