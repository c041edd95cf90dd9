CONSTANTS
  Edits <- MCEdits
  Kind <- MCKind
  MaxEdits = 3
  MaxFaults = 2
SPECIFICATION Spec
CHECK_DEADLOCK FALSE
INVARIANTS
  AppliedClaimIsTrue
  CommittedIsVerified
  RolledBackIsExact
  RecoveryIsKept
