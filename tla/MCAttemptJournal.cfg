CONSTANT Runs = {r1, r2}
SPECIFICATION Spec
SYMMETRY Symmetry
CHECK_DEADLOCK FALSE
INVARIANTS
  WriteAhead
  TerminalRecordIsSettled
  AdmittedOverSettledRecords
  VerifiedIsEarned
  LocksAreReleased
PROPERTY ImplementsLedger
