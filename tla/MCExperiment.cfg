CONSTANTS
  p1 = p1
  p2 = p2
  Procs = {p1, p2}
  Assignments = {1, 2, 3, 4}
  Schedule <- OneBlock
  Surfaces = {"codex", "chatgpt-work"}
  Catalogs = {"c1", "c2"}
  Quotas = {0, 5}
  QuotaTolerance = 2
  RequireBothVerified = TRUE
  SavingsThreshold = 0
  Bundles <- FewBundles
  Logs = {o1}
  LockAttempts = 2
  None = None
  MaxTrouble = 1
  Environments <- FewEnvironments
SPECIFICATION Spec
SYMMETRY Symmetry
CHECK_DEADLOCK FALSE
INVARIANTS
  OneTurnPerAssignment
  PreregisteredOrder
  TurnsAreOnRecord
  ClaimIsClean
  LockIsSound
