CONSTANTS
  p1 = p1
  p2 = p2
  None = None
  Procs = {p1}
  Assignments = {1, 2, 3, 4}
  Schedule <- OneBlock
  Surfaces = {"codex", "chatgpt-work"}
  Catalogs = {"c1", "c2"}
  Quotas = {0, 5}
  QuotaTolerance = 2
  RequireBothVerified = TRUE
  SavingsThreshold = 0
  Environments <- FewEnvironments
  Bundles <- FewBundles
  Logs = {o1, o2}
  LockAttempts = 3
  MaxTrouble = 0
SPECIFICATION Spec
INVARIANT RecordedArtifactsStand
CHECK_DEADLOCK FALSE
