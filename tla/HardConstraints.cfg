CONSTANTS
  None = None
  Environments <- PinnedRequests
  MaxDrift = 0
  MaxTrouble = 0
SPECIFICATION Spec
INVARIANT HardConstraintsHold
