CONSTANTS
  None = None
  Out = Out
  Pending = Pending
  Broken = Broken
  MaxTrouble = 2
  Environments <- FewEnvironments
SPECIFICATION FairSpec
CHECK_DEADLOCK FALSE
INVARIANTS
  ArmsAreFaithful
  NothingIsLeaked
  NoWorktreeUnderAnArm
  TamperingIsUndone
  OutcomeIsFaithful
PROPERTY RunEnds
