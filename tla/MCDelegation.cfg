CONSTANTS
  None = None
  Environments <- AllRequests
  MaxDrift = 3
  MaxTrouble = 1
SPECIFICATION FairSpec
INVARIANTS ReadyExecutes SpendIsAuthorized CertifiedIsCurrent SpendOnce
PROPERTY DelegationEnds
