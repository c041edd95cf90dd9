CONSTANTS
  Turns = {t1, t2}
  None = None
  MaxBuffered = 1
  MaxWire = 3
  MaxChatter = 1
  MaxFaults = 1
SPECIFICATION FairSpec
CHECK_DEADLOCK FALSE
INVARIANTS
  NoOrphanTurn
  CompletedIsOwn
  ResultIsJustified
  AbortReachesTurn
PROPERTY RunTurnEnds
