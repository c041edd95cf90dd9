CONSTANTS
  c1 = c1
  c2 = c2
  k1 = k1
  Calls = {c1, c2, c3}
  Keys = {k1, c3}
  KeyOf <- SharedKey
  Sessions = {s1, s2}
  Stdio = stdio
  Limits = {1, 2}
SPECIFICATION FairSpec
CHECK_DEADLOCK FALSE
INVARIANTS
  SessionsAreExact
  NoOrphanCall
  StopsWhoWasAsked
  ClosedIsQuiet
PROPERTY ShutdownEnds
