CONSTANTS
  Calls = {read, create}
  SafeReads = {read}
  MaxUnread = 3
SPECIFICATION FairSpec
CHECK_DEADLOCK FALSE
INVARIANTS
  PendingIsWhoWaits
  ResultIsOwn
  NothingIsReplayed
PROPERTY CallsSettle
