SPECIFICATION FairSpec
CONSTANTS
  Releases = {r1}
  Closers = {c1, c2}
  Watchers = {w1}
  MaxChanges = 2
INVARIANTS CloseJoins ReleasedOnce NothingMissed
PROPERTIES MeetsContract ReleasesRun WithdrawalEndsLease WaitsEnd
CHECK_DEADLOCK FALSE
