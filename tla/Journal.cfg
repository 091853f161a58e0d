SPECIFICATION FairSpec
CONSTANTS
  Ops = {o1, o2}
  Hashes = {h1, h2}
  Waiters = {w1}
  MaxEntries = 1
  Retention = 1
  CleanupInterval = 1
  MaxRuns = 3
  MaxTime = 2
INVARIANTS RunsOnce NeverOverlap ReplyIsOwn JournalBounded
PROPERTIES NoStaleReply WaitersAnswered MeetsContract
CHECK_DEADLOCK FALSE
