SPECIFICATION FairSpec
CONSTANTS
  Accounts = {a1, a2}
  Relays = {r1}
  AnswerTTL = 1
  FailureTTL = 1
  KnownDeniedHold = 2
  CacheMax = 1
  MaxFresh = 1
  Interval = 1
  MaxLag = 0
INVARIANTS TypeOK HoldIsBounded
PROPERTIES EventuallyAdmitted
