SPECIFICATION Spec
CONSTANTS
  Accounts = {a1}
  Relays = {r1}
  AnswerTTL = 2
  FailureTTL = 1
  KnownDeniedHold = 3
  CacheMax = 1
  MaxFresh = 1
  Interval = 1
  MaxLag = 1
PROPERTY DenialNotReopened
