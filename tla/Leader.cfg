SPECIFICATION FairSpec
CONSTANTS
  Instances = {a, b}
  Workers = {w1}
  Check = 2
  Timeout = 2
  MaxFaults = 1
INVARIANTS OverlapNeedsLoss RowNamesLeader TermEndsInTime
PROPERTY LeaderAgain
