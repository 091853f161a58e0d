SPECIFICATION FairSpec
INVARIANTS AcceptedIsFree AcceptedInTime
PROPERTY SetupBounded
CHECK_DEADLOCK FALSE
