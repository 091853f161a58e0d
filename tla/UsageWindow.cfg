SPECIFICATION FairSpec
CONSTANTS
  Flows = {f1}
  DeliveryWindow = 1
  MaxReports = 2
  MaxCounter = 2
  LiveRevisions = {1}
  Legacy = FALSE
  MaxEpoch = 2
  MaxTime = 2
  MaxRecorded = 1
INVARIANTS NeverOverBilled CounterNeverRestarts
PROPERTY EventuallyDelivered
CHECK_DEADLOCK FALSE
