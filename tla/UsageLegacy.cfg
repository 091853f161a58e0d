SPECIFICATION Spec
CONSTANTS
  Flows = {f1}
  DeliveryWindow = 1
  MaxReports = 2
  MaxCounter = 2
  LiveRevisions = {1, 2}
  Legacy = TRUE
  MaxEpoch = 2
  MaxTime = 0
  MaxRecorded = 3
INVARIANTS FlushedNeverLost CounterNeverRestarts
PROPERTY MeetsLedger
CHECK_DEADLOCK FALSE
