SPECIFICATION Spec
CONSTANTS
  Flows = {f1}
  DeliveryWindow = 1
  MaxReports = 2
  MaxCounter = 2
  LiveRevisions = {1}
  Legacy = FALSE
  MaxEpoch = 2
  MaxTime = 0
  MaxRecorded = 2
INVARIANT BaselineRepresented
CHECK_DEADLOCK FALSE
