SPECIFICATION Spec
CONSTANTS
  Flows = {f1, f2}
  DeliveryWindow = 1
  MaxReports = 2
  MaxCounter = 2
  LiveRevisions = {1}
  Legacy = FALSE
  MaxEpoch = 2
  MaxTime = 0
  MaxRecorded = 2
SYMMETRY FlowSymmetry
INVARIANTS NeverOverBilled FlushedNeverLost FlushAlwaysFits CleanStopLosesNothing
CHECK_DEADLOCK FALSE
