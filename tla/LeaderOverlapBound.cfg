SPECIFICATION Spec
CONSTANTS
  Instances = {a, b}
  Workers = {w1}
  Check = 1
  Timeout = 1
  MaxFaults = 1
INVARIANT OverlapBounded
