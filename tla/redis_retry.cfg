SPECIFICATION Spec
CONSTANTS
  MaxCalls = 3
  MaxFaults = 1
  MaxErrors = 0
  MaxOutages = 0
INVARIANTS
  NetErrorRetried
CHECK_DEADLOCK FALSE
