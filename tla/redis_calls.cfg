SPECIFICATION Spec
CONSTANTS
  MaxCalls = 3
  MaxFaults = 3
  MaxErrors = 1
  MaxOutages = 1
INVARIANTS
  MoneyKnown
  WritesKept
  OneLossMasked
PROPERTIES
  CallsEnd
CHECK_DEADLOCK FALSE
