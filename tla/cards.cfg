SPECIFICATION Spec
CONSTANT Tables <- PlainTables
INVARIANTS
  TipComplete
  TipSound
  RobotAccepted
  PlaneRecognised
CHECK_DEADLOCK FALSE
