SPECIFICATION Spec
CONSTANTS
  None = None
  Modes = 3
  Volume = 2
  Point = 3
  Outcomes <- AnyOutcome
  MaxTicks = 5
  MaxPositions = 5
  MaxFaults = 1
INVARIANTS OnePosition
PROPERTIES ForeignUntouched StopNeverSlips
CHECK_DEADLOCK FALSE
