SPECIFICATION Spec
CONSTANTS
  Errors <- SomeErrors
  MaxErr = 8
  Delays = {1, 3}
  FilterSize = 2
  ReachSize = 4
  Period = 2
  StepLimit = 1
  PanicLimit = 3
  MaxTime = 4
PROPERTIES FreshStepIsExact MovedOnRecentAnswer BoundedMoves
CHECK_DEADLOCK FALSE
