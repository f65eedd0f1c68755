SPECIFICATION Spec
CONSTANTS
  Freqs = {0, 1}
  Options <- QueryLine
  MaxEdits = 0
  MaxTurns = 2
INVARIANT QuerySetsClock
CHECK_DEADLOCK FALSE
