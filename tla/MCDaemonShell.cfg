SPECIFICATION FairSpec
CONSTANTS
  Freqs = {0, 1}
  Options <- Lines
  MaxEdits = 2
  MaxTurns = 2
INVARIANTS NoLostReload ShutdownCleansUp
PROPERTIES ReloadAllOrNothing TermStops
CHECK_DEADLOCK FALSE
