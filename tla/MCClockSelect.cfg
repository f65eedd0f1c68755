SPECIFICATION SelectSpec
CONSTANTS
  N = 3
  Offsets <- SomeOffsets
  Dists = {1, 3}
  MaxDist = 9
  MinClock = 2
  JitterNum = 7
  JitterDen = 5
  MaxChanges = 1
INVARIANTS FindsReference SyncsWithTheBelieved DroppedAreWorst CombinedNearAgreement
