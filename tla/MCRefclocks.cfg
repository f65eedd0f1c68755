SPECIFICATION Spec
CONSTANTS
  Dates <- DateSeq
  Setups <- SetupSet
  Reports <- ReportSet
  Leftovers <- LeftoverSet
  TicksPerDay = 2
  PacketBytes = 6
  TimeBytes = 2
  UtcBytes = 2
  OncoreBytes = 4
  FirstNow = 1
  LastNow <- LastInstant
  MaxReports = 3
  MaxQueue = 1
  DeviceLines = 1
  MaxOffset = 23
INVARIANT DatedRight
PROPERTIES EventsOnce FixOfThisConnection LastWriteTaken
CHECK_DEADLOCK FALSE
