SPECIFICATION FairSpec
CONSTANTS
  Addr <- AddrSet
  Flip <- FlipAddr
  PollSecs <- Poll
  s1 = s1
  s2 = s2
  e1 = e1
  e2 = e2
  PendingCap = 2
  MaxExpo = 2
  ReachPeriod = 2
  ReachSize = 4
  EphemeralMin = 0
  EphemeralMax = 2
  BurstPoll = 1
  Start = 2
  Servers <- TwoAddrs
  SymSources <- SymAddrs
  Configs <- TwoLines
  MaxPeers = 3
  MaxTime = 5
INVARIANTS TypeOK OneTimerPerPeer OneSamplePerRequest CreditedByOwnServer
PROPERTIES RefinesLedger DuePollIsSent
