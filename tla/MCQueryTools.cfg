SPECIFICATION BothSpec
CONSTANTS
  A = A
  B = B
  C = C
  NoHost = NoHost
  NoText = NoText
  Hosts = {A}
  SysPeers <- SysPeerSet
  Versions = {1, 2, 3}
  Text <- TextSet
  StatusOf <- StatusWord
  CutOf <- PieceSize
  MaxOffset = 9
  Zero = Zero
  Retries = 1
  MaxSeq = 3
  MaxDepth = 3
  Samples = 2
  Error = 3
  Latencies = {0, 1, 2}
INVARIANTS AnswerWhole BestIsNearest
PROPERTIES ToolEnds
CHECK_DEADLOCK FALSE
