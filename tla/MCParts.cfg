SPECIFICATION PartsSpec
CONSTANTS
  DescCnt = 4
  MaxChain = 2
  N = 4
  Values <- MCValues
  Batches <- MCBatches
  Word = 16
  Cyclic = {"arp", "reass"}
  Interval <- MCInterval
  LinkPeriod = 3
  MaxRound = 2
  Letters = {"a"}
  MaxLine = 2
  InputSize = 5
  MaxSegment = 3
  ChunkSize = 6
  LenLen = 2
  Base = 16
  MaxTotal = 20
  MeterWord = 32
  Second = 5
  MaxPause = 6
  MeterSizes = {1, 2}
INVARIANTS
  BlockIntact
  ReportedSpaceHolds
  HashesPaddedMessage
PROPERTIES
  ImplementsQueue
  TransmissionHolds
  TimersKeepTime
  PartsGoOn
  TelnetServes
  RateIsPerSecond
