SPECIFICATION FairSpec
CONSTANTS
  Layers = 2
  Prompts = {1, 3, 6}
  MaxNewTokens = 5
  HasStop = TRUE
  Capacity = 0
  Sinks = 1
  HasPolicy = TRUE
  InitialAlloc = 8
  RowBytes = 4
  QuantRowBytes = 1
  OtherBytes = {0, 8, 24, 40}
  HighMark = 40
  LowMark = 32
  MinInterval = 2
  MemoryBudget = 24
  HasLatency = TRUE
INVARIANTS
  EventsSpaced
  AuditableBudget
  PositionsAgree
PROPERTIES
  TightenedFits
  Terminates
