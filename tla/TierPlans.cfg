SPECIFICATION Spec
CONSTANTS
  cuda = cuda
  cpu = cpu
  Devices = {cuda, cpu}
  NoDevice = NoDevice
  InitialAlloc = 2
  NumLayers = 2
  Homes = {cuda, cpu}
  HostDevice = cpu
  Capacities = {0, 1}
  FloatBytes = 2
  PayloadBytes = 1
  Budgets = {0, 2, 5}
  Pinned = {{}, {1}}
  Depths = {0, 1, 2}
  MaxTokens = 2
  MaxPosition = 2
  MaxStep = 1
INVARIANTS
  OffloadTellsTheTruth
  OffloadMovesWhatItMust
  PrefetchKeepsItsWord
PROPERTIES
  TransfersKeepTokens
