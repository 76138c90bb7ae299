SPECIFICATION Spec
CONSTANTS
  cuda = cuda
  cpu = cpu
  Devices = {cuda, cpu}
  NoDevice = NoDevice
  HomeDevice = cuda
  InitialAlloc = 2
  Capacities = {0, 3}
  MapTargets = {NoDevice, cuda}
  AnyOrder = FALSE
  AnyPosition = FALSE
  OffloadsEmpty = FALSE
  MaxTokens = 3
  MaxPosition = 3
INVARIANT CheckpointLoads
