SPECIFICATION Spec
CONSTANTS
  NumLayers = 2
  Capacities <- AllCapacities
  SinkCounts = {0, 1, 2}
  Policy = "sliding_window"
  AutoEnforce = TRUE
  Calls = {"append", "policy", "capacity", "defer", "raise", "save", "load"}
  MaxPosition = 4
  MaxEvicted = 0
  MaxDepth = 2
INVARIANTS
  SinksStay
  SinksThenWindow
  EveryTokenAccounted
  DeferRestores
