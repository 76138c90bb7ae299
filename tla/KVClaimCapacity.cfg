SPECIFICATION Spec
CONSTANTS
  NumLayers = 2
  Capacities <- AllCapacities
  SinkCounts = {0}
  Policy = "any"
  AutoEnforce = TRUE
  Calls = {"append", "policy", "capacity", "save", "load"}
  MaxPosition = 3
  MaxEvicted = 0
  MaxDepth = 1
INVARIANTS
  CapacityIsAMaximum
