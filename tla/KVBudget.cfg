SPECIFICATION Spec
CONSTANTS
  NumLayers = 2
  Capacities <- AllCapacities
  SinkCounts = {0, 2}
  Policy = "any"
  AutoEnforce = TRUE
  Calls = {"append", "policy", "evict", "tiers", "capacity", "defer"}
  MaxPosition = 3
  MaxEvicted = 0
  MaxDepth = 1
INVARIANTS
  WithinBudget
  EnforcementNeverRefuses
  TiersConsistent
  NeverOvercounted
