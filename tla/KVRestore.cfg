SPECIFICATION Spec
CONSTANTS
  NumLayers = 1
  Capacities <- OneLayer
  SinkCounts = {0, 1}
  Policy = "any"
  AutoEnforce = TRUE
  Calls = {"append", "skip", "policy", "evict", "clear", "tiers", "save", "load", "reopen"}
  MaxPosition = 3
  MaxEvicted = 0
  MaxDepth = 1
PROPERTY PositionsNotReused
