SPECIFICATION Spec
CONSTANTS
  NumLayers = 2
  Capacities <- Budgets
  SinkCounts = {0, 1}
  Setups <- AllSetups
  Lengths = {2, 4}
  MaxLength = 4
  MaxEvicted = 0
  Unit = 12
INVARIANTS
  TypeOK
  SignalsFollowTokens
  CausalAttention
  MaskFits
  EveryTokenScoredOnce
PROPERTIES
  DominatedGoFirst
  AllocationKeepsTotal
  CacheProtocol
