SPECIFICATION FairSpec
CONSTANTS
  Writers = {w1, w2}
  Nobody = Nobody
  Earlier = Earlier
  MaxCounter = 1
  Leftovers <- SomeLeftovers
INVARIANTS
  WinnersComplete
  NothingLeftBehind
PROPERTIES
  EveryCallEnds
  PublishesSets
CHECK_DEADLOCK FALSE
