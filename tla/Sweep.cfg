SPECIFICATION Spec
CONSTANTS
  Sweeps <- TwoRuns
  Pretrained = {"pretrained"}
  Tightened = {2, 3}
INVARIANTS
  ReferencesAreComparable
  RepetitionsStandAlone
  AggregatesAreHonest
  EveryRunIsAccounted
PROPERTIES
  SweepEnds
CHECK_DEADLOCK FALSE
