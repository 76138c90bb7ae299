SPECIFICATION Spec
CONSTANTS
  Sweeps <- OneAdaptiveRun
  Pretrained = {"pretrained"}
  Tightened = {2, 3}
INVARIANT QualityUnderRecordedBudget
CHECK_DEADLOCK FALSE
