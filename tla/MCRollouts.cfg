CONSTANTS
  Revs = {r1, r2, r3}
  NoRev = noRev
  Specs <- RolloutSpecs
  ServiceEdits = TRUE
  Reverts = TRUE
  MaxUserOps = 3
  MaxFaults = 2
SPECIFICATION Spec
SYMMETRY Symmetry
INVARIANTS
  TypeOK
  SplitIsWhole
  TrafficHasBackends
  ApexHasBackends
  CanaryTrafficOnlyDuringRollout
  FailuresWithinThreshold
  SucceededMeansPromoted
PROPERTIES
  PromotionGate
  PrimaryEmptiedOnlyAfterCut
  AnalysisStartsOnPrimary
  WeightStepsForward
  Implements
