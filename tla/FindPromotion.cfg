CONSTANTS
  Revs = {1, 2}
  NoRev = 0
  Specs <- SteppedSpecs
  ServiceEdits = FALSE
  Reverts = FALSE
  MaxUserOps = 1
  MaxFaults = 1
SPECIFICATION FairSpec
PROPERTIES
  PromotionEnds
