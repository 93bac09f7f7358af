CONSTANTS
  Revs = {1, 2}
  NoRev = 0
  Specs <- PlainSpecs
  ServiceEdits = TRUE
  Reverts = FALSE
  MaxUserOps = 2
  MaxFaults = 0
SPECIFICATION Spec
PROPERTIES
  ReconcileKeepsWeights
