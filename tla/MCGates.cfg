CONSTANTS
  Revs = {1, 2}
  NoRev = 0
  Specs <- GatedSpecs
  ServiceEdits = FALSE
  Reverts = TRUE
  MaxUserOps = 1
  MaxFaults = 1
SPECIFICATION ApprovedSpec
PROPERTIES
  GatesOpen
