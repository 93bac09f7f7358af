CONSTANTS
  Revs = {1, 2, 3}
  NoRev = 0
  Specs <- UngatedSpecs
  ServiceEdits = FALSE
  Reverts = TRUE
  MaxUserOps = 2
  MaxFaults = 1
SPECIFICATION FairSpec
PROPERTIES
  RolloutEnds
  RevisionDecided
