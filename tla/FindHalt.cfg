CONSTANTS
  Revs = {1, 2, 3}
  NoRev = 0
  Specs <- PlainSpecs
  ServiceEdits = FALSE
  Reverts = FALSE
  MaxUserOps = 2
  MaxFaults = 0
SPECIFICATION Spec
PROPERTIES
  HaltIsKept
