SPECIFICATION FairSpec
CONSTANTS
  load = load
  w1 = w1
  w2 = w2
  Tasks <- LoadTests
  Workers <- Routines
  Canaries <- AllCanaries
  MaxFaults = 1
INVARIANTS TypeOK AcceptedRuns PassedOnEvidence
PROPERTIES LoadKeepsComing
