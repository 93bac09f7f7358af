SPECIFICATION Spec
CONSTANTS
  load = load
  w1 = w1
  w2 = w2
  Tasks <- LoadTests
  Workers <- Routines
  Canaries <- DaemonSets
  MaxFaults = 1
INVARIANTS NoTrafficNoPass
