CONSTANTS
  Configs <- AllConfigs
  Steps = {0, 1, 7, 30, 50, 99, 100}
  Maxima = {0, 1, 50, 99, 100}
  Edits = 2
  Faults = 1
  Rollouts = 2
SPECIFICATION Spec
INVARIANTS
  TypeOK
  ReadBack
  TrafficAsAsked
  ClientsStay
  OneCookie
  RestoresOriginal
PROPERTIES
  Implements
  PromotedOnCanary
  Completes
CHECK_DEADLOCK FALSE
