CONSTANTS
  Plans <- AllPlans
  Runs = {1, 2}
SPECIFICATION FairSpec
CHECK_DEADLOCK FALSE
INVARIANTS
  TypeOK
  OneJob
PROPERTIES
  Reverted
  OptInGetsFinalizer
  DeletionCompletes
  JobFollowsSpec
  JobsOfRemovedEnd
