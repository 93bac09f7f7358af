SPECIFICATION Spec
CONSTANTS
  Cases <- MCCases
  Revisions = {1, 2}
  Contents = {1, 2}
INVARIANTS TypeOK  FailureKeepsPrimary IdleWhenSettled
PROPERTY Decided
