SPECIFICATION FairSpec
CONSTANTS
  c1 = c1
  c2 = c2
  c3 = c3
  None = None
  Calls <- MCCalls
  Attempts <- MCAttempts
  MaxConcurrency = 2
  BaseDelay = 1
  MaxDelay = 1
  Hints = {0, 2}
INVARIANTS
  TypeOK
  SlotsConserved
  AttemptsSpent
PROPERTIES
  SendsOnlyWhenAllowed
  EveryCallEnds
CHECK_DEADLOCK FALSE
