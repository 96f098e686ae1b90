SPECIFICATION FairSpec
CONSTANTS
  Urls = {1, 2, 3, 4}
  MaxDiscovered = 4
  MaxConcurrency = 2
  MaxItems = 3
  MaxParsed = 2
CONSTRAINT InOrder
INVARIANTS
  TypeOK
  SlotsConserved
  NoOutstandingTask
  EveryItemAccounted
PROPERTIES
  EventuallySettled
  ImplementsPromise
CHECK_DEADLOCK FALSE
