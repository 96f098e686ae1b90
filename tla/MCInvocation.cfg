SPECIFICATION FairSpec
CONSTANTS
  Sources <- MCSources
  Indexed <- MCIndexed
  PoolHasThread = TRUE
  MaxRuns = 2
  MaxInterrupts = 2
INVARIANTS
  NothingLeftOpen
  VerticalsDoNotOverlap
  ExitZeroMeansAllDone
  FailedSourceIsNotFatal
PROPERTY
  EveryInvocationEnds
CHECK_DEADLOCK FALSE
