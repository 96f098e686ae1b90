SPECIFICATION Spec
CONSTANTS
  a = a
  b = b
  c = c
  stale = stale
  invalid = invalid
  empty = empty
  long = long
  page = page
  other = other
  k1 = k1
  k2 = k2
  k3 = k3
  g1 = g1
  g2 = g2
  None = None
  Runs = {r1, r2}
  Records <- MCRecords
  Data <- MCData
  Hash <- MCHash
  Keys <- MCKeys
  Repo <- MCRepo
  Day = 1
  Window = 2
  Skew = 1
  SizesChecked = TRUE
  Batches <- MCBatches
  AfterFailure = {"broken"}
  MaxFaults = 0
SYMMETRY RunSymmetry
INVARIANT
  FailedUpsertContinues
CHECK_DEADLOCK FALSE
