SPECIFICATION Spec
CONSTANTS
  acme = acme
  acmee = acmee
  acmeee = acmeee
  x = x
  NoEntity = NoEntity
  Runs = {r1, r2}
  Names <- MCNames
  Unusable <- MCUnusable
  Score <- MCScore
  Threshold = 92
  MaxResolves = 3
  MaxCrashes = 0
  MaxFailures = 0
SYMMETRY RunSymmetry
INVARIANT
  ConcurrentRunsConverge
