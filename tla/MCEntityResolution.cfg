SPECIFICATION Spec
CONSTANTS
  acme = acme
  acmee = acmee
  acmeee = acmeee
  x = x
  NoEntity = NoEntity
  Runs = {r1, r2}
  Names <- MCNames
  Unusable <- MCUnusable
  Score <- MCScore
  Threshold = 92
  MaxResolves = 4
  MaxCrashes = 1
  MaxFailures = 1
SYMMETRY RunSymmetry
INVARIANTS
  TypeOK
  IndexIsCommitted
  CanonicalRowWins
  EveryChangeIsLogged
  ConvergesAlone
