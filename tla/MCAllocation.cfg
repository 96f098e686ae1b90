SPECIFICATION Spec
CONSTANTS
  bad = bad
  Malformed = bad
  Verticals = {"research", "startups", "products"}
  Urls <- MCUrls
  Key <- MCKey
  Catalogues <- MCCatalogues
  Parts <- MCParts
  Fresh <- MCFresh
  Targets = {2, 3, 4, 5, 6, 7}
  PageSize = 2
  MaxHits = 4
  MaxPaged = 4
  MaxPages = 2
  MaxMoves = 1
  MaxLost = 1
INVARIANTS
  TargetIsCeiling
  NeverAgain
  ExhaustedHasNoMore
  StartupsShortOnlyWhenDry
PROPERTY
  AsksDeeper
CHECK_DEADLOCK FALSE
