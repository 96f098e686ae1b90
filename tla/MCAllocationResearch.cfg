SPECIFICATION Spec
CONSTANTS
  bad = bad
  Malformed = bad
  Verticals = {"research"}
  Urls <- MCUrls
  Key <- MCKey
  Catalogues <- MCCatalogues
  Parts <- MCParts
  Fresh <- MCFresh
  Targets = {5}
  PageSize = 2
  MaxHits = 4
  MaxPaged = 6
  MaxPages = 2
  MaxMoves = 0
  MaxLost = 0
INVARIANT
  CollectedOnce
CHECK_DEADLOCK FALSE
