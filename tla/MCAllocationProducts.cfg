SPECIFICATION Spec
CONSTANTS
  bad = bad
  Malformed = bad
  Verticals = {"products"}
  Urls <- MCUrls
  Key <- MCKey
  Catalogues <- OneSource
  Parts <- MCParts
  Fresh <- MCFresh
  Targets = {8}
  PageSize = 2
  MaxHits = 4
  MaxPaged = 4
  MaxPages = 2
  MaxMoves = 0
  MaxLost = 0
INVARIANT
  ProductsShortOnlyWhenDry
CHECK_DEADLOCK FALSE
