SPECIFICATION StoriesSpec
CONSTANTS
  k1 = k1
  k2 = k2
  k3 = k3
  h1 = h1
  h2 = h2
  t1 = t1
  w1 = w1
  w2 = w2
  Keys = {k1, k2, k3}
  Batches = {{1, 2}, {2}}
  MaxBids = 2
  Handlers = {h1, h2}
  Tabs = {t1}
  NoKey = NoKey
  Windows = {w1, w2}
  MaxTokens = 2
  MaxLoads = 3
  MaxEffects = 2
  Rows = {1, 2, 3}
  Values = {1, 2}
  Filters = {1, 2}
  Under <- MCUnder
  PageSize = 1
  MaxWalks = 2
  MaxChanges = 2
SYMMETRY Symmetry
INVARIANTS
  KeyMeansOneBatch
  PlacedIsTrue
  PageKeepsItsPromise
  StandingRowsShownOnce
CHECK_DEADLOCK FALSE
