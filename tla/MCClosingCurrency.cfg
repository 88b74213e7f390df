SPECIFICATION MCSpec
CONSTANTS
  a1 = a1
  p1 = p1
  Auctions = {a1}
  Products = {p1}
  ProductOf <- MCProductOf
  MaxTime = 2
  MaxStock = 1
  Users = {1, 2, 3}
  Ladder = {1, 2}
  MaxBids = 2
  Fee = 1
  Closers = {1, 2, 3}
  Currencies = {"USD", "ETB"}
  Currency <- MCCurrency
  DefaultCurrency = "ETB"
  TheSweeper = 3
  Batch = 1
  MaxFailures = 1
  TheWorker = 2
  Skew = 1
INVARIANT
  FeesReturnInKind
