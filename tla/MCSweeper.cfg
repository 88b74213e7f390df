SPECIFICATION MCSpec
CONSTANTS
  a1 = a1
  a2 = a2
  p1 = p1
  Auctions = {a1, a2}
  Products = {p1}
  ProductOf <- MCProductOf
  MaxTime = 2
  MaxStock = 1
  Users = {1, 2}
  Ladder = {1}
  MaxBids = 1
  Fee = 1
  Closers = {1, 2}
  Currencies = {"ETB"}
  Currency <- MCCurrency
  DefaultCurrency = "ETB"
  TheSweeper = 1
  Batch = 1
  MaxFailures = 1
PROPERTIES
  DueIsActedOn
  EverythingIsSettled
