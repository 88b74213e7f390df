SPECIFICATION MCFairSpec
CONSTANTS
  a1 = a1
  p1 = p1
  u1 = u1
  u2 = u2
  c1 = c1
  c2 = c2
  k1 = k1
  k2 = k2
  Auctions = {a1}
  Products = {p1}
  ProductOf <- MCProductOf
  MaxTime = 2
  MaxStock = 1
  Users = {u1}
  Keys = {k1, k2}
  Amounts = {1, 2, 3, 9}
  Ladder = {1, 2, 3}
  MaxBids = 2
  Fee = 1
  Submissions <- MCContenders
  Attempts = {c1, c2}
  Free = Free
  MaxBalance = 1
PROPERTY
  EveryoneIsAnswered
