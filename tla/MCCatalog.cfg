SPECIFICATION ShopSpec
CONSTANTS
  a1 = a1
  a2 = a2
  p1 = p1
  s1 = s1
  i1 = i1
  i2 = i2
  i3 = i3
  e1 = e1
  e2 = e2
  Auctions = {a1, a2}
  Products = {p1}
  Sessions = {s1}
  ProductOf <- MCProductOf
  MaxTime = 2
  MaxStock = 2
  Categories = {1, 2, 3}
  Staff = {1, 2}
  MaxDepth = 2
  Top = Top
  Absent = Absent
  Images = {i1, i2, i3}
  Editors = {e1, e2}
  MaxImages = 3
  Offset = 10
SYMMETRY Symmetry
INVARIANTS
  NothingOversold
  UnitFollowsAuction
  PrimaryIsFirst
PROPERTIES
  NoWayBack
  StaysInLifecycle
  StaysWhole
  ShownKeepTheirObjects
  MovesAreChecked
