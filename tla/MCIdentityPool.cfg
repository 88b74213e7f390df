SPECIFICATION ISpec
CONSTANTS
  c1 = c1
  c2 = c2
  l1 = l1
  l2 = l2
  u1 = u1
  u2 = u2
  g1 = g1
  g2 = g2
  Callers = {c1, c2}
  Purposes = {"phone_verify", "login", "password_reset"}
  MaxAttempts = 3
  MaxSends = 2
  LockAfter = 2
  PoolMax = 2
  MaxCodes = 2
  MaxFailures = 2
  Linkers = {l1, l2}
  Users = {u1, u2}
  Telegrams = {g1, g2}
  MaxTokens = 3
  Nobody = Nobody
  Superseded = Superseded
SYMMETRY Symmetry
CHECK_DEADLOCK FALSE
INVARIANT PoolIsNotStuck
