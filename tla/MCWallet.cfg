SPECIFICATION RSpec
CONSTANTS
  w1 = w1
  k1 = k1
  k2 = k2
  k3 = k3
  c1 = c1
  c2 = c2
  Wallets = {w1}
  Clients = {c1, c2}
  Keys = {k1, k2, k3}
  NoKey = NoKey
  Free = Free
  Intents <- MCIntents
  MaxEntries = 3
INVARIANTS
  LedgerExplainsBalance
  SuccessIsBooked
  ConstraintsNeverFire
  NoFalseAlarm
PROPERTIES
  RefusedIsNotBooked
  ImplementsAccounts
