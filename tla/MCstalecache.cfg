SPECIFICATION Spec
CONSTANTS
  w1 = w1
  w2 = w2
  w3 = w3
  t1 = t1
  t2 = t2
  k1 = k1
  h1 = h1
  h2 = h2
  i1 = i1
  i2 = i2
  NoKey = NoKey
  None = None
  Miss = Miss
  Wallets = {w1, w2}
  Opened = {w1, w2}
  OpeningBalance = 1
  Currency <- OneCurrency
  TransferIds = {t1}
  Keys = {}
  Amounts = {1}
  CachedWallets = {w1}
  MaxEvents = 1
  Instances = {i1}
  MaxMessages = 4
  Foreign <- NoForeign
  BatchLimit = 1
  Handlers = {h1}
  Prefetch = 1
  SweepLimit = 1
  MaxFaults = 0
CHECK_DEADLOCK FALSE
INVARIANT
  CacheInSync
