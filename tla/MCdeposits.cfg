SPECIFICATION ReportsSpec
CONSTANTS
  w1 = w1
  w2 = w2
  t1 = t1
  t2 = t2
  k1 = k1
  k2 = k2
  c1 = c1
  c2 = c2
  c3 = c3
  c4 = c4
  v1 = v1
  NoKey = NoKey
  None = None
  Miss = Miss
  Wallets = {w1, w2}
  Opened = {w1, w2}
  OpeningBalance = 2
  Currency <- OneCurrency
  TransferIds = {t1, t2}
  Keys = {k1, k2}
  Amounts = {1}
  CachedWallets = {}
  MaxEvents = 6
  Instances = {}
  Clients = {c1}
  Intent <- OneDeposit
  MaxTries <- Twice
  Viewers = {}
  RecentLimit = 2
CHECK_DEADLOCK FALSE
INVARIANTS
  DepositedOnce
