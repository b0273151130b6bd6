SPECIFICATION Spec
CONSTANTS
  w1 = w1
  w2 = w2
  w3 = w3
  t1 = t1
  t2 = t2
  k1 = k1
  h1 = h1
  h2 = h2
  i1 = i1
  i2 = i2
  NoKey = NoKey
  None = None
  Miss = Miss
  Wallets = {w1, w2, w3}
  Opened = {w1, w3}
  OpeningBalance = 2
  Currency <- TwoCurrencies
  TransferIds = {t1, t2}
  Keys = {k1}
  Amounts = {1, 2}
  CachedWallets = {w1}
  MaxEvents = 3
  Instances = {i1}
  MaxMessages = 3
  Foreign <- NoForeign
  BatchLimit = 2
  Handlers = {h1}
  Prefetch = 2
  SweepLimit = 1
  MaxFaults = 1
CHECK_DEADLOCK FALSE
SYMMETRY Symmetry
INVARIANTS
  TypeOK
  BooksBalance
  MoneyConserved
  AuditTrail
  PayloadAgreement
PROPERTY
  KeepsPromise
