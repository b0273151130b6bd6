SPECIFICATION Spec
CONSTANTS
  w1 = w1
  w2 = w2
  t1 = t1
  t2 = t2
  k1 = k1
  m1 = m1
  s1 = s1
  s2 = s2
  s3 = s3
  r1 = r1
  NoKey = NoKey
  None = None
  Miss = Miss
  Wallets = {w1, w2}
  OpeningBalance = 1
  Currency <- OneCurrency
  TransferIds = {t1, t2}
  Keys = {k1}
  Amounts = {1}
  Messages = {m1}
  About <- AllAboutT1
  Ops = {"deposit", "withdraw", "transfer", "complete", "refund"}
  CachedWallets = {w1}
  Sessions = {s1, s2, s3}
  Readers = {r1}
  MaxJobs = 3
  MaxFaults = 1
CHECK_DEADLOCK FALSE
SYMMETRY Symmetry
INVARIANTS
  TypeOK
  NoStandoff
  CacheWasReal
  LastCommitSetLast
PROPERTIES
  CommitsAreSerial
