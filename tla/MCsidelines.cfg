SPECIFICATION Spec
CONSTANTS
  w1 = w1
  w2 = w2
  p1 = p1
  p2 = p2
  c1 = c1
  c2 = c2
  d1 = d1
  d2 = d2
  d3 = d3
  d4 = d4
  d5 = d5
  d6 = d6
  d7 = d7
  Wallets = {w1}
  Processes = {p1, p2}
  Steady = {p1}
  MaxChanges = 2
  MaxDeaths = 1
  MaxReconnects = 1
  Bits = 6
  Tenths = {1, 3, 7, 10, 200, 630}
  MaxSteps = 5
  DemoWallets = {w1, w2}
  OpeningDeposits = {4}
  Amounts = {1, 2}
  Movements = 1
  CompletedTransfers = 1
  StuckTransfers = 1
  Monitors = {c1, c2}
  Documents = {d1, d2, d3, d4, d5, d6, d7}
  Existing = {d1, d2, d3, d4}
  CreatedAt <- Clock
  Limit = 2
  Pages = 4
CHECK_DEADLOCK FALSE
INVARIANTS
  EventsTypeOK
  BackOnlyWhenSentAgain
  DriftBounded
  NoMoneyMade
  WholeExact
  Reconciles
  MemoryAgrees
  GapsAreForgotten
  MoneyAccounted
  NothingSkipped
  RepeatsBounded
PROPERTIES
  EveryChangeHeard
  LatestHeard
  OutageReported
  RecoveryReported
