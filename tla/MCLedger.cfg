SPECIFICATION FairSpec
CONSTANTS
  Account = {a1}
  Order = {o1, o2}
  NoOrder = NoOrder
  Amount = {1, 2}
  Horizon = 1
  MaxLots = 3
  MaxDebt = 1
  ExpiryBatch = 1
CHECK_DEADLOCK FALSE
INVARIANTS
  TypeOK
  LotStates
  DriftBoundedByRefunds
  OrdersReconcile
  AttributionIsTheLoop
PROPERTIES
  TakeBackNeverIndebts
  DueLotsSettle
