SPECIFICATION FairSpec
CONSTANTS
  u1 = u1
  p1 = p1
  o1 = o1
  o2 = o2
  User = {u1}
  Plan = {p1}
  Order = {o1, o2}
  buyer <- OneBuyer
  planOf <- OnePlan
  Caller = {c1}
  Janitor = {j1}
  Gate = {g1}
  NoOrder = NoOrder
  MaxQueue = 1
  Policies <- ThreePolicies
  SaleLimits = {0, 1}
  MaxBalance = 1
  MaxTime = 1
  MaxWaiting = 1
CHECK_DEADLOCK FALSE
INVARIANTS
  TypeOK
  PaidOrdersAreServed
  PurchaseLimitsHold
PROPERTIES
  OrdersConclude
  DecisionsAreFinal
