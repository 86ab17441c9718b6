SPECIFICATION FairSpec
CONSTANTS
  r1 = r1
  e1 = e1
  e2 = e2
  w1 = w1
  w2 = w2
  Request = {r1}
  Execution = {e1}
  identity <- SingleRun
  Keyed = {r1}
  Worker = {w1, w2}
  Amount = {1}
  ReviewAfter = 1
  RecoverBatch = 1
  Retention = 1
  MaxMonth = 1
CHECK_DEADLOCK FALSE
PROPERTIES
  SettlementsConclude
  AbandonedKeysSeal
