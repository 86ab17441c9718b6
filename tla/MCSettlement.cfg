SPECIFICATION Spec
CONSTANTS
  r1 = r1
  e1 = e1
  e2 = e2
  w1 = w1
  w2 = w2
  Request = {r1}
  Execution = {e1, e2}
  identity <- OneIdentity
  Keyed = {r1}
  Worker = {w1, w2}
  Amount = {1}
  ReviewAfter = 1
  RecoverBatch = 1
  Retention = 0
  MaxMonth = 1
CHECK_DEADLOCK FALSE
SYMMETRY Workers
INVARIANTS
  TypeOK
  EffectsMatchSettlement
  KeysAndRowsAgree
  OneExecutionServes
PROPERTIES
  ImplementsCharges
