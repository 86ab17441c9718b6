SPECIFICATION Spec
CONSTANTS
  Txn = {x1, x2, x3}
  Kind <- LedgerKinds
  Tenants = {1, 2}
  Users = {3, 4}
SYMMETRY Txns
INVARIANTS
  NoDeadlock
