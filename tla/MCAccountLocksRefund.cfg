SPECIFICATION Spec
CONSTANTS
  Txn = {x1, x2}
  Kind = {"postSettlement", "RecordCompletedRefund"}
  Tenants = {1}
  Users = {2}
SYMMETRY Txns
INVARIANT RefundNeverDeadlocksSettlement
