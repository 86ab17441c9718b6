-------------------------- MODULE MCAccountLocks --------------------------
(***************************************************************************)
(* The lock orders on two tenants with an end user each.                   *)
(***************************************************************************)
EXTENDS AccountLocks, TLC

Txns == Permutations(Txn)
=============================================================================
