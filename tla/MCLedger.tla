------------------------------ MODULE MCLedger ------------------------------
(***************************************************************************)
(* The ledger on small instances.                                          *)
(***************************************************************************)
EXTENDS Ledger
=============================================================================
