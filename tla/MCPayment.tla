----------------------------- MODULE MCPayment -----------------------------
(***************************************************************************)
(* Online top-ups on a small instance: the constants are in the cfg.       *)
(***************************************************************************)
EXTENDS Payment
=============================================================================
