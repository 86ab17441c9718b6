--------------------------- MODULE MCTokenRefresh ---------------------------
(***************************************************************************)
(* Token refresh on small instances.                                       *)
(***************************************************************************)
EXTENDS TokenRefresh, TLC

Processes == Permutations(Process)
=============================================================================
