---------------------------- MODULE MCSettlement ----------------------------
(***************************************************************************)
(* The request store on small instances.                                   *)
(***************************************************************************)
EXTENDS Settlement, TLC

CONSTANTS r1, e1, e2, w1, w2

\* Two attempts of one async task carry one identity.
OneIdentity == (e1 :> r1) @@ (e2 :> r1)

SingleRun == (e1 :> r1)

Workers == Permutations(Worker)
=============================================================================
