---------------------------- MODULE MCAsyncTasks ----------------------------
(***************************************************************************)
(* The task queue on small instances.                                      *)
(***************************************************************************)
EXTENDS AsyncTasks, TLC

CONSTANTS t1, p1, p2, w1, w2, s1, s2

TwoAttempts == (t1 :> 2)

\* Two replicas with a worker each; both senders, as many as a process has by
\* default, are of the one that stays.
Homes == (w1 :> p1) @@ (w2 :> p2) @@ (s1 :> p2) @@ (s2 :> p2)
=============================================================================
