--------------------------- MODULE MCAvailability ---------------------------
(***************************************************************************)
(* Upstream availability on small instances.                               *)
(***************************************************************************)
EXTENDS Availability, TLC

CONSTANTS c1, c2, transport, model

\* Two models behind one endpoint; the second model's own scope, which fails
\* like the first's, is left out.
Scopes == (c1 :> {transport, model}) @@ (c2 :> {transport})
=============================================================================
