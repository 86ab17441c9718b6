--------------------------- MODULE MCSubscription ---------------------------
(***************************************************************************)
(* Subscription purchases on a small instance.                             *)
(***************************************************************************)
EXTENDS Subscription, TLC

CONSTANTS u1, p1, o1, o2

\* One user asks twice for one plan.
OneBuyer == (o1 :> u1) @@ (o2 :> u1)
OnePlan  == (o1 :> p1) @@ (o2 :> p1)

\* Once in two units of time; once in each unit, and not while it is active;
\* or once at all.
Rolling  == [advance |-> TRUE, lifetime |-> 0, kind |-> "rolling", max |-> 1, span |-> 2]
Calendar == [advance |-> FALSE, lifetime |-> 0, kind |-> "calendar", max |-> 1, span |-> 1]
Lifetime == [advance |-> TRUE, lifetime |-> 1, kind |-> "none", max |-> 0, span |-> 1]

ThreePolicies == {Rolling, Calendar, Lifetime}
=============================================================================
