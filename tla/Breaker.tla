------------------------------- MODULE Breaker -------------------------------
(***************************************************************************)
(* What docs/UPSTREAM_AVAILABILITY.md promises of one fault scope: a scope *)
(* that tripped rests, then is tried by one request at a time, and is open *)
(* to all again after two of these trials have succeeded in a row.         *)
(***************************************************************************)
EXTENDS Naturals

CONSTANTS Scope, Token, NoToken

VARIABLES
  phase,   \* available, cooling or recovering
  trial,   \* the request that tries a recovering scope
  proofs   \* its trials that have succeeded since it last tripped

Becomes(s, p, t, n) == phase'[s] = p /\ trial'[s] = t /\ proofs'[s] = n

Same(s) == Becomes(s, phase[s], trial[s], proofs[s])

\* A failure, a suspension; an administrator's resume or reset.
Trip(s)    == Becomes(s, "cooling", NoToken, 0)
Restart(s) == Becomes(s, "recovering", NoToken, 0)

CoolDown(s) == phase[s] = "cooling" /\ Restart(s)

Try(s) ==
  /\ phase[s] = "recovering" /\ trial[s] = NoToken
  /\ \E t \in Token : Becomes(s, "recovering", t, proofs[s])

\* The trial has an outcome that says nothing of the upstream, or is given up.
Release(s) ==
  /\ trial[s] # NoToken
  /\ Becomes(s, "recovering", NoToken, proofs[s])

Succeed(s) ==
  /\ trial[s] # NoToken
  /\ IF proofs[s] = 0 THEN Becomes(s, "recovering", NoToken, 1)
                      ELSE Becomes(s, "available", NoToken, 0)

\* Nobody has used the scope for a week.
Forget(s) ==
  /\ phase[s] # "cooling" /\ trial[s] = NoToken
  /\ Becomes(s, "available", NoToken, 0)

Init ==
  /\ phase = [s \in Scope |-> "available"]
  /\ trial = [s \in Scope |-> NoToken]
  /\ proofs = [s \in Scope |-> 0]

\* One step of the system may move several scopes.
Next ==
  \A s \in Scope :
    \/ Same(s) \/ Trip(s) \/ Restart(s) \/ CoolDown(s)
    \/ Try(s) \/ Release(s) \/ Succeed(s) \/ Forget(s)

Spec == Init /\ [][Next]_<<phase, trial, proofs>>
=============================================================================
