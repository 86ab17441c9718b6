------------------------------ MODULE Charges -------------------------------
(***************************************************************************)
(* What the request store promises about the charge of a request.  A       *)
(* request is decided once: waived, or owed an amount that never changes.  *)
(* What is owed is paid at most once and given back at most once, and only *)
(* a decided charge that owes nothing more may be archived.                *)
(***************************************************************************)
EXTENDS Integers

CONSTANTS
  Request,
  Amount        \* what a request can cost

VARIABLES
  status,       \* the state of a request's charge
  due,          \* what its decision charges
  paid          \* what its payer has paid, net of what was given back

vars == <<status, due, paid>>

Init ==
  /\ status = [r \in Request |-> "open"]
  /\ due = [r \in Request |-> 0]
  /\ paid = [r \in Request |-> 0]

\* Several requests at once: recovery waives every lost runtime it finds.
Waive(S) ==
  /\ \A r \in S : status[r] = "open"
  /\ status' = [r \in Request |-> IF r \in S THEN "waived" ELSE status[r]]
  /\ UNCHANGED <<due, paid>>

Owe(r, amount) ==
  /\ status[r] = "open"
  /\ status' = [status EXCEPT ![r] = "pending"]
  /\ due' = [due EXCEPT ![r] = amount]
  /\ UNCHANGED paid

Pay(r) ==
  /\ status[r] = "pending"
  /\ status' = [status EXCEPT ![r] = "posted"]
  /\ paid' = [paid EXCEPT ![r] = due[r]]
  /\ UNCHANGED due

GiveUp(r) ==
  /\ status[r] = "pending"
  /\ status' = [status EXCEPT ![r] = "review"]
  /\ UNCHANGED <<due, paid>>

GiveBack(r) ==
  /\ status[r] = "posted"
  /\ status' = [status EXCEPT ![r] = "refunded"]
  /\ paid' = [paid EXCEPT ![r] = 0]
  /\ UNCHANGED due

\* Retention drops whole partitions, so several requests at once.
Archive(S) ==
  /\ \A r \in S : status[r] \in {"waived", "posted", "refunded"}
  /\ status' = [r \in Request |-> IF r \in S THEN "archived" ELSE status[r]]
  /\ UNCHANGED <<due, paid>>

Next ==
  \/ \E r \in Request :
        \/ Pay(r) \/ GiveUp(r) \/ GiveBack(r)
        \/ \E amount \in Amount : Owe(r, amount)
  \/ \E S \in SUBSET Request : Waive(S) \/ Archive(S)

Spec == Init /\ [][Next]_vars
=============================================================================
