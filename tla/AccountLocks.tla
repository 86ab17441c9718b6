---------------------------- MODULE AccountLocks ----------------------------
(***************************************************************************)
(* The row locks of the transactions that move money.                      *)
(*                                                                         *)
(* A transaction of each kind takes its locks in a fixed order, waits for  *)
(* a row another one holds, and keeps every lock to its end.  The ledger's *)
(* rule is: the account before its lots, several accounts by id.  Only the *)
(* locks are modelled here; what the transactions write is in Ledger,      *)
(* Settlement and Payment.  Ids of tenants begin with T_ and those of      *)
(* end users with U_, so every tenant sorts before every user.             *)
(***************************************************************************)
EXTENDS Integers, Sequences, FiniteSets

CONSTANTS
  Txn,          \* transactions that run at the same time
  Kind,         \* the kinds of transaction that may run
  Tenants,      \* accounts by the rank of their id: the tenants',
  Users         \* and their end users'

Account == Tenants \cup Users

ASSUME LocksAssumption ==
  /\ Account \subseteq Nat /\ IsFiniteSet(Account)
  /\ \A t \in Tenants, u \in Users : t < u

VARIABLES
  plan,         \* the locks each transaction still has to take, in order
  held          \* the locks it holds

vars == <<plan, held>>

AccountRow(a) == <<"bill_accounts", a>>
LotRows(a)    == <<"bill_credit_lots", a>>

-----------------------------------------------------------------------------
(* Lock orders: an operator gives the sequences in which rows are locked. *)

\* lockAccounts and lockSettlementAccounts: ORDER BY account_id FOR UPDATE.
lockAccounts(A) ==
  {s \in [1 .. Cardinality(A) -> {AccountRow(a) : a \in A}] :
     /\ \A a \in A : \E i \in DOMAIN s : s[i] = AccountRow(a)
     /\ \A i, j \in DOMAIN s : i < j => s[i][2] < s[j][2]}

\* The account row is updated, then consumeLots locks its lots.
Charge(a) == <<AccountRow(a), LotRows(a)>>

\* A grant updates the account and inserts a lot nobody else can see.
Grant(a) == <<AccountRow(a)>>

\* Mutant: the order reversal once had, lots before the account.
RevokeLotsFirst(a) == {<<LotRows(a)>> \o s : s \in lockAccounts({a})}

\* RevokeOrderLots: accounts first, then the lots of the order.
RevokeOrderLots(a) == {s \o <<LotRows(a)>> : s \in lockAccounts({a})}

\* Accounts that had due lots when nothing was locked yet are locked; their
\* lots are then claimed with SKIP LOCKED, which never waits.
ExpireDueLots == UNION {lockAccounts(A) : A \in SUBSET Account \ {{}}}

ReverseGrantForRefund(a) == {s \o <<LotRows(a)>> : s \in lockAccounts({a})}

\* The locks of a transaction of kind k on tenant t and end user u.
Plans(k, t, u) ==
  CASE k = "postSettlement" -> {s \o Charge(t) \o Charge(u) : s \in lockAccounts({t, u})}
    [] k = "Refund"         -> {s \o Grant(t) \o Grant(u) : s \in lockAccounts({t, u})}
    [] k = "DebitStrict"    -> {Charge(t) \o Charge(u)}
    [] k = "reverseOrder"   -> RevokeOrderLots(u)
    [] k = "GrantManual"    -> {Grant(u)}
    [] k = "Withdrawal"     -> {Charge(t)}
    [] k = "ExpireDueLots"  -> ExpireDueLots
    [] k = "Settle"         -> {Grant(u) \o Grant(t)}
    [] k = "RecordCompletedRefund" ->
         {s \o z : s \in ReverseGrantForRefund(u), z \in ReverseGrantForRefund(t)}

\* The kinds that only the ledger and its services run.
LedgerKinds ==
  {"postSettlement", "Refund", "DebitStrict", "reverseOrder", "GrantManual",
   "Withdrawal", "ExpireDueLots"}

-----------------------------------------------------------------------------
Idle(x) == plan[x] = <<>> /\ held[x] = {}

Holder(row) == {x \in Txn : row \in held[x]}

Begin(x) ==
  /\ Idle(x)
  /\ \E k \in Kind, t \in Tenants, u \in Users :
       \E s \in Plans(k, t, u) : plan' = [plan EXCEPT ![x] = s]
  /\ UNCHANGED held

Acquire(x) ==
  /\ plan[x] # <<>>
  /\ Holder(Head(plan[x])) \subseteq {x}
  /\ held' = [held EXCEPT ![x] = @ \cup {Head(plan[x])}]
  /\ plan' = [plan EXCEPT ![x] = Tail(@)]

\* A transaction ends when its plan is done, or is rolled back before.
End(x) ==
  /\ ~ Idle(x)
  /\ plan' = [plan EXCEPT ![x] = <<>>]
  /\ held' = [held EXCEPT ![x] = {}]

Init ==
  /\ plan = [x \in Txn |-> <<>>]
  /\ held = [x \in Txn |-> {}]

Next == \E x \in Txn : Begin(x) \/ Acquire(x) \/ End(x)

Spec == Init /\ [][Next]_vars

-----------------------------------------------------------------------------
(* Properties. *)

WaitsFor(x, y) ==
  x # y /\ plan[x] # <<>> /\ Head(plan[x]) \in held[y]

\* No set of transactions wait for each other: whichever of them run at the
\* same time, the database's deadlock detector never has to abort one.
NoDeadlock ==
  \A S \in SUBSET Txn :
    S # {} => \E x \in S : \A y \in S : ~ WaitsFor(x, y)

\* What refund_reversal.go says of its lock order: a refund cannot deadlock a
\* concurrent settlement.
RefundNeverDeadlocksSettlement == NoDeadlock
=============================================================================
