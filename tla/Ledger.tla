------------------------------- MODULE Ledger -------------------------------
(***************************************************************************)
(* The money ledger (internal/billing/ledger, internal/billing/service).   *)
(*                                                                         *)
(* A balance is one signed number per account.  Every credit also leaves a *)
(* lot: the row that says where spendable money came from, when it expires *)
(* and how much of it has been used.  The balance decides, the lots only   *)
(* attribute, and the reconciliation job (billing/invariants) compares the *)
(* two.                                                                    *)
(*                                                                         *)
(* Every operation of the ledger takes the account row lock before it      *)
(* touches a lot and keeps it to the end of the transaction, so operations *)
(* on one account are serial: an action is one committed transaction.      *)
(* Rows are numbered in insertion order, which is also created_at order.   *)
(***************************************************************************)
EXTENDS Integers, FiniteSets, Sums

CONSTANTS
  Account,      \* the accounts of bill_accounts (tenants and users)
  Order,        \* the ids of recharge orders
  NoOrder,      \* the NULL recharge_order_id of a lot
  Amount,       \* the amounts, in micro units, callers pass
  Horizon,      \* bound: the clock and the expiry dates stay within 0..Horizon
  MaxLots,      \* bound: at most this many lots are created
  MaxDebt,      \* bound: charges stop before an account owes more than this
  ExpiryBatch   \* the LIMIT of one expiry transaction

ASSUME LedgerAssumption ==
  /\ NoOrder \notin Order
  /\ Account # {}
  /\ Amount \subseteq Nat \ {0}
  /\ Horizon \in Nat /\ MaxLots \in Nat /\ MaxDebt \in Nat
  /\ ExpiryBatch \in Nat \ {0}

VARIABLES
  balance,      \* bill_accounts.balance_micro
  nlots,        \* how many lots have been inserted
  lots,         \* bill_credit_lots, by insertion number
  orders,       \* bill_recharge_orders
  unbacked,     \* per account, the sum of non_available_debit_micro over its
                \* rows of bill_refund_reversal_effects
  now

vars == <<balance, nlots, lots, orders, unbacked, now>>

Permanent == 0          \* expires_at IS NULL

LotState   == {"active", "expired", "revoked"}
LotRow     == [account : Account, granted : Nat \ {0}, consumed : Nat,
               expires : Nat, order : Order \cup {NoOrder},
               state : LotState, unused : Nat]
OrderRow   == [status : {"none", "active", "reversed"}, online : BOOLEAN,
               account : Account, credit : Nat, reversed : Nat, lost : Nat]

Lots == 1 .. nlots

-----------------------------------------------------------------------------
(* Reading the lots. *)

Smaller(x, y) == IF x <= y THEN x ELSE y
Larger(x, y)  == IF x >= y THEN x ELSE y

Remaining(i) == lots[i].granted - lots[i].consumed

ActiveLots == {i \in Lots : lots[i].state = "active"}

OrderLots(o) == {i \in Lots : lots[i].order = o}

\* What the lots of S still hold for account a, row by row and in total.
RemainingIn(S, a) ==
  [i \in Lots |-> IF i \in S /\ lots[i].account = a
                    THEN Larger(Remaining(i), 0) ELSE 0]

RemainingTotal(S, a) == SumTo(RemainingIn(S, a), nlots)

AvailableLots(a) == RemainingTotal(ActiveLots, a)

\* ORDER BY expires_at NULLS LAST, created_at
ConsumedBefore(i, j) ==
  LET e == lots[i].expires
      f == lots[j].expires
  IN  \/ e = f /\ i < j
      \/ e # Permanent /\ f = Permanent
      \/ e # Permanent /\ f # Permanent /\ e < f

\* Mutant: a charge may use the lots in any order.
AttributionInAnyOrder(a, m, applied) ==
  LET open == RemainingIn(ActiveLots, a)
  IN  /\ \A i \in Lots : applied[i] <= open[i]
      /\ SumTo(applied, nlots) = Smaller(m, AvailableLots(a))

\* The attribution of a charge of m to the open lots of a: soonest expiry
\* first, each lot up to what it holds, and what exceeds all of them is
\* attributed to none.
Attribution(a, m, applied) ==
  LET open == RemainingIn(ActiveLots, a)
  IN  /\ \A i \in Lots : applied[i] <= open[i]
      /\ \A i, j \in Lots :
            ConsumedBefore(i, j) /\ applied[j] > 0 => applied[i] = open[i]
      /\ SumTo(applied, nlots) = Smaller(m, AvailableLots(a))

\* The rows consumeLots selects, and the ways to walk them: each once, in
\* ConsumedBefore order.
OpenLots(a) == {i \in ActiveLots : lots[i].account = a /\ Remaining(i) > 0}

Walks(a) ==
  {q \in [1 .. Cardinality(OpenLots(a)) -> OpenLots(a)] :
     \A k, l \in DOMAIN q : k < l => ConsumedBefore(q[k], q[l])}

\* The loop of consumeLots after each of its rounds: every row in turn takes
\* min(outstanding, remaining).
consumeLots(q, m) ==
  LET loop[k \in {0} \cup DOMAIN q] ==
        IF k = 0
          THEN [outstanding |-> m, applied |-> [i \in Lots |-> 0]]
          ELSE LET last  == loop[k-1]
                   taken == Smaller(last.outstanding, Remaining(q[k]))
               IN  [outstanding |-> last.outstanding - taken,
                    applied |-> [last.applied EXCEPT ![q[k]] = taken]]
  IN  loop

-----------------------------------------------------------------------------
(* The updates of one lot row. *)

Consume(lot, applied) == [lot EXCEPT !.consumed = @ + applied]

\* A revoked lot counts as wholly consumed.
Revoke(lot) == [lot EXCEPT !.state = "revoked", !.consumed = lot.granted]

\* Mutant: the unused part is not recorded.
ExpireForgetsUnused(lot) == [lot EXCEPT !.state = "expired"]

\* An expired lot keeps its use and records what was left.
Expire(lot) == [lot EXCEPT !.state = "expired", !.unused = lot.granted - lot.consumed]

\* The reversal of an order row.
Close(row, reversed, lost) ==
  [row EXCEPT !.status = "reversed", !.reversed = reversed, !.lost = lost]

-----------------------------------------------------------------------------
(* The balance-changing primitives. *)

\* Balance and lots after a charge of m; shared by Charge and ChargeIfFunded.
Debit(a, m) ==
  /\ balance' = [balance EXCEPT ![a] = @ - m]
  /\ \E applied \in [Lots -> 0 .. m] :
        /\ Attribution(a, m, applied)
        /\ lots' = [i \in Lots |-> Consume(lots[i], applied[i])]
  /\ UNCHANGED nlots

\* Mutant: a grant does not clear the debt first.
LotMicroIgnoresDebt(a, m) == m

\* The part of a grant that becomes spendable once it has cleared any debt.
LotMicro(a, m) == IF balance[a] < 0 THEN m + balance[a] ELSE m

\* Mutant: the lot is inserted even when the debt took all of the grant.
GrantAlwaysInserts(a, m, expires, o) ==
  /\ balance' = [balance EXCEPT ![a] = @ + m]
  /\ nlots < MaxLots
  /\ nlots' = nlots + 1
  /\ lots' = [i \in 1 .. nlots + 1 |->
       IF i = nlots + 1
         THEN [account |-> a, granted |-> LotMicro(a, m), consumed |-> 0,
               expires |-> expires, order |-> o, state |-> "active", unused |-> 0]
         ELSE lots[i]]

Grant(a, m, expires, o) ==
  LET micro == LotMicro(a, m)
  IN  /\ balance' = [balance EXCEPT ![a] = @ + m]
      /\ IF micro <= 0
           THEN UNCHANGED <<nlots, lots>>
           ELSE /\ nlots < MaxLots
                /\ nlots' = nlots + 1
                /\ lots' = [i \in 1 .. nlots + 1 |->
                     IF i = nlots + 1
                       THEN [account |-> a, granted |-> micro, consumed |-> 0,
                             expires |-> expires, order |-> o,
                             state |-> "active", unused |-> 0]
                       ELSE lots[i]]

\* Mutant: the balance is debited but the lots stay open.
RevokedLotsStayOpen(S) == lots

RevokedLots(S) == [i \in Lots |-> IF i \in S THEN Revoke(lots[i]) ELSE lots[i]]

-----------------------------------------------------------------------------
(* The operations. *)

\* Usage settlement: work already done is charged whatever the balance is.
Charge(a, m) ==
  /\ balance[a] - m >= -MaxDebt
  /\ Debit(a, m)
  /\ UNCHANGED <<orders, unbacked, now>>

\* Purchases and withdrawals: refused unless the balance covers the amount.
ChargeIfFunded(a, m) ==
  /\ balance[a] >= m
  /\ Debit(a, m)
  /\ UNCHANGED <<orders, unbacked, now>>

\* A recharge: the order row and its grant in one transaction.  An online
\* recharge is the one a settled payment order makes.
GrantBalance(o, a, m, expires, online) ==
  /\ orders[o].status = "none"
  /\ orders' = [orders EXCEPT ![o] =
        [status |-> "active", online |-> online, account |-> a,
         credit |-> m, reversed |-> 0, lost |-> 0]]
  /\ Grant(a, m, expires, o)
  /\ UNCHANGED <<unbacked, now>>

\* A refund of settled usage credits a permanent lot that no order owns.
RefundUsage(a, m) ==
  /\ Grant(a, m, Permanent, NoOrder)
  /\ UNCHANGED <<orders, unbacked, now>>

\* An operator takes back what is left of a manual recharge; it is refused
\* when nothing is left.
ReverseOrder(o) ==
  LET S         == OrderLots(o) \cap ActiveLots
      reclaimed == RemainingTotal(S, orders[o].account)
  IN  /\ orders[o].status = "active"
      /\ ~ orders[o].online
      /\ reclaimed # 0
      /\ balance' = [a \in Account |-> balance[a] - RemainingTotal(S, a)]
      /\ lots' = RevokedLots(S)
      /\ orders' = [orders EXCEPT ![o] = Close(@, reclaimed, @.credit - reclaimed)]
      /\ UNCHANGED <<nlots, unbacked, now>>

\* The components of a refund reversal of order o.
RefundAvailable(o) == RemainingTotal(OrderLots(o) \cap ActiveLots, orders[o].account)

RefundExpired(o) == SumTo([i \in Lots |-> IF i \in OrderLots(o) THEN lots[i].unused ELSE 0], nlots)

GrantedByLots(o) == SumTo([i \in Lots |-> IF i \in OrderLots(o) THEN lots[i].granted ELSE 0], nlots)

ConsumedOfLots(o) == SumTo([i \in Lots |-> IF i \in OrderLots(o) THEN lots[i].consumed ELSE 0], nlots)

RefundNonAvailable(o) == ConsumedOfLots(o) + (orders[o].credit - GrantedByLots(o))

\* A completed payment refund takes the whole credit back: what is left of
\* it, and again what was spent or had cleared debt, but not what expired.
ReverseGrantForRefund(o) ==
  LET a     == orders[o].account
      debit == RefundAvailable(o) + RefundNonAvailable(o)
  IN  /\ orders[o].status = "active"
      /\ orders[o].online
      /\ \A i \in OrderLots(o) :
            /\ lots[i].state # "revoked"
            /\ lots[i].state = "expired" => lots[i].unused = Remaining(i)
      /\ GrantedByLots(o) <= orders[o].credit
      /\ debit + RefundExpired(o) = orders[o].credit
      /\ balance' = [balance EXCEPT ![a] = @ - debit]
      /\ lots' = RevokedLots(OrderLots(o) \cap ActiveLots)
      /\ orders' = [orders EXCEPT ![o] = Close(@, RefundAvailable(o), RefundNonAvailable(o))]
      /\ unbacked' = [unbacked EXCEPT ![a] = @ + RefundNonAvailable(o)]
      /\ UNCHANGED <<nlots, now>>

DueBy(time) == {i \in ActiveLots : lots[i].expires # Permanent /\ lots[i].expires <= time}

DueLots == DueBy(now)

\* Mutant: a batch that does not fit the LIMIT is given up, not cut.
ExpiryBatchAllOrNothing(A, time, S) ==
  LET candidates == {i \in DueBy(time) : lots[i].account \in A}
  IN  S # {} /\ S = candidates /\ Cardinality(S) <= ExpiryBatch

\* One batch: of the lots of these accounts that are due at this time the
\* ExpiryBatch that fell due first.
ExpiryBatchOf(A, time, S) ==
  LET candidates == {i \in DueBy(time) : lots[i].account \in A}
  IN  /\ S # {} /\ S \subseteq candidates
      /\ \A i \in S, j \in candidates \ S : lots[i].expires <= lots[j].expires
      /\ \/ S = candidates
         \/ Cardinality(S) = ExpiryBatch
      /\ Cardinality(S) <= ExpiryBatch

ExpireLots(S) ==
  /\ balance' = [a \in Account |-> balance[a] - RemainingTotal(S, a)]
  /\ lots' = [i \in Lots |-> IF i \in S THEN Expire(lots[i]) ELSE lots[i]]
  /\ UNCHANGED <<nlots, orders, unbacked, now>>

\* The transaction of the scheduler's expiry pass, once it holds the locks.
\* The time is that of the pass, and the accounts come from a query made
\* before they were locked: what they have that is due may have changed since,
\* so that they may be any accounts, up to the LIMIT.  The lots are selected
\* under the locks.  A pass that finds none of them left changes nothing.
ExpireDueLots ==
  \E A \in SUBSET Account, time \in 0 .. now :
    /\ Cardinality(A) <= ExpiryBatch
    /\ \E S \in SUBSET DueBy(time) : ExpiryBatchOf(A, time, S) /\ ExpireLots(S)

Tick ==
  /\ now < Horizon
  /\ now' = now + 1
  /\ UNCHANGED <<balance, nlots, lots, orders, unbacked>>

-----------------------------------------------------------------------------
Init ==
  /\ balance = [a \in Account |-> 0]
  /\ nlots = 0
  /\ lots = [i \in 1 .. 0 |-> 0]
  /\ orders = [o \in Order |-> [status |-> "none", online |-> FALSE,
                                account |-> CHOOSE a \in Account : TRUE,
                                credit |-> 0, reversed |-> 0, lost |-> 0]]
  /\ unbacked = [a \in Account |-> 0]
  /\ now = 0

Next ==
  \/ \E a \in Account, m \in Amount :
        Charge(a, m) \/ ChargeIfFunded(a, m) \/ RefundUsage(a, m)
  \/ \E o \in Order, a \in Account, m \in Amount,
        expires \in 0 .. Horizon, online \in BOOLEAN :
           GrantBalance(o, a, m, expires, online)
  \/ \E o \in Order : ReverseOrder(o) \/ ReverseGrantForRefund(o)
  \/ ExpireDueLots
  \/ Tick

Spec == Init /\ [][Next]_vars

\* The scheduler runs the expiry pass again and again, every batch in a
\* transaction of its own, so a pass that can settle a lot eventually does.
FairSpec == Spec /\ WF_vars(ExpireDueLots) /\ WF_vars(Tick)

-----------------------------------------------------------------------------
(* Properties. *)

\* The tables keep the shapes their CHECK constraints ask for: a lot is granted
\* a positive amount and no counter of a row is negative.
TypeOK ==
  /\ balance \in [Account -> Int]
  /\ nlots \in Nat
  /\ lots \in [Lots -> LotRow]
  /\ orders \in [Order -> OrderRow]
  /\ unbacked \in [Account -> Nat]
  /\ now \in Nat

\* No lot is ever used beyond its grant, an expired lot has recorded exactly
\* the part that was left when it expired, and a revoked one holds nothing
\* (billing/invariants checkLotStates).
LotStates ==
  \A i \in Lots :
    /\ lots[i].consumed <= lots[i].granted
    /\ lots[i].state = "expired" => lots[i].unused = Remaining(i)
    /\ lots[i].state # "expired" => lots[i].unused = 0
    /\ lots[i].state = "revoked" => lots[i].consumed = lots[i].granted

\* The open lots of an account never hold less than its spendable balance,
\* and they hold more by at most what payment refunds have debited beyond the
\* lots they revoked.  Where no such refund happened the two are equal, which
\* is what the reconciliation job expects everywhere.
DriftBoundedByRefunds ==
  \A a \in Account :
    LET drift == AvailableLots(a) - Larger(balance[a], 0)
    IN  0 <= drift /\ drift <= unbacked[a]

\* The lots of an order never carry more than it credited, and a reversed
\* order leaves no spendable lot behind (checkRechargeOrders); a reversed
\* order's row accounts for every unit: taken back, lost, or expired.
OrdersReconcile ==
  \A o \in Order :
    /\ orders[o].status = "none" => OrderLots(o) = {}
    /\ GrantedByLots(o) <= orders[o].credit
    /\ orders[o].status = "reversed" =>
         /\ OrderLots(o) \cap ActiveLots = {}
         /\ orders[o].reversed + orders[o].lost
              + (IF orders[o].online THEN RefundExpired(o) ELSE 0)
            = orders[o].credit

\* Whatever the lots of an account are, there is a way to walk them, the
\* attribution of a charge exists and is unique, and it is what the loop of
\* consumeLots leaves behind at its last row.
AttributionIsTheLoop ==
  \A a \in Account, m \in Amount :
    /\ Walks(a) # {}
    /\ \A q \in Walks(a) :
         {applied \in [Lots -> 0 .. m] : Attribution(a, m, applied)}
           = {consumeLots(q, m)[Cardinality(OpenLots(a))].applied}

\* Expiry and manual reversal take only money that is still there: unless a
\* refund has debited the account beyond its lots, they never push it into
\* debt (nor deeper into it).
TakeBackStep ==
  (ExpireDueLots \/ \E o \in Order : ReverseOrder(o)) =>
    \A a \in Account :
      unbacked[a] = 0 => balance'[a] >= Smaller(balance[a], 0)

TakeBackNeverIndebts == [][TakeBackStep]_vars

\* Every lot that falls due is eventually settled: the LIMIT of the expiry
\* batch starves no lot.
DueLotsSettle ==
  \A i \in 1 .. MaxLots :
    (i \in Lots /\ i \in DueLots) ~> (i \in Lots /\ lots[i].state # "active")
=============================================================================
