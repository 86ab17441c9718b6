------------------------------ MODULE Payment ------------------------------
(***************************************************************************)
(* Online top-ups (internal/payment/service, internal/payment/pg): an      *)
(* order is created, prepaid at the WeChat gateway, paid by a customer,    *)
(* and credited exactly once, whoever learns of the payment first: the     *)
(* gateway's notification, the scheduler's sweep or an operator's sync.    *)
(*                                                                         *)
(* The gateway is external.  Its trade advances on its own between a query *)
(* and the statement that uses the answer; its calls may fail with or      *)
(* without effect; its notifications are lost, repeated and late.  Tasks   *)
(* are sweeps and syncs in flight: each works on one order at a time, from *)
(* the status it read first.  The scheduler's advisory lock keeps sweeps   *)
(* apart only while its session lives, so tasks overlap freely here.       *)
(*                                                                         *)
(* Time is coarse: flags say that an order's expires_at has passed, that   *)
(* its next sweep attempt lies ahead, that it has been closed for 30 days. *)
(***************************************************************************)
EXTENDS Integers

CONSTANTS
  Order,        \* payment orders
  UserTopup,    \* those of end users, which also earn their tenant income
  Task          \* sweeps and syncs that may be in flight at once

ASSUME PaymentAssumption == UserTopup \subseteq Order /\ Order # {}

VARIABLES
  orders,       \* pay_orders
  checkout,     \* how far CreateTopupOrder has come with each order
  trade,        \* the gateway's state of the trade
  matches,      \* whether the payment passes Settle's comparison of amount,
                \* merchant and app (an empty merchant or app is not compared)
  notices,      \* SUCCESS notifications the gateway may still deliver
  books,        \* what each order has added to the balance and cash ledgers
  tasks

vars == <<orders, checkout, trade, matches, notices, books, tasks>>

Live   == {"created", "paying", "paid", "closed", "expired"}
Status == Live \cup {"none", "gone"}
Trade  == {"none", "notpay", "userpaying", "success", "closed", "refund"}

OrderRow == [status : Status, fulfilment : {"pending", "credited", "reversed"},
             lapsed : BOOLEAN, waiting : BOOLEAN, aged : BOOLEAN]
Books    == [credited : 0 .. 1, income : 0 .. 1, cash : 0 .. 1, reversed : 0 .. 1]
TaskRow  == [pc : {"idle", "query", "settle", "close", "record"},
             job : {"sync", "expired", "inflight"}, order : Order,
             seen : Status, result : Trade, next : Status]

One(b) == IF b THEN 1 ELSE 0

-----------------------------------------------------------------------------
(* Statements on an order row. *)

MarkPaid(row) ==
  [row EXCEPT !.status = "paid", !.fulfilment = "credited", !.waiting = FALSE,
              !.aged = FALSE]

\* UpdateStatusTx; even with the status the order has, it counts as an update.
UpdateStatus(row, status) ==
  [row EXCEPT !.status = status, !.waiting = status # "closed" /\ @, !.aged = FALSE]

\* MarkOrderFailed asks nothing of the order it closes.
CloseFailed(row) ==
  IF row.status = "gone" THEN row
  ELSE [row EXCEPT !.status = "closed", !.waiting = FALSE, !.aged = FALSE]

\* Mutant: the statements do not compare the status.
IfCurrentRegardless(row, seen, next) ==
  [row EXCEPT !.status = next, !.waiting = next # "closed", !.aged = FALSE]

\* UpdateStatusIfCurrent, RecordSweepFailureIfCurrent and
\* ScheduleSweepRetryIfCurrent: all act only on the status seen before the
\* provider was called, and all but a close set the next attempt.
IfCurrent(row, seen, next) ==
  IF row.status # seen THEN row
  ELSE [row EXCEPT !.status = next, !.waiting = next # "closed", !.aged = FALSE]

-----------------------------------------------------------------------------
(* Settle: one transaction under the lock of the order row. *)

\* The grants of a payment, the tenant's income guarded by its own key.
Book(o, b) ==
  LET income == o \in UserTopup /\ b.cash = 0
  IN  [b EXCEPT !.credited = b.credited + 1,
                !.income = b.income + One(income), !.cash = b.cash + One(income)]

\* What an answer other than SUCCESS makes of the status.
Unpaid(status, result) ==
  CASE status \in {"closed", "expired"} -> status
    [] OTHER -> CASE result = "userpaying" -> "paying"
                  [] result = "notpay" -> status
                  [] OTHER -> "closed"

\* Mutant: no fast path for an order that is paid already.
SettleAgain(o, result) ==
  /\ orders[o].status # "gone"
  /\ result = "success" /\ matches[o]
  /\ orders' = [orders EXCEPT ![o] = MarkPaid(@)]
  /\ books' = [books EXCEPT ![o] = Book(o, @)]

\* Mutant: amount, merchant and app are not compared.
SettleUnverified(o, result) ==
  /\ orders[o].status \notin {"gone", "paid"}
  /\ result = "success"
  /\ orders' = [orders EXCEPT ![o] = MarkPaid(@)]
  /\ books' = [books EXCEPT ![o] = Book(o, @)]

Settle(o, result) ==
  LET row == orders[o]
  IN  /\ row.status # "gone"
      /\ \/ /\ row.status # "paid" /\ result = "success" /\ matches[o]
            /\ orders' = [orders EXCEPT ![o] = MarkPaid(@)]
            /\ books' = [books EXCEPT ![o] = Book(o, @)]
         \/ /\ row.status # "paid" /\ result # "success"
            /\ Unpaid(row.status, result) # row.status
            /\ orders' = [orders EXCEPT ![o] = UpdateStatus(@, Unpaid(row.status, result))]
            /\ UNCHANGED books
         \/ \* the mismatch is noted on the order
            /\ row.status # "paid" /\ result = "success" /\ ~ matches[o]
            /\ orders' = [orders EXCEPT ![o] = UpdateStatus(@, row.status)]
            /\ UNCHANGED books
         \/ /\ \/ row.status = "paid"
               \/ result # "success" /\ Unpaid(row.status, result) = row.status
            /\ UNCHANGED <<orders, books>>

-----------------------------------------------------------------------------
(* CreateTopupOrder. *)

CreateTopupOrder(o) ==
  /\ orders[o].status = "none"
  /\ orders' = [orders EXCEPT ![o].status = "created"]
  /\ checkout' = [checkout EXCEPT ![o] = "prepaying"]
  /\ UNCHANGED <<trade, matches, notices, books, tasks>>

\* The gateway opens the trade, until the order's expires_at; its answer may
\* be lost.
Prepay(o) ==
  /\ checkout[o] = "prepaying"
  /\ ~ orders[o].lapsed
  /\ trade' = [trade EXCEPT ![o] = "notpay"]
  /\ \E next \in {"answered", "failing"} : checkout' = [checkout EXCEPT ![o] = next]
  /\ UNCHANGED <<orders, matches, notices, books, tasks>>

PrepayFails(o) ==
  /\ checkout[o] = "prepaying"
  /\ checkout' = [checkout EXCEPT ![o] = "failing"]
  /\ UNCHANGED <<orders, trade, matches, notices, books, tasks>>

\* From here on the customer can see the code to pay with.
SetCodeURL(o) ==
  /\ checkout[o] = "answered"
  /\ checkout' = [checkout EXCEPT ![o] = "coded"]
  /\ UNCHANGED <<orders, trade, matches, notices, books, tasks>>

MarkOrderFailed(o) ==
  /\ checkout[o] = "failing"
  /\ checkout' = [checkout EXCEPT ![o] = "failed"]
  /\ orders' = [orders EXCEPT ![o] = CloseFailed(@)]
  /\ UNCHANGED <<trade, matches, notices, books, tasks>>

\* The process dies or the statement that comes next fails, unreported.
CheckoutAborts(o) ==
  /\ checkout[o] \in {"prepaying", "answered", "failing"}
  /\ checkout' = [checkout EXCEPT ![o] = "failed"]
  /\ UNCHANGED <<orders, trade, matches, notices, books, tasks>>

-----------------------------------------------------------------------------
(* The gateway and its customer (external). *)

Scan(o) ==
  /\ checkout[o] = "coded" /\ trade[o] = "notpay" /\ ~ orders[o].lapsed
  /\ trade' = [trade EXCEPT ![o] = "userpaying"]
  /\ UNCHANGED <<orders, checkout, matches, notices, books, tasks>>

\* A payment for another amount, merchant or app does not match the order.
Pay(o) ==
  /\ trade[o] = "userpaying"
  /\ trade' = [trade EXCEPT ![o] = "success"]
  /\ \E m \in BOOLEAN : matches' = [matches EXCEPT ![o] = m]
  /\ notices' = notices \cup {o}
  /\ UNCHANGED <<orders, checkout, books, tasks>>

\* The merchant gives the money back on the gateway's own site.
GatewayRefund(o) ==
  /\ trade[o] = "success"
  /\ trade' = [trade EXCEPT ![o] = "refund"]
  /\ UNCHANGED <<orders, checkout, matches, notices, books, tasks>>

NotifyLost(o) ==
  /\ o \in notices
  /\ notices' = notices \ {o}
  /\ UNCHANGED <<orders, checkout, trade, matches, books, tasks>>

\* HandleNotify: a notification may be delivered again after it was handled.
HandleNotify(o) ==
  /\ o \in notices
  /\ Settle(o, "success")
  /\ notices' \in {notices, notices \ {o}}
  /\ UNCHANGED <<checkout, trade, matches, tasks>>

-----------------------------------------------------------------------------
(* Sweeps and syncs. *)

\* Mutant: an order whose close failed once is not looked at again.
ListSweepCandidatesWithoutExpired ==
  {o \in Order : /\ orders[o].status \in {"created", "paying"}
                 /\ orders[o].lapsed /\ ~ orders[o].waiting}

\* The orders each of them works on.
ListSweepCandidates ==
  {o \in Order : /\ orders[o].status \in {"created", "paying", "expired"}
                 /\ orders[o].lapsed /\ ~ orders[o].waiting}

ListInFlightCandidates ==
  {o \in Order : /\ orders[o].status \in {"created", "paying"}
                 /\ ~ orders[o].lapsed /\ ~ orders[o].waiting}

Candidates(job) ==
  CASE job = "expired"  -> ListSweepCandidates
    [] job = "inflight" -> ListInFlightCandidates
    [] job = "sync"     -> {o \in Order : orders[o].status \in Live}

Start(t, job, o) ==
  /\ tasks[t].pc = "idle"
  /\ o \in Candidates(job)
  /\ tasks' = [tasks EXCEPT ![t] = [pc |-> "query", job |-> job, order |-> o,
                 seen |-> orders[o].status, result |-> "none", next |-> orders[o].status]]
  /\ UNCHANGED <<orders, checkout, trade, matches, notices, books>>

\* Where a task goes when the gateway says the trade is in state result, or
\* ("none") gives no answer.
AfterQuery(job, result) ==
  CASE job = "sync" -> IF result = "none" THEN "idle" ELSE "settle"
    [] job = "expired" -> IF result = "success" THEN "settle" ELSE "close"
    [] job = "inflight" -> IF result = "success" THEN "settle" ELSE "record"

Query(t) ==
  /\ tasks[t].pc = "query"
  /\ \E result \in {trade[tasks[t].order], "none"} :
        tasks' = [tasks EXCEPT ![t].pc = AfterQuery(tasks[t].job, result),
                               ![t].result = result]
  /\ UNCHANGED <<orders, checkout, trade, matches, notices, books>>

\* Mutant: a failed close is recorded as a close.
CloseIgnoresError(t) ==
  LET o == tasks[t].order
  IN  /\ tasks[t].pc = "close"
      /\ \E done \in BOOLEAN :
            /\ done => trade[o] \notin {"success", "refund"}
            /\ trade' = [trade EXCEPT ![o] = IF done /\ @ # "none" THEN "closed" ELSE @]
            /\ tasks' = [tasks EXCEPT ![t].pc = "record", ![t].next = "closed"]
      /\ UNCHANGED <<orders, checkout, matches, notices, books>>

\* The gateway refuses to close a paid trade; the answer to a close that took
\* effect may be lost.
Close(t) ==
  LET o == tasks[t].order
  IN  /\ tasks[t].pc = "close"
      /\ \E done, answered \in BOOLEAN :
            /\ done => trade[o] \notin {"success", "refund"}
            /\ answered => done
            /\ trade' = [trade EXCEPT ![o] = IF done /\ @ # "none" THEN "closed" ELSE @]
            /\ tasks' = [tasks EXCEPT ![t].pc = "record",
                           ![t].next = IF answered THEN "closed" ELSE "expired"]
      /\ UNCHANGED <<orders, checkout, matches, notices, books>>

\* A settlement whose commit is not acknowledged counts as failed.
SettleTask(t) ==
  /\ tasks[t].pc = "settle"
  /\ Settle(tasks[t].order, tasks[t].result)
  /\ \E pc \in {"idle"} \cup (IF tasks[t].job = "sync" THEN {} ELSE {"record"}) :
        tasks' = [tasks EXCEPT ![t].pc = pc]
  /\ UNCHANGED <<checkout, trade, matches, notices>>

SettleFails(t) ==
  /\ tasks[t].pc = "settle"
  /\ tasks' = [tasks EXCEPT ![t].pc = IF tasks[t].job = "sync" THEN "idle" ELSE "record"]
  /\ UNCHANGED <<orders, checkout, trade, matches, notices, books>>

Record(t) ==
  /\ tasks[t].pc = "record"
  /\ orders' = [orders EXCEPT ![tasks[t].order] = IfCurrent(@, tasks[t].seen, tasks[t].next)]
  /\ tasks' = [tasks EXCEPT ![t].pc = "idle"]
  /\ UNCHANGED <<checkout, trade, matches, notices, books>>

\* The process dies, or the statement that comes next fails.
TaskAborts(t) ==
  /\ tasks[t].pc # "idle"
  /\ tasks' = [tasks EXCEPT ![t].pc = "idle"]
  /\ UNCHANGED <<orders, checkout, trade, matches, notices, books>>

-----------------------------------------------------------------------------
(* Refunds, cleanup and time. *)

\* RecordCompletedRefund: the money has left already; the order's grants are
\* checked one by one and reversed.
RecordCompletedRefund(o) ==
  /\ orders[o].status = "paid" /\ orders[o].fulfilment = "credited"
  /\ books[o].credited = 1 /\ books[o].income = One(o \in UserTopup)
  /\ orders' = [orders EXCEPT ![o].fulfilment = "reversed"]
  /\ books' = [books EXCEPT ![o].reversed = @ + 1]
  /\ UNCHANGED <<checkout, trade, matches, notices, tasks>>

\* DeleteStaleClosedOrders.
CleanupClosedOrders(o) ==
  /\ orders[o].status = "closed" /\ orders[o].fulfilment = "pending"
  /\ orders[o].aged
  /\ books[o].credited = 0
  /\ orders' = [orders EXCEPT ![o].status = "gone"]
  /\ UNCHANGED <<checkout, trade, matches, notices, books, tasks>>

Lapse(o) ==
  /\ orders[o].status # "none" /\ ~ orders[o].lapsed
  /\ orders' = [orders EXCEPT ![o].lapsed = TRUE]
  /\ UNCHANGED <<checkout, trade, matches, notices, books, tasks>>

RetryElapses(o) ==
  /\ orders[o].waiting
  /\ orders' = [orders EXCEPT ![o].waiting = FALSE]
  /\ UNCHANGED <<checkout, trade, matches, notices, books, tasks>>

ClosedAges(o) ==
  /\ orders[o].status = "closed" /\ ~ orders[o].aged
  /\ orders' = [orders EXCEPT ![o].aged = TRUE]
  /\ UNCHANGED <<checkout, trade, matches, notices, books, tasks>>

-----------------------------------------------------------------------------
Init ==
  /\ orders = [o \in Order |-> [status |-> "none", fulfilment |-> "pending",
                                lapsed |-> FALSE, waiting |-> FALSE, aged |-> FALSE]]
  /\ checkout = [o \in Order |-> "none"]
  /\ trade = [o \in Order |-> "none"]
  /\ matches = [o \in Order |-> FALSE]
  /\ notices = {}
  /\ books = [o \in Order |-> [credited |-> 0, income |-> 0, cash |-> 0, reversed |-> 0]]
  /\ tasks \in [Task -> {[pc |-> "idle", job |-> "sync", order |-> CHOOSE o \in Order : TRUE,
                          seen |-> "none", result |-> "none", next |-> "none"]}]

CheckoutStep(o) ==
  \/ CreateTopupOrder(o) \/ Prepay(o) \/ PrepayFails(o)
  \/ SetCodeURL(o) \/ MarkOrderFailed(o) \/ CheckoutAborts(o)

GatewayStep(o) == Scan(o) \/ Pay(o) \/ GatewayRefund(o) \/ NotifyLost(o)

OrderStep(o) ==
  \/ HandleNotify(o) \/ RecordCompletedRefund(o) \/ CleanupClosedOrders(o)
  \/ Lapse(o) \/ RetryElapses(o) \/ ClosedAges(o)

TaskStep(t) ==
  Query(t) \/ Close(t) \/ SettleTask(t) \/ SettleFails(t) \/ Record(t) \/ TaskAborts(t)

Next ==
  \/ \E o \in Order : CheckoutStep(o) \/ GatewayStep(o) \/ OrderStep(o)
  \/ \E t \in Task : TaskStep(t)
  \/ \E t \in Task, job \in {"sync", "expired", "inflight"}, o \in Order : Start(t, job, o)

Spec == Init /\ [][Next]_vars

Sweeping(t, o) == tasks[t].order = o /\ tasks[t].job = "expired"

\* The clock advances.  Every call has a deadline, so tasks end; every cycle
\* of the scheduler lists every candidate (up to its limit) again.  Gateway
\* and database may fail, but not for ever: of the sweeps of an order some
\* get a query answered, and of those some settle.
FairSpec ==
  /\ Spec
  /\ \A o \in Order : WF_vars(Lapse(o)) /\ WF_vars(RetryElapses(o))
  /\ \A t \in Task : WF_vars(TaskStep(t))
  /\ \A o \in Order :
       /\ SF_vars(\E t \in Task : Start(t, "expired", o))
       /\ SF_vars(\E t \in Task : Sweeping(t, o) /\ Query(t) /\ tasks'[t].result = trade[o])
       /\ SF_vars(\E t \in Task : Sweeping(t, o) /\ SettleTask(t))

-----------------------------------------------------------------------------
(* Properties. *)

\* The tables keep their shapes, and no order is credited, earns income or is
\* reversed more than once, whoever reports its payment and how often.
TypeOK ==
  /\ orders \in [Order -> OrderRow]
  /\ checkout \in [Order -> {"none", "prepaying", "answered", "failing", "coded", "failed"}]
  /\ trade \in [Order -> Trade]
  /\ matches \in [Order -> BOOLEAN]
  /\ notices \subseteq Order
  /\ books \in [Order -> Books]
  /\ tasks \in [Task -> TaskRow]

\* The order and the ledgers tell one story: an order is paid exactly when it
\* has been credited, once, with its tenant's income and cash entry if it is
\* an end user's, and it is reversed exactly when they have been taken back.
\* No late sweep or sync result moves a credited order to another status.
BooksMatchOrder ==
  \A o \in Order :
    LET paid == orders[o].status = "paid"
    IN  /\ paid <=> orders[o].fulfilment # "pending"
        /\ books[o].credited = One(paid)
        /\ books[o].income = One(paid /\ o \in UserTopup)
        /\ books[o].cash = books[o].income
        /\ books[o].reversed = One(orders[o].fulfilment = "reversed")

\* Nothing is credited that was not paid, in full and to this merchant.
CreditOnlyIfPaid ==
  \A o \in Order :
    books[o].credited > 0 => trade[o] \in {"success", "refund"} /\ matches[o]

\* Sweeps never look at a closed order again and after 30 days it is deleted,
\* so an order may be closed only when no customer can pay it any more and
\* none has: its trade is closed or was given back at the gateway, or its
\* code was never shown.
ClosedOrdersTakeNoMoney ==
  \A o \in Order :
    orders[o].status \in {"closed", "gone"} =>
      trade[o] \in {"none", "closed", "refund"} \/ checkout[o] # "coded"

\* A matching payment is credited at last, unless the money is given back
\* first, even when its notification is lost.
MoneyArrives ==
  \A o \in Order :
    (trade[o] = "success" /\ matches[o]) ~>
      (books[o].credited > 0 \/ trade[o] = "refund")
=============================================================================
