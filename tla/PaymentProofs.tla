--------------------------- MODULE PaymentProofs ---------------------------
(***************************************************************************)
(* Proofs about online top-ups, for any orders and any number of sweeps    *)
(* and syncs in flight.                                                    *)
(***************************************************************************)
EXTENDS Payment, TLAPS

\* A trade is opened by the checkout of an order and paid only after its code
\* was shown.
TradeFollowsCheckout ==
  \A o \in Order :
    /\ orders[o].status = "none" => checkout[o] = "none"
    /\ checkout[o] \in {"none", "prepaying"} => trade[o] = "none"
    /\ trade[o] \in {"userpaying", "success", "refund"} => checkout[o] = "coded"

\* A SUCCESS notification was sent for a trade that was paid.
NoticesAreTrue == \A o \in notices : trade[o] \in {"success", "refund"}

\* What a task carries from the order it read and from the gateway's answer.
\* An answer may be stale, but paid, closed and refunded trades stay so.
TaskSound(k) ==
  /\ k.pc # "idle" => orders[k.order].status # "none"
  /\ k.pc = "settle" =>
       /\ k.result # "none"
       /\ k.result = "success" => trade[k.order] \in {"success", "refund"}
       /\ k.result \in {"closed", "refund"} => trade[k.order] = k.result
  /\ k.pc = "close" => k.job = "expired"
  /\ k.pc = "record" => k.job # "sync"
  /\ k.pc # "idle" /\ k.job # "sync" =>
       /\ k.seen \in {"created", "paying", "expired"}
       /\ k.next \in {k.seen, "expired", "closed"}
       /\ k.pc # "record" => k.next = k.seen
  /\ k.pc # "idle" /\ k.job = "expired" => orders[k.order].lapsed
  /\ k.pc = "record" /\ k.next = "closed" =>
       k.job = "expired" /\ trade[k.order] \in {"closed", "none"}

TasksSound == \A t \in Task : TaskSound(tasks[t])

\* Why no customer can pay a closed order.
ClosedForGood ==
  \A o \in Order : orders[o].status \in {"closed", "gone"} =>
    \/ trade[o] \in {"closed", "refund"}
    \/ checkout[o] = "failed"
    \/ trade[o] = "none" /\ orders[o].lapsed

PaymentInv ==
  /\ TypeOK
  /\ TradeFollowsCheckout
  /\ NoticesAreTrue
  /\ TasksSound
  /\ ClosedForGood
  /\ BooksMatchOrder
  /\ CreditOnlyIfPaid

-----------------------------------------------------------------------------
(* Updates of a row keep its type.                                         *)
LEMMA AnsweredTask ==
  ASSUME NEW k \in TaskRow, NEW result \in Trade,
         NEW pc \in {"idle", "settle", "close", "record"}
  PROVE  [k EXCEPT !.pc = pc, !.result = result] \in TaskRow
BY DEF TaskRow

(* The same for a task that has tried to close a trade.                    *)
LEMMA ClosingTask ==
  ASSUME NEW k \in TaskRow, NEW next \in {"closed", "expired"}
  PROVE  [k EXCEPT !.pc = "record", !.next = next] \in TaskRow
BY DEF TaskRow, Status, Live

(* The grants of a first payment.                                          *)
LEMMA FirstBook ==
  ASSUME NEW o \in Order, NEW b \in Books,
         b.credited = 0, b.income = 0, b.cash = 0, b.reversed = 0
  PROVE  /\ Book(o, b) \in Books /\ Book(o, b).credited = 1 /\ Book(o, b).reversed = 0
         /\ Book(o, b).income = One(o \in UserTopup)
         /\ Book(o, b).cash = Book(o, b).income
<1> DEFINE x == One(o \in UserTopup)
           c == b.credited + 1
<1>1. x \in 0 .. 1 /\ c \in 0 .. 1 /\ c = 1
  BY DEF One
<1>2. (o \in UserTopup /\ b.cash = 0) = (o \in UserTopup)
  OBVIOUS
<1>3. b.income + x = x /\ b.cash + x = x
  BY <1>1
<1>4. Book(o, b) = [b EXCEPT !.credited = c, !.income = b.income + x, !.cash = b.cash + x]
  BY <1>2, Zenon DEF Book
<1> HIDE DEF x, c
<1>5. Book(o, b) = [b EXCEPT !.credited = c, !.income = x, !.cash = x]
  BY <1>3, <1>4, Zenon
<1>6. /\ Book(o, b) \in Books /\ Book(o, b).credited = c /\ Book(o, b).income = x
      /\ Book(o, b).cash = x /\ Book(o, b).reversed = b.reversed
  <2>1. LET u == [b EXCEPT !.credited = c, !.income = x, !.cash = x] IN
        /\ u \in Books /\ u.credited = c /\ u.income = x /\ u.cash = x
        /\ u.reversed = b.reversed
    BY <1>1 DEF Books
  <2> QED BY <2>1, <1>5, Zenon
<1> QED BY <1>1, <1>6 DEF x

-----------------------------------------------------------------------------
(* One lemma per action. *)

(* A new order has no trade yet.                                           *)
LEMMA CreateTopupOrderInv ==
  ASSUME PaymentInv, NEW o \in Order, CreateTopupOrder(o) PROVE PaymentInv'
<1>1. TypeOK'
  BY DEF PaymentInv, CreateTopupOrder, TypeOK, OrderRow, Status, Live
<1>2. TradeFollowsCheckout'
  BY DEF PaymentInv, CreateTopupOrder, TradeFollowsCheckout, TypeOK, OrderRow
<1>3. TasksSound'
  BY DEF PaymentInv, CreateTopupOrder, TasksSound, TaskSound, TypeOK, TaskRow, OrderRow
<1>4. ClosedForGood'
  BY DEF PaymentInv, CreateTopupOrder, ClosedForGood, TypeOK, OrderRow
<1>5. BooksMatchOrder'
  BY DEF PaymentInv, CreateTopupOrder, BooksMatchOrder, One, TypeOK, OrderRow, Books
<1> QED BY <1>1, <1>2, <1>3, <1>4, <1>5 DEF PaymentInv, CreateTopupOrder,
           NoticesAreTrue, CreditOnlyIfPaid

(* The gateway opens a trade only for an order that had none.              *)
LEMMA PrepayInv == ASSUME PaymentInv, NEW o \in Order, Prepay(o) PROVE PaymentInv'
<1>1. TypeOK'
  BY DEF PaymentInv, Prepay, TradeFollowsCheckout, TypeOK, OrderRow, Trade
<1>2. TradeFollowsCheckout'
  BY DEF PaymentInv, Prepay, TradeFollowsCheckout, TypeOK, OrderRow
<1>3. NoticesAreTrue'
  BY DEF PaymentInv, Prepay, TradeFollowsCheckout, NoticesAreTrue, TypeOK
<1>4. TasksSound'
  BY DEF PaymentInv, Prepay, TradeFollowsCheckout, TasksSound, TaskSound, TypeOK,
     TaskRow, OrderRow
<1>5. ClosedForGood'
  BY DEF PaymentInv, Prepay, TradeFollowsCheckout, ClosedForGood, TypeOK, OrderRow
<1>6. CreditOnlyIfPaid'
  BY DEF PaymentInv, Prepay, TradeFollowsCheckout, CreditOnlyIfPaid, TypeOK, Books
<1> QED BY <1>1, <1>2, <1>3, <1>4, <1>5, <1>6 DEF PaymentInv, Prepay, BooksMatchOrder,
           One

(* A failed prepay closes nothing by itself.                               *)
LEMMA PrepayFailsInv == ASSUME PaymentInv, NEW o \in Order, PrepayFails(o) PROVE PaymentInv'
<1>1. TypeOK'
  BY DEF PaymentInv, PrepayFails, TypeOK, OrderRow
<1>2. TradeFollowsCheckout'
  BY DEF PaymentInv, PrepayFails, TradeFollowsCheckout, TypeOK, OrderRow
<1>3. ClosedForGood'
  BY DEF PaymentInv, PrepayFails, ClosedForGood, TypeOK, OrderRow
<1> QED BY <1>1, <1>2, <1>3 DEF PaymentInv, PrepayFails, NoticesAreTrue, TasksSound,
           BooksMatchOrder, CreditOnlyIfPaid, TaskSound, One

(* A code is shown only for an answered prepay, never for a failed one.    *)
LEMMA SetCodeURLInv == ASSUME PaymentInv, NEW o \in Order, SetCodeURL(o) PROVE PaymentInv'
<1>1. TypeOK'
  BY DEF PaymentInv, SetCodeURL, TypeOK, OrderRow
<1>2. TradeFollowsCheckout'
  BY DEF PaymentInv, SetCodeURL, TradeFollowsCheckout, TypeOK, OrderRow
<1>3. ClosedForGood'
  BY DEF PaymentInv, SetCodeURL, ClosedForGood, TypeOK, OrderRow
<1> QED BY <1>1, <1>2, <1>3 DEF PaymentInv, SetCodeURL, NoticesAreTrue, TasksSound,
           BooksMatchOrder, CreditOnlyIfPaid, TaskSound, One

(* MarkOrderFailed does not look at the status, but the code of the order  *)
(* it closes was never shown, so it cannot be paid.                        *)
LEMMA MarkOrderFailedInv ==
  ASSUME PaymentInv, NEW o \in Order, MarkOrderFailed(o) PROVE PaymentInv'
<1>1. TypeOK'
  BY ZenonT(60) DEF PaymentInv, MarkOrderFailed, CloseFailed, TypeOK, OrderRow, Status, Live
<1>2. TradeFollowsCheckout'
  BY DEF PaymentInv, MarkOrderFailed, CloseFailed, TradeFollowsCheckout, TypeOK,
     OrderRow
<1>3. TasksSound'
  BY DEF PaymentInv, MarkOrderFailed, CloseFailed, TasksSound, TaskSound, TypeOK,
     TaskRow, OrderRow
<1>4. ClosedForGood'
  BY DEF PaymentInv, MarkOrderFailed, CloseFailed, ClosedForGood, TypeOK, OrderRow
<1>5. BooksMatchOrder'
  BY DEF PaymentInv, MarkOrderFailed, CloseFailed, BooksMatchOrder, One, TypeOK,
     OrderRow, Books, TradeFollowsCheckout, CreditOnlyIfPaid
<1> QED BY <1>1, <1>2, <1>3, <1>4, <1>5 DEF PaymentInv, MarkOrderFailed, NoticesAreTrue,
           CreditOnlyIfPaid

(* An aborted checkout never shows its code.                               *)
LEMMA CheckoutAbortsInv ==
  ASSUME PaymentInv, NEW o \in Order, CheckoutAborts(o) PROVE PaymentInv'
<1>1. TypeOK'
  BY DEF PaymentInv, CheckoutAborts, TypeOK, OrderRow
<1>2. TradeFollowsCheckout'
  BY DEF PaymentInv, CheckoutAborts, TradeFollowsCheckout, TypeOK, OrderRow
<1>3. ClosedForGood'
  BY DEF PaymentInv, CheckoutAborts, ClosedForGood, TypeOK, OrderRow
<1> QED BY <1>1, <1>2, <1>3 DEF PaymentInv, CheckoutAborts, NoticesAreTrue, TasksSound,
           BooksMatchOrder, CreditOnlyIfPaid, TaskSound, One

(* The customer begins to pay.                                             *)
LEMMA ScanInv == ASSUME PaymentInv, NEW o \in Order, Scan(o) PROVE PaymentInv'
<1>1. TypeOK'
  BY DEF PaymentInv, Scan, TypeOK, OrderRow, Trade
<1>2. TradeFollowsCheckout'
  BY DEF PaymentInv, Scan, TradeFollowsCheckout, TypeOK, OrderRow
<1>3. NoticesAreTrue'
  BY DEF PaymentInv, Scan, NoticesAreTrue, TypeOK
<1>4. TasksSound'
  BY DEF PaymentInv, Scan, TasksSound, TaskSound, TypeOK, TaskRow, OrderRow
<1>5. ClosedForGood'
  BY DEF PaymentInv, Scan, ClosedForGood, TypeOK, OrderRow
<1>6. CreditOnlyIfPaid'
  BY DEF PaymentInv, Scan, CreditOnlyIfPaid, TypeOK, Books
<1> QED BY <1>1, <1>2, <1>3, <1>4, <1>5, <1>6 DEF PaymentInv, Scan, BooksMatchOrder, One

(* The customer pays.                                                      *)
LEMMA PayInv == ASSUME PaymentInv, NEW o \in Order, Pay(o) PROVE PaymentInv'
<1>1. TypeOK'
  BY DEF PaymentInv, Pay, TypeOK, OrderRow, Trade
<1>2. TradeFollowsCheckout'
  BY DEF PaymentInv, Pay, TradeFollowsCheckout, TypeOK, OrderRow
<1>3. NoticesAreTrue'
  BY DEF PaymentInv, Pay, NoticesAreTrue, TypeOK
<1>4. TasksSound'
  BY DEF PaymentInv, Pay, TasksSound, TaskSound, TypeOK, TaskRow, OrderRow
<1>5. ClosedForGood'
  BY DEF PaymentInv, Pay, ClosedForGood, TypeOK, OrderRow
<1>6. CreditOnlyIfPaid'
  BY DEF PaymentInv, Pay, CreditOnlyIfPaid, TypeOK, Books
<1> QED BY <1>1, <1>2, <1>3, <1>4, <1>5, <1>6 DEF PaymentInv, Pay, BooksMatchOrder, One

(* The merchant refunds at the gateway.                                    *)
LEMMA GatewayRefundInv ==
  ASSUME PaymentInv, NEW o \in Order, GatewayRefund(o) PROVE PaymentInv'
<1>1. TypeOK'
  BY DEF PaymentInv, GatewayRefund, TypeOK, OrderRow, Trade
<1>2. TradeFollowsCheckout'
  BY DEF PaymentInv, GatewayRefund, TradeFollowsCheckout, TypeOK, OrderRow
<1>3. NoticesAreTrue'
  BY DEF PaymentInv, GatewayRefund, NoticesAreTrue, TypeOK
<1>4. TasksSound'
  BY DEF PaymentInv, GatewayRefund, TasksSound, TaskSound, TypeOK, TaskRow, OrderRow
<1>5. ClosedForGood'
  BY DEF PaymentInv, GatewayRefund, ClosedForGood, TypeOK, OrderRow
<1>6. CreditOnlyIfPaid'
  BY DEF PaymentInv, GatewayRefund, CreditOnlyIfPaid, TypeOK, Books
<1> QED BY <1>1, <1>2, <1>3, <1>4, <1>5, <1>6 DEF PaymentInv, GatewayRefund,
           BooksMatchOrder, One

(* A lost notification.                                                    *)
LEMMA NotifyLostInv == ASSUME PaymentInv, NEW o \in Order, NotifyLost(o) PROVE PaymentInv'
<1>1. TypeOK'
  BY DEF PaymentInv, NotifyLost, TypeOK, OrderRow
<1>2. NoticesAreTrue'
  BY DEF PaymentInv, NotifyLost, NoticesAreTrue, TypeOK
<1> QED BY <1>1, <1>2 DEF PaymentInv, NotifyLost, TradeFollowsCheckout, TasksSound,
           ClosedForGood, BooksMatchOrder, CreditOnlyIfPaid, TaskSound, One

(* A refund is recorded once, on a credited order.                         *)
LEMMA RecordCompletedRefundInv ==
  ASSUME PaymentInv, NEW o \in Order, RecordCompletedRefund(o) PROVE PaymentInv'
<1>1. TypeOK'
  <2>1. books[o].reversed = 0
    BY DEF PaymentInv, RecordCompletedRefund, BooksMatchOrder, One
  <2>2. books' \in [Order -> Books]
    BY <2>1 DEF PaymentInv, RecordCompletedRefund, TypeOK, Books
  <2> QED BY <2>2 DEF PaymentInv, RecordCompletedRefund, TypeOK, OrderRow
<1>2. TradeFollowsCheckout'
  BY DEF PaymentInv, RecordCompletedRefund, TradeFollowsCheckout, TypeOK, OrderRow
<1>3. TasksSound'
  BY DEF PaymentInv, RecordCompletedRefund, TasksSound, TaskSound, TypeOK, TaskRow,
     OrderRow
<1>4. ClosedForGood'
  BY DEF PaymentInv, RecordCompletedRefund, ClosedForGood, TypeOK, OrderRow
<1>5. BooksMatchOrder'
  BY DEF PaymentInv, RecordCompletedRefund, BooksMatchOrder, One, TypeOK, OrderRow,
     Books
<1>6. CreditOnlyIfPaid'
  BY DEF PaymentInv, RecordCompletedRefund, CreditOnlyIfPaid, TypeOK, Books
<1> QED BY <1>1, <1>2, <1>3, <1>4, <1>5, <1>6 DEF PaymentInv, RecordCompletedRefund,
           NoticesAreTrue

(* Deleting a closed order leaves it closed for good.                      *)
LEMMA CleanupClosedOrdersInv ==
  ASSUME PaymentInv, NEW o \in Order, CleanupClosedOrders(o) PROVE PaymentInv'
<1>1. TypeOK'
  BY DEF PaymentInv, CleanupClosedOrders, TypeOK, OrderRow, Status, Live
<1>2. TradeFollowsCheckout'
  BY DEF PaymentInv, CleanupClosedOrders, TradeFollowsCheckout, TypeOK, OrderRow
<1>3. TasksSound'
  BY DEF PaymentInv, CleanupClosedOrders, TasksSound, TaskSound, TypeOK, TaskRow,
     OrderRow
<1>4. ClosedForGood'
  BY DEF PaymentInv, CleanupClosedOrders, ClosedForGood, TypeOK, OrderRow
<1>5. BooksMatchOrder'
  BY DEF PaymentInv, CleanupClosedOrders, BooksMatchOrder, One, TypeOK, OrderRow, Books
<1> QED BY <1>1, <1>2, <1>3, <1>4, <1>5 DEF PaymentInv, CleanupClosedOrders,
           NoticesAreTrue, CreditOnlyIfPaid

(* The order runs out of time.                                             *)
LEMMA LapseInv == ASSUME PaymentInv, NEW o \in Order, Lapse(o) PROVE PaymentInv'
<1>1. TypeOK'
  BY DEF PaymentInv, Lapse, TypeOK, OrderRow
<1>2. TradeFollowsCheckout'
  BY DEF PaymentInv, Lapse, TradeFollowsCheckout, TypeOK, OrderRow
<1>3. TasksSound'
  BY DEF PaymentInv, Lapse, TasksSound, TaskSound, TypeOK, TaskRow, OrderRow
<1>4. ClosedForGood'
  BY DEF PaymentInv, Lapse, ClosedForGood, TypeOK, OrderRow
<1>5. BooksMatchOrder'
  BY DEF PaymentInv, Lapse, BooksMatchOrder, One, TypeOK, OrderRow, Books
<1> QED BY <1>1, <1>2, <1>3, <1>4, <1>5 DEF PaymentInv, Lapse, NoticesAreTrue,
           CreditOnlyIfPaid

(* The next attempt of a sweep is due.                                     *)
LEMMA RetryElapsesInv ==
  ASSUME PaymentInv, NEW o \in Order, RetryElapses(o) PROVE PaymentInv'
<1>1. TypeOK'
  BY DEF PaymentInv, RetryElapses, TypeOK, OrderRow
<1>2. TradeFollowsCheckout'
  BY DEF PaymentInv, RetryElapses, TradeFollowsCheckout, TypeOK, OrderRow
<1>3. TasksSound'
  BY DEF PaymentInv, RetryElapses, TasksSound, TaskSound, TypeOK, TaskRow, OrderRow
<1>4. ClosedForGood'
  BY DEF PaymentInv, RetryElapses, ClosedForGood, TypeOK, OrderRow
<1>5. BooksMatchOrder'
  BY DEF PaymentInv, RetryElapses, BooksMatchOrder, One, TypeOK, OrderRow, Books
<1> QED BY <1>1, <1>2, <1>3, <1>4, <1>5 DEF PaymentInv, RetryElapses, NoticesAreTrue,
           CreditOnlyIfPaid

(* A closed order grows old.                                               *)
LEMMA ClosedAgesInv == ASSUME PaymentInv, NEW o \in Order, ClosedAges(o) PROVE PaymentInv'
<1>1. TypeOK'
  BY DEF PaymentInv, ClosedAges, TypeOK, OrderRow
<1>2. TradeFollowsCheckout'
  BY DEF PaymentInv, ClosedAges, TradeFollowsCheckout, TypeOK, OrderRow
<1>3. TasksSound'
  BY DEF PaymentInv, ClosedAges, TasksSound, TaskSound, TypeOK, TaskRow, OrderRow
<1>4. ClosedForGood'
  BY DEF PaymentInv, ClosedAges, ClosedForGood, TypeOK, OrderRow
<1>5. BooksMatchOrder'
  BY DEF PaymentInv, ClosedAges, BooksMatchOrder, One, TypeOK, OrderRow, Books
<1> QED BY <1>1, <1>2, <1>3, <1>4, <1>5 DEF PaymentInv, ClosedAges, NoticesAreTrue,
           CreditOnlyIfPaid

(* The gateway's answer is true when it is given.                          *)
LEMMA QueryInv == ASSUME PaymentInv, NEW t \in Task, Query(t) PROVE PaymentInv'
<1> DEFINE k == tasks[t]
<1>0. k \in TaskRow /\ TaskSound(k) /\ trade[k.order] \in Trade
  BY DEF PaymentInv, TypeOK, TaskRow, TasksSound
<1>1. PICK result \in {trade[k.order], "none"} :
        tasks' = [tasks EXCEPT ![t].pc = AfterQuery(k.job, result), ![t].result = result]
  BY DEF Query
<1> DEFINE pc == AfterQuery(k.job, result)
<1>2. /\ pc \in {"idle", "settle", "close", "record"}
      /\ pc = "settle" => result # "none"
      /\ pc = "close" => k.job = "expired"
      /\ pc = "record" => k.job = "inflight"
  BY <1>0 DEF AfterQuery, TaskRow
<1>3. result \in Trade
  BY <1>0, <1>1 DEF Trade
<1> HIDE DEF pc
<1>4. tasks' = [tasks EXCEPT ![t].pc = pc, ![t].result = result]
  BY <1>1 DEF pc
<1>5. TypeOK'
  <2>1. [k EXCEPT !.pc = pc, !.result = result] \in TaskRow
    BY <1>0, <1>2, <1>3, AnsweredTask
  <2>2. tasks' = [tasks EXCEPT ![t] = [k EXCEPT !.pc = pc, !.result = result]]
    BY <1>4 DEF PaymentInv, TypeOK
  <2> QED BY <2>1, <2>2 DEF PaymentInv, Query, TypeOK
<1>6. TasksSound'
  <2>1. ASSUME NEW v \in Task, v # t PROVE TaskSound(tasks[v])'
    BY <1>4, <2>1 DEF PaymentInv, Query, TypeOK, TasksSound, TaskSound
  <2>2. TaskSound(tasks[t])'
    BY <1>0, <1>1, <1>2, <1>4 DEF PaymentInv, Query, TypeOK, TaskSound, TaskRow
  <2> QED BY <2>1, <2>2 DEF TasksSound
<1> QED BY <1>5, <1>6 DEF PaymentInv, Query, TradeFollowsCheckout, NoticesAreTrue,
           ClosedForGood, BooksMatchOrder, CreditOnlyIfPaid

(* The gateway closes no paid trade, and a trade it closed stays closed.   *)
LEMMA CloseInv == ASSUME PaymentInv, NEW t \in Task, Close(t) PROVE PaymentInv'
<1>1. TypeOK'
  <2>1. trade' \in [Order -> Trade]
    BY DEF PaymentInv, Close, TypeOK, TaskRow, Trade
  <2>2. PICK next \in {"closed", "expired"} :
          tasks' = [tasks EXCEPT ![t].pc = "record", ![t].next = next]
    BY DEF Close
  <2>3. [tasks[t] EXCEPT !.pc = "record", !.next = next] \in TaskRow
    BY ClosingTask DEF PaymentInv, TypeOK
  <2>4. tasks' = [tasks EXCEPT ![t] = [tasks[t] EXCEPT !.pc = "record", !.next = next]]
    BY <2>2 DEF PaymentInv, TypeOK
  <2> QED BY <2>1, <2>3, <2>4 DEF PaymentInv, Close, TypeOK
<1>2. TradeFollowsCheckout'
  BY DEF PaymentInv, Close, TradeFollowsCheckout, TypeOK, OrderRow
<1>3. NoticesAreTrue'
  BY DEF PaymentInv, Close, NoticesAreTrue, TypeOK
<1>4. TasksSound'
  BY DEF PaymentInv, Close, TasksSound, TaskSound, TypeOK, TaskRow, OrderRow
<1>5. ClosedForGood'
  BY DEF PaymentInv, Close, ClosedForGood, TypeOK, OrderRow
<1>6. CreditOnlyIfPaid'
  BY DEF PaymentInv, Close, CreditOnlyIfPaid, TypeOK, Books
<1> QED BY <1>1, <1>2, <1>3, <1>4, <1>5, <1>6 DEF PaymentInv, Close, BooksMatchOrder,
           One

(* A settlement that is rolled back.                                       *)
LEMMA SettleFailsInv == ASSUME PaymentInv, NEW t \in Task, SettleFails(t) PROVE PaymentInv'
<1>1. TypeOK'
  BY DEF PaymentInv, SettleFails, TypeOK, OrderRow, TaskRow
<1>2. TasksSound'
  BY DEF PaymentInv, SettleFails, TasksSound, TaskSound, TypeOK, TaskRow, OrderRow
<1> QED BY <1>1, <1>2 DEF PaymentInv, SettleFails, TradeFollowsCheckout, NoticesAreTrue,
           ClosedForGood, BooksMatchOrder, CreditOnlyIfPaid, One

(* A task writes only if the order still has the status it saw, which was  *)
(* not paid, and closes only an order whose trade is closed or was never   *)
(* opened.                                                                 *)
LEMMA RecordInv == ASSUME PaymentInv, NEW t \in Task, Record(t) PROVE PaymentInv'
<1> DEFINE k   == tasks[t]
           o   == k.order
           row == orders[o]
           new == IfCurrent(row, k.seen, k.next)
<1>1. /\ o \in Order /\ row \in OrderRow /\ k \in TaskRow
      /\ k.job # "sync"
      /\ k.seen \in {"created", "paying", "expired"}
      /\ k.next \in {k.seen, "expired", "closed"}
      /\ k.next = "closed" => row.lapsed /\ trade[o] \in {"closed", "none"}
  BY DEF PaymentInv, Record, TypeOK, TaskRow, TasksSound, TaskSound
<1>2. /\ new \in OrderRow /\ new.lapsed = row.lapsed /\ new.fulfilment = row.fulfilment
      /\ new.status = row.status \/ (row.status = k.seen /\ new.status = k.next)
  BY <1>1 DEF IfCurrent, OrderRow, Status, Live
<1> HIDE DEF new
<1>3. orders' = [orders EXCEPT ![o] = new]
  BY DEF Record, new
<1> HIDE DEF o, row, k
<1>4. TypeOK'
  BY <1>1, <1>2, <1>3 DEF PaymentInv, Record, TypeOK, TaskRow
<1>5. TradeFollowsCheckout'
  BY <1>1, <1>2, <1>3 DEF PaymentInv, Record, TypeOK, TradeFollowsCheckout, row
<1>6. TasksSound'
  BY <1>1, <1>2, <1>3 DEF PaymentInv, Record, TypeOK, TaskRow, TasksSound, TaskSound,
     row
<1>7. ClosedForGood'
  BY <1>1, <1>2, <1>3 DEF PaymentInv, Record, TypeOK, ClosedForGood, row
<1>8. BooksMatchOrder'
  BY <1>1, <1>2, <1>3 DEF PaymentInv, Record, TypeOK, BooksMatchOrder, One, row
<1> QED BY <1>4, <1>5, <1>6, <1>7, <1>8 DEF PaymentInv, Record, NoticesAreTrue,
           CreditOnlyIfPaid

(* A task dies; nothing it knew is used any more.                          *)
LEMMA TaskAbortsInv == ASSUME PaymentInv, NEW t \in Task, TaskAborts(t) PROVE PaymentInv'
<1>1. TypeOK'
  BY SMTT(30) DEF PaymentInv, TaskAborts, TypeOK, OrderRow, TaskRow
<1>2. TasksSound'
  BY DEF PaymentInv, TaskAborts, TasksSound, TaskSound, TypeOK, TaskRow, OrderRow
<1> QED BY <1>1, <1>2 DEF PaymentInv, TaskAborts, TradeFollowsCheckout, NoticesAreTrue,
           ClosedForGood, BooksMatchOrder, CreditOnlyIfPaid, One

(* A task reads an order that exists; a sweep only one that is not paid.   *)
LEMMA StartInv ==
  ASSUME PaymentInv, NEW t \in Task, NEW job \in {"sync", "expired", "inflight"},
         NEW o \in Order, Start(t, job, o)
  PROVE  PaymentInv'
<1> DEFINE k == [pc |-> "query", job |-> job, order |-> o,
                 seen |-> orders[o].status, result |-> "none", next |-> orders[o].status]
<1>1. tasks' = [tasks EXCEPT ![t] = k]
  BY DEF Start
<1>2. k \in TaskRow
  BY DEF PaymentInv, TypeOK, OrderRow, TaskRow, Trade
<1>3. TaskSound(k)
  BY DEF Start, Candidates, ListSweepCandidates, ListInFlightCandidates, Live, TaskSound
<1> HIDE DEF k
<1>4. TypeOK'
  BY <1>1, <1>2 DEF PaymentInv, Start, TypeOK
<1>5. TasksSound'
  BY <1>1, <1>3 DEF PaymentInv, Start, TypeOK, TasksSound, TaskSound
<1> QED BY <1>4, <1>5 DEF PaymentInv, Start, TradeFollowsCheckout, NoticesAreTrue,
           ClosedForGood, BooksMatchOrder, CreditOnlyIfPaid

(* What Settle does to an order it is told of: a paid, matching order is   *)
(* credited once, and it is closed only when its trade is over.            *)
LEMMA SettleKeeps ==
  ASSUME PaymentInv, NEW o \in Order, NEW result \in Trade,
         orders[o].status # "none", result # "none",
         result = "success" => trade[o] \in {"success", "refund"},
         result \in {"closed", "refund"} => trade[o] = result,
         Settle(o, result), UNCHANGED <<checkout, trade, matches>>
  PROVE  /\ orders' \in [Order -> OrderRow] /\ books' \in [Order -> Books]
         /\ \A p \in Order : /\ orders'[p].lapsed = orders[p].lapsed
                             /\ orders'[p].status = "none" <=> orders[p].status = "none"
         /\ TradeFollowsCheckout' /\ ClosedForGood'
         /\ BooksMatchOrder' /\ CreditOnlyIfPaid'
<1> DEFINE row == orders[o]
           b   == books[o]
<1>0. /\ row \in OrderRow /\ b \in Books /\ row.status # "gone"
      /\ row.status # "paid" =>
           /\ row.fulfilment = "pending"
           /\ b.credited = 0 /\ b.income = 0 /\ b.cash = 0 /\ b.reversed = 0
  BY DEF PaymentInv, TypeOK, BooksMatchOrder, One, Settle, OrderRow
<1>1. CASE row.status # "paid" /\ result = "success" /\ matches[o]
  <2> DEFINE new == MarkPaid(row)
             nb  == Book(o, b)
  <2>1. orders' = [orders EXCEPT ![o] = new] /\ books' = [books EXCEPT ![o] = nb]
    BY <1>1 DEF Settle
  <2>2. /\ new \in OrderRow /\ new.status = "paid" /\ new.fulfilment = "credited"
        /\ new.lapsed = row.lapsed
    BY <1>0 DEF MarkPaid, OrderRow, Status, Live
  <2>3. /\ nb \in Books /\ nb.credited = 1 /\ nb.reversed = 0
        /\ nb.income = One(o \in UserTopup) /\ nb.cash = nb.income
    BY <1>0, <1>1, FirstBook
  <2> HIDE DEF new, nb
  <2> QED BY <1>0, <1>1, <2>1, <2>2, <2>3 DEF PaymentInv, TypeOK, TradeFollowsCheckout,
             ClosedForGood, BooksMatchOrder, CreditOnlyIfPaid, One
<1>2. CASE row.status # "paid" /\ ~ (result = "success" /\ matches[o])
  <2>1. PICK status \in Status :
          /\ orders' = orders \/ orders' = [orders EXCEPT ![o] = UpdateStatus(row, status)]
          /\ status \notin {"none", "paid", "gone"}
          /\ status = "closed" => row.status = "closed" \/ trade[o] \in {"closed", "refund"}
    <3>1. CASE result # "success"
      BY <1>0, <1>2, <3>1 DEF Settle, Unpaid, OrderRow, Status, Live, Trade
    <3>2. CASE result = "success"
      BY <1>0, <1>2, <3>2 DEF Settle, OrderRow, Status, Live
    <3> QED BY <3>1, <3>2
  <2> DEFINE new == UpdateStatus(row, status)
  <2>2. /\ new \in OrderRow /\ new.status = status /\ new.fulfilment = row.fulfilment
        /\ new.lapsed = row.lapsed
    BY <1>0 DEF UpdateStatus, OrderRow
  <2>3. books' = books
    BY <1>2 DEF Settle
  <2>4. orders' = orders \/ orders' = [orders EXCEPT ![o] = new]
    BY <2>1
  <2> HIDE DEF new
  <2> QED BY <1>0, <1>2, <2>1, <2>2, <2>3, <2>4 DEF PaymentInv, TypeOK,
             TradeFollowsCheckout, ClosedForGood, BooksMatchOrder, CreditOnlyIfPaid, One
<1>3. CASE row.status = "paid"
  <2>1. orders' = orders /\ books' = books
    BY <1>3 DEF Settle
  <2> QED BY <2>1 DEF PaymentInv, TypeOK, TradeFollowsCheckout, ClosedForGood,
             BooksMatchOrder, CreditOnlyIfPaid
<1> QED BY <1>1, <1>2, <1>3

(* A notification is true, whenever and however often it is delivered.     *)
LEMMA HandleNotifyInv ==
  ASSUME PaymentInv, NEW o \in Order, HandleNotify(o) PROVE PaymentInv'
<1>1. /\ trade[o] \in {"success", "refund"} /\ orders[o].status # "none"
      /\ Settle(o, "success") /\ UNCHANGED <<checkout, trade, matches, tasks>>
      /\ notices' \subseteq notices
  BY DEF PaymentInv, HandleNotify, NoticesAreTrue, TradeFollowsCheckout
<1>2. "success" \in Trade
  BY DEF Trade
<1>3. /\ orders' \in [Order -> OrderRow] /\ books' \in [Order -> Books]
      /\ \A p \in Order : /\ orders'[p].lapsed = orders[p].lapsed
                          /\ orders'[p].status = "none" <=> orders[p].status = "none"
      /\ TradeFollowsCheckout' /\ ClosedForGood' /\ BooksMatchOrder' /\ CreditOnlyIfPaid'
  BY <1>1, <1>2, SettleKeeps
<1>4. TypeOK'
  BY <1>1, <1>3 DEF PaymentInv, TypeOK
<1>5. TasksSound'
  BY <1>1, <1>3 DEF PaymentInv, TypeOK, TaskRow, TasksSound, TaskSound
<1> QED BY <1>1, <1>3, <1>4, <1>5 DEF PaymentInv, NoticesAreTrue

(* A sweep or sync settles with an answer that was true when it was given  *)
(* and, if it was final, still is.                                         *)
LEMMA SettleTaskInv == ASSUME PaymentInv, NEW t \in Task, SettleTask(t) PROVE PaymentInv'
<1> DEFINE o == tasks[t].order
           result == tasks[t].result
<1>1. /\ o \in Order /\ result \in Trade /\ result # "none" /\ orders[o].status # "none"
      /\ result = "success" => trade[o] \in {"success", "refund"}
      /\ result \in {"closed", "refund"} => trade[o] = result
      /\ Settle(o, result) /\ UNCHANGED <<checkout, trade, matches, notices>>
  BY DEF PaymentInv, SettleTask, TypeOK, TaskRow, TasksSound, TaskSound
<1>2. /\ orders' \in [Order -> OrderRow] /\ books' \in [Order -> Books]
      /\ \A p \in Order : /\ orders'[p].lapsed = orders[p].lapsed
                          /\ orders'[p].status = "none" <=> orders[p].status = "none"
      /\ TradeFollowsCheckout' /\ ClosedForGood' /\ BooksMatchOrder' /\ CreditOnlyIfPaid'
  <2> HIDE DEF o, result
  <2> QED BY <1>1, SettleKeeps
<1>3. PICK pc \in {"idle", "record"} :
        tasks' = [tasks EXCEPT ![t].pc = pc] /\ (pc = "record" => tasks[t].job # "sync")
  BY DEF SettleTask
<1>4. TypeOK'
  BY <1>1, <1>2, <1>3, SMTT(30) DEF PaymentInv, TypeOK, TaskRow
<1>5. TasksSound'
  <2>1. ASSUME NEW v \in Task PROVE TaskSound(tasks[v])'
    BY <1>1, <1>2, <1>3 DEF PaymentInv, SettleTask, TypeOK, TaskRow, TasksSound,
       TaskSound
  <2> QED BY <2>1 DEF TasksSound
<1> QED BY <1>1, <1>2, <1>4, <1>5 DEF PaymentInv, NoticesAreTrue

-----------------------------------------------------------------------------
(* The invariant holds when there is no order yet.                         *)
LEMMA InitInv == Init => PaymentInv
<1> SUFFICES ASSUME Init PROVE PaymentInv
  OBVIOUS
<1>1. TypeOK
  BY PaymentAssumption DEF Init, TypeOK, OrderRow, Books, TaskRow, Trade, Status, Live
<1>2. TasksSound
  BY DEF Init, TasksSound, TaskSound
<1> QED BY <1>1, <1>2 DEF Init, PaymentInv, TradeFollowsCheckout, NoticesAreTrue,
           ClosedForGood, BooksMatchOrder, CreditOnlyIfPaid, One

(* Every step keeps the invariant.                                         *)
LEMMA NextInv == PaymentInv /\ [Next]_vars => PaymentInv'
<1> SUFFICES ASSUME PaymentInv, [Next]_vars PROVE PaymentInv'
  OBVIOUS
<1>1. ASSUME NEW o \in Order, CheckoutStep(o) PROVE PaymentInv'
  BY <1>1, CreateTopupOrderInv, PrepayInv, PrepayFailsInv, SetCodeURLInv,
     MarkOrderFailedInv, CheckoutAbortsInv DEF CheckoutStep
<1>2. ASSUME NEW o \in Order, GatewayStep(o) PROVE PaymentInv'
  BY <1>2, ScanInv, PayInv, GatewayRefundInv, NotifyLostInv DEF GatewayStep
<1>3. ASSUME NEW o \in Order, OrderStep(o) PROVE PaymentInv'
  BY <1>3, HandleNotifyInv, RecordCompletedRefundInv, CleanupClosedOrdersInv, LapseInv,
     RetryElapsesInv, ClosedAgesInv DEF OrderStep
<1>4. ASSUME NEW t \in Task, TaskStep(t) PROVE PaymentInv'
  BY <1>4, QueryInv, CloseInv, SettleTaskInv, SettleFailsInv, RecordInv, TaskAbortsInv
     DEF TaskStep
<1>5. ASSUME NEW t \in Task, NEW job \in {"sync", "expired", "inflight"},
             NEW o \in Order, Start(t, job, o)
      PROVE  PaymentInv'
  BY <1>5, StartInv
<1>6. CASE UNCHANGED vars
  BY <1>6 DEF vars, PaymentInv, TypeOK, TradeFollowsCheckout, NoticesAreTrue,
     TasksSound, TaskSound, ClosedForGood, BooksMatchOrder, CreditOnlyIfPaid
<1> QED BY <1>1, <1>2, <1>3, <1>4, <1>5, <1>6 DEF Next

(* The inductive invariant of online top-ups holds in every state.         *)
THEOREM PaymentInvariant == Spec => []PaymentInv
BY InitInv, NextInv, PTL DEF Spec

(* No order is credited, earns income or is reversed twice, however many   *)
(* sweeps, syncs and notifications overlap.                                *)
THEOREM PaymentTypeCorrect == Spec => []TypeOK
<1>1. PaymentInv => TypeOK
  BY DEF PaymentInv
<1> QED BY <1>1, PaymentInvariant, PTL

(* Order and ledgers tell one story: Settle, Record and the refund keep    *)
(* status, fulfilment and grants together.                                 *)
THEOREM BooksStayTrue == Spec => []BooksMatchOrder
<1>1. PaymentInv => BooksMatchOrder
  BY DEF PaymentInv
<1> QED BY <1>1, PaymentInvariant, PTL

(* Settle credits no order whose trade was not paid with matching data.    *)
THEOREM CreditsArePaid == Spec => []CreditOnlyIfPaid
<1>1. PaymentInv => CreditOnlyIfPaid
  BY DEF PaymentInv
<1> QED BY <1>1, PaymentInvariant, PTL

(* An order that sweeps have given up can no longer be paid.               *)
THEOREM ClosedOrdersStayUnpaid == Spec => []ClosedOrdersTakeNoMoney
<1>1. PaymentInv => ClosedOrdersTakeNoMoney
  BY DEF PaymentInv, ClosedForGood, ClosedOrdersTakeNoMoney
<1> QED BY <1>1, PaymentInvariant, PTL


\* An order whose trade is paid and that is not credited yet.
Owed(o) == trade[o] = "success" /\ books[o].credited = 0

\* Money that has arrived is never out of reach of the sweeps: as long as it is
\* neither credited nor given back at the gateway, its order keeps a status
\* ListSweepCandidates asks for, so every sweep after its expiry lists it once
\* its retry delay is over.  No failed checkout, late close or cleanup takes it
\* from them.
OwedOrdersStayListed ==
  \A o \in Order : Owed(o) =>
    /\ orders[o].status \in {"created", "paying", "expired"}
    /\ orders[o].lapsed /\ ~ orders[o].waiting => o \in ListSweepCandidates

(* The safety half of MoneyArrives: neither MarkOrderFailed, nor a Record  *)
(* of a late sweep, nor CleanupClosedOrders hides a paid order from        *)
(* ListSweepCandidates before Settle has credited it.                      *)
THEOREM OwedOrdersAreSwept == Spec => []OwedOrdersStayListed
<1>1. ASSUME PaymentInv, NEW o \in Order, Owed(o)
      PROVE  orders[o].status \in {"created", "paying", "expired"}
  <2>1. checkout[o] = "coded"
    BY <1>1 DEF PaymentInv, TradeFollowsCheckout, Owed
  <2>2. orders[o].status \notin {"none", "closed", "gone"}
    BY <1>1, <2>1 DEF PaymentInv, TradeFollowsCheckout, ClosedForGood, Owed
  <2>3. orders[o].status # "paid"
    BY <1>1 DEF PaymentInv, BooksMatchOrder, One, Owed
  <2>4. orders[o].status \in Status
    BY <1>1 DEF PaymentInv, TypeOK, OrderRow
  <2> QED BY <2>2, <2>3, <2>4 DEF Status, Live
<1>2. PaymentInv => OwedOrdersStayListed
  BY <1>1 DEF OwedOrdersStayListed, ListSweepCandidates
<1> QED BY <1>2, PaymentInvariant, PTL
=============================================================================
