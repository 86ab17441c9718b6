---------------------------- MODULE Subscription ----------------------------
(***************************************************************************)
(* Subscription purchases (internal/ai/subscription and its repository).   *)
(* A purchase reserves a place in the plan's inventory and in the user's   *)
(* queue, takes the price from the balance, and opens the subscription, in *)
(* three transactions that other callers, the janitors of every replica    *)
(* and the gate of every request interleave with.                          *)
(*                                                                         *)
(* Every order has the price of one unit.  A transaction under the user's  *)
(* purchase lock is one step; the gate reads without a lock, so its read,  *)
(* its expiry and its activation are separate steps.  now() of a           *)
(* reservation is fixed at its BEGIN, before it waits for that lock: BEGIN *)
(* is a step of its own, on a clock that counts units of the purchase      *)
(* period.  Other time is coarse: flags say that an order has stalled for  *)
(* a minute and that a subscription is past expires_at.                    *)
(***************************************************************************)
EXTENDS Integers, FiniteSets

CONSTANTS
  User, Plan, Order,
  buyer,        \* the user each order (idempotency key) belongs to
  planOf,       \* the plan it asks for
  Caller,       \* Purchase calls in flight
  Janitor,      \* sweeps in flight, one per replica
  Gate,         \* requests at the gate
  NoOrder,
  MaxQueue,     \* subscriptions a user may queue behind the active one
  Policies,     \* purchase policies the tenant may set
  SaleLimits,   \* sale limits the tenant may set; 0 is none
  MaxBalance,   \* bound on a user's balance
  MaxTime,      \* bound on the clock
  MaxWaiting    \* bound on reservations of one order that wait at a time

\* A PurchasePolicy: may a plan be bought again while it is active, how often
\* at all (0 is no limit), and how often within a rolling window or a calendar
\* period of so many units.
Policy == [advance : BOOLEAN, lifetime : Nat, kind : {"none", "rolling", "calendar"},
           max : Nat, span : Nat \ {0}]

ASSUME SubscriptionAssumption ==
  /\ buyer \in [Order -> User]
  /\ planOf \in [Order -> Plan]
  /\ User # {}
  /\ NoOrder \notin Order
  /\ IsFiniteSet(Order)
  /\ Caller \cap Janitor = {}
  /\ MaxQueue \in Nat \ {0}
  /\ MaxBalance \in Nat /\ MaxTime \in Nat /\ MaxWaiting \in Nat
  /\ Policies \subseteq Policy /\ Policies # {}
  /\ SaleLimits \subseteq Nat

VARIABLES
  orders,       \* ai_sub_orders
  subs,         \* ai_sub_subscriptions, by the order that opened each
  plans,        \* ai_sub_plans
  balance,      \* what each user can spend
  debits,       \* charges made for each order
  jobs,         \* purchases and reconciliations in flight
  gates,        \* gate decisions in flight
  now,          \* the clock of the database
  begun         \* now() of the reservations of each order that wait for the lock

clock == <<now, begun>>
vars  == <<orders, subs, plans, balance, debits, jobs, gates, now, begun>>

Job    == Caller \cup Janitor
NoEdit == -1

OrderRow == [status : {"none", "created", "deducting", "paid", "failed"},
             debited : BOOLEAN, stalled : BOOLEAN, at : Nat, policy : Policies]
SubRow   == [status : {"none", "pending", "active", "expired"},
             seq : 0 .. Cardinality(Order), due : BOOLEAN]
PlanRow  == [limit : SaleLimits, policy : Policies, reserved : Nat, sold : Nat,
             edit : SaleLimits \cup {NoEdit}]
JobRow   == [pc : {"idle", "reserved", "debit", "fail", "finalize"}, order : Order \cup {NoOrder}]
GateRow  == [pc : {"idle", "expire", "activate"}, user : User,
             active : Order \cup {NoOrder}, pending : Order \cup {NoOrder}]

Open      == {o \in Order : orders[o].status \in {"created", "deducting"}}
Paid      == {o \in Order : orders[o].status = "paid"}
Of(u)     == {o \in Order : buyer[o] = u}
LiveIn(s) == {o \in Order : s[o].status \in {"pending", "active"}}

-----------------------------------------------------------------------------
(* The queue of a user's subscriptions. *)

\* classifyLiveSubscriptions, rows by created_at: the last active row and the
\* first pending one.
LastActive(s, u) ==
  LET A == {o \in Of(u) : s[o].status = "active"}
  IN  IF A = {} THEN NoOrder ELSE CHOOSE o \in A : \A p \in A : s[p].seq <= s[o].seq

FirstPending(s, u) ==
  LET P == {o \in Of(u) : s[o].status = "pending"}
  IN  IF P = {} THEN NoOrder ELSE CHOOSE o \in P : \A p \in P : s[o].seq <= s[p].seq

\* ExpireSubscriptionIfDue.
Expire(s, o) ==
  IF o # NoOrder /\ s[o].status = "active" /\ s[o].due
  THEN [s EXCEPT ![o].status = "expired"] ELSE s

\* ActivateSubscription asks nothing but that the row is still pending.
Activate(s, o) ==
  IF o # NoOrder /\ s[o].status = "pending"
  THEN [s EXCEPT ![o].status = "active"] ELSE s

\* advanceLiveSubscriptions, under the user's lock.
AdvanceLive(u) ==
  LET active  == LastActive(subs, u)
      expired == Expire(subs, active)
  IN  IF active = NoOrder \/ expired # subs
      THEN Activate(expired, FirstPending(subs, u)) ELSE expired

-----------------------------------------------------------------------------
(* ReservePurchase and the storefront. *)

\* A purchase made at one time counts towards the period of another.  The
\* rolling window ends at now(): what was begun later is not in it.  The
\* calendar period ends when it ends.
InPeriod(policy, at, time) ==
  \/ policy.kind = "rolling" /\ time - policy.span < at /\ at <= time
  \/ policy.kind = "calendar" /\ at \div policy.span = time \div policy.span

\* The limits of a policy on what was bought before.
WithinPolicy(policy, bought, time) ==
  /\ policy.lifetime # 0 => Cardinality(bought) < policy.lifetime
  /\ policy.kind # "none" =>
       Cardinality({p \in bought : InPeriod(policy, orders[p].at, time)}) < policy.max

\* Mutant: an order that is still open does not count towards the queue.
EligibleWithoutOpen(o, s, policy, time) ==
  LET mine == {p \in Of(buyer[o]) : planOf[p] = planOf[o]}
  IN  /\ \A p \in mine : s[p].status # "pending"
      /\ Cardinality(LiveIn(s) \cap Of(buyer[o])) < 1 + MaxQueue
      /\ ~ policy.advance => \A p \in mine : s[p].status # "active"
      /\ WithinPolicy(policy, Paid \cap mine, time)

\* EvaluatePurchaseEligibility on the facts of a plan.
Eligible(o, s, policy, time) ==
  LET mine     == {p \in Of(buyer[o]) : planOf[p] = planOf[o]}
      openMine == Open \cap Of(buyer[o])
  IN  /\ Open \cap mine = {}
      /\ \A p \in mine : s[p].status # "pending"
      /\ Cardinality(LiveIn(s) \cap Of(buyer[o])) + Cardinality(openMine) < 1 + MaxQueue
      /\ ~ policy.advance => \A p \in mine : s[p].status # "active"
      /\ WithinPolicy(policy, Paid \cap mine, time)

InStock(p) == p.limit = 0 \/ p.sold + p.reserved < p.limit

\* A reservation begins; several may come with one order number.
Begin(o) ==
  /\ orders[o].status = "none"
  /\ Cardinality(begun[o]) < MaxWaiting /\ now \notin begun[o]
  /\ begun' = [begun EXCEPT ![o] = @ \cup {now}]
  /\ UNCHANGED <<orders, subs, plans, balance, debits, jobs, gates, now>>

\* It takes the lock of the user: a new order number, eligible at the time
\* the transaction began after the queue has been advanced, in stock, and the
\* plan is not being edited (it takes the shared plan lock).  The order keeps
\* that time as its created_at, and the policy it was accepted under.  Later
\* transactions with its number are replays.  A plan that is off sale or out
\* of the user's reach only refuses the reservation.
Reserve(c, o) ==
  /\ jobs[c].pc = "idle"
  /\ orders[o].status = "none"
  /\ \E time \in begun[o] :
       LET s == AdvanceLive(buyer[o])
           p == planOf[o]
       IN  /\ plans[p].edit = NoEdit
           /\ Eligible(o, s, plans[p].policy, time)
           /\ InStock(plans[p])
           /\ subs' = s
           /\ plans' = [plans EXCEPT ![p].reserved = @ + 1]
           /\ orders' = [orders EXCEPT ![o].status = "created", ![o].at = time,
                                       ![o].policy = plans[p].policy]
  /\ begun' = [begun EXCEPT ![o] = {}]
  /\ jobs' = [jobs EXCEPT ![c] = [pc |-> "reserved", order |-> o]]
  /\ UNCHANGED <<balance, debits, gates, now>>

\* It is denied, fails or loses its connection, and is rolled back.
Withdraw(o) ==
  /\ \E time \in begun[o] : begun' = [begun EXCEPT ![o] = @ \ {time}]
  /\ UNCHANGED <<orders, subs, plans, balance, debits, jobs, gates, now>>

\* A purchase that is denied, and the storefront's eligibility query, keep
\* the advance of the queue.
Storefront(u) ==
  /\ AdvanceLive(u) # subs
  /\ subs' = AdvanceLive(u)
  /\ UNCHANGED <<orders, plans, balance, debits, jobs, gates, clock>>

-----------------------------------------------------------------------------
(* The rest of a purchase, shared by the caller and the janitor. *)

Goto(j, pc) == jobs' = [jobs EXCEPT ![j].pc = pc]
Finish(j)   == jobs' = [jobs EXCEPT ![j] = [pc |-> "idle", order |-> NoOrder]]

MarkOrderDeducting(c) ==
  LET o == jobs[c].order
  IN  /\ jobs[c].pc = "reserved"
      /\ orders' = IF orders[o].status = "created"
                   THEN [orders EXCEPT ![o].status = "deducting", ![o].stalled = FALSE]
                   ELSE orders
      /\ Goto(c, "debit")
      /\ UNCHANGED <<subs, plans, balance, debits, gates, clock>>

\* Mutant: the debit is not recorded on the order.
ChargeUnrecorded(j, o) ==
  /\ o \in Open /\ balance[buyer[o]] > 0
  /\ balance' = [balance EXCEPT ![buyer[o]] = @ - 1]
  /\ debits' = [debits EXCEPT ![o] = 1]
  /\ UNCHANGED orders

\* Mutant: a retry does not look for the debit it may have made.
ChargeRegardless(j, o) ==
  /\ o \in Open /\ balance[buyer[o]] > 0
  /\ orders' = [orders EXCEPT ![o].debited = TRUE, ![o].stalled = FALSE]
  /\ balance' = [balance EXCEPT ![buyer[o]] = @ - 1]
  /\ debits' = [debits EXCEPT ![o] = @ + 1]

\* The charge of DebitStrict under the lock of the order row; a debit made
\* before is only reported.
Charge(j, o) ==
  \/ /\ orders[o].debited
     /\ UNCHANGED <<orders, balance, debits>>
  \/ /\ ~ orders[o].debited /\ o \in Open /\ balance[buyer[o]] > 0
     /\ orders' = [orders EXCEPT ![o].debited = TRUE, ![o].stalled = FALSE]
     /\ balance' = [balance EXCEPT ![buyer[o]] = @ - 1]
     /\ debits' = [debits EXCEPT ![o] = @ + 1]

\* The receipt of the debit, or a commit whose answer is lost.
DebitStrict(j) ==
  /\ jobs[j].pc = "debit"
  /\ Charge(j, jobs[j].order)
  /\ Goto(j, "finalize")
  /\ UNCHANGED <<subs, plans, gates, clock>>

DebitUnanswered(j) ==
  /\ jobs[j].pc = "debit"
  /\ Charge(j, jobs[j].order)
  /\ Finish(j)
  /\ UNCHANGED <<subs, plans, gates, clock>>

\* ErrInsufficientBalance; an order that is no longer open is an error.
DebitRefused(j) ==
  LET o == jobs[j].order
  IN  /\ jobs[j].pc = "debit"
      /\ ~ orders[o].debited
      /\ \/ o \in Open /\ balance[buyer[o]] = 0 /\ Goto(j, "fail")
         \/ o \notin Open /\ Finish(j)
      /\ UNCHANGED <<orders, subs, plans, balance, debits, gates, clock>>

ReleasePlanInventory(p) == [plans EXCEPT ![p].reserved = @ - 1]

\* MarkOrderFailed asks only that the order is open, not that it is unpaid.
MarkOrderFailed(j) ==
  LET o == jobs[j].order
  IN  /\ jobs[j].pc = "fail"
      /\ \/ /\ o \in Open
            /\ orders' = [orders EXCEPT ![o].status = "failed", ![o].stalled = FALSE]
            /\ plans' = ReleasePlanInventory(planOf[o])
         \/ /\ o \notin Open
            /\ UNCHANGED <<orders, plans>>
      /\ Finish(j)
      /\ UNCHANGED <<subs, balance, debits, gates, clock>>

\* Mutant: the status is not read again under the lock, and the update does
\* not ask for an open order.
OpensSubscriptionAgain(o) == orders[o].status # "none" /\ subs[o].status # "active"

\* The order is still open; otherwise MarkOrderPaid matches no row and the
\* transaction is rolled back, or the subscription exists already.
OpensSubscription(o) == o \in Open

\* FinalizeOrder: the first subscription is active, a later one queues.
FinalizeOrder(j) ==
  LET o      == jobs[j].order
      u      == buyer[o]
      first  == LastActive(subs, u) = NoOrder
      opened == {p \in Order : subs[p].status # "none"}
  IN  /\ jobs[j].pc = "finalize"
      /\ \/ /\ OpensSubscription(o)
            /\ subs' = [subs EXCEPT ![o] =
                 [status |-> IF first THEN "active" ELSE "pending",
                  seq |-> Cardinality(opened) + 1, due |-> FALSE]]
            /\ orders' = [orders EXCEPT ![o].status = "paid", ![o].stalled = FALSE]
            /\ plans' = [plans EXCEPT ![planOf[o]].reserved = @ - 1, ![planOf[o]].sold = @ + 1]
         \/ /\ ~ OpensSubscription(o)
            /\ UNCHANGED <<orders, subs, plans>>
      /\ Finish(j)
      /\ UNCHANGED <<balance, debits, gates, clock>>

\* A crash, an unknown error of the debit or a failed transaction: the order
\* stays as it is, for a janitor.
Abandon(j) ==
  /\ jobs[j].pc # "idle"
  /\ Finish(j)
  /\ UNCHANGED <<orders, subs, plans, balance, debits, gates, clock>>

-----------------------------------------------------------------------------
(* The janitor; no lock keeps those of several replicas apart. *)

ExpireDue ==
  /\ \E o \in Order : Expire(subs, o) # subs
  /\ subs' = [o \in Order |-> Expire(subs, o)[o]]
  /\ UNCHANGED <<orders, plans, balance, debits, jobs, gates, clock>>

\* Mutant: only orders whose debit was begun are listed.
ListReconcileDeducting == {o \in Order : orders[o].status = "deducting" /\ orders[o].stalled}

ListReconcileOrders == {o \in Open : orders[o].stalled}

\* reconcileOrder, with the order as it was when it was listed.
Reconcile(j, o) ==
  /\ jobs[j].pc = "idle"
  /\ o \in ListReconcileOrders
  /\ jobs' = [jobs EXCEPT ![j] = [pc |-> "debit", order |-> o]]
  /\ UNCHANGED <<orders, subs, plans, balance, debits, gates, clock>>

-----------------------------------------------------------------------------
(* The gate: resolveActive of one request. *)

IdleGate == [pc |-> "idle", user |-> CHOOSE u \in User : TRUE,
             active |-> NoOrder, pending |-> NoOrder]

\* What a read of the live rows leads to, once an expiry has been tried.
AfterRead(g, u, active, pending) ==
  gates' = [gates EXCEPT ![g] =
    IF active = NoOrder /\ pending # NoOrder
    THEN [pc |-> "activate", user |-> u, active |-> NoOrder, pending |-> pending]
    ELSE IdleGate]

ResolveActive(g, u) ==
  LET active == LastActive(subs, u)
      next   == FirstPending(subs, u)
  IN  /\ gates[g].pc = "idle"
      /\ IF active # NoOrder /\ subs[active].due
         THEN gates' = [gates EXCEPT ![g] =
                [pc |-> "expire", user |-> u, active |-> active, pending |-> next]]
         ELSE active = NoOrder /\ next # NoOrder /\ AfterRead(g, u, active, next)
      /\ UNCHANGED <<orders, subs, plans, balance, debits, jobs, clock>>

\* ExpireIfDue; when another gate was first, the rows are read again.
GateExpires(g) ==
  LET row == gates[g]
      s   == Expire(subs, row.active)
  IN  /\ row.pc = "expire"
      /\ subs' = s
      /\ IF s # subs THEN AfterRead(g, row.user, NoOrder, row.pending)
         ELSE AfterRead(g, row.user, LastActive(s, row.user), FirstPending(s, row.user))
      /\ UNCHANGED <<orders, plans, balance, debits, jobs, clock>>

GateActivates(g) ==
  /\ gates[g].pc = "activate"
  /\ subs' = Activate(subs, gates[g].pending)
  /\ gates' = [gates EXCEPT ![g] = IdleGate]
  /\ UNCHANGED <<orders, plans, balance, debits, jobs, clock>>

-----------------------------------------------------------------------------
(* The tenant and the environment. *)

\* bound: what only a reservation reads changes only while one may come.
Wanted(p) == \E o \in Order : planOf[o] = p /\ orders[o].status = "none"

\* UpdatePlan: the new limit is checked under the exclusive plan lock ...
EditPlan(p, limit) ==
  /\ Wanted(p)
  /\ plans[p].edit = NoEdit
  /\ limit # 0 => plans[p].sold + plans[p].reserved <= limit
  /\ plans' = [plans EXCEPT ![p].edit = limit]
  /\ UNCHANGED <<orders, subs, balance, debits, jobs, gates, clock>>

\* ... and written together with the policy, which nothing checks against the
\* purchases already made, or the update fails, before the lock is released.
UpdatePlan(p) ==
  /\ plans[p].edit # NoEdit
  /\ \/ \E policy \in Policies :
          plans' = [plans EXCEPT ![p].limit = plans[p].edit, ![p].policy = policy, ![p].edit = NoEdit]
     \/ plans' = [plans EXCEPT ![p].edit = NoEdit]
  /\ UNCHANGED <<orders, subs, balance, debits, jobs, gates, clock>>

\* A payment arrives, or a request is charged.
BalanceChanges(u) ==
  /\ \E b \in 0 .. MaxBalance : b # balance[u] /\ balance' = [balance EXCEPT ![u] = b]
  /\ UNCHANGED <<orders, subs, plans, debits, jobs, gates, clock>>

Stalls(o) ==
  /\ o \in Open /\ ~ orders[o].stalled
  /\ orders' = [orders EXCEPT ![o].stalled = TRUE]
  /\ UNCHANGED <<subs, plans, balance, debits, jobs, gates, clock>>

Tick ==
  /\ now < MaxTime /\ \E p \in Plan : Wanted(p)
  /\ now' = now + 1
  /\ UNCHANGED <<orders, subs, plans, balance, debits, jobs, gates, begun>>

FallsDue(o) ==
  /\ subs[o].status = "active" /\ ~ subs[o].due
  /\ subs' = [subs EXCEPT ![o].due = TRUE]
  /\ UNCHANGED <<orders, plans, balance, debits, jobs, gates, clock>>

-----------------------------------------------------------------------------
Init ==
  /\ orders = [o \in Order |-> [status |-> "none", debited |-> FALSE, stalled |-> FALSE,
                                at |-> 0, policy |-> CHOOSE policy \in Policies : TRUE]]
  /\ subs = [o \in Order |-> [status |-> "none", seq |-> 0, due |-> FALSE]]
  /\ plans \in [Plan -> {[limit |-> n, policy |-> policy, reserved |-> 0, sold |-> 0, edit |-> NoEdit] :
                           n \in SaleLimits, policy \in Policies}]
  /\ balance \in [User -> {MaxBalance}]
  /\ debits = [o \in Order |-> 0]
  /\ jobs = [j \in Job |-> [pc |-> "idle", order |-> NoOrder]]
  /\ gates = [g \in Gate |-> IdleGate]
  /\ now = 0
  /\ begun = [o \in Order |-> {}]

PurchaseStep(j) ==
  \/ MarkOrderDeducting(j) \/ DebitStrict(j) \/ DebitUnanswered(j) \/ DebitRefused(j)
  \/ MarkOrderFailed(j) \/ FinalizeOrder(j) \/ Abandon(j)

GateStep(g) ==
  \/ \E u \in User : ResolveActive(g, u)
  \/ GateExpires(g) \/ GateActivates(g)

PlanStep(p) ==
  \/ \E limit \in SaleLimits : EditPlan(p, limit)
  \/ UpdatePlan(p)

Environment ==
  \/ \E u \in User : Storefront(u) \/ BalanceChanges(u)
  \/ \E o \in Order : Stalls(o) \/ FallsDue(o)
  \/ Tick

Next ==
  \/ \E o \in Order : Begin(o) \/ Withdraw(o)
  \/ \E c \in Caller, o \in Order : Reserve(c, o)
  \/ \E j \in Janitor, o \in Order : Reconcile(j, o)
  \/ \E j \in Job : PurchaseStep(j)
  \/ ExpireDue
  \/ \E g \in Gate : GateStep(g)
  \/ \E p \in Plan : PlanStep(p)
  \/ Environment

Spec == Init /\ [][Next]_vars

\* A minute passes; a janitor ticks for ever and takes up some stalled order
\* each time; what it does may fail, but not every time.
FairSpec ==
  /\ Spec
  /\ \A o \in Order : WF_vars(Stalls(o))
  /\ \A j \in Janitor : /\ SF_vars(\E o \in Order : Reconcile(j, o))
                        /\ SF_vars(DebitStrict(j) \/ DebitRefused(j))
                        /\ SF_vars(MarkOrderFailed(j) \/ FinalizeOrder(j))

-----------------------------------------------------------------------------
(* Properties. *)

One(b) == IF b THEN 1 ELSE 0

\* The tables keep their shapes; above all no order is charged twice, however
\* often its debit is replayed.
TypeOK ==
  /\ orders \in [Order -> OrderRow]
  /\ subs \in [Order -> SubRow]
  /\ plans \in [Plan -> PlanRow]
  /\ balance \in [User -> Nat]
  /\ debits \in [Order -> 0 .. 1]
  /\ jobs \in [Job -> JobRow]
  /\ gates \in [Gate -> GateRow]
  /\ now \in Nat
  /\ begun \in [Order -> SUBSET Nat]

\* A subscription exists exactly for the paid orders, and every paid order has
\* been charged; the reference on the order tells whether it was charged.
PaidOrdersAreServed ==
  \A o \in Order :
    /\ subs[o].status # "none" <=> o \in Paid
    /\ o \in Paid => orders[o].debited
    /\ debits[o] = One(orders[o].debited)

\* What the buyer of a paid order had bought of its plan when it was opened,
\* the order itself included.
BoughtBy(o) ==
  {p \in Paid \cap Of(buyer[o]) : planOf[p] = planOf[o] /\ subs[p].seq <= subs[o].seq}

\* The counters of a plan are exactly its open and its paid orders, and never
\* exceed the sale limit, however orders fail and the limit is changed.  No
\* interleaving of purchases, replays and gates takes a user beyond the queue
\* or queues one plan twice.  And every order that was paid was within the
\* lifetime and the period limit of the policy it was accepted under: what
\* the reservation counted is all that was paid until the order was, edits of
\* the policy notwithstanding.  (A purchase that began later is not in the
\* rolling window of this one even if it was paid first.)
PurchaseLimitsHold ==
  /\ \A p \in Plan :
       LET ordered == {o \in Order : planOf[o] = p}
       IN  /\ plans[p].reserved = Cardinality(Open \cap ordered)
           /\ plans[p].sold = Cardinality(Paid \cap ordered)
           /\ plans[p].limit # 0 => plans[p].sold + plans[p].reserved <= plans[p].limit
  /\ \A u \in User :
       /\ Cardinality((LiveIn(subs) \cup Open) \cap Of(u)) <= 1 + MaxQueue
       /\ \A p \in Plan :
            Cardinality({o \in Of(u) : planOf[o] = p /\ (o \in Open \/ subs[o].status = "pending")}) <= 1
  /\ \A o \in Paid :
       LET policy  == orders[o].policy
           counted == {p \in BoughtBy(o) : InPeriod(policy, orders[p].at, orders[o].at)}
       IN  /\ policy.lifetime # 0 => Cardinality(BoughtBy(o)) <= policy.lifetime
           /\ policy.kind # "none" => Cardinality(counted) <= policy.max

\* A decided order is never decided again, and a subscription only moves from
\* the queue to use to its end: no late janitor reopens, repeats or revives.
DecisionStep ==
  \A o \in Order :
    /\ orders[o].status \in {"paid", "failed"} => orders'[o].status = orders[o].status
    /\ subs[o].status = "expired" => subs'[o] = subs[o]
    /\ subs[o].status = "active" => subs'[o].status \in {"active", "expired"}
    /\ subs[o].status # "none" => subs'[o].seq = subs[o].seq

DecisionsAreFinal == [][DecisionStep]_vars

\* Every order is decided at last, wherever its purchase was interrupted.
OrdersConclude ==
  \A o \in Order : o \in Open ~> o \in Order \ Open

\* What the janitor's comments promise: replays are safe with any number of
\* replicas and only ever move an order forward to paid.  An order that was
\* charged therefore never ends as failed.
ChargedOrdersNeverFail ==
  \A o \in Order : orders[o].debited => orders[o].status # "failed"
=============================================================================
