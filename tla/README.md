# D-AI: a verification development of its shared state

D-AI is a unified AI gateway: tenants and their end users call upstream models
through it, requests are metered, and the gateway keeps the money. It is one Go
binary (`cmd/server`) that runs as `all`, `control-api`, `gateway` or `worker`,
on PostgreSQL and Redis, with a Vue portal. Several replicas of each role run at
the same time and share nothing but the two stores.

This directory models the parts whose correctness depends on how replicas, workers
and outside parties interleave, and where testing reaches least: the money (ledger,
settlement of requests, online payment, subscription purchases and the row locks
they share), the queue of async tasks and their webhooks, the availability of
upstreams, and the OAuth tokens of the credential pools. Everything is translated
from the code; the lines are in `PROJECT.json` under `map`.

- [1. Inventory](#1-inventory)
- [2. Modules](#2-modules)
- [3. Runs](#3-runs)
- [4. Fairness](#4-fairness)
- [5. Proofs](#5-proofs)
- [6. Where code and documents disagree](#6-where-code-and-documents-disagree)
- [7. What is not modelled](#7-what-is-not-modelled)
- [8. Plan](#8-plan)

## 1. Inventory

| Component | State it keeps | Operations | What is hard | What makes it correct |
|---|---|---|---|---|
| Ledger (`internal/billing/ledger`, `billing/service`) | `bill_accounts`, `bill_credit_lots`, `bill_recharge_orders`, `bill_refund_reversal_effects` | charge, charge if funded, grant, revoke an order's lots, refund reversal, expiry | long sequences of legal calls; debts; limits of batches; lock order | balance, lots and orders reconcile; no unit is taken twice |
| Request store (`internal/ai/adapters/postgres/request_*.go`) | `ai_request_keys`, `bill_settlements`, `bill_journal`, `bill_daily_totals`, `bill_record_control` | admit, register, renew a lease, seal, post, mark, recover, refund, retire | two attempts with one identity, several workers, lost acknowledgements, crashes, retention | one decision per request, charged exactly as decided |
| Online payment (`internal/payment`) | `pay_orders`, the cash ledger, the gateway's trades | create, prepay, notify, sync, sweep, close, refund, delete | an external party that advances between a query and its use; lost and repeated notifications | credited exactly once if and only if paid; the money arrives |
| Reconciliation (`internal/billing/invariants`) | none | reads the tables and reports | - | its checks are invariants of the modules above |
| Scheduler (`internal/scheduler`) | an advisory lock | runs the jobs of the other components | the lock lives only as long as its session | jobs are idempotent when they overlap |
| Async tasks (`internal/ai/asynctask`) | `ai_async_tasks`, `ai_async_task_deliveries` | submit, claim, renew, complete, cancel, reap, release at shutdown; claim, send and finish a delivery | leases that lapse under a live worker, goroutines of one process that share an owner, crashes | a task ends once, no billed attempt is repeated, its end is announced and the announcement decided |
| Token refresh (`internal/ai/tokenrefresh`, `adapters/postgres/oauth_credential*.go`) | `ai_provider_oauth_credentials`, observed quotas in Redis | refresh, re-encrypt, observe a quota, edit, disable, delete | refresh tokens that work once, several replicas, edits while the provider is asked, late observations | the row holds the token the provider gave last; a late answer changes nothing |
| Routing (`internal/ai/routing`) | scopes, permits and tombs in Redis (`availability.lua`), sticky routes, quotas | acquire, complete, cancel, suspend, resume, reset; choose | calls lost, repeated and delayed; requests that outlive the state they were admitted in | one trial at a time in recovery, an undisturbed rest, every scope tried again |
| Limits (`internal/ai/adapters/redis`) | windows, concurrency leases | acquire, release | a release that never comes | never above the limit; slots come back |
| Serving (`internal/ai/serving`) | one request | the pipeline of steps and their rollback | failover after a partial answer | what a step reserves is released |
| Subscriptions (`internal/ai/subscription`) | `ai_sub_orders`, `ai_sub_subscriptions`, `ai_sub_plans`, quota windows | reserve, debit, finalise, replay, expire, activate | three transactions, a janitor in every replica, a gate that reads without a lock | charged at most once, served if and only if paid, limits kept, every order decided |
| Authentication (`internal/auth`) | sessions, blacklist, bans | log in, refresh, revoke | revocation racing a refresh | a revoked session stays revoked |
| Tenants and users | rows | create, update, delete | deletion with work in flight | nothing is orphaned |
| Formats, transport, consoles, portal | none of its own | conversion and display | - | - |

The components meet in PostgreSQL. A settlement worker posts a sealed request by
charging the tenant's and the user's account in the ledger; a settled payment
order grants a recharge in the ledger; the scheduler expires lots and sweeps
payment orders; a subscription purchase debits the buyer's account; a refund goes
the other way through the same accounts. They exclude each other only by row locks,
hence `AccountLocks`. The attempts of an async task run the serving pipeline under
an identity made of the task and the attempt, which is the identity `Settlement`
registers: `OneRunPerIdentity` of `AsyncTasks` is what keeps its two-runs case from
happening in one attempt, and `Settlement` shows that it would be harmless. The
pipeline asks the availability machine for a permit per attempt; a refused refresh
suspends a scope of it.

The hazards found on the way, each at its line and with the properties that
watch it, are in `PROJECT.json` under `hazards`.

## 2. Modules

| Module | Models | Extends |
|---|---|---|
| `Sums` | sums over numbered rows (SQL's `SUM`), as a recursive function | - |
| `Ledger` | the ledger and its services | `Sums` |
| `MCLedger` | instances of it | `Ledger` |
| `LedgerProofs` | theorems | `Ledger` |
| `Charges` | what a payer is promised (abstract) | - |
| `Settlement` | the request store, its callers and its workers | - |
| `MCSettlement` | instances of it | `Settlement` |
| `SettlementProofs` | theorems | `Settlement` |
| `Payment`, `MCPayment` | top-up orders, sweeps, notifications, the gateway | - |
| `PaymentProofs` | theorems | `Payment` |
| `AccountLocks`, `MCAccountLocks` | the row locks of the transactions that move money | - |
| `AccountLocksProofs` | theorems | `AccountLocks` |
| `Subscription`, `MCSubscription` | purchases of subscriptions, janitors, the gate | - |
| `SubscriptionProofs` | theorems | `Subscription` |
| `AsyncTasks`, `MCAsyncTasks` | tasks, workers, the reaper, webhook deliveries | - |
| `AsyncTasksProofs` | theorems | `AsyncTasks` |
| `Breaker` | what the documentation promises of a fault scope (abstract) | - |
| `Availability`, `MCAvailability` | `availability.lua`, its client and the attempts that use it | - |
| `AvailabilityProofs` | theorems | `Availability` |
| `TokenRefresh`, `MCTokenRefresh` | one OAuth account: refreshes, users, administrators, the provider | - |
| `TokenRefreshProofs` | theorems | `TokenRefresh` |

Definitions whose comment begins with "Mutant" are slips the code could plausibly
have; none is part of a specification. `PROJECT.json` (`mutants`) says which
property each of them breaks when it takes the place of the definition after it.

### Ledger

| Variable | Code |
|---|---|
| `balance` | `bill_accounts.balance_micro`, signed |
| `nlots`, `lots` | `bill_credit_lots` in insertion order; `consumed`, `unused` and `state` stand for `consumed_micro`, `expired_unused_micro` and the pair `expired_at`, `revoked_at` |
| `orders` | `bill_recharge_orders`; `online` tells a payment's recharge from a manual one |
| `unbacked` | the sum of `non_available_debit_micro` per account |
| `now` | the clock expiry compares with |

Each action is one committed transaction. That is sound because every operation
locks the account row before it touches a lot and keeps it to the end, the rule
`AccountLocks` states and checks. `Charge` settles usage and may leave a debt;
`ChargeIfFunded` (purchases, withdrawals) may not. A grant first clears the debt,
and only the rest becomes a lot. The attribution of a charge is stated as what it
must be (soonest expiry first, each lot filled before the next); `consumeLots` is the
loop of the code, round by round, and `AttributionIsTheLoop` says that the two agree.
`ReverseOrder` takes back what is left
of a manual recharge; `ReverseGrantForRefund` takes back all of an online one.
`ExpireDueLots` is a pass once it holds its locks. The accounts it works on were
selected before, without a lock, and its clock may be old, so the step takes any accounts,
up to the LIMIT, and any time up to now: every stale choice is one of them.

### Settlement

| Variable | Code |
|---|---|
| `keys` | `ai_request_keys`: open or sealed, `live` for a `lease_until` ahead |
| `rows` | `bill_settlements`; `ready` for an `available_at` that has come, `stale` for a `sealed_at` more than 30 s ago |
| `effects` | what the request has added to `bill_journal`, `ai_api_keys.quota_used` and `bill_daily_totals` |
| `control` | `bill_record_control`: `accepting`, `closed_before` |
| `origin`, `month`, `retired` | when an identity was created, the clock, and what retention dropped |
| `runs` | pipeline runs: where they are, whether the heartbeat goroutine lives, what the caller was told |
| `workers` | the loops of `DrainSettlements` |
| `maintenance` | where `MaintainRecords` is between its two transactions |

`Log` is two transactions (`LogRegister`; `Seal` or `Reenter`) and is called by
`sealCompletion` (`sealing`) and by the finalizer (`closing`). A commit may take
effect without its acknowledgement. A worker holds its row from `Pick` to the end;
a failed posting is marked in a later transaction, when another worker may have
the row. Balances are one number per request: how the ledger splits a charge is
`Ledger`'s business, and the two accounts of a request are charged in one
transaction.

`Charges` is the abstract specification: a charge is open, then decided once
(waived or pending), then posted for exactly its due, then perhaps refunded, then
archived. `ImplementsCharges` is the refinement, with the mapping `Status`,
`DueOf`, `Paid`.

### Payment

| Variable | Code |
|---|---|
| `orders` | `pay_orders`; `lapsed` for `expires_at`, `waiting` for `sweep_next_attempt_at`, `aged` for an `updated_at` 30 days ago |
| `checkout` | how far `CreateTopupOrder` is |
| `trade`, `matches`, `notices` | the gateway (external) |
| `books` | recharge orders and cash entries the order has produced |
| `tasks` | sweeps and syncs in flight: the status they saw, the answer they got, what they will write |

A sweep reads an order, asks the gateway, perhaps closes the trade, and then
writes only if the status is still the one it read. Everything else, the
notification above all, may happen in between.

### AccountLocks

A transaction is the list of row locks it takes, in order. `Plans` has one entry per
kind of transaction: the set of lists it may follow, since which accounts it touches is
its input. Lots of one account are one lock. Aborts are `End` before the plan is
done. Accounts are the ranks of their ids, finitely many; tenants sort before users
because ids begin with `T_` and `U_`.

### Subscription

| Variable | Code |
|---|---|
| `orders` | `ai_sub_orders`; `debited` for the billing reference, `stalled` for an order a minute old, `at` for `created_at`, `policy` for the purchase policy the order was accepted under (`purchase_policy_snapshot`) |
| `subs` | `ai_sub_subscriptions`, one per order at most; `seq` is the place in the queue, `due` for an `expires_at` that has passed |
| `plans` | `ai_sub_plans`: the sale limit, the purchase policy and the counters `sold` and `reserved` |
| `balance`, `debits` | what the buyer can spend; charges made for each order |
| `jobs` | `Purchase` calls and janitor replays in flight, between their transactions |
| `gates` | gate decisions between the read and the writes that follow from it |
| `now`, `begun` | the clock of the database, in units of the purchase period; `now()` of the reservations that have begun and wait for the user's lock |

A transaction under the user's advisory lock is one step. The debit is the
ledger's (`ChargeIfFunded`) and idempotent by the order's key; its answer may be
lost. The gate reads without the lock, so what it read may be stale when it
expires or activates a subscription.

`now()` is the start of a transaction, and a reservation begins before it waits for the
user's lock. `Begin` is therefore a step of its own, and `Reserve` decides, and dates
its order, with the time of `Begin`: other purchases may have been reserved and paid in
between. `InPeriod` follows `EvaluatePurchaseEligibility`: the rolling window ends at
that time, so what began later is not counted; the calendar period does not. An edit of
the plan may replace the policy by any other of `Policies`, and nothing compares it with
what was bought. It binds new orders only (`adapters/postgres/subscription.go:396`), and
every order keeps the policy it was accepted under, which is what `PurchaseLimitsHold`
holds it to.

### AsyncTasks

| Variable | Code |
|---|---|
| `rows` | `ai_async_tasks`; `lapsed` for a `lease_expires_at` that has passed, `ready` for `available_at` |
| `keys` | the identities, task and attempt, that have reached billing |
| `runs`, `sends` | what each worker and each sender goroutine is doing |
| `deliveries` | `ai_async_task_deliveries` |
| `heard` | whether the receiver has got the notice (external) |
| `processes`, `reaping` | up, draining or gone; a reaper between its two statements |

A row is owned by a process (`worker_id`), so two goroutines of a process cannot
tell their claims apart. Leases lapse at any time: every run may be a zombie.
Every write may fail, every process but the survivor may crash or drain.

### Availability and Breaker

| Variable | Code |
|---|---|
| `scopes` | the hash of each scope: phase, generation (`epoch`), failures, proofs, owner of the trial |
| `permits` | `permit:<token>`: the generation in which the token was admitted, per scope |
| `tombs` | `permit:<token>:canceled` |
| `calls` | what each attempt is doing, and whether a copy of its acquire is still under way |

One run of the script is one step. An acquire may be executed without its answer
being heard, again by the Redis client's retry, and after the caller has given up
and cancelled, or answered by another copy. Which scopes an administrator's `Resume`
finds under one resource is left open: it takes any set. `Breaker` is the abstract specification, from the states that
`docs/UPSTREAM_AVAILABILITY.md` describes; `ImplementsBreaker` maps a scope's phase,
owner and proofs to it. A generation counter bounded by `MaxEpoch` bounds how often
a scope trips.

### TokenRefresh

| Variable | Code |
|---|---|
| `row`, `pool` | the row of `ai_provider_oauth_credentials` and the status of its pool; `legacy` for tokens encrypted with an earlier key, `cooling` for `cooldown_until`, `expiring` for `expires_at` |
| `flights` | the refresh of each process: waiting for the advisory lock, with the row read, at the provider, with its answer |
| `readers` | requests and quota inspections between their read of the row and what they write later |
| `quota` | the identity whose quota Redis holds |
| `root`, `live` | the tokens the provider has issued and those it accepts (external) |
| `lost` | history: tokens whose replacement never reached the row, or was overwritten |

A refresh holds an advisory lock and a transaction from `Lock` to `Conclude` or
`Abort`; if it has re-encrypted the row it also holds the row's lock. Administrators
and requests take neither. `lost` makes `RowHoldsTheLastGrant` say exactly when an
account dies: when the answer or the commit is lost after the provider rotated the
token, when an edit of the row or of its pool overtook the refresh, or by finding 3.

## 3. Runs

| Run | Instance | Shows |
|---|---|---|
| `ledger` | one account, two orders, amounts 1 and 2, three lots, debt up to 1, one expiry date ahead and then past, batch of one, fairness | lots, orders and balance reconcile; the drift between lots and balance is bounded by what refunds took; take-backs make no debt; the attribution is the code's loop; no due lot is starved by the LIMIT |
| `settlement` | one identity, two runs, two workers, two tries, two months | one decision, one charge, one server; keys and rows agree; nothing retired comes back; refines `Charges` |
| `settlement_live` | one run, two workers, fairness | pending rows conclude, abandoned identities are sealed |
| `payment` | an end user's order, two tasks, fairness | credited once if and only if paid, and at last; no payable order is closed |
| `locks` | three transactions, two tenants with a user each, the ledger's kinds | no circle of waits |
| `locks_refund` | a settlement and a refund | *violation*: finding 1 |
| `subscription` | a user who orders one plan twice, a caller, a janitor, a gate, three policies that the tenant switches, a clock of two instants, fairness | charged once, served if and only if paid, within the sale limit, the queue and the policy of each order, decided at last and for good |
| `subscription_paid` | the same with two janitors | *violation*: finding 2 |
| `tasks` | a task with two attempts and a webhook, two processes with a worker each, two senders in the one that stays, two sends, fairness | one end, announced; one run per identity and none after it was billed; everything concludes, but for deliveries that a late result strands (section 6) |
| `availability` | an endpoint scope shared by two candidates and a model scope of one, two attempts, two failures, two trips, fairness | refines `Breaker`; one trial at a time; cancelled calls hold nothing; the rest is undisturbed; every scope is tried again |
| `tokens` | two processes, a request, two identities, three tokens, three versions | the row holds the last grant; only dead tokens are condemned; no quota of another identity |
| `tokens_key` | the same with two tokens | *violation*: finding 3 |

Why the bounds are enough:

- **Ledger.** `MaxLots`, `MaxDebt` and `Horizon` bound how much happens, not
  what. Two orders and three lots give a partly used lot beside another, a grant that
  clears a debt wholly, partly or not at all, lots that expire before, after and
  never. The invariants are also proved without the bounds (section 5);
  attribution needs three lots for one to be filled, one cut and one untouched.
- **Settlement.** A hazard involves at most two runs of one identity and two
  workers on one row. `ReviewAfter = 1` (9 in the code) leaves a retry before
  review; `Retention = 0` with two months lets an identity of the first be
  dropped and come back in the second.
- **Payment.** Orders do not interact except through the sweep's LIMIT (not
  modelled), so one order is enough; two tasks and the notification give three
  writers at once.
- **Subscription.** The limits are of one (`max`, lifetime, sale limit), so the second
  order is the one to be refused, to overtake the first or to be overtaken by it. The
  three policies are a rolling window of two units, in which both instants of the clock
  (`MaxTime` 1) count, a calendar period of one, in which only the same instant does,
  and a lifetime of one; the tenant switches between them, and the sale limit between
  none and 1. `MaxWaiting` 1 is one waiting transaction per order. A queue that is full
  with orders of several plans is beyond these bounds and covered by the proofs.
- **AsyncTasks.** Two attempts allow a retry and its exhaustion, two processes a
  zombie beside its successor, and two senders of one process (the default of
  `WebhookWorkers`) a late result beside a newer claim that it cannot be told from.
  The process that stops has no sender here; what its shutdown does to deliveries is
  covered by the proofs for any placement of senders. Tasks do not interact except through the caps and
  batches that are left out.
- **Availability.** A shared and a private scope let one attempt be admitted by
  both and refused by one; two attempts let a late completion meet a trial; two
  generations let a scope trip again while permits of the first are about. Proved
  without these bounds (section 5).
- **TokenRefresh.** Three tokens allow a login, its rotation and another login
  (or two rotations); three versions a refresh between two edits. Two requests,
  with two versions or with one process, were checked as well.
- **Locks.** Three transactions are enough for a circle of three; two accounts
  of each kind let lists overlap in part.

Deadlock is not checked in runs where the bounded system really comes to an end
(every request ended, nothing left to post); `locks` never ends and checks it.

Every property has a mutant. Some examples: dropping `AND state='pending'` from the
mark of a failed posting breaks `EffectsMatchSettlement`, because a posted row
returns to pending; leaving `expired` out of the sweep's candidates breaks
`MoneyArrives`, because a payment whose query and close failed once is never
looked at again; a process that releases its tasks before its goroutines have
drained breaks `OneRunPerIdentity`; a `MarkInvalid` that does not compare
`token_version` breaks `OnlyDeadTokensAreCondemned`.

## 4. Fairness

- **Ledger.** `WF` on expiry and on the clock. The scheduler runs the job
  periodically and repeats it while batches are full.
- **Settlement.** `WF` on recovery, picking, backoff and the lapse of a lease nobody
  renews: timers, and a loop in `RequestStore.Start` that ticks until shutdown. `WF` on the
  end of `Log`'s second transaction, which has a deadline. `SF` on a worker's
  posting ending in a commit or an error, and on the mark: a worker may die in the
  middle again and again, but not every single time. Nothing says that a posting
  succeeds.
- **Payment.** `WF` on the clock and on a task's next step, since calls have
  deadlines. `SF` on starting the sweep of a candidate, on an answered query of such
  a sweep and on its settlement: the gateway and the database fail sometimes, not
  always. Notifications get no fairness at all.

- **Subscription.** `WF` on an order growing old. `SF` on a janitor's replay of an
  order and on its transactions: a replay may fail again and again, but not every
  single time. Callers and gates get none.
- **AsyncTasks.** `WF` on timers, on the polling loops, on leases that nobody renews,
  on a handler reaching its deadline, and on the reaper of a process that stays up.
  Nothing is assumed of writes and sends: each may fail every time, and the reaper
  ends what they leave.
- **Availability.** `WF` on the end of a rest and on the expiry of a permit's lease,
  both times in Redis. Nothing is assumed of the attempts.
- **TokenRefresh.** None; its properties are safety.

## 5. Proofs

`LedgerProofs` proves, for any accounts, orders, amounts and bounds:

- `LedgerTypeCorrect`: `Spec => []TypeOK`;
- `LotsStaySound`: `Spec => []LotStates`;
- `DriftIsBounded`: `Spec => []DriftBoundedByRefunds`;
- `OrdersStayReconciled`: `Spec => []OrdersReconcile`;
- `TakeBacksNeverIndebt`: `Spec => TakeBackNeverIndebts`;
- `ChargesFollowTheLoop`: `Spec => []AttributionIsTheLoop`.

The first five share one inductive invariant, `LedgerInv`: the first four of them, and the fact
that makes them inductive, that the lots of an order belong to the order's
account. The argument has one lemma per action. What each needs is how a sum over
lots changes: a charge lowers the account's open total by the applied part, which
is the smaller of the charge and that total; a grant adds one row; revocation and
expiry move a subset of rows out of the total. These are the lemmas on sums at
the head of the module (a sum is monotone, additive, splits at a set, changes by one
row), which rest on induction over the number of rows (`NatSetInduction`). The drift
bound needs the lower half as well as the upper: that open lots never hold *less*
than the balance is what makes a charge, attributed to all the lots there are,
keep the bound. Where no refund has debited an account the bound says that open
lots and balance are equal, so taking some of the lots back leaves no new debt.

`ChargesFollowTheLoop` compares a specification with a program. An attribution is
unique (`AttributionUnique`): two of them that differ at a first row, in the order of
consumption, cannot have the same sum. What the loop of `consumeLots` has done after
`k` rounds is a loop invariant (`LoopInv`): rows behind it hold what they gave, rows
ahead nothing; as long as anything is outstanding every row behind it is empty; nothing
is lost. It holds at the start and after each round, and at the last row it says that the
loop leaves an attribution. That the recursive function of the model has a value at
every round (`LoopExists`), and that the open lots, as many as there are, can be walked
in order at all (`WalkExists`, by removing the first of them), are inductions on the
number of rounds and of rows.

Assumptions are those of `LedgerAssumption`: amounts are positive, the bounds are
numbers, `NoOrder` is no order, there is an account.

`PaymentProofs` proves, for any orders and any number of sweeps and syncs in
flight:

- `PaymentTypeCorrect`: `Spec => []TypeOK`, with it that no order is credited, earns
  income or is reversed twice;
- `BooksStayTrue`: `Spec => []BooksMatchOrder`;
- `CreditsArePaid`: `Spec => []CreditOnlyIfPaid`;
- `ClosedOrdersStayUnpaid`: `Spec => []ClosedOrdersTakeNoMoney`;
- `OwedOrdersAreSwept`: `Spec => []OwedOrdersStayListed`, the safety half of
  `MoneyArrives`: an order that was paid and not credited stays among those the sweep
  lists. With the fairness of the sweeps, which TLC adds, this is why money arrives.

None but the first is inductive: a task acts on an order it read and on an answer
it was given a while ago. `PaymentInv` adds what makes that safe. A trade is paid
only after its code was shown, and it is final once it is paid, closed or refunded, so
an old answer of that kind is still true (`TradeFollowsCheckout`, `NoticesAreTrue`,
`TasksSound`). A sweep reads no paid order, so the compare-and-set of the status it
read cannot overwrite a payment, and it records `closed` only for a trade that is
closed or was never opened (`TasksSound`). An order is closed because of its trade,
because its checkout failed, or because it lapsed without a trade, and each of
these lasts (`ClosedForGood`). The only assumption is `PaymentAssumption`: there are
orders, and the end users' are some of them.

`AvailabilityProofs` proves, for any scopes, candidates, attempts, limits and
generations:

- `TypeCorrect`: `Spec => []TypeOK`;
- `TrialsAreSingle`: `Spec => []OneTrialPerScope`;
- `CancelIsFinal`: `Spec => []CancelledHoldsNothing`;
- `RestIsRespected`: `Spec => RestIsUndisturbed`;
- `BreakerIsImplemented`: `Spec => ImplementsBreaker`, the refinement.

The inductive invariant `AvailabilityInv` adds three facts to the first three. A
permit names a generation that has begun and whose end the bound still allows
(`PermitsAreBounded`): a scope that trips therefore moves to a generation nobody has
a permit of, which is why completions from before it count for nothing. While a call
or a copy of it is under way its token has permits for its own scopes only
(`CallsKnowTheirScopes`), so what a late acquire admits is what the call asked for. A
resting scope has no proofs and a recovering one at most one (`ProofsCount`), which
the refinement needs to tell the second success from the first. Each action is
reduced to what it does to one scope (cool, prove, admit, release, leave alone), and
the refinement to one abstract step per scope. The assumptions are
`AvailabilityAssumption`: there is a candidate, the bounds are numbers, and the
null values are no members.

`SettlementProofs` proves, for any requests, runs, workers, prices and retention:

- `SettlementTypes`: `Spec => []TypeOK`;
- `SettlementEffectsMatch`: `Spec => []EffectsMatchSettlement`;
- `SettlementKeysAgree`: `Spec => []KeysAndRowsAgree`;
- `SettlementServesOnce`: `Spec => []OneExecutionServes`;
- `SettlementImplementsCharges`: `Spec => ImplementsCharges`, the refinement;
- `ReviewStopsAdmission`: `Spec => [][ReviewStep]_vars`: no step takes a settlement out
  of review, and while one is there no execution is admitted, of whatever tenant.

`SettlementInv` adds to the four invariants what they rest on. A row that a worker is
posting is pending and no other worker is posting it (`PostingIsLocked`): without it two
postings of one row, or one after a refund, could not be excluded. A row that is not
there is blank and a waived one costs nothing (`RowsAreTidy`). An identity is
registered after it was created, and what retention dropped was created in a closed
period (`DatesAreOrdered`), which is why `register` refuses it for ever. A run that
reached the upstream has left a key, or one that retention dropped (`RunsAreKnown`), so
that no second run registers the same identity. In the refinement a step
changes the status of one request, or recovery waives or retention archives a batch of
them; each is one step of `Charges` or a stutter. The assumptions are those of
`SettlementAssumption`.

`AccountLocksProofs` proves `LedgerTransactionsNeverDeadlock`: for any finite set of
accounts and any transactions of the ledger's kinds, `Spec => []NoDeadlock`. That the
kinds are those of `LedgerKinds` is a hypothesis of the theorem, since with the refund of
the payment service it is false (finding 1). The inductive invariant says that the locks a
transaction still has to take keep the order, after those it holds: lots after their
account, an account after every account held; and that nobody holds lots without their
account. Of transactions that wait for one another, take one that waits for the last of
the awaited accounts: whoever holds that account waits for a later one, which there is
not. That finitely many accounts have a last one comes from `WFMin` on the numbers.

`AsyncTasksProofs` proves, for any tasks, processes, goroutines and limits:

- `AsyncTypes`: `Spec => []TypeOK`;
- `AsyncEndsAreAnnounced`: `Spec => []EveryEndIsAnnounced`;
- `AsyncIdentitiesAreUnique`: `Spec => []OneRunPerIdentity`;
- `AsyncEndsAreFinal`: `Spec => EndsAreFinal`;
- `LoneSendersStrandNothing`: `OneSenderEach /\ Spec => []NoneStranded`.

`OneRunPerIdentity` is the one that is far from inductive: a release or the reaper
hands an attempt number back while goroutines that carried it may be alive. `AsyncInv`
adds that, while a task can still be claimed, no goroutine and no billed identity is ahead
of the attempt in its row, and that a goroutine with the attempt of a running row is of
the process that holds it (`IdentitiesAreOld`); that a pending task has attempts left
and a running one has used one (`AttemptsAreCounted`); and what goroutines know
(`GoroutinesAreBusy`): a sender that reports success was heard. The last theorem says
when the exception in `TasksConclude` does not arise (section 6): if every process has one
sender, a sender that still holds its delivery is the last that has claimed it
(`SenderIsCurrent`), so what it judged by its own attempt is true of the row. The code
starts two; the hypothesis is on the constant `home` and says what is missing. The
assumptions are those of `AsyncTasksAssumption`.

`SubscriptionProofs` proves, for any users, plans, finitely many orders, and any number
of callers, janitors and gates:

- `SubscriptionTypes`: `Spec => []TypeOK`;
- `SubscriptionsAreOfPaidOrders`: `Spec => []PaidOrdersAreServed`;
- `SubscriptionLimits`: `Spec => []PurchaseLimitsHold`;
- `SubscriptionWindows`: `Spec => []WindowsHold`;
- `SubscriptionDecisionsAreFinal`: `Spec => DecisionsAreFinal`;
- `ChargedOrdersNeverFailAlone`: `Spec /\ []OneJobPerOrder => []ChargedOrdersNeverFail`.

The limits are checked when an order is reserved and must hold when it is paid, two
transactions later. `SubscriptionInv` therefore counts open orders everywhere: the
counters of a plan are exactly its open and its paid orders, within the limit it has and
the one an administrator is about to set (`CountersAreExact`), and an open order takes
the place in the queue that it will have once it is paid (`PlacesAreLimited`). An order
that is open or paid is within its own policy against what was paid before it
(`PoliciesHold`): no other order of its buyer and plan is paid while it is open, since two
are never open at once, and after it is paid nothing comes before it any more, since
subscriptions are numbered as they are opened (`SeqsAreCounted`). So neither an edit of
the policy nor a purchase that overtakes a waiting one disturbs it. `WindowsHold` says
what follows for a period as a whole. Of a user's purchases under one policy in one
period the last to be opened counted all the others, if the period is a calendar one, or
if they were opened in the order in which they began; then there are no more of them
than the policy allows. Without this order the rolling window can be exceeded (section
6). `JobsAreKnown` says that a job opens a subscription only after the
charge was recorded. Steps fall into three kinds, those that leave the orders' states
alone, those that decide one, and the reservation, and each invariant is shown for
the kinds. The last theorem delimits finding 2: the property that TLC refutes holds as
long as no two purchases or replays work on one order at a time, because a refusal that
is about to be recorded is then still true (`RefusalsAreFresh`). The code gives no such
lock; the hypothesis says what is missing. The assumptions are those of
`SubscriptionAssumption`.

`TokenRefreshProofs` proves, for any processes, requests, identities, tokens and versions:

- `TokenTypes`: `Spec => []TypeOK`, with it that refreshes exclude each other;
- `TokenOfTheLastGrant`: `Spec => []RowHoldsTheLastGrant`;
- `TokenQuota`: `Spec => []QuotaIsOfThisAccount`;
- `TokenCondemnations`: `Spec => OnlyDeadTokensAreCondemned`;
- `TokensChangeWithoutRotation`: `Spec /\ []~row.legacy => TokensChangeWithTheVersion`.

A refresh acts on a row it read before it asked the provider. `TokenInv` says what is
left of that knowledge (`FlightsFit`): its version is not ahead of the row's; while they
are equal the token it has read descends from the last login, and the row has it or one
that was put back over its replacement; what the provider granted is accepted and of the
same login; what it refused stays refused. So writing the grant under an equal version
keeps `RowHoldsTheLastGrant`, and cooling the row under an equal version condemns a dead
token. Requests are treated alike (`ReadersFit`): the identity they know is the row's
while the versions are equal, and while they hold the row for share it stays so.
Tokens are numbered as they are issued and every root is one of them
(`RootsAreIssued`), so a rotation leaves the last login what it was. The last theorem
delimits finding 3: without a row of an earlier key nobody carries tokens to put back
(`NoRefits`), and the property that TLC refutes holds. The assumptions are those of
`TokenRefreshAssumption`.

Out of the prover's reach, and left to TLC, is liveness (`DueLotsSettle`,
`SettlementsConclude`, `AbandonedKeysSeal`, `MoneyArrives`, `OrdersConclude`,
`TasksConclude`, `ScopesReopen`), which needs fairness. Every invariant, action property
and refinement of a passing run is also a theorem. The induction theorems of the library
take an operator as a parameter and cannot be used here; where an argument needs
induction it is done on a set (`NatSetInduction` of `LedgerProofs`, `WFMin`).

## 6. Where code and documents disagree

1. **A refund can deadlock a settlement** (`locks_refund`). The comment at the lock
   says it cannot; two accounts are locked in opposite orders.
2. **A charged order can end as failed** (`subscription_paid`). `MarkOrderFailed` runs
   in a transaction after the one that refused the debit, and asks only that the
   order is open. A top-up and a second replay (or the original call) in between
   charge the order; it is then marked failed and no janitor looks at it again. The
   janitor's comment calls replays by several replicas safe. It is safe when they take
   turns on an order (`ChargedOrdersNeverFailAlone`).
3. **Re-encryption can put old tokens back** (`tokens_key`). `maybeReencrypt` writes
   the tokens it has read, without comparing `token_version`. If a refresh or an edit
   came in between, the account is left with a refresh token the provider no longer
   accepts. The comment says the statement changes only the representation at rest. It
   takes a key rotation (`TokensChangeWithoutRotation`).

Five more were found with these models and are not runs of their own:

- `ReverseGrantForRefund` debits spent credit from the balance and revokes only the
  lots of the refunded order. If the account holds another lot, its lots are then
  worth more than its balance, and the reconciliation job
  (`billing/invariants/check.go:103`) reports a violation although nothing illegal
  happened. `DriftBoundedByRefunds` is what does hold.
- A settlement under review stops the admission of all requests (`Healthy` in
  `Settlement`); the runbook (`docs/BILLING_OUTBOX_RUNBOOK.md:7`) knows only an outage
  and a backlog of 30 s. Nothing leaves `review` (`ReviewStopsAdmission`), and a deleted
  API key is enough to get there.
- `finishDelivery` (`asynctask/store_postgres.go:590`) matches the process, not the claim,
  and a process has two senders (`asynctask.go:77`). If the lease of one lapses before its
  last but one send is answered (a process that is suspended for longer than the lease),
  the other claims the delivery for the last send, and the first then writes `pending`, as
  its own attempt allows. The result of the last send finds no running row, and the
  delivery waits with its sends used up: no claim takes it, and the reaper looks only at
  running ones. `docs/REFACTOR_PLAN.md:1882` says that terminal writes must match the
  current `worker_id` and that the old owner is fenced after a takeover; this holds
  between processes (`LoneSendersStrandNothing`) and not within one. `TasksConclude`
  excepts exactly these deliveries (`Stranded`); without the exception TLC shows the above.
- If the commit of a seal is not acknowledged the caller gets a 503, and the charge
  is posted.
- A rolling purchase limit can be exceeded. A reservation fixes `now()` at its BEGIN
  (`adapters/postgres/subscription.go:806`), then waits for the user's lock (`:812`), and
  `EvaluatePurchaseEligibility` skips what was bought after it
  (`subscription/purchase_policy.go:221`). If purchase A begins and waits, B begins later,
  is reserved, charged and opened, and then A gets the lock, A does not count B, and the
  window that holds both has one too many. TLC finds this when `WindowsHold` is checked
  without the hypothesis on the order; `SubscriptionWindows` says that it is the only way,
  and that calendar and lifetime limits are not affected.

The models also show behaviour that no document excludes and no property judges:

- a duplicate attempt that is rejected before registration still runs the finalizer,
  whose `Log` seals the identity of the attempt that is running as not charged;
- a charge can no longer be refunded once its API key is deleted;
- a user can have two active subscriptions, when the gate activates a queued one it
  read while `FinalizeOrder` opens another;
- a lease that lapses between the reaper's two statements is failed although an
  attempt is left, and a zombie of an earlier attempt can bill after its task was
  requeued; no handler of today has a second attempt;
- an acquire that the Redis client repeats can be refused by its own first copy, and
  the trial is then held until its lease ends.

## 7. What is not modelled

The repository has some 124,000 lines of implementation. Most of them keep no state
of their own or change single rows: generated queries and contracts, conversions
between provider protocols, HTTP handlers, console queries, the portal. A model of
them would repeat them. The mapped lines, some 5,300, are those where several
transactions, processes or parties meet. Within the modelled parts:

- Amounts are small numbers, not `int64`: nothing here comes near the width, and
  prices and rounding are upstream of the charge decision.
- The month-by-month partitions, the daily journal totals and the tamper checks of
  `MaintainRecords` are the one refusal `RetireRefused`.
- Subscriptions' quota windows, which a posting also updates, are counters of one
  statement; the API key's quota is modelled.
- In Payment: the LIMIT of 100, the five-minute age before an in-flight sweep, the
  mock gateway and the signature of notifications. `matches` is the outcome of `Settle`'s
  comparison, which asks for the amount and, where both sides name them, for merchant and
  app (`payment/service/service.go:336`); how it comes about is left open.
- In AsyncTasks: the caps on a tenant's tasks, and errors of the reaper's statements,
  which delay them to the next tick. `deleteTask` is one step. Its statement reads the
  deliveries first and then waits for the task's row, so that under READ COMMITTED it
  misses a delivery that a transaction it waits for is enqueuing
  (`asynctask/store_postgres.go:525`); such a delivery outlives its task and is sent.
  `EveryEndIsAnnounced` does not speak of it.
- In Ledger: `ConsumedBefore` is the ORDER BY of `consumeLots` and the meaning of "soonest
  expiry first" at once, so `AttributionIsTheLoop` shows that the loop does what the order
  asks, not that the order is the right one.
- In Subscription: the place of a subscription in the queue (`seq`) is the order in which
  `FinalizeOrder` commits, while its `created_at` is the start of that transaction; the
  other columns of a plan; time zones and the unequal lengths of calendar periods.
- In Availability: the length of rests, their growth, and the statistics that decide
  whether a window of failures trips (left open); scoring, sticky routes and recovery
  turns only choose the next candidate.
- In TokenRefresh: other accounts, providers that state no lifetime (the token is then
  due at every round), replicas on different encryption keys, and a quota command that
  Redis executes after its client has given up.
- The components that `PROJECT.json` lists as not modelled, each with its reason.

## 8. Plan

In the order of what matters most:

1. *(done)* `Ledger`, `Payment` with their proofs, `Charges` and `Settlement`,
   `AccountLocks`.
2. *(done)* `AsyncTasks` with its deliveries; `Subscription`; `Availability` with
   `Breaker`, their refinement and its proof; `TokenRefresh`.
3. *(done)* Proofs: every invariant and action property of the passing runs, both
   refinements, and the scope of each finding.
4. `Concurrency`: Redis leases and windows, against the limit.
5. `Sessions`: refresh rotation, revocation, the ban reconciler.
6. Tenant deletion with settlements and payments in flight; the life of image assets.
