----------------------------- MODULE Settlement -----------------------------
(***************************************************************************)
(* The request store (internal/ai/adapters/postgres/request_*.go): how a   *)
(* request is registered before it runs, sealed with its charge decision   *)
(* when it ends, charged later by a pool of workers, recovered when its    *)
(* runtime is lost, refunded, and dropped when its retention is over.      *)
(*                                                                         *)
(* Executions are pipeline runs in gateway processes; two of them may      *)
(* carry one request identity, as the attempts of an async task do.        *)
(* Workers are the settlement loops of the replicas.  An action is one     *)
(* committed transaction, or the step of a process between two of them;    *)
(* a worker holds the lock of its settlement row from Pick to the end.     *)
(*                                                                         *)
(* Time is coarse: a flag per row says whether its lease, its backoff or   *)
(* the 30 s backlog limit has passed, and months count for retention.      *)
(***************************************************************************)
EXTENDS Integers, FiniteSets

CONSTANTS
  Request,      \* request identities
  Execution,    \* pipeline runs
  identity,     \* the request identity of each of them
  Keyed,        \* the requests made with an API key, whose quota they use
  Worker,       \* settlement workers
  Amount,       \* what a billable request can cost
  ReviewAfter,  \* failed postings a settlement survives (9 in the code)
  RecoverBatch, \* the LIMIT of one recovery transaction (100 in the code)
  Retention,    \* months a settlement is kept (a year in the code)
  MaxMonth      \* bound: the last month

ASSUME SettlementAssumption ==
  /\ Request # {}
  /\ identity \in [Execution -> Request]
  /\ Keyed \subseteq Request
  /\ Amount \subseteq Nat \ {0}
  /\ ReviewAfter \in Nat
  /\ RecoverBatch \in Nat \ {0}
  /\ Retention \in Nat
  /\ MaxMonth \in Nat

VARIABLES
  month,        \* the clock of retention
  control,      \* bill_record_control
  apiKey,       \* whether the row of the callers' API key exists
  origin,       \* the month each request identity was created in
  keys,         \* ai_request_keys
  rows,         \* bill_settlements
  effects,      \* what each request has added to the balance journal, to its
                \* API key's quota_used and to bill_daily_totals
  retired,      \* history: the identities retention has dropped
  runs,         \* the executions
  workers,      \* the settlement workers
  maintenance   \* how far MaintainRecords has come

vars == <<month, control, apiKey, origin, keys, rows, effects, retired, runs,
          workers, maintenance>>

RowState == {"none", "pending", "posted", "waived", "review", "refunded"}

KeyRow    == [state : {"none", "open", "sealed"}, live : BOOLEAN, at : Nat]
SettleRow == [state : RowState, due : Nat, at : Nat,
              attempts : Nat, ready : BOOLEAN, stale : BOOLEAN,
              interrupted : BOOLEAN]
Effect    == [charged : Nat, refunded : Nat, quota : Nat, requests : Nat,
              interruptions : Nat]
Run       == [pc : {"new", "admitted", "running", "sealing", "finalizing",
                    "closing", "ended"},
              beating : BOOLEAN, told : {"nothing", "reply", "error"},
              served : BOOLEAN]
Task      == [pc : {"idle", "posting", "marking"}, req : Request]

NoKey    == [state |-> "none", live |-> FALSE, at |-> 0]
NoRow    == [state |-> "none", due |-> 0, at |-> 0, attempts |-> 0,
             ready |-> FALSE, stale |-> FALSE, interrupted |-> FALSE]
NoEffect == [charged |-> 0, refunded |-> 0, quota |-> 0, requests |-> 0, interruptions |-> 0]

-----------------------------------------------------------------------------
(* Row updates. *)

OpenKey == [state |-> "open", live |-> TRUE, at |-> month]

SealKey(key) == [key EXCEPT !.state = "sealed"]

\* A charge decision: nothing due is waived, with or without evidence.
SealedRow(at, due, interrupted) ==
  [state |-> IF due = 0 THEN "waived" ELSE "pending", due |-> due, at |-> at,
   attempts |-> 0, ready |-> TRUE, stale |-> FALSE, interrupted |-> interrupted]

One(b) == IF b THEN 1 ELSE 0

CountRequest(effect, interrupted) ==
  [effect EXCEPT !.requests = @ + 1, !.interruptions = @ + One(interrupted)]

Interrupt(row) == [row EXCEPT !.interrupted = TRUE]

CountInterruption(effect) == [effect EXCEPT !.interruptions = @ + 1]

PostRow(row) == [row EXCEPT !.state = "posted"]

KeyDue(r) == IF r \in Keyed THEN rows[r].due ELSE 0

\* Mutant: the posting does not add to the key's quota_used.
ChargeEffectSkipsQuota(effect, due, keyDue) == [effect EXCEPT !.charged = @ + due]

ChargeEffect(effect, due, keyDue) ==
  [effect EXCEPT !.charged = @ + due, !.quota = @ + keyDue]

\* Mutant: attempts is not incremented.
FailRowForgetsAttempt(row) ==
  [row EXCEPT !.ready = FALSE,
              !.state = IF row.attempts >= ReviewAfter THEN "review" ELSE "pending"]

\* A failed posting counts, backs off, and after the last try goes to review.
FailRow(row) ==
  [row EXCEPT !.attempts = @ + 1, !.ready = FALSE,
              !.state = IF row.attempts >= ReviewAfter THEN "review" ELSE "pending"]

RefundRow(row) == [row EXCEPT !.state = "refunded"]

RefundEffect(effect, due, keyDue) ==
  [effect EXCEPT !.refunded = @ + due, !.quota = @ - keyDue]

-----------------------------------------------------------------------------
(* Guards. *)

\* The admission query of Execute.
Healthy ==
  /\ control.accepting
  /\ \A r \in Request : rows[r].state = "pending" => ~ rows[r].stale
  /\ \A r \in Request : rows[r].state # "review"

\* Mutant: closed_before is not compared with the identity's creation.
PeriodAlwaysOpen(r) == TRUE

\* No identity of a closed period may be registered, again or at all.
PeriodOpen(r) == origin[r] >= control.closedBefore

Unlocked(r) == \A w \in Worker : ~ (workers[w].pc = "posting" /\ workers[w].req = r)

\* Once the caller was told of an error the completion is not billable.
Decisions(e) == IF runs[e].told = "error" THEN {0} ELSE Amount \cup {0}

-----------------------------------------------------------------------------
(* Executions. *)

Goto(e, pc) == runs' = [runs EXCEPT ![e].pc = pc]

\* The caller is answered with an error; the finalizer still runs.
Refuse(e) == runs' = [runs EXCEPT ![e].pc = "finalizing", ![e].told = "error",
                                  ![e].beating = FALSE]

\* A step before registration rejects the request.
RejectEarly(e) ==
  /\ runs[e].pc = "new"
  /\ month >= origin[identity[e]]
  /\ Refuse(e)
  /\ UNCHANGED <<month, control, apiKey, origin, keys, rows, effects, retired, workers, maintenance>>

\* The admission query, which runs before the registration transaction.
Admit(e) ==
  /\ runs[e].pc = "new"
  /\ month >= origin[identity[e]]
  /\ IF Healthy THEN Goto(e, "admitted") ELSE Refuse(e)
  /\ UNCHANGED <<month, control, apiKey, origin, keys, rows, effects, retired, workers, maintenance>>

\* Mutant: a conflict on the identity is not an error of a fresh registration.
RegisterOnConflict(e) ==
  /\ runs[e].pc = "admitted"
  /\ PeriodOpen(identity[e])
  /\ keys' = [keys EXCEPT ![identity[e]] = IF @.state = "none" THEN OpenKey ELSE @]
  /\ runs' = [runs EXCEPT ![e].pc = "running", ![e].beating = TRUE, ![e].served = TRUE]
  /\ UNCHANGED <<month, control, apiKey, origin, rows, effects, retired, workers, maintenance>>

\* Registration as a fresh identity.
Register(e) ==
  LET r == identity[e]
  IN  /\ runs[e].pc = "admitted"
      /\ keys[r].state = "none" /\ PeriodOpen(r)
      /\ keys' = [keys EXCEPT ![r] = OpenKey]
      /\ \/ runs' = [runs EXCEPT ![e].pc = "running", ![e].beating = TRUE, ![e].served = TRUE]
         \/ \* the commit happened but its acknowledgement was lost
            runs' = [runs EXCEPT ![e].pc = "ended", ![e].told = "error"]
      /\ UNCHANGED <<month, control, apiKey, origin, rows, effects, retired, workers, maintenance>>

\* The identity is taken, its period is closed, or storage failed; the
\* finalizer leaves a rejected registration alone.
RegisterFails(e) ==
  /\ runs[e].pc = "admitted"
  /\ runs' = [runs EXCEPT ![e].pc = "ended", ![e].told = "error"]
  /\ UNCHANGED <<month, control, apiKey, origin, keys, rows, effects, retired, workers, maintenance>>

Heartbeat(e) ==
  /\ runs[e].beating
  /\ keys[identity[e]].state = "open"
  /\ keys' = [keys EXCEPT ![identity[e]].live = TRUE]
  /\ UNCHANGED <<month, control, apiKey, origin, rows, effects, retired, runs, workers, maintenance>>

\* A failed heartbeat ends the lease loop and cancels the execution, which
\* may already be past the point where that matters.
HeartbeatFails(e) ==
  /\ runs[e].beating
  /\ runs' = [runs EXCEPT ![e].beating = FALSE]
  /\ UNCHANGED <<month, control, apiKey, origin, keys, rows, effects, retired, workers, maintenance>>

\* The execution ends without a completion to seal: it failed, or its client
\* is gone.
Interrupted(e) ==
  /\ runs[e].pc = "running"
  /\ Refuse(e) \/ Goto(e, "finalizing")
  /\ UNCHANGED <<month, control, apiKey, origin, keys, rows, effects, retired, workers, maintenance>>

\* The first transaction of Log, from sealCompletion or from the finalizer:
\* registration of an identity that may exist already.
LogRegister(e) ==
  LET r == identity[e]
  IN  /\ \/ runs[e].pc = "running" /\ Goto(e, "sealing")
         \/ runs[e].pc = "finalizing" /\ Goto(e, "closing")
      /\ PeriodOpen(r)
      /\ keys' = [keys EXCEPT ![r] = IF @.state = "none" THEN OpenKey ELSE @]
      /\ UNCHANGED <<month, control, apiKey, origin, rows, effects, retired, workers, maintenance>>

\* What an execution does when Log returns to it, acknowledged or not.
LogReturns(e, ok) ==
  runs' = [runs EXCEPT
    ![e].beating = FALSE,
    ![e].told = IF runs[e].pc = "sealing" THEN (IF ok THEN "reply" ELSE "error") ELSE @,
    ![e].pc = IF runs[e].pc = "sealing" THEN "finalizing" ELSE "ended"]

\* Mutant: the state of the identity is not looked at before it is sealed.
SealRegardless(e) ==
  LET r == identity[e]
  IN  /\ runs[e].pc \in {"sealing", "closing"}
      /\ keys[r].state # "none"
      /\ \E due \in Decisions(e), interrupted \in BOOLEAN :
            /\ rows' = [rows EXCEPT ![r] = SealedRow(keys[r].at, due, interrupted)]
            /\ effects' = [effects EXCEPT ![r] = CountRequest(@, interrupted)]
      /\ keys' = [keys EXCEPT ![r] = SealKey(@)]
      /\ \E ok \in BOOLEAN : LogReturns(e, ok)
      /\ UNCHANGED <<month, control, apiKey, origin, retired, workers, maintenance>>

\* The second transaction of Log on an identity that is not sealed yet.
Seal(e) ==
  LET r == identity[e]
  IN  /\ runs[e].pc \in {"sealing", "closing"}
      /\ keys[r].state = "open"
      /\ \E due \in Decisions(e), interrupted \in BOOLEAN :
            /\ rows' = [rows EXCEPT ![r] = SealedRow(keys[r].at, due, interrupted)]
            /\ effects' = [effects EXCEPT ![r] = CountRequest(@, interrupted)]
      /\ keys' = [keys EXCEPT ![r] = SealKey(@)]
      /\ \E ok \in BOOLEAN : LogReturns(e, ok)
      /\ UNCHANGED <<month, control, apiKey, origin, retired, workers, maintenance>>

\* Log on a sealed identity only records that delivery was interrupted.
Reenter(e) ==
  LET r == identity[e]
  IN  /\ runs[e].pc \in {"sealing", "closing"}
      /\ keys[r].state = "sealed"
      /\ \/ UNCHANGED <<rows, effects>>
         \/ /\ rows[r].state # "none" /\ ~ rows[r].interrupted
            /\ Unlocked(r)
            /\ rows' = [rows EXCEPT ![r] = Interrupt(@)]
            /\ effects' = [effects EXCEPT ![r] = CountInterruption(@)]
      /\ \E ok \in BOOLEAN : LogReturns(e, ok)
      /\ UNCHANGED <<month, control, apiKey, origin, keys, retired, workers, maintenance>>

\* Either transaction of Log is refused or rolled back.
LogFails(e) ==
  /\ \/ runs[e].pc = "running" /\ Refuse(e)
     \/ runs[e].pc \in {"sealing", "closing"} /\ LogReturns(e, FALSE)
     \/ runs[e].pc = "finalizing"
        /\ runs' = [runs EXCEPT ![e].pc = "ended", ![e].beating = FALSE]
  /\ UNCHANGED <<month, control, apiKey, origin, keys, rows, effects, retired, workers, maintenance>>

\* The gateway process dies.
RuntimeLost(e) ==
  /\ runs[e].pc \notin {"new", "ended"}
  /\ runs' = [runs EXCEPT ![e].pc = "ended", ![e].beating = FALSE]
  /\ UNCHANGED <<month, control, apiKey, origin, keys, rows, effects, retired, workers, maintenance>>

-----------------------------------------------------------------------------
(* Settlement workers: DrainSettlements. *)

Due(r) == rows[r].state = "pending" /\ rows[r].ready /\ Unlocked(r)

\* FOR UPDATE SKIP LOCKED, oldest first.
Pick(w, r) ==
  /\ workers[w].pc = "idle"
  /\ Due(r)
  /\ \A q \in Request : Due(q) => rows[r].at <= rows[q].at
  /\ workers' = [workers EXCEPT ![w] = [pc |-> "posting", req |-> r]]
  /\ UNCHANGED <<month, control, apiKey, origin, keys, rows, effects, retired, runs, maintenance>>

\* postSettlement and its commit: balances, key quota, state and totals.
Post(w) ==
  LET r == workers[w].req
  IN  /\ workers[w].pc = "posting"
      /\ r \in Keyed => apiKey
      /\ rows' = [rows EXCEPT ![r] = PostRow(@)]
      /\ effects' = [effects EXCEPT ![r] = ChargeEffect(@, rows[r].due, KeyDue(r))]
      /\ workers' = [workers EXCEPT ![w].pc = "idle"]
      /\ UNCHANGED <<month, control, apiKey, origin, keys, retired, runs, maintenance>>

\* postSettlement fails and is rolled back, which releases the row.
PostFails(w) ==
  /\ workers[w].pc = "posting"
  /\ workers' = [workers EXCEPT ![w].pc = "marking"]
  /\ UNCHANGED <<month, control, apiKey, origin, keys, rows, effects, retired, runs, maintenance>>

\* Mutant: the mark does not ask whether the row is still pending.
MarkRegardless(w) ==
  LET r == workers[w].req
  IN  /\ workers[w].pc = "marking"
      /\ Unlocked(r)
      /\ rows' = [rows EXCEPT ![r] = FailRow(@)]
      /\ workers' = [workers EXCEPT ![w].pc = "idle"]
      /\ UNCHANGED <<month, control, apiKey, origin, keys, effects, retired, runs, maintenance>>

\* The failure is recorded in a transaction of its own, if the row is still
\* pending by then.
Mark(w) ==
  LET r == workers[w].req
  IN  /\ workers[w].pc = "marking"
      /\ Unlocked(r)
      /\ rows' = [rows EXCEPT ![r] = IF @.state = "pending" THEN FailRow(@) ELSE @]
      /\ workers' = [workers EXCEPT ![w].pc = "idle"]
      /\ UNCHANGED <<month, control, apiKey, origin, keys, effects, retired, runs, maintenance>>

\* The process dies, its commit or its mark fails: the next tick starts over.
WorkerAborts(w) ==
  /\ workers[w].pc # "idle"
  /\ workers' = [workers EXCEPT ![w].pc = "idle"]
  /\ UNCHANGED <<month, control, apiKey, origin, keys, rows, effects, retired, runs, maintenance>>

-----------------------------------------------------------------------------
(* Recovery, refunds and retention. *)

\* Mutant: only identities that have a settlement are recovered.
LostKeysWithRows == {r \in Request : keys[r].state = "open" /\ ~ keys[r].live /\ rows[r].state # "none"}

LostKeys == {r \in Request : keys[r].state = "open" /\ ~ keys[r].live}

\* Log holds the key row while it seals; recovery skips it.
Sealing == {identity[e] : e \in {f \in Execution : runs[f].pc \in {"sealing", "closing"}}}

\* RecoverRequests: open identities whose lease has lapsed are sealed without
\* a charge, up to a batch of them.
Recover(S) ==
  /\ S \subseteq LostKeys
  /\ Cardinality(S) <= RecoverBatch
  /\ LostKeys \ Sealing \subseteq S \/ Cardinality(S) = RecoverBatch
  /\ keys' = [r \in Request |-> IF r \in S THEN SealKey(keys[r]) ELSE keys[r]]
  /\ rows' = [r \in Request |-> IF r \in S /\ rows[r].state = "none"
                THEN SealedRow(keys[r].at, 0, FALSE) ELSE rows[r]]
  /\ effects' = [r \in Request |-> IF r \in S THEN CountRequest(effects[r], FALSE)
                                                ELSE effects[r]]
  /\ UNCHANGED <<month, control, apiKey, origin, retired, runs, workers>>

RecoverRequests ==
  /\ \E S \in SUBSET Request : S # {} /\ Recover(S)
  /\ UNCHANGED maintenance

\* An operator gives a posted charge back; a repeated call changes nothing.
\* The key's quota_used still includes the charge, so taking it off cannot fail
\* while the key exists.
Refund(r) ==
  /\ Unlocked(r)
  /\ rows[r].state = "posted"
  /\ rows[r].at + Retention >= month
  /\ r \in Keyed => apiKey
  /\ rows' = [rows EXCEPT ![r] = RefundRow(@)]
  /\ effects' = [effects EXCEPT ![r] = RefundEffect(@, rows[r].due, KeyDue(r))]
  /\ UNCHANGED <<month, control, apiKey, origin, keys, retired, runs, workers, maintenance>>

\* MaintainRecords recovers first, in a transaction of its own.
MaintainRecords ==
  /\ maintenance = "idle"
  /\ \E S \in SUBSET Request : Recover(S)
  /\ maintenance' = "recovered"

Cutoff == month - Retention

Unresolved(r) ==
  \/ rows[r].state \in {"pending", "review"} /\ rows[r].at < Cutoff
  \/ keys[r].state = "open" /\ keys[r].at < Cutoff

\* The retention transaction: nothing unresolved may lie before the cutoff;
\* then the settlements before it are dropped, the period is closed and the
\* sealed identities of the period are deleted.
Retire ==
  LET S == {r \in Request : keys[r].state = "sealed" /\ keys[r].at < Cutoff}
  IN  /\ maintenance = "recovered"
      /\ \A r \in Request : ~ Unresolved(r) /\ Unlocked(r)
      /\ rows' = [r \in Request |-> IF rows[r].at < Cutoff THEN NoRow ELSE rows[r]]
      /\ control' = [control EXCEPT !.closedBefore = IF Cutoff > @ THEN Cutoff ELSE @]
      /\ keys' = [r \in Request |-> IF r \in S THEN NoKey ELSE keys[r]]
      /\ retired' = retired \cup S
      /\ maintenance' = "idle"
      /\ UNCHANGED <<month, apiKey, origin, effects, runs, workers>>

\* Unresolved work, a journal that does not add up, another replica's
\* advisory lock or a failed transaction: everything stays.
RetireRefused ==
  /\ maintenance = "recovered"
  /\ maintenance' = "idle"
  /\ UNCHANGED <<month, control, apiKey, origin, keys, rows, effects, retired, runs, workers>>

-----------------------------------------------------------------------------
(* The environment. *)

\* bound: what only admission reads changes only while a request may come.
Admitting == \E e \in Execution : runs[e].pc = "new"

\* record-cutover pauses or resumes admission.
SetAccepting ==
  /\ Admitting
  /\ control' = [control EXCEPT !.accepting = ~ @]
  /\ UNCHANGED <<month, apiKey, origin, keys, rows, effects, retired, runs, workers, maintenance>>

\* A tenant deletes the API key its requests were made with.
DeleteAPIKey ==
  /\ apiKey
  /\ apiKey' = FALSE
  /\ UNCHANGED <<month, control, origin, keys, rows, effects, retired, runs, workers, maintenance>>

LeaseLapses(r) ==
  /\ keys[r].state = "open" /\ keys[r].live
  /\ keys' = [keys EXCEPT ![r].live = FALSE]
  /\ UNCHANGED <<month, control, apiKey, origin, rows, effects, retired, runs, workers, maintenance>>

BackoffElapses(r) ==
  /\ rows[r].state = "pending" /\ ~ rows[r].ready
  /\ rows' = [rows EXCEPT ![r].ready = TRUE]
  /\ UNCHANGED <<month, control, apiKey, origin, keys, effects, retired, runs, workers, maintenance>>

\* A settlement has been pending for more than 30 seconds.
BacklogAges(r) ==
  /\ Admitting
  /\ rows[r].state = "pending" /\ ~ rows[r].stale
  /\ rows' = [rows EXCEPT ![r].stale = TRUE]
  /\ UNCHANGED <<month, control, apiKey, origin, keys, effects, retired, runs, workers, maintenance>>

MonthPasses ==
  /\ month < MaxMonth
  /\ month' = month + 1
  /\ UNCHANGED <<control, apiKey, origin, keys, rows, effects, retired, runs, workers, maintenance>>

-----------------------------------------------------------------------------
Init ==
  /\ month = 0
  /\ control = [accepting |-> TRUE, closedBefore |-> 0]
  /\ apiKey = TRUE
  /\ origin \in [Request -> 0 .. MaxMonth]
  /\ keys = [r \in Request |-> NoKey]
  /\ rows = [r \in Request |-> NoRow]
  /\ effects = [r \in Request |-> NoEffect]
  /\ retired = {}
  /\ runs = [e \in Execution |-> [pc |-> "new", beating |-> FALSE,
                                  told |-> "nothing", served |-> FALSE]]
  /\ workers \in [Worker -> {[pc |-> "idle", req |-> CHOOSE r \in Request : TRUE]}]
  /\ maintenance = "idle"

RunStep(e) ==
  \/ RejectEarly(e) \/ Admit(e) \/ Register(e) \/ RegisterFails(e)
  \/ Heartbeat(e) \/ HeartbeatFails(e) \/ Interrupted(e)
  \/ LogRegister(e) \/ Seal(e) \/ Reenter(e) \/ LogFails(e) \/ RuntimeLost(e)

WorkerStep(w) ==
  \/ \E r \in Request : Pick(w, r)
  \/ Post(w) \/ PostFails(w) \/ Mark(w) \/ WorkerAborts(w)

RecordStep ==
  \/ RecoverRequests \/ MaintainRecords \/ Retire \/ RetireRefused
  \/ \E r \in Request : Refund(r)

Environment ==
  \/ SetAccepting \/ DeleteAPIKey \/ MonthPasses
  \/ \E r \in Request : LeaseLapses(r) \/ BackoffElapses(r) \/ BacklogAges(r)

Next ==
  \/ \E e \in Execution : RunStep(e)
  \/ \E w \in Worker : WorkerStep(w)
  \/ RecordStep
  \/ Environment

Spec == Init /\ [][Next]_vars

Beating(r) == \E e \in Execution : identity[e] = r /\ runs[e].beating

\* A lease nobody renews lapses; the store's loop ticks for ever, so recovery
\* and picking happen whenever they can; Log has a deadline, so its second
\* transaction ends one way or another.  A worker may die in the middle of a
\* posting, but not every time: a posting that is begun again and again is
\* decided at last, and so is the record of its failure.
FairSpec ==
  /\ Spec
  /\ WF_vars(RecoverRequests)
  /\ \A r \in Request : /\ WF_vars(LeaseLapses(r) /\ ~ Beating(r))
                        /\ WF_vars(BackoffElapses(r))
  /\ \A e \in Execution : WF_vars(Seal(e) \/ Reenter(e) \/ LogFails(e))
  /\ \A w \in Worker : /\ WF_vars(\E r \in Request : Pick(w, r))
                       /\ SF_vars(Post(w) \/ PostFails(w))
                       /\ SF_vars(Mark(w))

-----------------------------------------------------------------------------
(* Properties. *)

\* The tables keep their shapes; above all, neither a refund nor a retry takes
\* the quota or the money of a request below zero.
TypeOK ==
  /\ month \in Nat
  /\ control \in [accepting : BOOLEAN, closedBefore : Nat]
  /\ apiKey \in BOOLEAN
  /\ origin \in [Request -> Nat]
  /\ keys \in [Request -> KeyRow]
  /\ rows \in [Request -> SettleRow]
  /\ effects \in [Request -> Effect]
  /\ retired \subseteq Request
  /\ runs \in [Execution -> Run]
  /\ workers \in [Worker -> Task]
  /\ maintenance \in {"idle", "recovered"}

Settled(row) == row.state \in {"posted", "refunded"}

\* The money, the key quota and the daily totals agree with the settlement of
\* every request (billing/invariants checkSettlementJournalLinks): charged
\* exactly its due once posted, refunded exactly that once refunded, nothing
\* before and nothing when waived, counted once, whoever sealed it.
EffectsMatchSettlement ==
  \A r \in Request :
    LET row    == rows[r]
        effect == effects[r]
    IN  /\ effect.requests = One(keys[r].state = "sealed" \/ r \in retired)
        /\ r \notin retired =>
             /\ effect.charged = (IF Settled(row) THEN row.due ELSE 0)
             /\ effect.refunded = (IF row.state = "refunded" THEN row.due ELSE 0)
             /\ effect.quota = (IF row.state = "posted" THEN KeyDue(r) ELSE 0)
             /\ effect.interruptions = One(row.interrupted)

\* A settlement exists exactly for the sealed identities, dated as they are,
\* so retention, which selects the two by date separately, drops both or none;
\* and what it has dropped is never registered again, however late a runtime
\* or a replay of the task comes back.
KeysAndRowsAgree ==
  \A r \in Request :
    /\ keys[r].state = "sealed" <=> rows[r].state # "none"
    /\ keys[r].state = "sealed" => rows[r].at = keys[r].at
    /\ r \in retired => keys[r].state = "none"

\* Of all the executions that carry one identity at most one ever reaches the
\* upstream, whatever is recovered or dropped in between.
OneExecutionServes ==
  \A e, f \in Execution :
    identity[e] = identity[f] /\ runs[e].served /\ runs[f].served => e = f

\* The charge of a request as its payer sees it.
Status ==
  [r \in Request |-> IF r \in retired THEN "archived"
                     ELSE IF rows[r].state = "none" THEN "open" ELSE rows[r].state]

DueOf == [r \in Request |-> IF r \in retired THEN effects[r].charged ELSE rows[r].due]

Paid == [r \in Request |-> effects[r].charged - effects[r].refunded]

Abstract == INSTANCE Charges WITH status <- Status, due <- DueOf, paid <- Paid

\* The request store keeps the promise of Charges: a decision is never
\* revised, not by a late completion, a recovery, a second worker or a retry.
ImplementsCharges == Abstract!Spec

\* Every pending settlement is decided: posted, or put under review.
SettlementsConclude ==
  \A r \in Request : rows[r].state = "pending" ~> rows[r].state # "pending"

\* An identity whose runtime is gone does not stay open.
AbandonedKeysSeal ==
  \A r \in Request :
    (keys[r].state = "open" /\ ~ Beating(r)) ~> keys[r].state # "open"
=============================================================================
