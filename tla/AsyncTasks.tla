----------------------------- MODULE AsyncTasks -----------------------------
(***************************************************************************)
(* The async task queue (internal/ai/asynctask): tasks are claimed under a *)
(* lease by the worker goroutines of several processes, reach billing      *)
(* under an identity made of the task and its attempt, end once, and tell  *)
(* a webhook of their end through a second queue of deliveries.            *)
(*                                                                         *)
(* A row is owned by a process (worker_id), not by a goroutine: two        *)
(* goroutines of one process cannot tell their claims apart.  Leases lapse *)
(* at any time, so every goroutine may be a zombie.  A process that has    *)
(* stopped or crashed never comes back: its successor has another id.      *)
(*                                                                         *)
(* The caps on a tenant's tasks are left out: they only delay a Submit or  *)
(* a Claim.  The batches of the reaper are taken to hold every due row and *)
(* its statements to succeed: an error only delays them to the next tick.  *)
(***************************************************************************)
EXTENDS Integers, FiniteSets

CONSTANTS
  Task,
  MaxAttempts,  \* max_attempts of each task; 1 for every handler of today
  Webhook,      \* tasks submitted with a webhook_url
  Process, NoProcess,
  Survivor,     \* bound: the one process that is never stopped
  Worker,       \* goroutines that run tasks
  Sender,       \* goroutines that deliver webhooks
  home,         \* the process of each goroutine
  NoTask,
  MaxSends      \* max_attempts of a delivery

ASSUME AsyncTasksAssumption ==
  /\ MaxAttempts \in [Task -> Nat \ {0}]
  /\ Webhook \subseteq Task
  /\ Survivor \in Process
  /\ NoProcess \notin Process /\ NoTask \notin Task
  /\ home \in [Worker \cup Sender -> Process]
  /\ Worker \cap Sender = {}
  /\ MaxSends \in Nat \ {0}

VARIABLES
  rows,         \* ai_async_tasks
  keys,         \* identities <<task, attempt>> that have reached billing
  runs,         \* what each worker goroutine is doing
  deliveries,   \* ai_async_task_deliveries, at most one per task
  sends,        \* what each sender goroutine is doing
  heard,        \* tasks whose receiver has got the notice
  processes,    \* whether each process works, drains or is gone
  reaping       \* processes whose reaper is between its two passes

vars == <<rows, keys, runs, deliveries, sends, heard, processes, reaping>>

Ended   == {"completed", "failed", "cancelled"}
Running == {"pending", "running"}

TaskRow  == [status : Running \cup Ended \cup {"none", "deleted"},
             worker : Process \cup {NoProcess}, lapsed : BOOLEAN, ready : BOOLEAN,
             attempt : Nat]
RunRow   == [pc : {"idle", "executing", "writing"}, task : Task \cup {NoTask},
             attempt : Nat, cancelled : BOOLEAN, result : {"none", "completed", "failed"}]
Delivery == [status : {"none", "pending", "running", "delivered", "failed"},
             event : Ended \cup {"none"}, worker : Process \cup {NoProcess},
             lapsed : BOOLEAN, ready : BOOLEAN, attempt : Nat]
SendRow  == [pc : {"idle", "sending", "finishing"}, task : Task \cup {NoTask},
             attempt : Nat, outcome : {"none", "delivered", "failed", "pending"}]

IdleRun    == [pc |-> "idle", task |-> NoTask, attempt |-> 0, cancelled |-> FALSE,
               result |-> "none"]
IdleSend   == [pc |-> "idle", task |-> NoTask, attempt |-> 0, outcome |-> "none"]
NoDelivery == [status |-> "none", event |-> "none", worker |-> NoProcess,
               lapsed |-> FALSE, ready |-> FALSE, attempt |-> 0]

Up(p) == processes[p] = "up"

-----------------------------------------------------------------------------
(* Statements on the two tables. *)

\* The end of a task, whoever writes it ...
End(row, status) ==
  [row EXCEPT !.status = status, !.worker = NoProcess, !.lapsed = FALSE, !.ready = FALSE]

\* ... and the delivery it enqueues in the same statement.
Enqueue(t, status) ==
  IF t \in Webhook /\ deliveries[t].status = "none"
  THEN [NoDelivery EXCEPT !.status = "pending", !.event = status, !.ready = TRUE]
  ELSE deliveries[t]

\* Back to the queue.
Requeue(row, attempt, ready) ==
  [row EXCEPT !.status = "pending", !.worker = NoProcess, !.lapsed = FALSE,
              !.attempt = attempt, !.ready = ready]

\* The statements of heartbeat, complete and finishDelivery match a row by
\* its process.
Holds(row, p) == row.status = "running" /\ row.worker = p

Billed(t) == <<t, rows[t].attempt>> \in keys

-----------------------------------------------------------------------------
(* Submission, cancellation, deletion. *)

Submit(t) ==
  /\ rows[t].status = "none"
  /\ rows' = [rows EXCEPT ![t].status = "pending", ![t].ready = TRUE]
  /\ UNCHANGED <<keys, runs, deliveries, sends, heard, processes, reaping>>

\* Mutant: the cancelled task has no delivery.
CancelQuietly(t, p) ==
  /\ rows[t].status \in Running
  /\ rows' = [rows EXCEPT ![t] = End(@, "cancelled")]
  /\ UNCHANGED <<keys, runs, deliveries, sends, heard, processes, reaping>>

\* The row first, then the goroutine, if this process runs the task; a worker
\* elsewhere learns of it from its next heartbeat.
Cancel(t, p) ==
  /\ Up(p)
  /\ rows[t].status \in Running
  /\ rows' = [rows EXCEPT ![t] = End(@, "cancelled")]
  /\ deliveries' = [deliveries EXCEPT ![t] = Enqueue(t, "cancelled")]
  /\ runs' = [w \in Worker |-> IF home[w] = p /\ runs[w].task = t /\ runs[w].pc = "executing"
                               THEN [runs[w] EXCEPT !.cancelled = TRUE] ELSE runs[w]]
  /\ UNCHANGED <<keys, sends, heard, processes, reaping>>

\* sweepExpired looks at expires_at and not at the status; DeleteTerminal
\* deletes what has ended.  The delivery goes with the task; one that is being
\* enqueued by a concurrent statement, which the DELETE would miss under READ
\* COMMITTED, is left out.
DeleteTask(t) ==
  /\ rows[t].status \in Running \cup Ended
  /\ rows' = [rows EXCEPT ![t] = [status |-> "deleted", worker |-> NoProcess,
                                  lapsed |-> FALSE, ready |-> FALSE, attempt |-> 0]]
  /\ deliveries' = [deliveries EXCEPT ![t] = NoDelivery]
  /\ UNCHANGED <<keys, runs, sends, heard, processes, reaping>>

-----------------------------------------------------------------------------
(* A worker goroutine: claim, heartbeat, execute, write the end. *)

Claim(w, t) ==
  /\ Up(home[w]) /\ runs[w].pc = "idle"
  /\ rows[t].status = "pending" /\ rows[t].ready
  /\ rows' = [rows EXCEPT ![t] = [status |-> "running", worker |-> home[w], lapsed |-> FALSE,
                                  ready |-> FALSE, attempt |-> rows[t].attempt + 1]]
  /\ runs' = [runs EXCEPT ![w] = [IdleRun EXCEPT !.pc = "executing", !.task = t,
                                                 !.attempt = rows[t].attempt + 1]]
  /\ UNCHANGED <<keys, deliveries, sends, heard, processes, reaping>>

\* It renews the lease, or finds that the row is no longer its process's.
Heartbeat(w) ==
  LET t == runs[w].task
  IN  /\ runs[w].pc = "executing" /\ ~ runs[w].cancelled
      /\ \/ /\ Holds(rows[t], home[w]) /\ rows[t].lapsed
            /\ rows' = [rows EXCEPT ![t].lapsed = FALSE]
            /\ UNCHANGED runs
         \/ /\ ~ Holds(rows[t], home[w])
            /\ runs' = [runs EXCEPT ![w].cancelled = TRUE]
            /\ UNCHANGED rows
      /\ UNCHANGED <<keys, deliveries, sends, heard, processes, reaping>>

\* The handler's request is registered under the attempt's identity; an
\* identity that exists is refused, and so is a cancelled context.
Bill(w) ==
  /\ runs[w].pc = "executing" /\ ~ runs[w].cancelled
  /\ <<runs[w].task, runs[w].attempt>> \notin keys
  /\ keys' = keys \cup {<<runs[w].task, runs[w].attempt>>}
  /\ \E result \in {"completed", "failed"} :
       runs' = [runs EXCEPT ![w].pc = "writing", ![w].result = result]
  /\ UNCHANGED <<rows, deliveries, sends, heard, processes, reaping>>

\* The subject is gone, the request is refused, the context is cancelled, or
\* the handler fails before it has reached billing.
ExecuteFails(w) ==
  /\ runs[w].pc = "executing"
  /\ runs' = [runs EXCEPT ![w].pc = "writing", ![w].result = "failed", ![w].cancelled = FALSE]
  /\ UNCHANGED <<rows, keys, deliveries, sends, heard, processes, reaping>>

\* A retryable error with attempts left: the lease is left to lapse.
LeaveLease(w) ==
  /\ runs[w].pc = "executing"
  /\ runs[w].attempt < MaxAttempts[runs[w].task]
  /\ runs' = [runs EXCEPT ![w] = IdleRun]
  /\ UNCHANGED <<rows, keys, deliveries, sends, heard, processes, reaping>>

\* Mutant: the statement matches the task by its id alone.
CompletesById(w) == rows[runs[w].task].status \in Running \cup Ended

Completes(w) == Holds(rows[runs[w].task], home[w])

\* complete: the end and its delivery, or nothing when the row has moved on.
WriteTerminal(w) ==
  LET t == runs[w].task
  IN  /\ runs[w].pc = "writing"
      /\ \/ /\ Completes(w)
            /\ rows' = [rows EXCEPT ![t] = End(@, runs[w].result)]
            /\ deliveries' = [deliveries EXCEPT ![t] = Enqueue(t, runs[w].result)]
         \/ /\ ~ Completes(w)
            /\ UNCHANGED <<rows, deliveries>>
      /\ runs' = [runs EXCEPT ![w] = IdleRun]
      /\ UNCHANGED <<keys, sends, heard, processes, reaping>>

\* The database does not answer within ten seconds; the row stays running.
WriteFails(w) ==
  /\ runs[w].pc = "writing"
  /\ runs' = [runs EXCEPT ![w] = IdleRun]
  /\ UNCHANGED <<rows, keys, deliveries, sends, heard, processes, reaping>>

-----------------------------------------------------------------------------
(* The reaper of each process: two passes over the lapsed rows. *)

Orphan(t) == rows[t].status = "running" /\ rows[t].lapsed

\* Mutant: one attempt too many.
RetryableOnceMore(t) == Orphan(t) /\ rows[t].attempt <= MaxAttempts[t] /\ ~ Billed(t)

Retryable(t) == Orphan(t) /\ rows[t].attempt < MaxAttempts[t] /\ ~ Billed(t)

ReapRetryable(p) ==
  /\ Up(p) /\ p \notin reaping
  /\ \E t \in Task : Orphan(t)
  /\ rows' = [t \in Task |->
       IF Retryable(t) THEN Requeue(rows[t], rows[t].attempt, FALSE) ELSE rows[t]]
  /\ reaping' = reaping \cup {p}
  /\ UNCHANGED <<keys, runs, deliveries, sends, heard, processes>>

\* Mutant: only tasks without attempts left, so that a billed one waits.
DeadExhausted(t) == Orphan(t) /\ rows[t].attempt >= MaxAttempts[t]

\* Whatever is orphaned now, whether or not the first pass has seen it.
Dead(t) == Orphan(t)

ReapDead(p) ==
  /\ p \in reaping
  /\ rows' = [t \in Task |-> IF Dead(t) THEN End(rows[t], "failed") ELSE rows[t]]
  /\ deliveries' = [t \in Task |-> IF Dead(t) THEN Enqueue(t, "failed") ELSE deliveries[t]]
  /\ reaping' = reaping \ {p}
  /\ UNCHANGED <<keys, runs, sends, heard, processes>>

DeadDelivery(d) == d.status = "running" /\ d.lapsed /\ d.attempt >= MaxSends

\* The last step of reapOnce.
ReapDeadDeliveries ==
  /\ \E t \in Task : DeadDelivery(deliveries[t])
  /\ deliveries' = [t \in Task |->
       IF DeadDelivery(deliveries[t])
       THEN [deliveries[t] EXCEPT !.status = "failed", !.worker = NoProcess, !.lapsed = FALSE]
       ELSE deliveries[t]]
  /\ UNCHANGED <<rows, keys, runs, sends, heard, processes, reaping>>

-----------------------------------------------------------------------------
(* A sender goroutine. *)

ClaimDelivery(s, t) ==
  LET d == deliveries[t]
  IN  /\ Up(home[s]) /\ sends[s].pc = "idle"
      /\ \/ d.status = "pending" /\ d.ready
         \/ d.status = "running" /\ d.lapsed
      /\ d.attempt < MaxSends
      /\ deliveries' = [deliveries EXCEPT ![t] =
           [d EXCEPT !.status = "running", !.worker = home[s], !.lapsed = FALSE,
                     !.ready = FALSE, !.attempt = d.attempt + 1]]
      /\ sends' = [sends EXCEPT ![s] = [pc |-> "sending", task |-> t,
                                        attempt |-> d.attempt + 1, outcome |-> "none"]]
      /\ UNCHANGED <<rows, keys, runs, heard, processes, reaping>>

\* classifyWebhookResult: 2xx, 410 or an unsafe target, or anything else.
Classify(s, answer) ==
  CASE answer = "ok"   -> "delivered"
    [] answer = "gone" -> "failed"
    [] OTHER -> IF sends[s].attempt < MaxSends THEN "pending" ELSE "failed"

\* The receiver, external: it may get the notice although the answer is lost.
Send(s) ==
  /\ sends[s].pc = "sending"
  /\ \E answer \in {"ok", "gone", "error"}, got \in BOOLEAN :
       /\ answer = "ok" => got
       /\ answer = "gone" => ~ got
       /\ heard' = IF got THEN heard \cup {sends[s].task} ELSE heard
       /\ sends' = [sends EXCEPT ![s].pc = "finishing", ![s].attempt = 0,
                                ![s].outcome = Classify(s, answer)]
  /\ UNCHANGED <<rows, keys, runs, deliveries, processes, reaping>>

FinishDelivery(s) ==
  LET t == sends[s].task
      d == deliveries[t]
  IN  /\ sends[s].pc = "finishing"
      /\ \/ /\ Holds(d, home[s])
            /\ deliveries' = [deliveries EXCEPT ![t] =
                 [d EXCEPT !.status = sends[s].outcome, !.worker = NoProcess, !.lapsed = FALSE]]
         \/ /\ ~ Holds(d, home[s])
            /\ UNCHANGED deliveries
      /\ sends' = [sends EXCEPT ![s] = IdleSend]
      /\ UNCHANGED <<rows, keys, runs, heard, processes, reaping>>

\* The process is draining, or the result cannot be written.
DropSend(s) ==
  /\ sends[s].pc = "finishing"
  /\ sends' = [sends EXCEPT ![s] = IdleSend]
  /\ UNCHANGED <<rows, keys, runs, deliveries, heard, processes, reaping>>

-----------------------------------------------------------------------------
(* Processes.  The survivor stands for the replicas that are always there. *)

\* Stop cancels every context of the process.
Stop(p) ==
  /\ Up(p) /\ p # Survivor
  /\ processes' = [processes EXCEPT ![p] = "draining"]
  /\ reaping' = reaping \ {p}
  /\ runs' = [w \in Worker |-> IF home[w] = p /\ runs[w].pc = "executing"
                               THEN [runs[w] EXCEPT !.cancelled = TRUE] ELSE runs[w]]
  /\ UNCHANGED <<rows, keys, deliveries, sends, heard>>

\* Mutant: the rows are handed back before the goroutines have returned.
DrainedAtOnce(p) == processes[p] = "draining"

Drained(p) ==
  /\ processes[p] = "draining"
  /\ \A w \in Worker : home[w] = p => runs[w].pc = "idle"
  /\ \A s \in Sender : home[s] = p => sends[s].pc = "idle"

Releases(t, p) == Holds(rows[t], p) /\ ~ Billed(t)

\* releaseWorker and releaseDeliveries, once everything has drained; either
\* statement may fail without the other.
Release(p) ==
  /\ Drained(p)
  /\ \/ rows' = [t \in Task |-> IF Releases(t, p)
                                THEN Requeue(rows[t], rows[t].attempt - 1, TRUE) ELSE rows[t]]
     \/ UNCHANGED rows
  /\ \/ deliveries' = [t \in Task |->
          IF Holds(deliveries[t], p)
          THEN [deliveries[t] EXCEPT !.status = "pending", !.worker = NoProcess,
                                     !.lapsed = FALSE, !.ready = TRUE, !.attempt = @ - 1]
          ELSE deliveries[t]]
     \/ UNCHANGED deliveries
  /\ processes' = [processes EXCEPT ![p] = "gone"]
  /\ UNCHANGED <<keys, runs, sends, heard, reaping>>

Crash(p) ==
  /\ processes[p] # "gone" /\ p # Survivor
  /\ processes' = [processes EXCEPT ![p] = "gone"]
  /\ reaping' = reaping \ {p}
  /\ runs' = [w \in Worker |-> IF home[w] = p THEN IdleRun ELSE runs[w]]
  /\ sends' = [s \in Sender |-> IF home[s] = p THEN IdleSend ELSE sends[s]]
  /\ UNCHANGED <<rows, keys, deliveries, heard>>

-----------------------------------------------------------------------------
(* Time. *)

LeaseLapses(t) ==
  /\ rows[t].status = "running" /\ ~ rows[t].lapsed
  /\ rows' = [rows EXCEPT ![t].lapsed = TRUE]
  /\ UNCHANGED <<keys, runs, deliveries, sends, heard, processes, reaping>>

BackoffEnds(t) ==
  /\ rows[t].status = "pending" /\ ~ rows[t].ready
  /\ rows' = [rows EXCEPT ![t].ready = TRUE]
  /\ UNCHANGED <<keys, runs, deliveries, sends, heard, processes, reaping>>

DeliveryLapses(t) ==
  /\ deliveries[t].status = "running" /\ ~ deliveries[t].lapsed
  /\ deliveries' = [deliveries EXCEPT ![t].lapsed = TRUE]
  /\ UNCHANGED <<rows, keys, runs, sends, heard, processes, reaping>>

RetryDelayEnds(t) ==
  /\ deliveries[t].status = "pending" /\ ~ deliveries[t].ready
  /\ deliveries' = [deliveries EXCEPT ![t].ready = TRUE]
  /\ UNCHANGED <<rows, keys, runs, sends, heard, processes, reaping>>

-----------------------------------------------------------------------------
Init ==
  /\ rows = [t \in Task |-> [status |-> "none", worker |-> NoProcess, lapsed |-> FALSE,
                             ready |-> FALSE, attempt |-> 0]]
  /\ keys = {}
  /\ runs = [w \in Worker |-> IdleRun]
  /\ deliveries = [t \in Task |-> NoDelivery]
  /\ sends = [s \in Sender |-> IdleSend]
  /\ heard = {}
  /\ processes = [p \in Process |-> "up"]
  /\ reaping = {}

TaskStep(t) ==
  \/ Submit(t) \/ DeleteTask(t)
  \/ \E p \in Process : Cancel(t, p)
  \/ \E w \in Worker : Claim(w, t)
  \/ \E s \in Sender : ClaimDelivery(s, t)

WorkerStep(w) ==
  \/ Heartbeat(w) \/ Bill(w) \/ ExecuteFails(w) \/ LeaveLease(w)
  \/ WriteTerminal(w) \/ WriteFails(w)

SenderStep(s) == Send(s) \/ FinishDelivery(s) \/ DropSend(s)

ProcessStep(p) ==
  \/ ReapRetryable(p) \/ ReapDead(p) \/ Stop(p) \/ Release(p) \/ Crash(p)

TimePasses(t) ==
  \/ LeaseLapses(t) \/ BackoffEnds(t) \/ DeliveryLapses(t) \/ RetryDelayEnds(t)

Next ==
  \/ \E t \in Task : TaskStep(t) \/ TimePasses(t)
  \/ \E w \in Worker : WorkerStep(w)
  \/ \E s \in Sender : SenderStep(s)
  \/ \E p \in Process : ProcessStep(p)
  \/ ReapDeadDeliveries

Spec == Init /\ [][Next]_vars

\* Goroutines poll and handlers have deadlines; a lease that nobody renews
\* lapses; the reaper of a process that stays up ticks for ever.  Nothing is
\* assumed of writes and sends: each may fail every time.
FairSpec ==
  /\ Spec
  /\ \A t \in Task : /\ WF_vars(BackoffEnds(t)) /\ WF_vars(RetryDelayEnds(t))
                     /\ WF_vars(\E w \in Worker : Claim(w, t))
                     /\ WF_vars(\E s \in Sender : ClaimDelivery(s, t))
                     /\ WF_vars(LeaseLapses(t) /\ \A w \in Worker : runs[w].task # t)
                     /\ WF_vars(DeliveryLapses(t) /\ \A s \in Sender : sends[s].task # t)
  /\ \A w \in Worker : /\ WF_vars(Bill(w) \/ ExecuteFails(w) \/ LeaveLease(w))
                       /\ WF_vars(WriteTerminal(w) \/ WriteFails(w))
  /\ \A s \in Sender : WF_vars(Send(s)) /\ WF_vars(FinishDelivery(s) \/ DropSend(s))
  /\ \A p \in Process : WF_vars(ReapRetryable(p)) /\ WF_vars(ReapDead(p))
  /\ WF_vars(ReapDeadDeliveries)

-----------------------------------------------------------------------------
(* Properties. *)

\* The tables keep their shapes; above all no task is tried, and no delivery
\* sent, more often than its row allows.
TypeOK ==
  /\ rows \in [Task -> TaskRow]
  /\ keys \subseteq Task \X Nat
  /\ runs \in [Worker -> RunRow]
  /\ deliveries \in [Task -> Delivery]
  /\ sends \in [Sender -> SendRow]
  /\ heard \subseteq Task
  /\ processes \in [Process -> {"up", "draining", "gone"}]
  /\ reaping \subseteq Process
  /\ \A t \in Task : rows[t].attempt <= MaxAttempts[t] /\ deliveries[t].attempt <= MaxSends

\* A task that has ended keeps its end until it is deleted, whatever zombie,
\* reaper or cancellation comes after it, and its notice names that end.
EndStep ==
  \A t \in Task : rows[t].status \in Ended =>
    /\ rows'[t].status \in {rows[t].status, "deleted"}
    /\ rows'[t].status # "deleted" => deliveries'[t].event = deliveries[t].event

EndsAreFinal == [][EndStep]_vars

\* A delivery exists exactly for the ended tasks that asked for one and tells
\* how the task ended, and it counts as delivered only if the receiver got it:
\* no end is silent, none is announced too early and none in vain.
EveryEndIsAnnounced ==
  \A t \in Task :
    /\ deliveries[t].status # "none" <=> t \in Webhook /\ rows[t].status \in Ended
    /\ deliveries[t].status # "none" => deliveries[t].event = rows[t].status
    /\ deliveries[t].status = "delivered" => t \in heard

\* No two goroutines, of one process or of several, ever carry the identity
\* of one attempt, and a task waits in the queue only if the identity of its
\* next attempt has never reached billing: the registration of a request is
\* never contested and an attempt that cost money never repeated.
OneRunPerIdentity ==
  /\ \A v, w \in Worker :
       v # w /\ runs[v].pc # "idle" /\ runs[w].pc # "idle" /\ runs[v].task = runs[w].task
         => runs[v].attempt # runs[w].attempt
  /\ \A t \in Task : rows[t].status = "pending" => <<t, rows[t].attempt + 1>> \notin keys

\* A delivery that waits although its sends are used up: no claim takes it and
\* the reaper looks only at running ones, so it waits until its task is deleted.
Stranded(t) == deliveries[t].status = "pending" /\ deliveries[t].attempt >= MaxSends

\* Every task ends and the delivery of its end is decided, although processes
\* crash and no write or send may ever succeed.  A delivery is left undecided
\* in one way only: finishDelivery knows the process and not the claim, so that
\* a sender whose lease has lapsed can put back into the queue what another
\* sender of its process has taken for the last time.
TasksConclude ==
  \A t \in Task :
    /\ rows[t].status \in Running ~> rows[t].status \notin Running
    /\ deliveries[t].status \in Running ~> deliveries[t].status \notin Running \/ Stranded(t)
=============================================================================
