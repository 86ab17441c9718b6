-------------------------- MODULE AsyncTasksProofs --------------------------
(***************************************************************************)
(* The async task queue for any tasks, processes, goroutines and numbers   *)
(* of attempts: the safety properties of AsyncTasks.                       *)
(***************************************************************************)
EXTENDS AsyncTasks, TLAPS

Live == {"none", "pending", "running"}

\* Who waits has attempts left, who runs has used one.
AttemptsAreCounted ==
  \A t \in Task :
    /\ rows[t].status = "none" => rows[t].attempt = 0
    /\ rows[t].status = "pending" => rows[t].attempt < MaxAttempts[t]
    /\ rows[t].status = "running" => rows[t].attempt >= 1
    /\ deliveries[t].status = "running" => deliveries[t].attempt >= 1

\* A goroutine that is busy has a task; one that writes has a result, and a
\* delivery that is found delivered was heard.
GoroutinesAreBusy ==
  /\ \A w \in Worker : runs[w].pc # "idle" =>
       /\ runs[w].task \in Task /\ runs[w].attempt >= 1
       /\ runs[w].pc = "writing" => runs[w].result # "none"
  /\ \A s \in Sender : sends[s].pc # "idle" =>
       /\ sends[s].task \in Task
       /\ sends[s].pc = "finishing" =>
            /\ sends[s].outcome # "none"
            /\ sends[s].outcome = "delivered" => sends[s].task \in heard

\* While a task can still be claimed, no goroutine and no billed identity is
\* ahead of the attempt in its row; a goroutine that carries the attempt of a
\* running row is of the process that holds it.
IdentitiesAreOld ==
  /\ \A w \in Worker : LET row == rows[runs[w].task]
                       IN  runs[w].pc # "idle" /\ row.status \in Live =>
                             /\ runs[w].attempt <= row.attempt
                             /\ row.status = "running" /\ runs[w].attempt = row.attempt
                                  => row.worker = home[w]
  /\ \A t \in Task, n \in Nat : <<t, n>> \in keys /\ rows[t].status \in Live => n <= rows[t].attempt

AsyncInv ==
  /\ TypeOK
  /\ AttemptsAreCounted
  /\ GoroutinesAreBusy
  /\ IdentitiesAreOld
  /\ EveryEndIsAnnounced
  /\ OneRunPerIdentity

-----------------------------------------------------------------------------
(* The records of the tables. *)

Statuses == Running \cup Ended \cup {"none", "deleted"}

LEMMA BlankRecords ==
  /\ IdleRun \in RunRow /\ IdleRun.pc = "idle"
  /\ IdleSend \in SendRow /\ IdleSend.pc = "idle"
  /\ NoDelivery \in Delivery /\ NoDelivery.status = "none" /\ NoDelivery.attempt = 0
  BY SMT DEF IdleRun, RunRow, IdleSend, SendRow, NoDelivery, Delivery

\* A task's row with one column set.
LEMMA RowColumns ==
  ASSUME NEW x \in TaskRow
  PROVE  /\ \A s \in Statuses : [x EXCEPT !.status = s] \in TaskRow
         /\ \A p \in Process \cup {NoProcess} : [x EXCEPT !.worker = p] \in TaskRow
         /\ \A b \in BOOLEAN : [x EXCEPT !.lapsed = b] \in TaskRow
         /\ \A b \in BOOLEAN : [x EXCEPT !.ready = b] \in TaskRow
         /\ \A n \in Nat : [x EXCEPT !.attempt = n] \in TaskRow
<1>1. \A s \in Statuses : [x EXCEPT !.status = s] \in TaskRow
  BY SMT DEF TaskRow, Statuses
<1>2. \A p \in Process \cup {NoProcess} : [x EXCEPT !.worker = p] \in TaskRow
  BY SMT DEF TaskRow
<1>3. \A b \in BOOLEAN : [x EXCEPT !.lapsed = b] \in TaskRow
  BY SMT DEF TaskRow
<1>4. \A b \in BOOLEAN : [x EXCEPT !.ready = b] \in TaskRow
  BY SMT DEF TaskRow
<1>5. \A n \in Nat : [x EXCEPT !.attempt = n] \in TaskRow
  BY SMT DEF TaskRow
<1> QED BY <1>1, <1>2, <1>3, <1>4, <1>5

\* What ends a task, what sends it back to the queue, and what the clock and
\* the heartbeat change of its row.
LEMMA RowFacts ==
  ASSUME NEW x \in TaskRow
  PROVE  /\ \A s \in Statuses : /\ End(x, s) \in TaskRow /\ End(x, s).status = s
                                /\ End(x, s).attempt = x.attempt
         /\ \A n \in Nat, b \in BOOLEAN :
              /\ Requeue(x, n, b) \in TaskRow /\ Requeue(x, n, b).status = "pending"
              /\ Requeue(x, n, b).attempt = n
         /\ \A b \in BOOLEAN : /\ [x EXCEPT !.lapsed = b].status = x.status
                               /\ [x EXCEPT !.lapsed = b].attempt = x.attempt
                               /\ [x EXCEPT !.lapsed = b].worker = x.worker
                               /\ [x EXCEPT !.ready = b].status = x.status
                               /\ [x EXCEPT !.ready = b].attempt = x.attempt
                               /\ [x EXCEPT !.ready = b].worker = x.worker
<1>1. ASSUME NEW s \in Statuses PROVE End(x, s) \in TaskRow
  <2> DEFINE a == [x EXCEPT !.status = s]
             b == [a EXCEPT !.worker = NoProcess]
             c == [b EXCEPT !.lapsed = FALSE]
             d == [c EXCEPT !.ready = FALSE]
  <2>1. a \in TaskRow
    BY RowColumns
  <2> HIDE DEF a
  <2>2. b \in TaskRow
    BY <2>1, RowColumns
  <2> HIDE DEF b
  <2>3. c \in TaskRow
    BY <2>2, RowColumns
  <2> HIDE DEF c
  <2>4. d \in TaskRow
    BY <2>3, RowColumns
  <2>5. End(x, s) = d
    BY DEF End, a, b, c
  <2> QED BY <2>4, <2>5
<1>2. \A s \in Statuses : End(x, s).status = s /\ End(x, s).attempt = x.attempt
  BY SMT DEF End, TaskRow
<1>3. ASSUME NEW n \in Nat, NEW r \in BOOLEAN PROVE Requeue(x, n, r) \in TaskRow
  <2> DEFINE a == [x EXCEPT !.status = "pending"]
             b == [a EXCEPT !.worker = NoProcess]
             c == [b EXCEPT !.lapsed = FALSE]
             d == [c EXCEPT !.attempt = n]
             e == [d EXCEPT !.ready = r]
  <2>1. a \in TaskRow
    BY RowColumns DEF Statuses, Running
  <2> HIDE DEF a
  <2>2. b \in TaskRow
    BY <2>1, RowColumns
  <2> HIDE DEF b
  <2>3. c \in TaskRow
    BY <2>2, RowColumns
  <2> HIDE DEF c
  <2>4. d \in TaskRow
    BY <2>3, RowColumns
  <2> HIDE DEF d
  <2>5. e \in TaskRow
    BY <2>4, RowColumns
  <2>6. Requeue(x, n, r) = e
    BY DEF Requeue, a, b, c, d
  <2> QED BY <2>5, <2>6
<1>4. \A n \in Nat, b \in BOOLEAN : /\ Requeue(x, n, b).status = "pending"
                                    /\ Requeue(x, n, b).attempt = n
  BY SMT DEF Requeue, TaskRow
<1>5. \A b \in BOOLEAN : /\ [x EXCEPT !.lapsed = b].status = x.status
                         /\ [x EXCEPT !.lapsed = b].attempt = x.attempt
                         /\ [x EXCEPT !.lapsed = b].worker = x.worker
                         /\ [x EXCEPT !.ready = b].status = x.status
                         /\ [x EXCEPT !.ready = b].attempt = x.attempt
                         /\ [x EXCEPT !.ready = b].worker = x.worker
  BY SMT DEF TaskRow
<1> QED BY <1>1, <1>2, <1>3, <1>4, <1>5

\* A delivery with one column set.
LEMMA DeliveryColumns ==
  ASSUME NEW d \in Delivery
  PROVE  /\ \A s \in {"none", "pending", "running", "delivered", "failed"} :
              [d EXCEPT !.status = s] \in Delivery
         /\ \A e \in Ended \cup {"none"} : [d EXCEPT !.event = e] \in Delivery
         /\ \A p \in Process \cup {NoProcess} : [d EXCEPT !.worker = p] \in Delivery
         /\ \A b \in BOOLEAN : [d EXCEPT !.lapsed = b] \in Delivery
         /\ \A b \in BOOLEAN : [d EXCEPT !.ready = b] \in Delivery
         /\ \A n \in Nat : [d EXCEPT !.attempt = n] \in Delivery
<1>1. \A s \in {"none", "pending", "running", "delivered", "failed"} :
        [d EXCEPT !.status = s] \in Delivery
  BY SMT DEF Delivery
<1>2. \A e \in Ended \cup {"none"} : [d EXCEPT !.event = e] \in Delivery
  BY SMT DEF Delivery
<1>3. \A p \in Process \cup {NoProcess} : [d EXCEPT !.worker = p] \in Delivery
  BY SMT DEF Delivery
<1>4. \A b \in BOOLEAN : [d EXCEPT !.lapsed = b] \in Delivery
  BY SMT DEF Delivery
<1>5. \A b \in BOOLEAN : [d EXCEPT !.ready = b] \in Delivery
  BY SMT DEF Delivery
<1>6. \A n \in Nat : [d EXCEPT !.attempt = n] \in Delivery
  BY SMT DEF Delivery
<1> QED BY <1>1, <1>2, <1>3, <1>4, <1>5, <1>6

\* Its status, holder and lease set ...
Rest(d, s, p) == [d EXCEPT !.status = s, !.worker = p, !.lapsed = FALSE]

LEMMA RestFacts ==
  ASSUME NEW d \in Delivery, NEW s \in {"pending", "running", "delivered", "failed"},
         NEW p \in Process \cup {NoProcess}
  PROVE  /\ Rest(d, s, p) \in Delivery /\ Rest(d, s, p).status = s
         /\ Rest(d, s, p).event = d.event /\ Rest(d, s, p).attempt = d.attempt
<1> DEFINE a == [d EXCEPT !.status = s]
           b == [a EXCEPT !.worker = p]
<1>1. a \in Delivery
  BY DeliveryColumns
<1>2. b \in Delivery
  <2> HIDE DEF a
  <2> QED BY <1>1, DeliveryColumns
<1>3. Rest(d, s, p) \in Delivery
  <2>1. Rest(d, s, p) = [b EXCEPT !.lapsed = FALSE]
    BY DEF Rest
  <2> HIDE DEF b
  <2> QED BY <1>2, <2>1, DeliveryColumns
<1>4. /\ Rest(d, s, p).status = s /\ Rest(d, s, p).event = d.event
      /\ Rest(d, s, p).attempt = d.attempt
  BY SMT DEF Delivery, Rest
<1> QED BY <1>3, <1>4

\* ... and its retry time and count with them.
Move(d, s, p, r, n) ==
  [d EXCEPT !.status = s, !.worker = p, !.lapsed = FALSE, !.ready = r, !.attempt = n]

LEMMA MoveFacts ==
  ASSUME NEW d \in Delivery, NEW s \in {"pending", "running", "delivered", "failed"},
         NEW p \in Process \cup {NoProcess}, NEW n \in Nat
  PROVE  \A r \in BOOLEAN :
           /\ Move(d, s, p, r, n) \in Delivery /\ Move(d, s, p, r, n).status = s
           /\ Move(d, s, p, r, n).event = d.event /\ Move(d, s, p, r, n).attempt = n
<1> DEFINE x == Rest(d, s, p)
           e(r) == [x EXCEPT !.ready = r]
<1>1. x \in Delivery
  BY RestFacts
<1>2. \A r \in BOOLEAN : e(r) \in Delivery
  <2> HIDE DEF x
  <2> QED BY <1>1, DeliveryColumns
<1>3. ASSUME NEW r \in BOOLEAN PROVE Move(d, s, p, r, n) \in Delivery
  <2> DEFINE f == [x EXCEPT !.ready = r]
  <2>1. Move(d, s, p, r, n) = [f EXCEPT !.attempt = n]
    BY DEF Move, Rest
  <2>2. f \in Delivery
    BY <1>2
  <2> HIDE DEF f
  <2> QED BY <2>1, <2>2, DeliveryColumns
<1>4. \A r \in BOOLEAN : /\ Move(d, s, p, r, n).status = s /\ Move(d, s, p, r, n).event = d.event
                         /\ Move(d, s, p, r, n).attempt = n
  BY SMT DEF Delivery, Move
<1> QED BY <1>3, <1>4

\* The two such updates there are: a sender takes it, a process hands it back.
LEMMA TakenFacts ==
  ASSUME NEW d \in Delivery, NEW p \in Process, NEW n \in Nat
  PROVE  /\ Move(d, "running", p, FALSE, n) \in Delivery
         /\ Move(d, "running", p, FALSE, n).status = "running"
         /\ Move(d, "running", p, FALSE, n).event = d.event
         /\ Move(d, "running", p, FALSE, n).attempt = n
<1>1. \A r \in BOOLEAN : /\ Move(d, "running", p, r, n) \in Delivery
                         /\ Move(d, "running", p, r, n).status = "running"
                         /\ Move(d, "running", p, r, n).event = d.event
                         /\ Move(d, "running", p, r, n).attempt = n
  BY MoveFacts
<1> QED BY <1>1

LEMMA ReturnedFacts ==
  ASSUME NEW d \in Delivery, NEW n \in Nat
  PROVE  /\ Move(d, "pending", NoProcess, TRUE, n) \in Delivery
         /\ Move(d, "pending", NoProcess, TRUE, n).status = "pending"
         /\ Move(d, "pending", NoProcess, TRUE, n).event = d.event
         /\ Move(d, "pending", NoProcess, TRUE, n).attempt = n
<1>1. \A r \in BOOLEAN : /\ Move(d, "pending", NoProcess, r, n) \in Delivery
                         /\ Move(d, "pending", NoProcess, r, n).status = "pending"
                         /\ Move(d, "pending", NoProcess, r, n).event = d.event
                         /\ Move(d, "pending", NoProcess, r, n).attempt = n
  BY MoveFacts
<1> QED BY <1>1

LEMMA DeliveryFlags ==
  ASSUME NEW d \in Delivery, NEW b \in BOOLEAN
  PROVE  LET x == [d EXCEPT !.lapsed = b]
             y == [d EXCEPT !.ready = b]
         IN  /\ x \in Delivery /\ x.status = d.status /\ x.event = d.event /\ x.attempt = d.attempt
             /\ y \in Delivery /\ y.status = d.status /\ y.event = d.event /\ y.attempt = d.attempt
<1>1. [d EXCEPT !.lapsed = b] \in Delivery /\ [d EXCEPT !.ready = b] \in Delivery
  BY DeliveryColumns
<1> QED BY <1>1, SMT DEF Delivery

\* The delivery of an end: made if the task asked for one and has none.
LEMMA EnqueueFacts ==
  ASSUME TypeOK, NEW t \in Task, NEW s \in Ended
  PROVE  /\ Enqueue(t, s) \in Delivery
         /\ deliveries[t].status = "none" /\ t \in Webhook =>
              /\ Enqueue(t, s).status = "pending" /\ Enqueue(t, s).event = s
              /\ Enqueue(t, s).attempt = 0
         /\ ~ (deliveries[t].status = "none" /\ t \in Webhook) => Enqueue(t, s) = deliveries[t]
<1> DEFINE e == [NoDelivery EXCEPT !.status = "pending", !.event = s, !.ready = TRUE]
           a == [NoDelivery EXCEPT !.status = "pending"]
           b == [a EXCEPT !.event = s]
<1>1. a \in Delivery
  BY BlankRecords, DeliveryColumns
<1>2. b \in Delivery
  <2> HIDE DEF a
  <2> QED BY <1>1, DeliveryColumns
<1>3. e \in Delivery
  <2>1. e = [b EXCEPT !.ready = TRUE]
    OBVIOUS
  <2> HIDE DEF b, e
  <2> QED BY <1>2, <2>1, DeliveryColumns
<1>4. e.status = "pending" /\ e.event = s /\ e.attempt = 0
  BY SMT DEF NoDelivery
<1>5. deliveries[t] \in Delivery
  BY DEF TypeOK
<1> HIDE DEF e
<1>6. CASE deliveries[t].status = "none" /\ t \in Webhook
  <2>1. Enqueue(t, s) = e
    BY <1>6 DEF Enqueue, e
  <2> QED BY <1>3, <1>4, <1>6, <2>1
<1>7. CASE ~ (deliveries[t].status = "none" /\ t \in Webhook)
  <2>1. Enqueue(t, s) = deliveries[t]
    BY <1>7 DEF Enqueue
  <2> QED BY <1>5, <1>7, <2>1
<1> QED BY <1>6, <1>7

\* A goroutine's record, with its stage, its result or its cancellation set.
LEMMA RunFields ==
  ASSUME NEW x \in RunRow
  PROVE  /\ \A c \in {"idle", "executing", "writing"} : [x EXCEPT !.pc = c] \in RunRow
         /\ \A r \in {"none", "completed", "failed"} : [x EXCEPT !.result = r] \in RunRow
         /\ \A b \in BOOLEAN : [x EXCEPT !.cancelled = b] \in RunRow
         /\ \A t \in Task : [x EXCEPT !.task = t] \in RunRow
         /\ \A n \in Nat : [x EXCEPT !.attempt = n] \in RunRow
<1>1. \A c \in {"idle", "executing", "writing"} : [x EXCEPT !.pc = c] \in RunRow
  BY SMT DEF RunRow
<1>2. \A r \in {"none", "completed", "failed"} : [x EXCEPT !.result = r] \in RunRow
  BY SMT DEF RunRow
<1>3. \A b \in BOOLEAN : [x EXCEPT !.cancelled = b] \in RunRow
  BY SMT DEF RunRow
<1>4. \A t \in Task : [x EXCEPT !.task = t] \in RunRow
  BY SMT DEF RunRow
<1>5. \A n \in Nat : [x EXCEPT !.attempt = n] \in RunRow
  BY SMT DEF RunRow
<1> QED BY <1>1, <1>2, <1>3, <1>4, <1>5

LEMMA RunFacts ==
  ASSUME NEW x \in RunRow
  PROVE  /\ \A r \in {"completed", "failed"} :
              LET y == [x EXCEPT !.pc = "writing", !.result = r]
              IN  /\ y \in RunRow /\ y.pc = "writing" /\ y.result = r
                  /\ y.task = x.task /\ y.attempt = x.attempt
         /\ LET y == [x EXCEPT !.pc = "writing", !.result = "failed", !.cancelled = FALSE]
            IN  /\ y \in RunRow /\ y.pc = "writing" /\ y.result = "failed"
                /\ y.task = x.task /\ y.attempt = x.attempt
         /\ LET y == [x EXCEPT !.cancelled = TRUE]
            IN  /\ y \in RunRow /\ y.pc = x.pc /\ y.result = x.result
                /\ y.task = x.task /\ y.attempt = x.attempt
<1> DEFINE a == [x EXCEPT !.pc = "writing"]
           b(r) == [x EXCEPT !.pc = "writing", !.result = r]
           c == [x EXCEPT !.pc = "writing", !.result = "failed", !.cancelled = FALSE]
           d == [x EXCEPT !.cancelled = TRUE]
<1>1. a \in RunRow
  BY RunFields
<1>2. ASSUME NEW r \in {"completed", "failed"}
      PROVE  /\ b(r) \in RunRow /\ b(r).pc = "writing" /\ b(r).result = r
             /\ b(r).task = x.task /\ b(r).attempt = x.attempt
  <2>1. b(r) = [a EXCEPT !.result = r]
    OBVIOUS
  <2>2. [a EXCEPT !.result = r] \in RunRow
    <3> HIDE DEF a
    <3> QED BY <1>1, RunFields
  <2>3. /\ b(r).pc = "writing" /\ b(r).result = r
        /\ b(r).task = x.task /\ b(r).attempt = x.attempt
    BY SMT DEF RunRow
  <2> QED BY <2>1, <2>2, <2>3
<1>3. /\ c \in RunRow /\ c.pc = "writing" /\ c.result = "failed"
      /\ c.task = x.task /\ c.attempt = x.attempt
  <2>1. c = [b("failed") EXCEPT !.cancelled = FALSE]
    OBVIOUS
  <2>2. b("failed") \in RunRow
    BY <1>2
  <2>3. [b("failed") EXCEPT !.cancelled = FALSE] \in RunRow
    <3> HIDE DEF b
    <3> QED BY <2>2, RunFields
  <2>4. /\ c.pc = "writing" /\ c.result = "failed"
        /\ c.task = x.task /\ c.attempt = x.attempt
    BY SMT DEF RunRow
  <2> QED BY <2>1, <2>3, <2>4
<1>4. /\ d \in RunRow /\ d.pc = x.pc /\ d.result = x.result
      /\ d.task = x.task /\ d.attempt = x.attempt
  <2>1. d \in RunRow
    BY RunFields
  <2>2. d.pc = x.pc /\ d.result = x.result /\ d.task = x.task /\ d.attempt = x.attempt
    BY SMT DEF RunRow
  <2> QED BY <2>1, <2>2
<1> HIDE DEF a, b, c, d
<1> QED BY <1>2, <1>3, <1>4 DEF b, c, d

-----------------------------------------------------------------------------
(* What the steps other than a claim do to a task, a worker and a sender.  *)

Shapes ==
  /\ rows \in [Task -> TaskRow] /\ keys \subseteq Task \X Nat
  /\ runs \in [Worker -> RunRow] /\ deliveries \in [Task -> Delivery]
  /\ sends \in [Sender -> SendRow] /\ heard \subseteq Task
  /\ processes \in [Process -> {"up", "draining", "gone"}] /\ reaping \subseteq Process

RowKept(t) ==
  /\ rows'[t].status = rows[t].status /\ rows'[t].attempt = rows[t].attempt
  /\ rows'[t].worker = rows[t].worker

Submitted(t) ==
  /\ rows[t].status = "none" /\ rows'[t].status = "pending"
  /\ rows'[t].attempt = rows[t].attempt

Requeued(t) ==
  /\ rows[t].status = "running" /\ rows'[t].status = "pending"
  /\ rows'[t].attempt = rows[t].attempt /\ rows[t].attempt < MaxAttempts[t]

\* Nobody carries the identity that the release gives back.
Released(t) ==
  /\ rows[t].status = "running" /\ rows'[t].status = "pending"
  /\ rows'[t].attempt = rows[t].attempt - 1
  /\ <<t, rows[t].attempt>> \notin keys /\ keys' = keys
  /\ \A w \in Worker : runs[w].pc # "idle" /\ runs[w].task = t => runs[w].attempt # rows[t].attempt

DeliveryKept(t) ==
  /\ deliveries'[t].status = "none" <=> deliveries[t].status = "none"
  /\ deliveries'[t].event = deliveries[t].event
  /\ deliveries'[t].attempt <= MaxSends
  /\ deliveries'[t].status = "running" => deliveries'[t].attempt >= 1
  /\ deliveries'[t].status = "delivered" => deliveries[t].status = "delivered" \/ t \in heard'

EndedNow(t) ==
  /\ rows[t].status \in Running /\ rows'[t].status \in Ended
  /\ rows'[t].attempt = rows[t].attempt
  /\ deliveries'[t] = Enqueue(t, rows'[t].status)

Removed(t) ==
  /\ rows'[t].status = "deleted" /\ rows'[t].attempt = 0 /\ deliveries'[t] = NoDelivery

RowMoves(t) == RowKept(t) \/ Submitted(t) \/ Requeued(t) \/ Released(t)

TaskMoves(t) == (RowMoves(t) /\ DeliveryKept(t)) \/ EndedNow(t) \/ Removed(t)

RunKept(w) ==
  runs'[w].pc # "idle" =>
    /\ runs[w].pc # "idle"
    /\ runs'[w].task = runs[w].task /\ runs'[w].attempt = runs[w].attempt
    /\ runs'[w].pc = "writing" => runs'[w].result # "none"

SendFits(s) ==
  sends[s].pc # "idle" =>
    /\ sends[s].task \in Task
    /\ sends[s].pc = "finishing" =>
         /\ sends[s].outcome # "none"
         /\ sends[s].outcome = "delivered" => sends[s].task \in heard

\* What is billed is the identity of a busy worker.
KeysGrow ==
  \A k \in keys' : k \in keys \/ \E w \in Worker : /\ runs[w].pc # "idle"
                                                   /\ k = <<runs[w].task, runs[w].attempt>>

AsyncStep ==
  /\ Shapes'
  /\ \A t \in Task : TaskMoves(t)
  /\ \A w \in Worker : RunKept(w)
  /\ \A s \in Sender : SendFits(s)'
  /\ KeysGrow
  /\ heard \subseteq heard'

\* The numbers of a task, as SMT needs them.
LEMMA Numbers ==
  ASSUME AsyncInv, NEW t \in Task
  PROVE  /\ rows[t] \in TaskRow /\ deliveries[t] \in Delivery
         /\ rows[t].attempt \in Nat /\ deliveries[t].attempt \in Nat
         /\ rows[t].attempt <= MaxAttempts[t] /\ deliveries[t].attempt <= MaxSends
         /\ MaxAttempts[t] \in Nat \ {0} /\ MaxSends \in Nat \ {0}
         /\ rows[t].status = "running" => rows[t].attempt >= 1
         /\ rows[t].status = "pending" => rows[t].attempt < MaxAttempts[t]
         /\ rows[t].status = "none" => rows[t].attempt = 0
         /\ deliveries[t].status = "running" => deliveries[t].attempt >= 1
<1>1. rows[t] \in TaskRow /\ deliveries[t] \in Delivery
  BY DEF AsyncInv, TypeOK
<1>2. rows[t].attempt \in Nat /\ deliveries[t].attempt \in Nat
  BY <1>1 DEF TaskRow, Delivery
<1> QED BY <1>1, <1>2, AsyncTasksAssumption DEF AsyncInv, TypeOK, AttemptsAreCounted

\* After an end, the delivery is there exactly if it was asked for.
LEMMA EndingAnnounces ==
  ASSUME AsyncInv, Shapes', NEW t \in Task, EndedNow(t)
  PROVE  /\ deliveries'[t].status # "none" <=> t \in Webhook
         /\ deliveries'[t].status # "none" => deliveries'[t].event = rows'[t].status
         /\ deliveries'[t].status \in {"none", "pending"}
         /\ deliveries'[t].attempt <= MaxSends
<1>1. deliveries[t].status = "none"
  BY DEF EndedNow, AsyncInv, EveryEndIsAnnounced, Running, Ended
<1>2. CASE t \in Webhook
  <2>1. /\ deliveries'[t].status = "pending" /\ deliveries'[t].event = rows'[t].status
        /\ deliveries'[t].attempt = 0
    BY <1>1, <1>2, EnqueueFacts DEF EndedNow, AsyncInv
  <2> QED BY <1>2, <2>1, AsyncTasksAssumption
<1>3. CASE t \notin Webhook
  <2>1. deliveries'[t] = deliveries[t]
    BY <1>1, <1>3, EnqueueFacts DEF EndedNow, AsyncInv
  <2> QED BY <1>1, <1>3, <2>1, Numbers
<1> QED BY <1>2, <1>3

\* What such a step does to the numbers and to the announcement of a task.
LEMMA TaskMovesKeep ==
  ASSUME AsyncInv, Shapes', NEW t \in Task, TaskMoves(t), heard \subseteq heard'
  PROVE  /\ rows'[t].attempt <= MaxAttempts[t] /\ deliveries'[t].attempt <= MaxSends
         /\ rows'[t].status = "none" => rows'[t].attempt = 0
         /\ rows'[t].status = "pending" => rows'[t].attempt < MaxAttempts[t]
         /\ rows'[t].status = "running" => rows'[t].attempt >= 1
         /\ deliveries'[t].status = "running" => deliveries'[t].attempt >= 1
         /\ deliveries'[t].status # "none" <=> t \in Webhook /\ rows'[t].status \in Ended
         /\ deliveries'[t].status # "none" => deliveries'[t].event = rows'[t].status
         /\ deliveries'[t].status = "delivered" => t \in heard'
<1>1. CASE RowMoves(t) /\ DeliveryKept(t)
  <2>1. /\ deliveries[t].status # "none" <=> t \in Webhook /\ rows[t].status \in Ended
        /\ deliveries[t].status # "none" => deliveries[t].event = rows[t].status
        /\ deliveries[t].status = "delivered" => t \in heard
    BY DEF AsyncInv, EveryEndIsAnnounced
  <2>2. /\ rows'[t].status \in Ended <=> rows[t].status \in Ended
        /\ rows[t].status \in Ended => rows'[t].status = rows[t].status
    BY <1>1, Zenon DEF RowMoves, RowKept, Submitted, Requeued, Released, Ended
  <2>3. /\ deliveries'[t].status # "none" <=> t \in Webhook /\ rows'[t].status \in Ended
        /\ deliveries'[t].status # "none" => deliveries'[t].event = rows'[t].status
        /\ deliveries'[t].status = "delivered" => t \in heard'
    BY <1>1, <2>1, <2>2, Zenon DEF DeliveryKept
  <2>4. /\ deliveries'[t].attempt <= MaxSends
        /\ deliveries'[t].status = "running" => deliveries'[t].attempt >= 1
    BY <1>1 DEF DeliveryKept
  <2>5. /\ rows'[t].attempt <= MaxAttempts[t]
        /\ rows'[t].status = "none" => rows'[t].attempt = 0
        /\ rows'[t].status = "pending" => rows'[t].attempt < MaxAttempts[t]
        /\ rows'[t].status = "running" => rows'[t].attempt >= 1
    BY <1>1, Numbers, SMT DEF RowMoves, RowKept, Submitted, Requeued, Released
  <2> QED BY <2>3, <2>4, <2>5
<1>2. CASE EndedNow(t)
  <2>1. /\ deliveries'[t].status # "none" <=> t \in Webhook
        /\ deliveries'[t].status # "none" => deliveries'[t].event = rows'[t].status
        /\ deliveries'[t].status \in {"none", "pending"}
        /\ deliveries'[t].attempt <= MaxSends
    BY <1>2, EndingAnnounces
  <2>2. rows'[t].status \in Ended /\ rows'[t].attempt = rows[t].attempt
    BY <1>2 DEF EndedNow
  <2> QED BY <2>1, <2>2, Numbers DEF Ended
<1>3. CASE Removed(t)
  <2>1. deliveries'[t].status = "none" /\ deliveries'[t].attempt = 0
    BY <1>3, BlankRecords DEF Removed
  <2> QED BY <1>3, <2>1, Numbers DEF Removed, Ended
<1> QED BY <1>1, <1>2, <1>3 DEF TaskMoves

\* An identity that is not given back stays old while its task can be claimed.
LEMMA OldStaysOld ==
  ASSUME AsyncInv, Shapes', NEW t \in Task, TaskMoves(t), NEW n \in Nat,
         rows'[t].status \in Live, rows[t].status \in Live => n <= rows[t].attempt,
         Released(t) => n # rows[t].attempt
  PROVE  /\ n <= rows'[t].attempt
         /\ rows'[t].status = "running" => RowKept(t)
<1>1. RowMoves(t)
  BY Zenon DEF TaskMoves, EndedNow, Removed, Live, Ended
<1>2. rows[t].status \in Live
  BY <1>1 DEF RowMoves, RowKept, Submitted, Requeued, Released, Live
<1>3. rows[t].attempt \in Nat /\ n <= rows[t].attempt
  BY <1>2, Numbers
<1>4. n <= rows'[t].attempt
  BY <1>1, <1>3, SMT DEF RowMoves, RowKept, Submitted, Requeued, Released
<1>5. rows'[t].status = "running" => RowKept(t)
  BY <1>1 DEF RowMoves, Submitted, Requeued, Released
<1> QED BY <1>4, <1>5

LEMMA BusyRun ==
  ASSUME AsyncInv, NEW w \in Worker, runs[w].pc # "idle"
  PROVE  /\ runs[w].task \in Task /\ runs[w].attempt \in Nat /\ runs[w].attempt >= 1
         /\ rows[runs[w].task].status \in Live => runs[w].attempt <= rows[runs[w].task].attempt
         /\ rows[runs[w].task].status = "running" /\ runs[w].attempt = rows[runs[w].task].attempt
              => rows[runs[w].task].worker = home[w]
<1>1. runs[w].task \in Task /\ runs[w].attempt >= 1
  BY DEF AsyncInv, GoroutinesAreBusy
<1>2. runs[w] \in RunRow
  BY DEF AsyncInv, TypeOK
<1>3. runs[w].attempt \in Nat
  BY <1>2 DEF RunRow
<1> QED BY <1>1, <1>3 DEF AsyncInv, IdentitiesAreOld, Live

LEMMA AsyncStepKeeps ==
  ASSUME AsyncInv, AsyncStep
  PROVE  AsyncInv'
<1>1. /\ Shapes' /\ heard \subseteq heard' /\ KeysGrow
      /\ \A t \in Task : TaskMoves(t)
      /\ \A w \in Worker : RunKept(w)
      /\ \A s \in Sender : SendFits(s)'
  BY DEF AsyncStep
<1>2. TypeOK'
  BY <1>1, TaskMovesKeep DEF Shapes, TypeOK
<1>3. AttemptsAreCounted'
  BY <1>1, TaskMovesKeep DEF AttemptsAreCounted
<1>4. EveryEndIsAnnounced'
  BY <1>1, TaskMovesKeep DEF EveryEndIsAnnounced
<1>5. GoroutinesAreBusy'
  <2>1. ASSUME NEW w \in Worker, runs'[w].pc # "idle"
        PROVE  /\ runs'[w].task \in Task /\ runs'[w].attempt >= 1
               /\ runs'[w].pc = "writing" => runs'[w].result # "none"
    BY <1>1, <2>1, BusyRun DEF RunKept
  <2> QED BY <1>1, <2>1 DEF GoroutinesAreBusy, SendFits
<1>6. ASSUME NEW w \in Worker, runs'[w].pc # "idle", rows'[runs'[w].task].status \in Live
      PROVE  /\ runs'[w].attempt <= rows'[runs'[w].task].attempt
             /\ rows'[runs'[w].task].status = "running"
                  /\ runs'[w].attempt = rows'[runs'[w].task].attempt
                    => rows'[runs'[w].task].worker = home[w]
  <2>1. PICK t \in Task : t = runs[w].task
    BY <1>1, <1>6, BusyRun DEF RunKept
  <2>2. /\ runs[w].pc # "idle" /\ runs'[w].task = t
        /\ runs'[w].attempt = runs[w].attempt /\ runs[w].attempt \in Nat
    BY <1>1, <1>6, <2>1, BusyRun DEF RunKept
  <2>3. Released(t) => runs[w].attempt # rows[t].attempt
    BY <2>1, <2>2 DEF Released
  <2>4. rows[t].status \in Live => runs[w].attempt <= rows[t].attempt
    BY <2>1, <2>2, BusyRun
  <2>5. /\ runs[w].attempt <= rows'[t].attempt
        /\ rows'[t].status = "running" => RowKept(t)
    BY <1>1, <1>6, <2>2, <2>3, <2>4, OldStaysOld
  <2> QED BY <2>1, <2>2, <2>5, BusyRun DEF RowKept
<1>7. ASSUME NEW t \in Task, NEW n \in Nat, <<t, n>> \in keys', rows'[t].status \in Live
      PROVE  n <= rows'[t].attempt
  <2>1. Released(t) => n # rows[t].attempt
    BY <1>7 DEF Released
  <2>2. rows[t].status \in Live => n <= rows[t].attempt
    <3>1. CASE <<t, n>> \in keys
      BY <3>1 DEF AsyncInv, IdentitiesAreOld
    <3>2. CASE \E w \in Worker : /\ runs[w].pc # "idle"
                                 /\ <<t, n>> = <<runs[w].task, runs[w].attempt>>
      BY <3>2, BusyRun
    <3> QED BY <1>1, <1>7, <3>1, <3>2 DEF KeysGrow
  <2> QED BY <1>1, <1>7, <2>1, <2>2, OldStaysOld
<1>8. IdentitiesAreOld'
  BY <1>6, <1>7 DEF IdentitiesAreOld
<1>9. OneRunPerIdentity'
  <2>1. ASSUME NEW v \in Worker, NEW w \in Worker, v # w, runs'[v].pc # "idle",
               runs'[w].pc # "idle", runs'[v].task = runs'[w].task
        PROVE  runs'[v].attempt # runs'[w].attempt
    <3>1. /\ runs[v].pc # "idle" /\ runs[w].pc # "idle" /\ runs[v].task = runs[w].task
          /\ runs'[v].attempt = runs[v].attempt /\ runs'[w].attempt = runs[w].attempt
      BY <1>1, <2>1 DEF RunKept
    <3> QED BY <2>1, <3>1 DEF AsyncInv, OneRunPerIdentity
  <2>2. ASSUME NEW t \in Task, rows'[t].status = "pending"
        PROVE  <<t, rows'[t].attempt + 1>> \notin keys'
    <3>1. rows'[t].attempt \in Nat
      BY <1>1 DEF Shapes, TaskRow
    <3> QED BY <1>7, <2>2, <3>1 DEF Live
  <2> QED BY <2>1, <2>2 DEF OneRunPerIdentity
<1> QED BY <1>2, <1>3, <1>4, <1>5, <1>8, <1>9 DEF AsyncInv

-----------------------------------------------------------------------------
(* Every action but the claim is such a step.  First, what each table that *)
(* an action leaves alone contributes.                                     *)

LEMMA RowsLeft ==
  ASSUME AsyncInv, rows' = rows
  PROVE  \A t \in Task : RowMoves(t)
  BY DEF RowMoves, RowKept

LEMMA DeliveriesLeft ==
  ASSUME AsyncInv, deliveries' = deliveries
  PROVE  \A t \in Task : DeliveryKept(t)
  BY Numbers DEF DeliveryKept

LEMMA RunsLeft ==
  ASSUME AsyncInv, runs' = runs
  PROVE  \A w \in Worker : RunKept(w)
  BY DEF RunKept, AsyncInv, GoroutinesAreBusy

LEMMA SendsLeft ==
  ASSUME AsyncInv, sends' = sends, heard \subseteq heard'
  PROVE  \A s \in Sender : SendFits(s)'
  BY DEF SendFits, AsyncInv, GoroutinesAreBusy

LEMMA KeysLeft ==
  ASSUME keys' = keys
  PROVE  KeysGrow
  BY DEF KeysGrow

LEMMA TasksLeft ==
  ASSUME AsyncInv, rows' = rows, deliveries' = deliveries
  PROVE  \A t \in Task : TaskMoves(t)
  BY RowsLeft, DeliveriesLeft DEF TaskMoves

\* The clock, the heartbeat and the submission change one row.
LEMMA OneRowMoves ==
  ASSUME AsyncInv, NEW t \in Task, NEW x \in TaskRow,
         rows' = [rows EXCEPT ![t] = x],
         RowMoves(t), UNCHANGED <<keys, runs, deliveries, sends, heard, processes, reaping>>
  PROVE  AsyncStep
<1>1. Shapes'
  BY DEF AsyncInv, TypeOK, Shapes
<1>2. \A u \in Task : TaskMoves(u)
  <2>1. \A u \in Task : u # t => rows'[u] = rows[u]
    BY DEF AsyncInv, TypeOK
  <2>2. \A u \in Task : RowMoves(u)
    BY <2>1 DEF RowMoves, RowKept
  <2> QED BY <2>2, DeliveriesLeft DEF TaskMoves
<1> QED BY <1>1, <1>2, RunsLeft, SendsLeft, KeysLeft DEF AsyncStep

LEMMA SubmitSteps ==
  ASSUME AsyncInv, NEW t \in Task, Submit(t)
  PROVE  AsyncStep
<1> DEFINE a == [rows[t] EXCEPT !.status = "pending"]
           x == [a EXCEPT !.ready = TRUE]
<1>1. rows[t] \in TaskRow
  BY Numbers
<1>2. a \in TaskRow
  BY <1>1, RowColumns DEF Statuses, Running
<1>3. x \in TaskRow
  <2> HIDE DEF a
  <2> QED BY <1>2, RowColumns
<1>4. x.status = "pending" /\ x.attempt = rows[t].attempt
  BY <1>1, SMT DEF TaskRow
<1>5. rows' = [rows EXCEPT ![t] = x]
  BY DEF Submit, AsyncInv, TypeOK
<1> HIDE DEF x
<1>6. rows'[t] = x
  BY <1>5 DEF AsyncInv, TypeOK
<1>7. RowMoves(t)
  BY <1>4, <1>6 DEF Submit, RowMoves, Submitted
<1> QED BY <1>3, <1>5, <1>7, OneRowMoves DEF Submit

LEMMA FlagSteps ==
  ASSUME AsyncInv, NEW t \in Task, NEW b \in BOOLEAN,
         \/ rows' = [rows EXCEPT ![t].lapsed = b]
         \/ rows' = [rows EXCEPT ![t].ready = b],
         UNCHANGED <<keys, runs, deliveries, sends, heard, processes, reaping>>
  PROVE  AsyncStep
<1>1. rows[t] \in TaskRow
  BY Numbers
<1>2. PICK x \in TaskRow : /\ rows' = [rows EXCEPT ![t] = x]
                           /\ x.status = rows[t].status /\ x.attempt = rows[t].attempt
                           /\ x.worker = rows[t].worker
  <2>1. CASE rows' = [rows EXCEPT ![t].lapsed = b]
    <3> DEFINE x == [rows[t] EXCEPT !.lapsed = b]
    <3>1. /\ x \in TaskRow /\ x.status = rows[t].status /\ x.attempt = rows[t].attempt
          /\ x.worker = rows[t].worker
      BY <1>1, RowColumns, RowFacts
    <3>2. rows' = [rows EXCEPT ![t] = x]
      BY <2>1
    <3> HIDE DEF x
    <3> QED BY <3>1, <3>2
  <2>2. CASE rows' = [rows EXCEPT ![t].ready = b]
    <3> DEFINE x == [rows[t] EXCEPT !.ready = b]
    <3>1. /\ x \in TaskRow /\ x.status = rows[t].status /\ x.attempt = rows[t].attempt
          /\ x.worker = rows[t].worker
      BY <1>1, RowColumns, RowFacts
    <3>2. rows' = [rows EXCEPT ![t] = x]
      BY <2>2
    <3> HIDE DEF x
    <3> QED BY <3>1, <3>2
  <2> QED BY <2>1, <2>2
<1>3. RowMoves(t)
  BY <1>2 DEF RowMoves, RowKept, AsyncInv, TypeOK
<1> QED BY <1>2, <1>3, OneRowMoves

\* Only the workers' records change.
LEMMA WorkersMove ==
  ASSUME AsyncInv, UNCHANGED <<rows, deliveries, sends, heard>>, Shapes', KeysGrow,
         \A w \in Worker : RunKept(w)
  PROVE  AsyncStep
  BY TasksLeft, SendsLeft DEF AsyncStep

\* One worker writes, rests or learns that it was cancelled.
LEMMA OneWorkerMoves ==
  ASSUME AsyncInv, NEW w \in Worker, NEW x \in RunRow, runs' = [runs EXCEPT ![w] = x],
         x.pc # "idle" =>
           /\ runs[w].pc # "idle" /\ x.task = runs[w].task /\ x.attempt = runs[w].attempt
           /\ x.pc = "writing" => x.result # "none"
  PROVE  runs' \in [Worker -> RunRow] /\ \A v \in Worker : RunKept(v)
<1>1. runs \in [Worker -> RunRow]
  BY DEF AsyncInv, TypeOK
<1>2. \A v \in Worker : v # w => RunKept(v)
  BY <1>1 DEF RunKept, AsyncInv, GoroutinesAreBusy
<1>3. RunKept(w)
  BY <1>1 DEF RunKept
<1> QED BY <1>1, <1>2, <1>3

LEMMA TimeSteps ==
  ASSUME AsyncInv, NEW t \in Task, LeaseLapses(t) \/ BackoffEnds(t)
  PROVE  AsyncStep
  BY FlagSteps DEF LeaseLapses, BackoffEnds

LEMMA HeartbeatSteps ==
  ASSUME AsyncInv, NEW w \in Worker, Heartbeat(w)
  PROVE  AsyncStep
<1>1. /\ runs[w].pc = "executing" /\ runs[w].task \in Task /\ runs[w] \in RunRow
      /\ UNCHANGED <<keys, deliveries, sends, heard, processes, reaping>>
  BY BusyRun DEF Heartbeat, AsyncInv, TypeOK
<1>2. CASE rows' = [rows EXCEPT ![runs[w].task].lapsed = FALSE] /\ UNCHANGED runs
  BY <1>1, <1>2, FlagSteps
<1>3. CASE runs' = [runs EXCEPT ![w].cancelled = TRUE] /\ UNCHANGED rows
  <2> DEFINE x == [runs[w] EXCEPT !.cancelled = TRUE]
  <2>1. /\ x \in RunRow /\ x.pc = runs[w].pc /\ x.result = runs[w].result
        /\ x.task = runs[w].task /\ x.attempt = runs[w].attempt
    BY <1>1, RunFacts
  <2>2. runs' = [runs EXCEPT ![w] = x]
    BY <1>3
  <2> HIDE DEF x
  <2>3. runs' \in [Worker -> RunRow] /\ \A v \in Worker : RunKept(v)
    BY <1>1, <2>1, <2>2, OneWorkerMoves
  <2>4. Shapes'
    BY <1>1, <1>3, <2>3 DEF Shapes, AsyncInv, TypeOK
  <2> QED BY <1>1, <1>3, <2>3, <2>4, WorkersMove, KeysLeft
<1> QED BY <1>2, <1>3 DEF Heartbeat

LEMMA BillSteps ==
  ASSUME AsyncInv, NEW w \in Worker, Bill(w)
  PROVE  AsyncStep
<1>1. /\ runs[w].pc = "executing" /\ runs[w].task \in Task /\ runs[w].attempt \in Nat
      /\ runs[w] \in RunRow
      /\ keys' = keys \cup {<<runs[w].task, runs[w].attempt>>}
      /\ UNCHANGED <<rows, deliveries, sends, heard, processes, reaping>>
  BY BusyRun DEF Bill, AsyncInv, TypeOK
<1>2. PICK r \in {"completed", "failed"} :
        runs' = [runs EXCEPT ![w].pc = "writing", ![w].result = r]
  BY DEF Bill
<1> DEFINE x == [runs[w] EXCEPT !.pc = "writing", !.result = r]
<1>3. /\ x \in RunRow /\ x.pc = "writing" /\ x.result = r
      /\ x.task = runs[w].task /\ x.attempt = runs[w].attempt
  BY <1>1, RunFacts, ZenonT(60)
<1>4. runs' = [runs EXCEPT ![w] = x]
  BY <1>2 DEF AsyncInv, TypeOK
<1> HIDE DEF x
<1>5. runs' \in [Worker -> RunRow] /\ \A v \in Worker : RunKept(v)
  BY <1>1, <1>3, <1>4, OneWorkerMoves
<1>6. Shapes'
  BY <1>1, <1>5 DEF Shapes, AsyncInv, TypeOK
<1>7. KeysGrow
  BY <1>1 DEF KeysGrow
<1> QED BY <1>1, <1>5, <1>6, <1>7, WorkersMove

LEMMA ExecuteFailsSteps ==
  ASSUME AsyncInv, NEW w \in Worker, ExecuteFails(w)
  PROVE  AsyncStep
<1> DEFINE x == [runs[w] EXCEPT !.pc = "writing", !.result = "failed", !.cancelled = FALSE]
<1>1. runs[w].pc = "executing" /\ runs[w] \in RunRow
  BY DEF ExecuteFails, AsyncInv, TypeOK
<1>2. /\ x \in RunRow /\ x.pc = "writing" /\ x.result = "failed"
      /\ x.task = runs[w].task /\ x.attempt = runs[w].attempt
  BY <1>1, RunFacts
<1>3. runs' = [runs EXCEPT ![w] = x]
  BY DEF ExecuteFails, AsyncInv, TypeOK
<1> HIDE DEF x
<1>4. runs' \in [Worker -> RunRow] /\ \A v \in Worker : RunKept(v)
  BY <1>1, <1>2, <1>3, OneWorkerMoves
<1>5. Shapes'
  BY <1>4 DEF ExecuteFails, Shapes, AsyncInv, TypeOK
<1> QED BY <1>4, <1>5, WorkersMove, KeysLeft DEF ExecuteFails

LEMMA RestSteps ==
  ASSUME AsyncInv, NEW w \in Worker, LeaveLease(w) \/ WriteFails(w)
  PROVE  AsyncStep
<1>1. /\ runs' = [runs EXCEPT ![w] = IdleRun]
      /\ UNCHANGED <<rows, keys, deliveries, sends, heard, processes, reaping>>
  BY DEF LeaveLease, WriteFails
<1>2. runs' \in [Worker -> RunRow] /\ \A v \in Worker : RunKept(v)
  BY <1>1, BlankRecords, OneWorkerMoves
<1>3. Shapes'
  BY <1>1, <1>2 DEF Shapes, AsyncInv, TypeOK
<1> QED BY <1>1, <1>2, <1>3, WorkersMove, KeysLeft

\* One task ends and its delivery is enqueued, as complete and cancel do.
LEMMA OneTaskEnds ==
  ASSUME AsyncInv, NEW t \in Task, NEW s \in Ended, rows[t].status \in Running,
         rows' = [rows EXCEPT ![t] = End(@, s)],
         deliveries' = [deliveries EXCEPT ![t] = Enqueue(t, s)]
  PROVE  /\ rows' \in [Task -> TaskRow] /\ deliveries' \in [Task -> Delivery]
         /\ \A u \in Task : TaskMoves(u)
<1>1. /\ End(rows[t], s) \in TaskRow /\ End(rows[t], s).status = s
      /\ End(rows[t], s).attempt = rows[t].attempt
  BY Numbers, RowFacts DEF Statuses
<1>2. Enqueue(t, s) \in Delivery
  BY EnqueueFacts DEF AsyncInv
<1>3. rows \in [Task -> TaskRow] /\ deliveries \in [Task -> Delivery]
  BY DEF AsyncInv, TypeOK
<1>4. rows' \in [Task -> TaskRow] /\ deliveries' \in [Task -> Delivery]
  BY <1>1, <1>2, <1>3
<1>5. rows'[t] = End(rows[t], s) /\ deliveries'[t] = Enqueue(t, s)
  BY <1>3
<1>6. EndedNow(t)
  BY <1>1, <1>5 DEF EndedNow
<1>7. ASSUME NEW u \in Task, u # t PROVE TaskMoves(u)
  <2>1. rows'[u] = rows[u] /\ deliveries'[u] = deliveries[u]
    BY <1>3, <1>7
  <2>2. DeliveryKept(u)
    BY <2>1, Numbers DEF DeliveryKept
  <2> QED BY <2>1, <2>2 DEF TaskMoves, RowMoves, RowKept
<1> QED BY <1>4, <1>6, <1>7 DEF TaskMoves

LEMMA WriteTerminalSteps ==
  ASSUME AsyncInv, NEW w \in Worker, WriteTerminal(w)
  PROVE  AsyncStep
<1>1. /\ runs[w].pc = "writing" /\ runs[w].task \in Task
      /\ runs' = [runs EXCEPT ![w] = IdleRun]
      /\ UNCHANGED <<keys, sends, heard, processes, reaping>>
  BY BusyRun DEF WriteTerminal
<1>2. runs[w].result \in {"completed", "failed"}
  <2>1. runs[w].result # "none"
    BY <1>1 DEF AsyncInv, GoroutinesAreBusy
  <2>2. runs[w] \in RunRow
    BY DEF AsyncInv, TypeOK
  <2> QED BY <2>1, <2>2 DEF RunRow
<1>3. /\ rows' \in [Task -> TaskRow] /\ deliveries' \in [Task -> Delivery]
      /\ \A u \in Task : TaskMoves(u)
  <2>1. CASE /\ Completes(w)
             /\ rows' = [rows EXCEPT ![runs[w].task] = End(@, runs[w].result)]
             /\ deliveries' = [deliveries EXCEPT ![runs[w].task] =
                                 Enqueue(runs[w].task, runs[w].result)]
    <3>1. rows[runs[w].task].status \in Running
      BY <2>1 DEF Completes, Holds, Running
    <3>2. runs[w].result \in Ended
      BY <1>2 DEF Ended
    <3> QED BY <1>1, <2>1, <3>1, <3>2, OneTaskEnds
  <2>2. CASE UNCHANGED <<rows, deliveries>>
    BY <2>2, TasksLeft DEF AsyncInv, TypeOK
  <2> QED BY <2>1, <2>2 DEF WriteTerminal
<1>4. runs' \in [Worker -> RunRow] /\ \A v \in Worker : RunKept(v)
  BY <1>1, BlankRecords, OneWorkerMoves
<1>5. Shapes'
  BY <1>1, <1>3, <1>4 DEF Shapes, AsyncInv, TypeOK
<1> QED BY <1>1, <1>3, <1>4, <1>5, SendsLeft, KeysLeft DEF AsyncStep

\* Workers of a process are told to give up, or are gone with it.
LEMMA WorkersTold ==
  ASSUME AsyncInv, runs' \in [Worker -> RunRow],
         \A w \in Worker : \/ runs'[w] = runs[w]
                           \/ runs'[w] = [runs[w] EXCEPT !.cancelled = TRUE]
                           \/ runs'[w] = IdleRun
  PROVE  \A w \in Worker : RunKept(w)
<1> SUFFICES ASSUME NEW w \in Worker PROVE RunKept(w)
  OBVIOUS
<1>1. /\ runs[w] \in RunRow
      /\ runs[w].pc = "writing" => runs[w].result # "none"
  BY DEF AsyncInv, TypeOK, GoroutinesAreBusy
<1>2. CASE runs'[w] = runs[w]
  BY <1>1, <1>2 DEF RunKept
<1>3. CASE runs'[w] = [runs[w] EXCEPT !.cancelled = TRUE]
  <2> DEFINE x == [runs[w] EXCEPT !.cancelled = TRUE]
  <2>1. /\ x.pc = runs[w].pc /\ x.result = runs[w].result
        /\ x.task = runs[w].task /\ x.attempt = runs[w].attempt
    BY <1>1, RunFacts
  <2>2. runs'[w] = x
    BY <1>3
  <2> HIDE DEF x
  <2> QED BY <1>1, <2>1, <2>2, SMTT(30) DEF RunKept
<1>4. CASE runs'[w] = IdleRun
  BY <1>4, BlankRecords DEF RunKept
<1> QED BY <1>2, <1>3, <1>4

LEMMA ToldRuns ==
  ASSUME AsyncInv, NEW Told,
         runs' = [w \in Worker |-> IF w \in Told THEN [runs[w] EXCEPT !.cancelled = TRUE] ELSE runs[w]]
  PROVE  runs' \in [Worker -> RunRow] /\ \A w \in Worker : RunKept(w)
<1>1. \A w \in Worker : runs[w] \in RunRow /\ [runs[w] EXCEPT !.cancelled = TRUE] \in RunRow
  BY RunFields DEF AsyncInv, TypeOK
<1>2. runs' \in [Worker -> RunRow]
  BY <1>1
<1>3. \A w \in Worker : \/ runs'[w] = runs[w]
                        \/ runs'[w] = [runs[w] EXCEPT !.cancelled = TRUE]
  BY <1>1
<1> QED BY <1>2, <1>3, WorkersTold

LEMMA CancelSteps ==
  ASSUME AsyncInv, NEW t \in Task, NEW p \in Process, Cancel(t, p)
  PROVE  AsyncStep
<1> DEFINE Told == {w \in Worker : home[w] = p /\ runs[w].task = t /\ runs[w].pc = "executing"}
<1>1. "cancelled" \in Ended
  BY DEF Ended
<1>2. /\ rows' \in [Task -> TaskRow] /\ deliveries' \in [Task -> Delivery]
      /\ \A u \in Task : TaskMoves(u)
  BY <1>1, OneTaskEnds DEF Cancel
<1>3. runs' = [w \in Worker |-> IF w \in Told THEN [runs[w] EXCEPT !.cancelled = TRUE] ELSE runs[w]]
  BY DEF Cancel
<1>4. runs' \in [Worker -> RunRow] /\ \A w \in Worker : RunKept(w)
  <2> HIDE DEF Told
  <2> QED BY <1>3, ToldRuns
<1>5. Shapes'
  BY <1>2, <1>4 DEF Cancel, Shapes, AsyncInv, TypeOK
<1> QED BY <1>2, <1>4, <1>5, SendsLeft, KeysLeft DEF AsyncStep, Cancel

LEMMA DeleteSteps ==
  ASSUME AsyncInv, NEW t \in Task, DeleteTask(t)
  PROVE  AsyncStep
<1> DEFINE x == [status |-> "deleted", worker |-> NoProcess, lapsed |-> FALSE, ready |-> FALSE,
                 attempt |-> 0]
<1>1. x \in TaskRow
  BY SMT DEF TaskRow
<1>2. /\ rows' = [rows EXCEPT ![t] = x] /\ deliveries' = [deliveries EXCEPT ![t] = NoDelivery]
      /\ UNCHANGED <<keys, runs, sends, heard, processes, reaping>>
  BY DEF DeleteTask
<1>3. rows \in [Task -> TaskRow] /\ deliveries \in [Task -> Delivery]
  BY DEF AsyncInv, TypeOK
<1>4. x.status = "deleted" /\ x.attempt = 0
  OBVIOUS
<1> HIDE DEF x
<1>5. Shapes'
  BY <1>1, <1>2, BlankRecords DEF Shapes, AsyncInv, TypeOK
<1>6. rows'[t] = x /\ deliveries'[t] = NoDelivery
  BY <1>2, <1>3
<1>7. TaskMoves(t)
  BY <1>4, <1>6 DEF TaskMoves, Removed
<1>8. ASSUME NEW u \in Task, u # t PROVE TaskMoves(u)
  <2>1. rows'[u] = rows[u] /\ deliveries'[u] = deliveries[u]
    BY <1>2, <1>3, <1>8
  <2>2. DeliveryKept(u)
    BY <2>1, Numbers DEF DeliveryKept
  <2> QED BY <2>1, <2>2 DEF TaskMoves, RowMoves, RowKept
<1> QED BY <1>2, <1>5, <1>7, <1>8, RunsLeft, SendsLeft, KeysLeft DEF AsyncStep

LEMMA ReapRetryableSteps ==
  ASSUME AsyncInv, NEW p \in Process, ReapRetryable(p)
  PROVE  AsyncStep
<1>1. /\ rows' = [t \in Task |-> IF Retryable(t) THEN Requeue(rows[t], rows[t].attempt, FALSE)
                                 ELSE rows[t]]
      /\ reaping' = reaping \cup {p}
      /\ UNCHANGED <<keys, runs, deliveries, sends, heard, processes>>
  BY DEF ReapRetryable
<1>2. ASSUME NEW t \in Task
      PROVE  LET x == Requeue(rows[t], rows[t].attempt, FALSE)
             IN  x \in TaskRow /\ x.status = "pending" /\ x.attempt = rows[t].attempt
  BY Numbers, RowFacts
<1>3. Shapes'
  <2>1. rows' \in [Task -> TaskRow]
    BY <1>1, <1>2, Numbers
  <2> QED BY <1>1, <2>1 DEF Shapes, AsyncInv, TypeOK
<1>4. ASSUME NEW t \in Task PROVE RowMoves(t)
  <2>1. CASE Retryable(t)
    <3>1. rows'[t] = Requeue(rows[t], rows[t].attempt, FALSE)
      BY <1>1, <2>1
    <3>2. rows'[t].status = "pending" /\ rows'[t].attempt = rows[t].attempt
      BY <1>2, <3>1
    <3> QED BY <2>1, <3>2 DEF RowMoves, Requeued, Retryable, Orphan
  <2>2. CASE ~ Retryable(t)
    BY <1>1, <2>2 DEF RowMoves, RowKept
  <2> QED BY <2>1, <2>2
<1>5. \A t \in Task : TaskMoves(t)
  BY <1>1, <1>4, DeliveriesLeft DEF TaskMoves
<1> QED BY <1>1, <1>3, <1>5, RunsLeft, SendsLeft, KeysLeft DEF AsyncStep

LEMMA ReapDeadSteps ==
  ASSUME AsyncInv, NEW p \in Process, ReapDead(p)
  PROVE  AsyncStep
<1>1. /\ rows' = [t \in Task |-> IF Dead(t) THEN End(rows[t], "failed") ELSE rows[t]]
      /\ deliveries' = [t \in Task |-> IF Dead(t) THEN Enqueue(t, "failed") ELSE deliveries[t]]
      /\ reaping' = reaping \ {p}
      /\ UNCHANGED <<keys, runs, sends, heard, processes>>
  BY DEF ReapDead
<1>2. "failed" \in Ended /\ "failed" \in Statuses
  BY DEF Ended, Statuses
<1>3. ASSUME NEW t \in Task
      PROVE  /\ End(rows[t], "failed") \in TaskRow /\ End(rows[t], "failed").status = "failed"
             /\ End(rows[t], "failed").attempt = rows[t].attempt
             /\ Enqueue(t, "failed") \in Delivery
  BY <1>2, Numbers, RowFacts, EnqueueFacts DEF AsyncInv
<1>4. Shapes'
  <2>1. rows' \in [Task -> TaskRow] /\ deliveries' \in [Task -> Delivery]
    BY <1>1, <1>3, Numbers
  <2> QED BY <1>1, <2>1 DEF Shapes, AsyncInv, TypeOK
<1>5. ASSUME NEW t \in Task PROVE TaskMoves(t)
  <2>1. CASE Dead(t)
    <3>1. rows'[t] = End(rows[t], "failed") /\ deliveries'[t] = Enqueue(t, "failed")
      BY <1>1, <2>1
    <3>2. rows'[t].status = "failed" /\ rows'[t].attempt = rows[t].attempt
      BY <1>3, <3>1
    <3>3. EndedNow(t)
      BY <1>2, <2>1, <3>1, <3>2 DEF EndedNow, Dead, Orphan, Running
    <3> QED BY <3>3 DEF TaskMoves
  <2>2. CASE ~ Dead(t)
    <3>1. rows'[t] = rows[t] /\ deliveries'[t] = deliveries[t]
      BY <1>1, <2>2
    <3>2. DeliveryKept(t)
      BY <3>1, Numbers DEF DeliveryKept
    <3> QED BY <3>1, <3>2 DEF TaskMoves, RowMoves, RowKept
  <2> QED BY <2>1, <2>2
<1> QED BY <1>1, <1>4, <1>5, RunsLeft, SendsLeft, KeysLeft DEF AsyncStep

\* Only deliveries and senders change.
LEMMA NoticesMove ==
  ASSUME AsyncInv, UNCHANGED <<rows, keys, runs, processes, reaping>>, heard \subseteq heard',
         deliveries' \in [Task -> Delivery], sends' \in [Sender -> SendRow], heard' \subseteq Task,
         \A t \in Task : DeliveryKept(t), \A s \in Sender : SendFits(s)'
  PROVE  AsyncStep
<1>1. Shapes'
  BY DEF Shapes, AsyncInv, TypeOK
<1>2. \A t \in Task : TaskMoves(t)
  BY RowsLeft DEF TaskMoves
<1> QED BY <1>1, <1>2, RunsLeft, KeysLeft DEF AsyncStep

\* One delivery changes.
LEMMA OneDeliveryMoves ==
  ASSUME AsyncInv, NEW t \in Task, NEW d \in Delivery, deliveries' = [deliveries EXCEPT ![t] = d],
         d.status = "none" <=> deliveries[t].status = "none",
         d.event = deliveries[t].event, d.attempt <= MaxSends,
         d.status = "running" => d.attempt >= 1,
         d.status = "delivered" => deliveries[t].status = "delivered" \/ t \in heard'
  PROVE  deliveries' \in [Task -> Delivery] /\ \A u \in Task : DeliveryKept(u)
<1>1. deliveries \in [Task -> Delivery]
  BY DEF AsyncInv, TypeOK
<1>2. deliveries'[t] = d
  BY <1>1
<1>3. DeliveryKept(t)
  BY <1>2, Zenon DEF DeliveryKept
<1>4. ASSUME NEW u \in Task, u # t PROVE DeliveryKept(u)
  <2>1. deliveries'[u] = deliveries[u]
    BY <1>1, <1>4
  <2> QED BY <2>1, Numbers DEF DeliveryKept
<1> QED BY <1>1, <1>3, <1>4

LEMMA ReapDeadDeliveriesSteps ==
  ASSUME AsyncInv, ReapDeadDeliveries
  PROVE  AsyncStep
<1> DEFINE x(t) == Rest(deliveries[t], "failed", NoProcess)
<1>1. /\ deliveries' = [t \in Task |-> IF DeadDelivery(deliveries[t]) THEN x(t) ELSE deliveries[t]]
      /\ UNCHANGED <<rows, keys, runs, sends, heard, processes, reaping>>
  BY DEF ReapDeadDeliveries, Rest
<1>2. ASSUME NEW t \in Task
      PROVE  /\ x(t) \in Delivery /\ x(t).status = "failed"
             /\ x(t).event = deliveries[t].event /\ x(t).attempt = deliveries[t].attempt
  <2>1. deliveries[t] \in Delivery
    BY Numbers
  <2> QED BY <2>1, RestFacts
<1> HIDE DEF x
<1>3. deliveries' \in [Task -> Delivery]
  BY <1>1, <1>2, Numbers
<1>4. ASSUME NEW t \in Task PROVE DeliveryKept(t)
  <2>1. CASE DeadDelivery(deliveries[t])
    <3>1. deliveries'[t] = x(t)
      BY <1>1, <2>1
    <3> QED BY <1>2, <2>1, <3>1, Numbers DEF DeliveryKept, DeadDelivery
  <2>2. CASE ~ DeadDelivery(deliveries[t])
    <3>1. deliveries'[t] = deliveries[t]
      BY <1>1, <2>2
    <3> QED BY <3>1, Numbers DEF DeliveryKept
  <2> QED BY <2>1, <2>2
<1> QED BY <1>1, <1>3, <1>4, SendsLeft, NoticesMove DEF AsyncInv, TypeOK

LEMMA DeliveryTimeSteps ==
  ASSUME AsyncInv, NEW t \in Task, DeliveryLapses(t) \/ RetryDelayEnds(t)
  PROVE  AsyncStep
<1>1. deliveries[t] \in Delivery
  BY Numbers
<1>2. PICK d \in Delivery : /\ deliveries' = [deliveries EXCEPT ![t] = d]
                            /\ d.status = deliveries[t].status /\ d.event = deliveries[t].event
                            /\ d.attempt = deliveries[t].attempt
  <2>1. CASE DeliveryLapses(t)
    <3> DEFINE d == [deliveries[t] EXCEPT !.lapsed = TRUE]
    <3>1. /\ d \in Delivery /\ d.status = deliveries[t].status /\ d.event = deliveries[t].event
          /\ d.attempt = deliveries[t].attempt
      BY <1>1, DeliveryFlags
    <3>2. deliveries' = [deliveries EXCEPT ![t] = d]
      BY <2>1 DEF DeliveryLapses
    <3> HIDE DEF d
    <3> QED BY <3>1, <3>2
  <2>2. CASE RetryDelayEnds(t)
    <3> DEFINE d == [deliveries[t] EXCEPT !.ready = TRUE]
    <3>1. /\ d \in Delivery /\ d.status = deliveries[t].status /\ d.event = deliveries[t].event
          /\ d.attempt = deliveries[t].attempt
      BY <1>1, DeliveryFlags
    <3>2. deliveries' = [deliveries EXCEPT ![t] = d]
      BY <2>2 DEF RetryDelayEnds
    <3> HIDE DEF d
    <3> QED BY <3>1, <3>2
  <2> QED BY <2>1, <2>2
<1>3. deliveries' \in [Task -> Delivery] /\ \A u \in Task : DeliveryKept(u)
  BY <1>2, Numbers, OneDeliveryMoves
<1>4. UNCHANGED <<rows, keys, runs, sends, heard, processes, reaping>>
  BY DEF DeliveryLapses, RetryDelayEnds
<1> QED BY <1>3, <1>4, SendsLeft, NoticesMove DEF AsyncInv, TypeOK

\* One sender changes.
LEMMA OneSenderMoves ==
  ASSUME AsyncInv, NEW s \in Sender, NEW x \in SendRow, sends' = [sends EXCEPT ![s] = x],
         heard \subseteq heard',
         x.pc # "idle" =>
           /\ x.task \in Task
           /\ x.pc = "finishing" => /\ x.outcome # "none"
                                    /\ x.outcome = "delivered" => x.task \in heard'
  PROVE  sends' \in [Sender -> SendRow] /\ \A v \in Sender : SendFits(v)'
<1>1. sends \in [Sender -> SendRow]
  BY DEF AsyncInv, TypeOK
<1>2. \A v \in Sender : v # s => sends'[v] = sends[v]
  BY <1>1
<1>3. \A v \in Sender : v # s => SendFits(v)'
  BY <1>2 DEF SendFits, AsyncInv, GoroutinesAreBusy
<1>4. sends'[s] = x
  BY <1>1
<1>5. SendFits(s)'
  BY <1>4 DEF SendFits
<1> QED BY <1>1, <1>3, <1>5

LEMMA ClaimDeliverySteps ==
  ASSUME AsyncInv, NEW s \in Sender, NEW t \in Task, ClaimDelivery(s, t)
  PROVE  AsyncStep
<1> DEFINE d == deliveries[t]
           y == Move(d, "running", home[s], FALSE, d.attempt + 1)
           x == [pc |-> "sending", task |-> t, attempt |-> d.attempt + 1, outcome |-> "none"]
<1>1. /\ d \in Delivery /\ d.attempt + 1 \in Nat /\ d.attempt + 1 <= MaxSends
      /\ d.attempt + 1 >= 1 /\ d.status # "none"
  BY Numbers DEF ClaimDelivery
<1>2. home[s] \in Process
  BY AsyncTasksAssumption
<1>3. /\ y \in Delivery /\ y.status = "running" /\ y.event = d.event /\ y.attempt = d.attempt + 1
  <2> HIDE DEF d
  <2> QED BY <1>1, <1>2, TakenFacts
<1>4. /\ deliveries' = [deliveries EXCEPT ![t] = y] /\ sends' = [sends EXCEPT ![s] = x]
      /\ UNCHANGED <<rows, keys, runs, heard, processes, reaping>>
  BY DEF ClaimDelivery, Move
<1>5. x \in SendRow /\ x.pc = "sending" /\ x.task = t
  <2> HIDE DEF d
  <2> QED BY <1>1 DEF SendRow
<1> HIDE DEF x, y
<1>6. deliveries' \in [Task -> Delivery] /\ \A u \in Task : DeliveryKept(u)
  BY <1>1, <1>3, <1>4, OneDeliveryMoves
<1>7. sends' \in [Sender -> SendRow] /\ \A v \in Sender : SendFits(v)'
  BY <1>4, <1>5, OneSenderMoves
<1> QED BY <1>4, <1>6, <1>7, NoticesMove DEF AsyncInv, TypeOK

LEMMA ClassifyFacts ==
  ASSUME NEW s, NEW a \in {"ok", "gone", "error"}
  PROVE  /\ Classify(s, a) \in {"delivered", "failed", "pending"}
         /\ Classify(s, a) = "delivered" => a = "ok"
<1>1. a = "ok" => Classify(s, a) = "delivered"
  BY DEF Classify
<1>2. a = "gone" => Classify(s, a) = "failed"
  BY DEF Classify
<1>3. a = "error" => Classify(s, a) \in {"failed", "pending"}
  BY DEF Classify
<1> QED BY <1>1, <1>2, <1>3

LEMMA SentFacts ==
  ASSUME NEW x \in SendRow, NEW o \in {"delivered", "failed", "pending"}
  PROVE  LET y == [x EXCEPT !.pc = "finishing", !.attempt = 0, !.outcome = o]
         IN  y \in SendRow /\ y.pc = "finishing" /\ y.outcome = o /\ y.task = x.task
<1> DEFINE a == [x EXCEPT !.pc = "finishing"]
           b == [a EXCEPT !.attempt = 0]
           y == [x EXCEPT !.pc = "finishing", !.attempt = 0, !.outcome = o]
<1>1. a \in SendRow
  BY SMT DEF SendRow
<1>2. b \in SendRow
  <2> HIDE DEF a
  <2> QED BY <1>1, SMT DEF SendRow
<1>3. y \in SendRow
  <2>1. y = [b EXCEPT !.outcome = o]
    OBVIOUS
  <2> HIDE DEF b, y
  <2> QED BY <1>2, <2>1, SMT DEF SendRow
<1>4. y.pc = "finishing" /\ y.outcome = o /\ y.task = x.task
  BY SMT DEF SendRow
<1> QED BY <1>3, <1>4

LEMMA SendSteps ==
  ASSUME AsyncInv, NEW s \in Sender, Send(s)
  PROVE  AsyncStep
<1>1. PICK a \in {"ok", "gone", "error"}, got \in BOOLEAN :
        /\ a = "ok" => got
        /\ heard' = IF got THEN heard \cup {sends[s].task} ELSE heard
        /\ sends' = [sends EXCEPT ![s].pc = "finishing", ![s].attempt = 0,
                                  ![s].outcome = Classify(s, a)]
  BY DEF Send
<1>2. /\ sends[s].pc = "sending" /\ sends[s] \in SendRow /\ sends[s].task \in Task
      /\ UNCHANGED <<rows, keys, runs, deliveries, processes, reaping>>
  BY DEF Send, AsyncInv, TypeOK, GoroutinesAreBusy
<1> DEFINE o == Classify(s, a)
           x == [sends[s] EXCEPT !.pc = "finishing", !.attempt = 0, !.outcome = o]
<1>3. o \in {"delivered", "failed", "pending"} /\ (o = "delivered" => a = "ok")
  BY ClassifyFacts
<1>4. x \in SendRow /\ x.pc = "finishing" /\ x.outcome = o /\ x.task = sends[s].task
  <2> HIDE DEF o
  <2> QED BY <1>2, <1>3, SentFacts
<1>5. sends' = [sends EXCEPT ![s] = x]
  BY <1>1 DEF AsyncInv, TypeOK
<1>6. heard \subseteq heard' /\ heard' \subseteq Task
  BY <1>1, <1>2 DEF AsyncInv, TypeOK
<1>7. o = "delivered" => sends[s].task \in heard'
  <2> HIDE DEF o, x
  <2> QED BY <1>1, <1>3
<1> HIDE DEF o, x
<1>8. sends' \in [Sender -> SendRow] /\ \A v \in Sender : SendFits(v)'
  BY <1>2, <1>3, <1>4, <1>5, <1>6, <1>7, OneSenderMoves
<1> QED BY <1>2, <1>6, <1>8, DeliveriesLeft, NoticesMove DEF AsyncInv, TypeOK

LEMMA DropSendSteps ==
  ASSUME AsyncInv, NEW s \in Sender, DropSend(s)
  PROVE  AsyncStep
<1>1. /\ sends' = [sends EXCEPT ![s] = IdleSend]
      /\ UNCHANGED <<rows, keys, runs, deliveries, heard, processes, reaping>>
  BY DEF DropSend
<1>2. sends' \in [Sender -> SendRow] /\ \A v \in Sender : SendFits(v)'
  BY <1>1, BlankRecords, OneSenderMoves
<1> QED BY <1>1, <1>2, DeliveriesLeft, NoticesMove DEF AsyncInv, TypeOK

LEMMA FinishDeliverySteps ==
  ASSUME AsyncInv, NEW s \in Sender, FinishDelivery(s)
  PROVE  AsyncStep
<1> DEFINE t == sends[s].task
           d == deliveries[t]
           x == Rest(d, sends[s].outcome, NoProcess)
<1>1. /\ sends[s].pc = "finishing" /\ t \in Task
      /\ sends[s].outcome \in {"delivered", "failed", "pending"}
      /\ sends[s].outcome = "delivered" => t \in heard
  <2>1. sends[s] \in SendRow
    BY DEF AsyncInv, TypeOK
  <2>2. sends[s].outcome \in {"none", "delivered", "failed", "pending"}
    BY <2>1 DEF SendRow
  <2> QED BY <2>2 DEF FinishDelivery, AsyncInv, GoroutinesAreBusy
<1>2. /\ sends' = [sends EXCEPT ![s] = IdleSend]
      /\ UNCHANGED <<rows, keys, runs, heard, processes, reaping>>
  BY DEF FinishDelivery
<1>3. sends' \in [Sender -> SendRow] /\ \A v \in Sender : SendFits(v)'
  BY <1>2, BlankRecords, OneSenderMoves
<1>4. deliveries' \in [Task -> Delivery] /\ \A u \in Task : DeliveryKept(u)
  <2>1. CASE Holds(d, home[s]) /\ deliveries' = [deliveries EXCEPT ![t] = x]
    <3>1. d \in Delivery /\ d.attempt <= MaxSends
      BY <1>1, Numbers
    <3>2. /\ x \in Delivery /\ x.status = sends[s].outcome /\ x.event = d.event
          /\ x.attempt = d.attempt
      <4> HIDE DEF d
      <4> QED BY <1>1, <3>1, RestFacts
    <3> HIDE DEF x
    <3> QED BY <1>1, <1>2, <2>1, <3>1, <3>2, OneDeliveryMoves DEF Holds
  <2>2. CASE UNCHANGED deliveries
    BY <2>2, DeliveriesLeft DEF AsyncInv, TypeOK
  <2> QED BY <2>1, <2>2 DEF FinishDelivery, Rest
<1> QED BY <1>2, <1>3, <1>4, NoticesMove DEF AsyncInv, TypeOK

LEMMA StopSteps ==
  ASSUME AsyncInv, NEW p \in Process, Stop(p)
  PROVE  AsyncStep
<1> DEFINE Told == {w \in Worker : home[w] = p /\ runs[w].pc = "executing"}
<1>1. runs' = [w \in Worker |-> IF w \in Told THEN [runs[w] EXCEPT !.cancelled = TRUE] ELSE runs[w]]
  BY DEF Stop
<1>2. runs' \in [Worker -> RunRow] /\ \A w \in Worker : RunKept(w)
  <2> HIDE DEF Told
  <2> QED BY <1>1, ToldRuns
<1>3. Shapes'
  BY <1>2 DEF Stop, Shapes, AsyncInv, TypeOK
<1> QED BY <1>2, <1>3, WorkersMove, KeysLeft DEF Stop

LEMMA CrashSteps ==
  ASSUME AsyncInv, NEW p \in Process, Crash(p)
  PROVE  AsyncStep
<1>1. /\ processes' = [processes EXCEPT ![p] = "gone"] /\ reaping' = reaping \ {p}
      /\ runs' = [w \in Worker |-> IF home[w] = p THEN IdleRun ELSE runs[w]]
      /\ sends' = [s \in Sender |-> IF home[s] = p THEN IdleSend ELSE sends[s]]
      /\ UNCHANGED <<rows, keys, deliveries, heard>>
  BY DEF Crash
<1>2. Shapes'
  <2>1. runs' \in [Worker -> RunRow] /\ sends' \in [Sender -> SendRow]
    BY <1>1, BlankRecords DEF AsyncInv, TypeOK
  <2> QED BY <1>1, <2>1 DEF Shapes, AsyncInv, TypeOK
<1>3. \A w \in Worker : RunKept(w)
  <2>1. \A w \in Worker : runs'[w] = runs[w] \/ runs'[w] = IdleRun
    BY <1>1
  <2> QED BY <1>2, <2>1, WorkersTold DEF Shapes
<1>4. ASSUME NEW s \in Sender PROVE SendFits(s)'
  <2>1. CASE home[s] = p
    BY <1>1, <2>1, BlankRecords DEF SendFits
  <2>2. CASE home[s] # p
    <3>1. sends'[s] = sends[s]
      BY <1>1, <2>2
    <3> QED BY <1>1, <3>1 DEF SendFits, AsyncInv, GoroutinesAreBusy
  <2> QED BY <2>1, <2>2
<1> QED BY <1>1, <1>2, <1>3, <1>4, TasksLeft, KeysLeft DEF AsyncStep

LEMMA ReleaseSteps ==
  ASSUME AsyncInv, NEW p \in Process, Release(p)
  PROVE  AsyncStep
<1> DEFINE x(t) == Requeue(rows[t], rows[t].attempt - 1, TRUE)
           y(t) == Move(deliveries[t], "pending", NoProcess, TRUE, deliveries[t].attempt - 1)
<1>1. /\ Drained(p) /\ processes' = [processes EXCEPT ![p] = "gone"]
      /\ UNCHANGED <<keys, runs, sends, heard, reaping>>
  BY DEF Release
<1>2. rows' \in [Task -> TaskRow] /\ \A t \in Task : RowMoves(t)
  <2>1. CASE rows' = [t \in Task |-> IF Releases(t, p) THEN x(t) ELSE rows[t]]
    <3>1. ASSUME NEW t \in Task, Releases(t, p)
          PROVE  x(t) \in TaskRow /\ x(t).status = "pending" /\ x(t).attempt = rows[t].attempt - 1
      <4>1. rows[t] \in TaskRow /\ rows[t].attempt - 1 \in Nat
        BY <3>1, Numbers DEF Releases, Holds
      <4> QED BY <4>1, RowFacts
    <3> HIDE DEF x
    <3>2. rows' \in [Task -> TaskRow]
      BY <2>1, <3>1, Numbers
    <3>3. ASSUME NEW t \in Task, Releases(t, p) PROVE Released(t)
      <4>1. rows'[t] = x(t)
        BY <2>1, <3>3
      <4>2. rows[t].status = "running" /\ rows[t].worker = p /\ <<t, rows[t].attempt>> \notin keys
        BY <3>3 DEF Releases, Holds, Billed
      <4>3. ASSUME NEW w \in Worker, runs[w].pc # "idle", runs[w].task = t
            PROVE  runs[w].attempt # rows[t].attempt
        <5>1. home[w] # p
          BY <1>1, <4>3 DEF Drained
        <5> QED BY <4>2, <4>3, <5>1, BusyRun
      <4> QED BY <1>1, <3>1, <3>3, <4>1, <4>2, <4>3 DEF Released
    <3>4. ASSUME NEW t \in Task, ~ Releases(t, p) PROVE RowKept(t)
      BY <2>1, <3>4 DEF RowKept
    <3> QED BY <3>2, <3>3, <3>4 DEF RowMoves
  <2>2. CASE UNCHANGED rows
    BY <2>2, RowsLeft DEF AsyncInv, TypeOK
  <2> QED BY <2>1, <2>2 DEF Release
<1>3. deliveries' \in [Task -> Delivery] /\ \A t \in Task : DeliveryKept(t)
  <2>1. CASE deliveries' = [t \in Task |-> IF Holds(deliveries[t], p) THEN y(t) ELSE deliveries[t]]
    <3>1. ASSUME NEW t \in Task, Holds(deliveries[t], p)
          PROVE  /\ y(t) \in Delivery /\ y(t).status = "pending" /\ y(t).event = deliveries[t].event
                 /\ y(t).attempt = deliveries[t].attempt - 1
      <4>1. deliveries[t] \in Delivery /\ deliveries[t].attempt - 1 \in Nat
        BY <3>1, Numbers DEF Holds
      <4> QED BY <4>1, ReturnedFacts
    <3> HIDE DEF y
    <3>2. deliveries' \in [Task -> Delivery]
      BY <2>1, <3>1, Numbers
    <3>3. ASSUME NEW t \in Task, Holds(deliveries[t], p) PROVE DeliveryKept(t)
      <4>1. deliveries'[t] = y(t)
        BY <2>1, <3>3
      <4> QED BY <3>1, <3>3, <4>1, Numbers DEF DeliveryKept, Holds
    <3>4. ASSUME NEW t \in Task, ~ Holds(deliveries[t], p) PROVE DeliveryKept(t)
      <4>1. deliveries'[t] = deliveries[t]
        BY <2>1, <3>4
      <4> QED BY <4>1, Numbers DEF DeliveryKept
    <3> QED BY <3>2, <3>3, <3>4
  <2>2. CASE UNCHANGED deliveries
    BY <2>2, DeliveriesLeft DEF AsyncInv, TypeOK
  <2> QED BY <2>1, <2>2 DEF Release, Move
<1>4. Shapes'
  BY <1>1, <1>2, <1>3 DEF Shapes, AsyncInv, TypeOK
<1>5. \A t \in Task : TaskMoves(t)
  BY <1>2, <1>3 DEF TaskMoves
<1> QED BY <1>1, <1>4, <1>5, RunsLeft, SendsLeft, KeysLeft DEF AsyncStep

-----------------------------------------------------------------------------
(* The claim: the one step that makes an identity. *)

LEMMA ClaimKeeps ==
  ASSUME AsyncInv, NEW w \in Worker, NEW t \in Task, Claim(w, t)
  PROVE  AsyncInv'
<1> DEFINE n == rows[t].attempt + 1
           x == [status |-> "running", worker |-> home[w], lapsed |-> FALSE, ready |-> FALSE,
                 attempt |-> n]
           y == [IdleRun EXCEPT !.pc = "executing", !.task = t, !.attempt = n]
<1>1. /\ rows[t].status = "pending" /\ n \in Nat /\ n >= 1 /\ n <= MaxAttempts[t]
      /\ rows[t].attempt \in Nat
  BY Numbers DEF Claim
<1>2. /\ runs[w].pc = "idle" /\ rows' = [rows EXCEPT ![t] = x] /\ runs' = [runs EXCEPT ![w] = y]
      /\ UNCHANGED <<keys, deliveries, sends, heard, processes, reaping>>
  BY DEF Claim
<1>3. rows \in [Task -> TaskRow] /\ runs \in [Worker -> RunRow]
  BY DEF AsyncInv, TypeOK
<1>4. x \in TaskRow /\ x.status = "running" /\ x.attempt = n /\ x.worker = home[w]
  <2>1. home[w] \in Process
    BY AsyncTasksAssumption
  <2> HIDE DEF n
  <2> QED BY <1>1, <2>1, SMT DEF TaskRow, Running
<1>5. /\ y \in RunRow /\ y.pc = "executing" /\ y.task = t /\ y.attempt = n
  <2> DEFINE a == [IdleRun EXCEPT !.pc = "executing"]
             b == [a EXCEPT !.task = t]
  <2>1. a \in RunRow
    BY BlankRecords, RunFields
  <2>2. b \in RunRow
    <3> HIDE DEF a
    <3> QED BY <2>1, RunFields
  <2>3. y \in RunRow
    <3>1. y = [b EXCEPT !.attempt = n]
      OBVIOUS
    <3> HIDE DEF b, n, y
    <3> QED BY <1>1, <2>2, <3>1, RunFields
  <2>4. y.pc = "executing" /\ y.task = t /\ y.attempt = n
    <3> HIDE DEF n
    <3> QED BY SMT DEF IdleRun
  <2> QED BY <2>3, <2>4
<1> HIDE DEF x, y
<1>6. /\ rows'[t] = x /\ \A u \in Task : u # t => rows'[u] = rows[u]
      /\ runs'[w] = y /\ \A v \in Worker : v # w => runs'[v] = runs[v]
      /\ rows' \in [Task -> TaskRow] /\ runs' \in [Worker -> RunRow]
  BY <1>2, <1>3, <1>4, <1>5
<1>7. TypeOK'
  <2>1. \A u \in Task : rows'[u].attempt <= MaxAttempts[u] /\ deliveries'[u].attempt <= MaxSends
    <3> HIDE DEF n
    <3> QED BY <1>1, <1>2, <1>4, <1>6 DEF AsyncInv, TypeOK
  <2> QED BY <1>2, <1>6, <2>1 DEF AsyncInv, TypeOK
<1>8. AttemptsAreCounted'
  <2> HIDE DEF n
  <2> QED BY <1>1, <1>2, <1>4, <1>6 DEF AsyncInv, AttemptsAreCounted
<1>9. GoroutinesAreBusy'
  <2> HIDE DEF n
  <2>1. \A v \in Worker : runs'[v].pc # "idle" =>
          /\ runs'[v].task \in Task /\ runs'[v].attempt >= 1
          /\ runs'[v].pc = "writing" => runs'[v].result # "none"
    BY <1>1, <1>5, <1>6 DEF AsyncInv, GoroutinesAreBusy
  <2> QED BY <1>2, <2>1 DEF AsyncInv, GoroutinesAreBusy
<1>10. EveryEndIsAnnounced'
  <2>1. \A u \in Task : /\ rows'[u].status \in Ended <=> rows[u].status \in Ended
                        /\ rows[u].status \in Ended => rows'[u].status = rows[u].status
    BY <1>1, <1>4, <1>6 DEF Ended
  <2> QED BY <1>2, <2>1 DEF AsyncInv, EveryEndIsAnnounced
\* The row was pending, so every identity of the task is below the new one.
<1>11. ASSUME NEW v \in Worker, v # w, runs'[v].pc # "idle"
       PROVE  /\ runs'[v] = runs[v] /\ runs[v].task \in Task /\ runs[v].attempt \in Nat
              /\ runs[v].task = t => runs[v].attempt < n
  <2>1. runs'[v] = runs[v] /\ runs[v].pc # "idle"
    BY <1>6, <1>11
  <2>2. runs[v].task \in Task /\ runs[v].attempt \in Nat
    BY <2>1, BusyRun
  <2>3. runs[v].task = t => runs[v].attempt <= rows[t].attempt
    BY <1>1, <2>1, BusyRun DEF Live
  <2> QED BY <1>1, <2>1, <2>2, <2>3
<1>12. \A m \in Nat : <<t, m>> \in keys => m < n
  BY <1>1 DEF AsyncInv, IdentitiesAreOld, Live
<1> HIDE DEF n
<1>13. IdentitiesAreOld'
  <2>1. ASSUME NEW v \in Worker, runs'[v].pc # "idle", rows'[runs'[v].task].status \in Live
        PROVE  /\ runs'[v].attempt <= rows'[runs'[v].task].attempt
               /\ rows'[runs'[v].task].status = "running"
                    /\ runs'[v].attempt = rows'[runs'[v].task].attempt
                      => rows'[runs'[v].task].worker = home[v]
    <3>1. CASE v = w
      BY <1>1, <1>4, <1>5, <1>6, <3>1
    <3>2. CASE v # w /\ runs[v].task = t
      BY <1>1, <1>4, <1>6, <1>11, <2>1, <3>2
    <3>3. CASE v # w /\ runs[v].task # t
      <4>1. runs'[v] = runs[v] /\ rows'[runs[v].task] = rows[runs[v].task]
        BY <1>6, <1>11, <2>1, <3>3
      <4> QED BY <2>1, <4>1, BusyRun
    <3> QED BY <3>1, <3>2, <3>3
  <2>2. ASSUME NEW u \in Task, NEW m \in Nat, <<u, m>> \in keys', rows'[u].status \in Live
        PROVE  m <= rows'[u].attempt
    <3>1. CASE u = t
      BY <1>1, <1>2, <1>4, <1>6, <1>12, <2>2, <3>1
    <3>2. CASE u # t
      BY <1>2, <1>6, <2>2, <3>2 DEF AsyncInv, IdentitiesAreOld
    <3> QED BY <3>1, <3>2
  <2> QED BY <2>1, <2>2 DEF IdentitiesAreOld
<1>14. OneRunPerIdentity'
  <2>1. ASSUME NEW u \in Worker, NEW v \in Worker, u # v, runs'[u].pc # "idle",
               runs'[v].pc # "idle", runs'[u].task = runs'[v].task
        PROVE  runs'[u].attempt # runs'[v].attempt
    <3>1. CASE u = w
      BY <1>1, <1>5, <1>6, <1>11, <2>1, <3>1
    <3>2. CASE v = w
      BY <1>1, <1>5, <1>6, <1>11, <2>1, <3>2
    <3>3. CASE u # w /\ v # w
      BY <1>6, <2>1, <3>3 DEF AsyncInv, OneRunPerIdentity
    <3> QED BY <3>1, <3>2, <3>3
  <2>2. ASSUME NEW u \in Task, rows'[u].status = "pending"
        PROVE  <<u, rows'[u].attempt + 1>> \notin keys'
    <3>1. u # t
      BY <1>4, <1>6, <2>2
    <3> QED BY <1>2, <1>6, <2>2, <3>1 DEF AsyncInv, OneRunPerIdentity
  <2> QED BY <2>1, <2>2 DEF OneRunPerIdentity
<1> QED BY <1>7, <1>8, <1>9, <1>10, <1>13, <1>14 DEF AsyncInv

-----------------------------------------------------------------------------
(* The invariant and what follows from it. *)

LEMMA AsyncInit == Init => AsyncInv
<1> SUFFICES ASSUME Init PROVE AsyncInv
  OBVIOUS
<1> DEFINE z == [status |-> "none", worker |-> NoProcess, lapsed |-> FALSE, ready |-> FALSE,
                 attempt |-> 0]
<1>1. z \in TaskRow /\ z.status = "none" /\ z.attempt = 0
  BY SMT DEF TaskRow
<1>2. /\ rows = [t \in Task |-> z] /\ keys = {} /\ runs = [w \in Worker |-> IdleRun]
      /\ deliveries = [t \in Task |-> NoDelivery] /\ sends = [s \in Sender |-> IdleSend]
      /\ heard = {} /\ processes = [p \in Process |-> "up"] /\ reaping = {}
  BY DEF Init
<1> HIDE DEF z
<1>3. TypeOK
  <2>1. \A t \in Task : rows[t].attempt = 0 /\ deliveries[t].attempt = 0
    BY <1>1, <1>2, BlankRecords
  <2> QED BY <1>1, <1>2, <2>1, BlankRecords, AsyncTasksAssumption DEF TypeOK
<1>4. AttemptsAreCounted
  BY <1>1, <1>2, BlankRecords DEF AttemptsAreCounted
<1>5. GoroutinesAreBusy
  BY <1>2, BlankRecords DEF GoroutinesAreBusy
<1>6. IdentitiesAreOld
  BY <1>2, BlankRecords DEF IdentitiesAreOld
<1>7. EveryEndIsAnnounced
  BY <1>1, <1>2, BlankRecords DEF EveryEndIsAnnounced, Ended
<1>8. OneRunPerIdentity
  BY <1>2, BlankRecords DEF OneRunPerIdentity
<1> QED BY <1>3, <1>4, <1>5, <1>6, <1>7, <1>8 DEF AsyncInv

LEMMA AsyncSteps ==
  ASSUME AsyncInv, Next
  PROVE  AsyncStep \/ \E w \in Worker, t \in Task : Claim(w, t)
<1>1. ASSUME NEW t \in Task, TaskStep(t)
      PROVE  AsyncStep \/ \E w \in Worker : Claim(w, t)
  BY <1>1, SubmitSteps, DeleteSteps, CancelSteps, ClaimDeliverySteps DEF TaskStep
<1>2. ASSUME NEW t \in Task, TimePasses(t) PROVE AsyncStep
  BY <1>2, TimeSteps, DeliveryTimeSteps DEF TimePasses
<1>3. ASSUME NEW w \in Worker, WorkerStep(w) PROVE AsyncStep
  BY <1>3, HeartbeatSteps, BillSteps, ExecuteFailsSteps, RestSteps, WriteTerminalSteps
  DEF WorkerStep
<1>4. ASSUME NEW s \in Sender, SenderStep(s) PROVE AsyncStep
  BY <1>4, SendSteps, FinishDeliverySteps, DropSendSteps DEF SenderStep
<1>5. ASSUME NEW p \in Process, ProcessStep(p) PROVE AsyncStep
  BY <1>5, ReapRetryableSteps, ReapDeadSteps, StopSteps, ReleaseSteps, CrashSteps DEF ProcessStep
<1> QED BY <1>1, <1>2, <1>3, <1>4, <1>5, ReapDeadDeliveriesSteps DEF Next

LEMMA AsyncStutters == AsyncInv /\ UNCHANGED vars => AsyncInv'
<1> SUFFICES ASSUME AsyncInv, UNCHANGED vars PROVE AsyncInv'
  OBVIOUS
<1>1. Shapes'
  BY DEF Shapes, AsyncInv, TypeOK, vars
<1>2. AsyncStep
  BY <1>1, TasksLeft, RunsLeft, SendsLeft, KeysLeft DEF AsyncStep, vars
<1> QED BY <1>2, AsyncStepKeeps

LEMMA AsyncInvariance == Spec => []AsyncInv
<1>1. AsyncInv /\ [Next]_vars => AsyncInv'
  BY AsyncSteps, AsyncStepKeeps, ClaimKeeps, AsyncStutters
<1> QED BY <1>1, AsyncInit, PTL DEF Spec

\* The queue's tables keep their shapes whatever the processes do, and no task
\* is tried and no webhook sent more often than max_attempts allows: a claim
\* counts before the work and a release gives back only what was not used.
THEOREM AsyncTypes == Spec => []TypeOK
  BY AsyncInvariance, PTL DEF AsyncInv

\* complete, cancel and the reaper write an end and its webhook delivery in one
\* statement: a delivery exists exactly for the ends that asked for one, names
\* that end, and is marked delivered only after the receiver had it.
THEOREM AsyncEndsAreAnnounced == Spec => []EveryEndIsAnnounced
  BY AsyncInvariance, PTL DEF AsyncInv

\* The billing identity of an attempt is carried by one goroutine of all
\* processes, zombies included, and no task waits for an attempt whose identity
\* has been billed, although the reaper and releaseWorker hand attempts back.
THEOREM AsyncIdentitiesAreUnique == Spec => []OneRunPerIdentity
  BY AsyncInvariance, PTL DEF AsyncInv

LEMMA StepsKeepEnds ==
  ASSUME AsyncInv, [Next]_vars
  PROVE  EndStep
<1>1. CASE AsyncStep
  <2> SUFFICES ASSUME NEW t \in Task, rows[t].status \in Ended
               PROVE  /\ rows'[t].status \in {rows[t].status, "deleted"}
                      /\ rows'[t].status # "deleted" => deliveries'[t].event = deliveries[t].event
    BY DEF EndStep
  <2>1. TaskMoves(t) /\ ~ EndedNow(t)
    BY <1>1 DEF AsyncStep, EndedNow, Running, Ended
  <2>2. CASE RowMoves(t) /\ DeliveryKept(t)
    <3>1. RowKept(t)
      BY <2>2 DEF RowMoves, Submitted, Requeued, Released, Ended
    <3> QED BY <2>2, <3>1 DEF RowKept, DeliveryKept
  <2>3. CASE Removed(t)
    BY <2>3 DEF Removed
  <2> QED BY <2>1, <2>2, <2>3 DEF TaskMoves
<1>2. ASSUME NEW w \in Worker, NEW t \in Task, Claim(w, t) PROVE EndStep
  <2>1. rows[t].status \notin Ended /\ \A u \in Task : u # t => rows'[u] = rows[u]
    BY <1>2 DEF Claim, Ended, AsyncInv, TypeOK
  <2>2. deliveries' = deliveries
    BY <1>2 DEF Claim
  <2> QED BY <2>1, <2>2 DEF EndStep
<1>3. CASE UNCHANGED vars
  BY <1>3 DEF vars, EndStep
<1> QED BY <1>1, <1>2, <1>3, AsyncSteps

\* The first end of a task wins: a zombie's late result, the reaper and a
\* cancellation that come after it find the row no longer theirs, and the
\* notice keeps the end it was written with.
THEOREM AsyncEndsAreFinal == Spec => EndsAreFinal
<1>1. AsyncInv /\ [Next]_vars => [EndStep]_vars
  BY StepsKeepEnds
<1> QED BY <1>1, AsyncInvariance, PTL DEF Spec, EndsAreFinal

-----------------------------------------------------------------------------
(* Deliveries with one sender in each process. *)

OneSenderEach == \A r, s \in Sender : home[r] = home[s] => r = s

NoneStranded == \A t \in Task : ~ Stranded(t)

\* A sender that still holds its delivery is the last that has claimed it: the
\* attempt it judges by is the attempt in the row.
SenderIsCurrent(s) ==
  LET d == deliveries[sends[s].task]
  IN  sends[s].pc # "idle" /\ Holds(d, home[s]) =>
        /\ sends[s].pc = "sending" => sends[s].attempt = d.attempt
        /\ sends[s].pc = "finishing" /\ sends[s].outcome = "pending" => d.attempt < MaxSends

LoneInv ==
  /\ OneSenderEach
  /\ NoneStranded
  /\ \A s \in Sender : SenderIsCurrent(s)

\* What any step but a claim does to a delivery: it puts it into the queue only
\* with sends left, gives it to nobody and leaves the attempt of its holder.
NotGiven(t) ==
  /\ deliveries'[t].status = "pending" => ~ (deliveries'[t].attempt >= MaxSends)
  /\ \A p \in Process : Holds(deliveries'[t], p) =>
       Holds(deliveries[t], p) /\ deliveries'[t].attempt = deliveries[t].attempt

\* What any step but a claim and a send does to a sender.
SenderRests(s) == sends'[s] = sends[s] \/ sends'[s].pc = "idle"

LEMMA NotGivenKept ==
  ASSUME LoneInv, AsyncInv, NEW t \in Task, deliveries'[t] = deliveries[t]
  PROVE  NotGiven(t)
  BY Numbers DEF NotGiven, LoneInv, NoneStranded, Stranded

LEMMA NotGivenEnded ==
  ASSUME NEW t \in Task, deliveries'[t].status \notin {"pending", "running"}
  PROVE  NotGiven(t)
  BY DEF NotGiven, Holds

LEMMA QuietStepsKeep ==
  ASSUME LoneInv, AsyncInv, \A t \in Task : NotGiven(t), \A s \in Sender : SenderRests(s)
  PROVE  LoneInv'
<1>1. NoneStranded'
  BY DEF NoneStranded, Stranded, NotGiven
<1>2. ASSUME NEW s \in Sender PROVE SenderIsCurrent(s)'
  <2>1. CASE sends'[s].pc = "idle"
    BY <2>1 DEF SenderIsCurrent
  <2>2. CASE sends'[s] = sends[s] /\ sends[s].pc # "idle"
    <3>1. sends[s].task \in Task /\ home[s] \in Process
      BY <2>2, AsyncTasksAssumption DEF AsyncInv, GoroutinesAreBusy
    <3>2. NotGiven(sends[s].task) /\ SenderIsCurrent(s)
      BY <3>1 DEF LoneInv
    <3> QED BY <2>2, <3>1, <3>2 DEF SenderIsCurrent, NotGiven
  <2> QED BY <2>1, <2>2 DEF SenderRests
<1> QED BY <1>1, <1>2 DEF LoneInv, OneSenderEach

LEMMA StillKeeps ==
  ASSUME LoneInv, AsyncInv, deliveries' = deliveries, sends' = sends
  PROVE  LoneInv'
<1>1. \A t \in Task : NotGiven(t)
  BY NotGivenKept
<1>2. \A s \in Sender : SenderRests(s)
  BY DEF SenderRests
<1> QED BY <1>1, <1>2, QuietStepsKeep

\* The delivery of an end starts with no send used.
LEMMA EnqueueIsNotGiven ==
  ASSUME LoneInv, AsyncInv, NEW t \in Task, NEW e \in Ended, deliveries'[t] = Enqueue(t, e)
  PROVE  NotGiven(t)
<1>1. CASE deliveries[t].status = "none" /\ t \in Webhook
  <2>1. deliveries'[t].status = "pending" /\ deliveries'[t].attempt = 0
    BY <1>1, EnqueueFacts DEF AsyncInv
  <2>2. ~ (0 >= MaxSends)
    BY AsyncTasksAssumption
  <2> QED BY <2>1, <2>2 DEF NotGiven, Holds
<1>2. CASE ~ (deliveries[t].status = "none" /\ t \in Webhook)
  <2>1. deliveries'[t] = deliveries[t]
    BY <1>2, EnqueueFacts DEF AsyncInv
  <2> QED BY <2>1, NotGivenKept
<1> QED BY <1>1, <1>2

LEMMA EndsKeepLone ==
  ASSUME LoneInv, AsyncInv, sends' = sends,
         \A t \in Task : \/ deliveries'[t] = deliveries[t]
                         \/ \E e \in Ended : deliveries'[t] = Enqueue(t, e)
  PROVE  LoneInv'
<1>1. \A t \in Task : NotGiven(t)
  BY NotGivenKept, EnqueueIsNotGiven
<1>2. \A s \in Sender : SenderRests(s)
  BY DEF SenderRests
<1> QED BY <1>1, <1>2, QuietStepsKeep

LEMMA CancelKeepsLone ==
  ASSUME LoneInv, AsyncInv, NEW t \in Task, NEW p \in Process, Cancel(t, p)
  PROVE  LoneInv'
<1>1. sends' = sends /\ deliveries' = [deliveries EXCEPT ![t] = Enqueue(t, "cancelled")]
  BY DEF Cancel
<1>2. deliveries \in [Task -> Delivery] /\ "cancelled" \in Ended
  BY DEF AsyncInv, TypeOK, Ended
<1>3. /\ deliveries'[t] = Enqueue(t, "cancelled")
      /\ \A u \in Task : u # t => deliveries'[u] = deliveries[u]
  BY <1>1, <1>2
<1> QED BY <1>1, <1>2, <1>3, EndsKeepLone

LEMMA WriteTerminalKeepsLone ==
  ASSUME LoneInv, AsyncInv, NEW w \in Worker, WriteTerminal(w)
  PROVE  LoneInv'
<1> DEFINE t == runs[w].task
           e == runs[w].result
<1>1. t \in Task /\ e \in Ended
  <2>1. runs[w] \in RunRow /\ runs[w].pc = "writing"
    BY DEF WriteTerminal, AsyncInv, TypeOK
  <2>2. e \in {"none", "completed", "failed"} /\ e # "none" /\ t \in Task
    BY <2>1 DEF RunRow, AsyncInv, GoroutinesAreBusy
  <2> QED BY <2>2 DEF Ended
<1>2. /\ sends' = sends
      /\ deliveries' = deliveries \/ deliveries' = [deliveries EXCEPT ![t] = Enqueue(t, e)]
  BY DEF WriteTerminal
<1>3. deliveries \in [Task -> Delivery]
  BY DEF AsyncInv, TypeOK
<1> HIDE DEF t, e
<1>4. ASSUME NEW u \in Task
      PROVE  deliveries'[u] = deliveries[u] \/ \E f \in Ended : deliveries'[u] = Enqueue(u, f)
  BY <1>1, <1>2, <1>3
<1> QED BY <1>2, <1>4, EndsKeepLone

LEMMA ReapDeadKeepsLone ==
  ASSUME LoneInv, AsyncInv, NEW p \in Process, ReapDead(p)
  PROVE  LoneInv'
<1>1. /\ sends' = sends
      /\ deliveries' = [t \in Task |-> IF Dead(t) THEN Enqueue(t, "failed") ELSE deliveries[t]]
  BY DEF ReapDead
<1>2. ASSUME NEW t \in Task
      PROVE  deliveries'[t] = deliveries[t] \/ \E f \in Ended : deliveries'[t] = Enqueue(t, f)
  BY <1>1 DEF Ended
<1> QED BY <1>1, <1>2, EndsKeepLone

LEMMA DeleteKeepsLone ==
  ASSUME LoneInv, AsyncInv, NEW t \in Task, DeleteTask(t)
  PROVE  LoneInv'
<1>1. sends' = sends /\ deliveries' = [deliveries EXCEPT ![t] = NoDelivery]
  BY DEF DeleteTask
<1>2. deliveries \in [Task -> Delivery]
  BY DEF AsyncInv, TypeOK
<1>3. deliveries'[t].status = "none" /\ \A u \in Task : u # t => deliveries'[u] = deliveries[u]
  BY <1>1, <1>2, BlankRecords
<1>4. \A u \in Task : NotGiven(u)
  BY <1>3, NotGivenKept, NotGivenEnded
<1> QED BY <1>1, <1>4, QuietStepsKeep DEF SenderRests

LEMMA ReapDeliveriesKeepsLone ==
  ASSUME LoneInv, AsyncInv, ReapDeadDeliveries
  PROVE  LoneInv'
<1> DEFINE x(t) == Rest(deliveries[t], "failed", NoProcess)
<1>1. /\ sends' = sends
      /\ deliveries' = [t \in Task |-> IF DeadDelivery(deliveries[t]) THEN x(t) ELSE deliveries[t]]
  BY DEF ReapDeadDeliveries, Rest
<1>2. ASSUME NEW t \in Task PROVE x(t).status = "failed"
  BY Numbers, RestFacts
<1> HIDE DEF x
<1>3. \A t \in Task : deliveries'[t] = deliveries[t] \/ deliveries'[t].status = "failed"
  BY <1>1, <1>2
<1>4. \A t \in Task : NotGiven(t)
  BY <1>3, NotGivenKept, NotGivenEnded
<1> QED BY <1>1, <1>4, QuietStepsKeep DEF SenderRests

LEMMA DeliveryTimeKeepsLone ==
  ASSUME LoneInv, AsyncInv, NEW t \in Task, DeliveryLapses(t) \/ RetryDelayEnds(t)
  PROVE  LoneInv'
<1>1. deliveries \in [Task -> Delivery] /\ sends' = sends
  BY DEF AsyncInv, TypeOK, DeliveryLapses, RetryDelayEnds
<1>2. /\ deliveries'[t].status = deliveries[t].status
      /\ deliveries'[t].worker = deliveries[t].worker
      /\ deliveries'[t].attempt = deliveries[t].attempt
      /\ \A u \in Task : u # t => deliveries'[u] = deliveries[u]
  <2>1. CASE DeliveryLapses(t)
    BY <1>1, <2>1, SMT DEF DeliveryLapses, Delivery
  <2>2. CASE RetryDelayEnds(t)
    BY <1>1, <2>2, SMT DEF RetryDelayEnds, Delivery
  <2> QED BY <2>1, <2>2
<1>3. NotGiven(t)
  BY <1>2 DEF NotGiven, Holds, LoneInv, NoneStranded, Stranded
<1>4. \A u \in Task : NotGiven(u)
  BY <1>2, <1>3, NotGivenKept
<1> QED BY <1>1, <1>4, QuietStepsKeep DEF SenderRests

\* A release gives back the send it has not used.
LEMMA ReleaseKeepsLone ==
  ASSUME LoneInv, AsyncInv, NEW p \in Process, Release(p)
  PROVE  LoneInv'
<1> DEFINE y(t) == Move(deliveries[t], "pending", NoProcess, TRUE, deliveries[t].attempt - 1)
<1>1. /\ sends' = sends
      /\ \/ deliveries' = [t \in Task |-> IF Holds(deliveries[t], p) THEN y(t) ELSE deliveries[t]]
         \/ UNCHANGED deliveries
  BY DEF Release, Move
<1>2. ASSUME NEW t \in Task, Holds(deliveries[t], p)
      PROVE  y(t).status = "pending" /\ y(t).attempt = deliveries[t].attempt - 1
  <2>1. deliveries[t] \in Delivery /\ deliveries[t].attempt - 1 \in Nat
    BY <1>2, Numbers DEF Holds
  <2> QED BY <2>1, ReturnedFacts
<1> HIDE DEF y
<1>3. ASSUME NEW t \in Task PROVE NotGiven(t)
  <2>1. CASE deliveries'[t] = deliveries[t]
    BY <2>1, NotGivenKept
  <2>2. CASE Holds(deliveries[t], p) /\ deliveries'[t] = y(t)
    <3>1. deliveries'[t].status = "pending" /\ deliveries'[t].attempt = deliveries[t].attempt - 1
      BY <1>2, <2>2
    <3>2. ~ (deliveries'[t].attempt >= MaxSends)
      BY <3>1, Numbers
    <3> QED BY <3>1, <3>2 DEF NotGiven, Holds
  <2> QED BY <1>1, <2>1, <2>2
<1> QED BY <1>1, <1>3, QuietStepsKeep DEF SenderRests

\* Senders that stop in whatever way leave the rows alone.
LEMMA RestingKeepsLone ==
  ASSUME LoneInv, AsyncInv, (\E s \in Sender : DropSend(s)) \/ (\E p \in Process : Crash(p))
  PROVE  LoneInv'
<1>1. deliveries' = deliveries
  BY DEF DropSend, Crash
<1>2. sends \in [Sender -> SendRow]
  BY DEF AsyncInv, TypeOK
<1>3. ASSUME NEW s \in Sender PROVE SenderRests(s)
  <2>1. ASSUME NEW v \in Sender, DropSend(v) PROVE SenderRests(s)
    <3>1. sends' = [sends EXCEPT ![v] = IdleSend]
      BY <2>1 DEF DropSend
    <3> QED BY <1>2, <3>1, BlankRecords DEF SenderRests
  <2>2. ASSUME NEW p \in Process, Crash(p) PROVE SenderRests(s)
    <3>1. sends' = [v \in Sender |-> IF home[v] = p THEN IdleSend ELSE sends[v]]
      BY <2>2 DEF Crash
    <3> QED BY <3>1, BlankRecords DEF SenderRests
  <2> QED BY <2>1, <2>2
<1>4. \A t \in Task : NotGiven(t)
  BY <1>1, NotGivenKept
<1> QED BY <1>3, <1>4, QuietStepsKeep

\* The attempt a sender has judged by is the one in the row it puts back.
LEMMA FinishKeepsLone ==
  ASSUME LoneInv, AsyncInv, NEW s \in Sender, FinishDelivery(s)
  PROVE  LoneInv'
<1> DEFINE t == sends[s].task
           d == deliveries[t]
           x == Rest(d, sends[s].outcome, NoProcess)
<1>1. /\ sends[s].pc = "finishing" /\ t \in Task
      /\ sends[s].outcome \in {"delivered", "failed", "pending"}
  <2>1. sends[s] \in SendRow
    BY DEF AsyncInv, TypeOK
  <2>2. sends[s].outcome \in {"none", "delivered", "failed", "pending"}
    BY <2>1 DEF SendRow
  <2> QED BY <2>2 DEF FinishDelivery, AsyncInv, GoroutinesAreBusy
<1>2. sends' = [sends EXCEPT ![s] = IdleSend]
  BY DEF FinishDelivery
<1>3. \A v \in Sender : SenderRests(v)
  BY <1>2, BlankRecords DEF SenderRests, AsyncInv, TypeOK
<1>4. \A u \in Task : NotGiven(u)
  <2>1. CASE Holds(d, home[s]) /\ deliveries' = [deliveries EXCEPT ![t] = x]
    <3>1. d \in Delivery /\ d.attempt \in Nat /\ MaxSends \in Nat
      BY <1>1, Numbers
    <3>2. x.status = sends[s].outcome /\ x.attempt = d.attempt
      <4> HIDE DEF d
      <4> QED BY <1>1, <3>1, RestFacts
    <3>3. sends[s].outcome = "pending" => d.attempt < MaxSends
      BY <1>1, <2>1 DEF LoneInv, SenderIsCurrent
    <3> HIDE DEF x
    <3>4. deliveries'[t] = x /\ \A u \in Task : u # t => deliveries'[u] = deliveries[u]
      BY <1>1, <2>1 DEF AsyncInv, TypeOK
    <3>5. x.status = "pending" => ~ (x.attempt >= MaxSends)
      <4> HIDE DEF d
      <4> QED BY <3>1, <3>2, <3>3
    <3>6. NotGiven(t)
      BY <1>1, <3>2, <3>4, <3>5 DEF NotGiven, Holds
    <3> HIDE DEF t
    <3> QED BY <3>4, <3>6, NotGivenKept
  <2>2. CASE UNCHANGED deliveries
    BY <2>2, NotGivenKept
  <2> QED BY <2>1, <2>2 DEF FinishDelivery, Rest
<1> QED BY <1>3, <1>4, QuietStepsKeep

LEMMA SendKeepsLone ==
  ASSUME LoneInv, AsyncInv, NEW s \in Sender, Send(s)
  PROVE  LoneInv'
<1>1. PICK a \in {"ok", "gone", "error"} :
        sends' = [sends EXCEPT ![s].pc = "finishing", ![s].attempt = 0, ![s].outcome = Classify(s, a)]
  BY DEF Send
<1>2. /\ sends[s].pc = "sending" /\ sends[s] \in SendRow /\ sends[s].task \in Task
      /\ deliveries' = deliveries /\ sends \in [Sender -> SendRow]
  BY DEF Send, AsyncInv, TypeOK, GoroutinesAreBusy
<1> DEFINE o == Classify(s, a)
           x == [sends[s] EXCEPT !.pc = "finishing", !.attempt = 0, !.outcome = o]
<1>3. o \in {"delivered", "failed", "pending"}
  BY ClassifyFacts
<1>4. o = "pending" => sends[s].attempt < MaxSends
  BY DEF Classify
<1>5. x.pc = "finishing" /\ x.outcome = o /\ x.task = sends[s].task
  <2> HIDE DEF o
  <2> QED BY <1>2, <1>3, SentFacts
<1>6. sends' = [sends EXCEPT ![s] = x]
  BY <1>1, <1>2
<1> HIDE DEF o, x
<1>7. sends'[s] = x /\ \A v \in Sender : v # s => sends'[v] = sends[v]
  BY <1>2, <1>6
<1>8. SenderIsCurrent(s)'
  <2>1. SenderIsCurrent(s)
    BY DEF LoneInv
  <2> QED BY <1>2, <1>4, <1>5, <1>7, <2>1 DEF SenderIsCurrent
<1>9. ASSUME NEW v \in Sender, v # s PROVE SenderIsCurrent(v)'
  <2>1. SenderIsCurrent(v)
    BY DEF LoneInv
  <2> QED BY <1>2, <1>7, <1>9, <2>1 DEF SenderIsCurrent
<1>10. NoneStranded'
  BY <1>2 DEF LoneInv, NoneStranded, Stranded
<1> QED BY <1>8, <1>9, <1>10 DEF LoneInv, OneSenderEach

\* A claim takes the delivery from every other sender, because each of them is
\* of another process.
LEMMA ClaimDeliveryKeepsLone ==
  ASSUME LoneInv, AsyncInv, NEW s \in Sender, NEW t \in Task, ClaimDelivery(s, t)
  PROVE  LoneInv'
<1> DEFINE d == deliveries[t]
           y == Move(d, "running", home[s], FALSE, d.attempt + 1)
           x == [pc |-> "sending", task |-> t, attempt |-> d.attempt + 1, outcome |-> "none"]
<1>1. d \in Delivery /\ home[s] \in Process
  BY Numbers, AsyncTasksAssumption
<1>2. y.status = "running" /\ y.worker = home[s] /\ y.attempt = d.attempt + 1
  <2> HIDE DEF d
  <2> QED BY <1>1, SMT DEF Move, Delivery
<1>3. deliveries' = [deliveries EXCEPT ![t] = y] /\ sends' = [sends EXCEPT ![s] = x]
  BY DEF ClaimDelivery, Move
<1>4. x.pc = "sending" /\ x.task = t /\ x.attempt = d.attempt + 1
  OBVIOUS
<1> HIDE DEF x, y
<1>5. /\ deliveries'[t] = y /\ \A u \in Task : u # t => deliveries'[u] = deliveries[u]
      /\ sends'[s] = x /\ \A v \in Sender : v # s => sends'[v] = sends[v]
  BY <1>3 DEF AsyncInv, TypeOK
<1>6. NoneStranded'
  <2>1. ~ Stranded(t)'
    BY <1>2, <1>5 DEF Stranded
  <2>2. \A u \in Task : u # t => ~ Stranded(u)'
    BY <1>5 DEF LoneInv, NoneStranded, Stranded
  <2> QED BY <2>1, <2>2 DEF NoneStranded
<1>7. SenderIsCurrent(s)'
  <2> HIDE DEF d
  <2> QED BY <1>2, <1>4, <1>5 DEF SenderIsCurrent
<1>8. ASSUME NEW v \in Sender, v # s PROVE SenderIsCurrent(v)'
  <2>1. SenderIsCurrent(v) /\ home[v] # home[s]
    BY <1>8 DEF LoneInv, OneSenderEach
  <2>2. CASE sends[v].pc = "idle"
    BY <1>5, <1>8, <2>2 DEF SenderIsCurrent
  <2>3. CASE sends[v].pc # "idle" /\ sends[v].task = t
    <3>1. ~ Holds(deliveries'[t], home[v])
      BY <1>2, <1>5, <2>1 DEF Holds
    <3> QED BY <1>5, <1>8, <2>3, <3>1 DEF SenderIsCurrent
  <2>4. CASE sends[v].pc # "idle" /\ sends[v].task # t
    <3>1. sends[v].task \in Task
      BY <2>4 DEF AsyncInv, GoroutinesAreBusy
    <3> QED BY <1>5, <1>8, <2>1, <2>4, <3>1 DEF SenderIsCurrent
  <2> QED BY <2>2, <2>3, <2>4
<1> QED BY <1>6, <1>7, <1>8 DEF LoneInv, OneSenderEach

LEMMA LoneSteps ==
  ASSUME LoneInv, AsyncInv, [Next]_vars
  PROVE  LoneInv'
<1>1. ASSUME NEW t \in Task, TaskStep(t) PROVE LoneInv'
  <2>1. CASE Submit(t) \/ \E w \in Worker : Claim(w, t)
    BY <2>1, StillKeeps DEF Submit, Claim
  <2> QED BY <1>1, <2>1, DeleteKeepsLone, CancelKeepsLone, ClaimDeliveryKeepsLone DEF TaskStep
<1>2. ASSUME NEW t \in Task, TimePasses(t) PROVE LoneInv'
  <2>1. CASE LeaseLapses(t) \/ BackoffEnds(t)
    BY <2>1, StillKeeps DEF LeaseLapses, BackoffEnds
  <2> QED BY <1>2, <2>1, DeliveryTimeKeepsLone DEF TimePasses
<1>3. ASSUME NEW w \in Worker, WorkerStep(w) PROVE LoneInv'
  <2>1. CASE Heartbeat(w) \/ Bill(w) \/ ExecuteFails(w) \/ LeaveLease(w) \/ WriteFails(w)
    BY <2>1, StillKeeps DEF Heartbeat, Bill, ExecuteFails, LeaveLease, WriteFails
  <2> QED BY <1>3, <2>1, WriteTerminalKeepsLone DEF WorkerStep
<1>4. ASSUME NEW s \in Sender, SenderStep(s) PROVE LoneInv'
  BY <1>4, SendKeepsLone, FinishKeepsLone, RestingKeepsLone DEF SenderStep
<1>5. ASSUME NEW p \in Process, ProcessStep(p) PROVE LoneInv'
  <2>1. CASE ReapRetryable(p) \/ Stop(p)
    BY <2>1, StillKeeps DEF ReapRetryable, Stop
  <2> QED BY <1>5, <2>1, ReapDeadKeepsLone, ReleaseKeepsLone, RestingKeepsLone DEF ProcessStep
<1>6. CASE UNCHANGED vars
  BY <1>6, StillKeeps DEF vars
<1> QED BY <1>1, <1>2, <1>3, <1>4, <1>5, <1>6, ReapDeliveriesKeepsLone DEF Next

\* If every process has one sender, finishDelivery's match on worker_id fences a
\* sender whose delivery was taken over, as the plan of the refactoring says it
\* does: no delivery ever waits in the queue with its sends used up.  With the
\* default of two senders in a process it can.
THEOREM LoneSendersStrandNothing == OneSenderEach /\ Spec => []NoneStranded
<1>1. OneSenderEach /\ Init => LoneInv
  BY AsyncTasksAssumption, BlankRecords
  DEF Init, LoneInv, NoneStranded, Stranded, SenderIsCurrent
<1>2. LoneInv /\ AsyncInv /\ [Next]_vars => LoneInv'
  BY LoneSteps
<1>3. LoneInv => NoneStranded
  BY DEF LoneInv
<1> QED BY <1>1, <1>2, <1>3, AsyncInvariance, PTL DEF Spec
=============================================================================
