-------------------------- MODULE SettlementProofs --------------------------
(***************************************************************************)
(* The request store for any requests, executions, workers, prices and     *)
(* retention: the safety properties of Settlement and its refinement of    *)
(* Charges.                                                                *)
(***************************************************************************)
EXTENDS Settlement, TLAPS

\* What a worker is posting is pending, and nobody else is posting it: the
\* row lock of Pick.
PostingIsLocked ==
  \A w \in Worker : workers[w].pc = "posting" =>
    /\ rows[workers[w].req].state = "pending"
    /\ \A v \in Worker : workers[v].pc = "posting" /\ workers[v].req = workers[w].req => v = w

\* A settlement that is not there is blank, and one that is waived costs
\* nothing.
RowsAreTidy ==
  \A r \in Request : /\ rows[r].state = "none" => rows[r] = NoRow
                     /\ rows[r].state = "waived" => rows[r].due = 0

\* An identity is registered after it was created, and what retention has
\* dropped was created in a period that is closed.
DatesAreOrdered ==
  \A r \in Request : /\ keys[r].state # "none" => origin[r] <= keys[r].at
                     /\ r \in retired => origin[r] < control.closedBefore

\* An execution runs after its identity was created, and one that was served
\* has left a key, or a key that retention has dropped.
RunsAreKnown ==
  \A e \in Execution :
    /\ runs[e].pc # "new" => origin[identity[e]] <= month
    /\ runs[e].served => keys[identity[e]].state # "none" \/ identity[e] \in retired

SettlementInv ==
  /\ TypeOK
  /\ KeysAndRowsAgree
  /\ EffectsMatchSettlement
  /\ RowsAreTidy
  /\ DatesAreOrdered
  /\ RunsAreKnown
  /\ OneExecutionServes
  /\ PostingIsLocked

-----------------------------------------------------------------------------
(* The rows of the tables. *)

\* The blank rows, and what they say.
LEMMA BlankRows ==
  /\ NoKey \in KeyRow /\ NoKey.state = "none"
  /\ NoRow \in SettleRow /\ NoRow.state = "none" /\ NoRow.due = 0 /\ NoRow.at = 0
  /\ NoRow.interrupted = FALSE
  /\ NoEffect \in Effect
  BY SMT DEF NoKey, NoRow, NoEffect, KeyRow, SettleRow, Effect, RowState

\* Registration opens a key dated now; sealing keeps the date.
LEMMA KeyFacts ==
  ASSUME TypeOK
  PROVE  /\ OpenKey \in KeyRow /\ OpenKey.state = "open" /\ OpenKey.at = month
         /\ \A k \in KeyRow : /\ SealKey(k) \in KeyRow
                              /\ SealKey(k).state = "sealed" /\ SealKey(k).at = k.at
         /\ \A k \in KeyRow, b \in BOOLEAN :
              /\ [k EXCEPT !.live = b] \in KeyRow
              /\ [k EXCEPT !.live = b].state = k.state
              /\ [k EXCEPT !.live = b].at = k.at
  BY SMT DEF TypeOK, OpenKey, SealKey, KeyRow

\* The row a decision makes.
LEMMA SealedRowFacts ==
  ASSUME NEW at \in Nat, NEW due \in Nat, NEW b \in BOOLEAN
  PROVE  /\ SealedRow(at, due, b) \in SettleRow
         /\ SealedRow(at, due, b).state = (IF due = 0 THEN "waived" ELSE "pending")
         /\ SealedRow(at, due, b).due = due
         /\ SealedRow(at, due, b).at = at
         /\ SealedRow(at, due, b).interrupted = b
  BY SMT DEF SealedRow, SettleRow, RowState

\* A row that keeps its state, its charge and its date: what the loops, the
\* clock and the delivery record change.
LEMMA RowFlags ==
  ASSUME NEW x \in SettleRow
  PROVE  /\ \A b \in BOOLEAN : /\ [x EXCEPT !.ready = b] \in SettleRow
                               /\ [x EXCEPT !.stale = b] \in SettleRow
                               /\ [x EXCEPT !.interrupted = b] \in SettleRow
         /\ \A n \in Nat : [x EXCEPT !.attempts = n] \in SettleRow
         /\ \A s \in RowState : [x EXCEPT !.state = s] \in SettleRow
<1>1. \A b \in BOOLEAN : [x EXCEPT !.ready = b] \in SettleRow
  BY SMT DEF SettleRow
<1>2. \A b \in BOOLEAN : [x EXCEPT !.stale = b] \in SettleRow
  BY SMT DEF SettleRow
<1>3. \A b \in BOOLEAN : [x EXCEPT !.interrupted = b] \in SettleRow
  BY SMT DEF SettleRow
<1>4. \A n \in Nat : [x EXCEPT !.attempts = n] \in SettleRow
  BY SMT DEF SettleRow
<1>5. \A s \in RowState : [x EXCEPT !.state = s] \in SettleRow
  BY SMT DEF SettleRow
<1> QED BY <1>1, <1>2, <1>3, <1>4, <1>5

\* What the updates of a settlement row do to what the other tables depend on.
LEMMA RowFacts ==
  ASSUME NEW x \in SettleRow
  PROVE  /\ Interrupt(x) \in SettleRow /\ Interrupt(x).state = x.state
         /\ Interrupt(x).due = x.due /\ Interrupt(x).at = x.at /\ Interrupt(x).interrupted = TRUE
         /\ PostRow(x) \in SettleRow /\ PostRow(x).state = "posted" /\ PostRow(x).due = x.due
         /\ PostRow(x).at = x.at /\ PostRow(x).interrupted = x.interrupted
         /\ RefundRow(x) \in SettleRow /\ RefundRow(x).state = "refunded"
         /\ RefundRow(x).due = x.due /\ RefundRow(x).at = x.at
         /\ RefundRow(x).interrupted = x.interrupted
         /\ FailRow(x) \in SettleRow
         /\ FailRow(x).state = (IF x.attempts >= ReviewAfter THEN "review" ELSE "pending")
         /\ FailRow(x).due = x.due /\ FailRow(x).at = x.at
         /\ FailRow(x).interrupted = x.interrupted
<1>1. /\ Interrupt(x) \in SettleRow /\ Interrupt(x).state = x.state
      /\ Interrupt(x).due = x.due /\ Interrupt(x).at = x.at /\ Interrupt(x).interrupted = TRUE
  <2>1. Interrupt(x) \in SettleRow
    BY RowFlags, TRUE \in BOOLEAN DEF Interrupt
  <2>2. /\ Interrupt(x).state = x.state /\ Interrupt(x).due = x.due /\ Interrupt(x).at = x.at
    BY SMT DEF Interrupt, SettleRow
  <2>3. Interrupt(x).interrupted = TRUE
    BY Zenon DEF Interrupt, SettleRow
  <2> QED BY <2>1, <2>2, <2>3
<1>2. /\ PostRow(x) \in SettleRow /\ PostRow(x).state = "posted" /\ PostRow(x).due = x.due
      /\ PostRow(x).at = x.at /\ PostRow(x).interrupted = x.interrupted
  BY SMT DEF PostRow, SettleRow, RowState
<1>3. /\ RefundRow(x) \in SettleRow /\ RefundRow(x).state = "refunded"
      /\ RefundRow(x).due = x.due /\ RefundRow(x).at = x.at
      /\ RefundRow(x).interrupted = x.interrupted
  BY SMT DEF RefundRow, SettleRow, RowState
<1>4. FailRow(x) \in SettleRow
  <2> DEFINE a == [x EXCEPT !.attempts = x.attempts + 1]
             b == [a EXCEPT !.ready = FALSE]
             s == IF x.attempts >= ReviewAfter THEN "review" ELSE "pending"
             c == [b EXCEPT !.state = s]
  <2>1. x.attempts + 1 \in Nat /\ s \in RowState
    BY SMT DEF SettleRow, RowState
  <2>2. a \in SettleRow
    BY <2>1, RowFlags
  <2> HIDE DEF a
  <2>3. b \in SettleRow
    BY <2>2, RowFlags
  <2> HIDE DEF b
  <2>4. c \in SettleRow
    BY <2>1, <2>3, RowFlags
  <2>5. FailRow(x) = c
    BY DEF FailRow, a, b
  <2> QED BY <2>4, <2>5
<1>5. /\ FailRow(x).state = (IF x.attempts >= ReviewAfter THEN "review" ELSE "pending")
      /\ FailRow(x).due = x.due /\ FailRow(x).at = x.at
      /\ FailRow(x).interrupted = x.interrupted
  BY SMT DEF FailRow, SettleRow
<1> QED BY <1>1, <1>2, <1>3, <1>4, <1>5

\* An effect of which one sum is given another value is an effect.
LEMMA EffectSums ==
  ASSUME NEW x \in Effect, NEW n \in Nat
  PROVE  /\ [x EXCEPT !.charged = n] \in Effect
         /\ [x EXCEPT !.refunded = n] \in Effect
         /\ [x EXCEPT !.quota = n] \in Effect
         /\ [x EXCEPT !.requests = n] \in Effect
         /\ [x EXCEPT !.interruptions = n] \in Effect
<1>1. [x EXCEPT !.charged = n] \in Effect
  BY SMT DEF Effect
<1>2. [x EXCEPT !.refunded = n] \in Effect
  BY SMT DEF Effect
<1>3. [x EXCEPT !.quota = n] \in Effect
  BY SMT DEF Effect
<1>4. [x EXCEPT !.requests = n] \in Effect
  BY SMT DEF Effect
<1>5. [x EXCEPT !.interruptions = n] \in Effect
  BY SMT DEF Effect
<1> QED BY <1>1, <1>2, <1>3, <1>4, <1>5

\* A counted request, with or without an interrupted delivery.
LEMMA CountRequestFacts ==
  ASSUME NEW x \in Effect, NEW b \in BOOLEAN
  PROVE  /\ CountRequest(x, b) \in Effect
         /\ CountRequest(x, b).requests = x.requests + 1
         /\ CountRequest(x, b).interruptions = x.interruptions + One(b)
         /\ CountRequest(x, b).charged = x.charged
         /\ CountRequest(x, b).refunded = x.refunded
         /\ CountRequest(x, b).quota = x.quota
<1> DEFINE y == [x EXCEPT !.requests = x.requests + 1]
           z == [y EXCEPT !.interruptions = x.interruptions + One(b)]
<1>1. x.requests + 1 \in Nat /\ x.interruptions + One(b) \in Nat
  BY SMT DEF Effect, One
<1>2. y \in Effect
  BY <1>1, EffectSums
<1>3. z \in Effect
  <2> HIDE DEF y
  <2> QED BY <1>1, <1>2, EffectSums
<1>4. CountRequest(x, b) = z
  BY DEF CountRequest
<1>5. /\ z.requests = x.requests + 1 /\ z.interruptions = x.interruptions + One(b)
      /\ z.charged = x.charged /\ z.refunded = x.refunded /\ z.quota = x.quota
  <2> HIDE DEF One
  <2> QED BY SMT DEF Effect
<1> HIDE DEF z
<1> QED BY <1>3, <1>4, <1>5

\* A delivery that turns out to have been interrupted.
LEMMA CountInterruptionFacts ==
  ASSUME NEW x \in Effect
  PROVE  /\ CountInterruption(x) \in Effect
         /\ CountInterruption(x).requests = x.requests
         /\ CountInterruption(x).interruptions = x.interruptions + 1
         /\ CountInterruption(x).charged = x.charged
         /\ CountInterruption(x).refunded = x.refunded
         /\ CountInterruption(x).quota = x.quota
<1>1. x.interruptions + 1 \in Nat
  BY SMT DEF Effect
<1>2. CountInterruption(x) \in Effect
  BY <1>1, EffectSums DEF CountInterruption
<1>3. /\ CountInterruption(x).requests = x.requests
      /\ CountInterruption(x).interruptions = x.interruptions + 1
      /\ CountInterruption(x).charged = x.charged
      /\ CountInterruption(x).refunded = x.refunded
      /\ CountInterruption(x).quota = x.quota
  BY SMT DEF CountInterruption, Effect
<1> QED BY <1>2, <1>3

\* A charge adds to the money and the quota.
LEMMA ChargeFacts ==
  ASSUME NEW x \in Effect, NEW d \in Nat, NEW k \in Nat
  PROVE  /\ ChargeEffect(x, d, k) \in Effect
         /\ ChargeEffect(x, d, k).charged = x.charged + d
         /\ ChargeEffect(x, d, k).quota = x.quota + k
         /\ ChargeEffect(x, d, k).refunded = x.refunded
         /\ ChargeEffect(x, d, k).requests = x.requests
         /\ ChargeEffect(x, d, k).interruptions = x.interruptions
<1> DEFINE y == [x EXCEPT !.charged = x.charged + d]
           z == [y EXCEPT !.quota = x.quota + k]
<1>1. x.charged + d \in Nat /\ x.quota + k \in Nat
  BY SMT DEF Effect
<1>2. y \in Effect
  BY <1>1, EffectSums
<1>3. z \in Effect
  <2> HIDE DEF y
  <2> QED BY <1>1, <1>2, EffectSums
<1>4. ChargeEffect(x, d, k) = z
  BY DEF ChargeEffect
<1>5. /\ z.charged = x.charged + d /\ z.quota = x.quota + k
      /\ z.refunded = x.refunded /\ z.requests = x.requests
      /\ z.interruptions = x.interruptions
  BY SMT DEF Effect
<1> HIDE DEF z
<1> QED BY <1>3, <1>4, <1>5

\* A refund takes from the quota what it has.
LEMMA RefundFacts ==
  ASSUME NEW x \in Effect, NEW d \in Nat, NEW k \in Nat, k <= x.quota
  PROVE  /\ RefundEffect(x, d, k) \in Effect
         /\ RefundEffect(x, d, k).refunded = x.refunded + d
         /\ RefundEffect(x, d, k).quota = x.quota - k
         /\ RefundEffect(x, d, k).charged = x.charged
         /\ RefundEffect(x, d, k).requests = x.requests
         /\ RefundEffect(x, d, k).interruptions = x.interruptions
<1> DEFINE y == [x EXCEPT !.refunded = x.refunded + d]
           z == [y EXCEPT !.quota = x.quota - k]
<1>1. x.refunded + d \in Nat /\ x.quota - k \in Nat
  BY SMT DEF Effect
<1>2. y \in Effect
  BY <1>1, EffectSums
<1>3. z \in Effect
  <2> HIDE DEF y
  <2> QED BY <1>1, <1>2, EffectSums
<1>4. RefundEffect(x, d, k) = z
  BY DEF RefundEffect
<1>5. /\ z.refunded = x.refunded + d /\ z.quota = x.quota - k
      /\ z.charged = x.charged /\ z.requests = x.requests
      /\ z.interruptions = x.interruptions
  BY SMT DEF Effect
<1> HIDE DEF z
<1> QED BY <1>3, <1>4, <1>5

-----------------------------------------------------------------------------
(* The steps of an execution. *)

\* Execution e goes on, without being served anew.
RunMoves(e) ==
  /\ runs' \in [Execution -> Run]
  /\ \A f \in Execution : runs'[f].served = runs[f].served
  /\ \A f \in Execution \ {e} : runs'[f] = runs[f]

\* A run of which one field is given another value of its type is a run.
LEMMA RunFields ==
  ASSUME NEW x \in Run
  PROVE  /\ \A p \in {"new", "admitted", "running", "sealing", "finalizing", "closing", "ended"} :
              [x EXCEPT !.pc = p] \in Run
         /\ \A b \in BOOLEAN : [x EXCEPT !.beating = b] \in Run /\ [x EXCEPT !.served = b] \in Run
         /\ \A t \in {"nothing", "reply", "error"} : [x EXCEPT !.told = t] \in Run
<1>1. \A p \in {"new", "admitted", "running", "sealing", "finalizing", "closing", "ended"} :
        [x EXCEPT !.pc = p] \in Run
  BY SMT DEF Run
<1>2. \A b \in BOOLEAN : [x EXCEPT !.beating = b] \in Run /\ [x EXCEPT !.served = b] \in Run
  BY SMT DEF Run
<1>3. \A t \in {"nothing", "reply", "error"} : [x EXCEPT !.told = t] \in Run
  BY SMT DEF Run
<1> QED BY <1>1, <1>2, <1>3

\* An execution replaced by one as much served moves.
LEMMA RunReplaced ==
  ASSUME TypeOK, NEW e \in Execution, NEW x \in Run, x.served = runs[e].served,
         runs' = [runs EXCEPT ![e] = x]
  PROVE  RunMoves(e) /\ runs'[e] = x
  BY DEF TypeOK, RunMoves

\* A run that is given another place, another lease loop, another answer.
Place  == {"admitted", "running", "sealing", "finalizing", "closing", "ended"}
Answer == {"nothing", "reply", "error"}

LEMMA PlacedRun ==
  ASSUME NEW x \in Run, NEW p \in Place
  PROVE  LET y == [x EXCEPT !.pc = p]
         IN  y \in Run /\ y.pc = p /\ y.served = x.served
  BY RunFields, SMT DEF Run, Place

LEMMA BeatenRun ==
  ASSUME NEW x \in Run, NEW b \in BOOLEAN
  PROVE  LET y == [x EXCEPT !.beating = b]
         IN  y \in Run /\ y.pc = x.pc /\ y.served = x.served
  BY RunFields, SMT DEF Run

LEMMA ToldRun ==
  ASSUME NEW x \in Run, NEW t \in Answer
  PROVE  LET y == [x EXCEPT !.told = t]
         IN  y \in Run /\ y.pc = x.pc /\ y.served = x.served
  BY RunFields, SMT DEF Run, Answer

LEMMA StoppedRun ==
  ASSUME NEW x \in Run, NEW p \in Place, NEW b \in BOOLEAN
  PROVE  LET z == [x EXCEPT !.pc = p, !.beating = b]
         IN  z \in Run /\ z.pc = p /\ z.served = x.served
<1> DEFINE y == [x EXCEPT !.pc = p]
           z == [y EXCEPT !.beating = b]
<1>1. y \in Run /\ y.pc = p /\ y.served = x.served
  BY PlacedRun
<1>2. z \in Run /\ z.pc = p /\ z.served = x.served
  <2> HIDE DEF y
  <2> QED BY <1>1, BeatenRun
<1> QED BY <1>2

LEMMA AnsweredRun ==
  ASSUME NEW x \in Run, NEW p \in Place, NEW t \in Answer
  PROVE  LET z == [x EXCEPT !.pc = p, !.told = t]
         IN  z \in Run /\ z.pc = p /\ z.served = x.served
<1> DEFINE y == [x EXCEPT !.pc = p]
           z == [y EXCEPT !.told = t]
<1>1. y \in Run /\ y.pc = p /\ y.served = x.served
  BY PlacedRun
<1>2. z \in Run /\ z.pc = p /\ z.served = x.served
  <2> HIDE DEF y
  <2> QED BY <1>1, ToldRun
<1> QED BY <1>2

LEMMA RefusedRun ==
  ASSUME NEW x \in Run, NEW p \in Place, NEW t \in Answer, NEW b \in BOOLEAN
  PROVE  LET z == [x EXCEPT !.pc = p, !.told = t, !.beating = b]
         IN  z \in Run /\ z.pc = p /\ z.served = x.served
<1> DEFINE y == [x EXCEPT !.pc = p, !.told = t]
           z == [y EXCEPT !.beating = b]
<1>1. y \in Run /\ y.pc = p /\ y.served = x.served
  BY AnsweredRun, ZenonT(60)
<1>2. z \in Run /\ z.pc = p /\ z.served = x.served
  <2> HIDE DEF y
  <2> QED BY <1>1, BeatenRun
<1> QED BY <1>2

LEMMA ReturnedRun ==
  ASSUME NEW x \in Run, NEW p \in Place, NEW t \in Answer, NEW b \in BOOLEAN
  PROVE  LET z == [x EXCEPT !.beating = b, !.told = t, !.pc = p]
         IN  z \in Run /\ z.pc = p /\ z.served = x.served
<1> DEFINE m == [x EXCEPT !.beating = b]
           n == [m EXCEPT !.told = t]
           z == [n EXCEPT !.pc = p]
<1>1. m \in Run /\ m.served = x.served
  BY BeatenRun
<1>2. n \in Run /\ n.served = x.served
  <2> HIDE DEF m
  <2> QED BY <1>1, ToldRun
<1>3. z \in Run /\ z.pc = p /\ z.served = x.served
  <2> HIDE DEF n
  <2> QED BY <1>2, PlacedRun
<1> QED BY <1>3

\* The ways an execution moves: to another place,
LEMMA GotoMoves ==
  ASSUME TypeOK, NEW e \in Execution,
         NEW p \in Place,
         Goto(e, p)
  PROVE  RunMoves(e) /\ runs'[e].pc = p
<1> DEFINE x == [runs[e] EXCEPT !.pc = p]
<1>1. runs[e] \in Run
  BY DEF TypeOK
<1>2. x \in Run /\ x.pc = p /\ x.served = runs[e].served
  BY <1>1, PlacedRun
<1>3. runs' = [runs EXCEPT ![e] = x]
  BY DEF Goto
<1> HIDE DEF x
<1> QED BY <1>2, <1>3, RunReplaced DEF Place

\* to its finalizer, after an error,
LEMMA RefuseMoves ==
  ASSUME TypeOK, NEW e \in Execution, Refuse(e)
  PROVE  RunMoves(e)
<1> DEFINE x == [runs[e] EXCEPT !.pc = "finalizing", !.told = "error", !.beating = FALSE]
<1>1. runs[e] \in Run
  BY DEF TypeOK
<1>2. x \in Run /\ x.pc = "finalizing" /\ x.served = runs[e].served
  BY <1>1, "finalizing" \in Place, "error" \in Answer, FALSE \in BOOLEAN, RefusedRun DEF Place, Answer
<1>3. runs' = [runs EXCEPT ![e] = x]
  BY DEF Refuse
<1> HIDE DEF x
<1> QED BY <1>2, <1>3, RunReplaced

\* and when Log returns to it.
LEMMA LogReturnsMoves ==
  ASSUME TypeOK, NEW e \in Execution, NEW ok \in BOOLEAN, LogReturns(e, ok)
  PROVE  RunMoves(e)
<1> DEFINE t == IF runs[e].pc = "sealing" THEN (IF ok THEN "reply" ELSE "error") ELSE runs[e].told
           p == IF runs[e].pc = "sealing" THEN "finalizing" ELSE "ended"
           x == [runs[e] EXCEPT !.beating = FALSE, !.told = t, !.pc = p]
<1>1. runs[e] \in Run /\ runs[e].told \in {"nothing", "reply", "error"}
  BY DEF TypeOK, Run
<1>2. /\ t \in Answer
      /\ p \in Place /\ p # "new"
  BY <1>1 DEF Place, Answer
<1>3. runs' = [runs EXCEPT ![e] = x]
  BY DEF LogReturns
<1> HIDE DEF t, p
<1>4. x \in Run /\ x.pc = p /\ x.served = runs[e].served
  BY <1>1, <1>2, FALSE \in BOOLEAN, ReturnedRun, ZenonT(60)
<1> HIDE DEF x
<1> QED BY <1>2, <1>3, <1>4, RunReplaced

\* What only an execution changes leaves the tables right.
LEMMA RunStepKeeps ==
  ASSUME SettlementInv, NEW e \in Execution, RunMoves(e),
         runs'[e].pc # "new" => origin[identity[e]] <= month,
         UNCHANGED <<month, control, apiKey, origin, keys, rows, effects, retired, workers,
                     maintenance>>
  PROVE  SettlementInv'
<1> USE SettlementAssumption
<1>1. TypeOK'
  BY DEF SettlementInv, TypeOK, RunMoves
<1>2. /\ KeysAndRowsAgree' /\ EffectsMatchSettlement' /\ RowsAreTidy' /\ DatesAreOrdered'
      /\ PostingIsLocked'
  BY DEF SettlementInv, KeysAndRowsAgree, EffectsMatchSettlement, RowsAreTidy, DatesAreOrdered,
         PostingIsLocked, KeyDue
<1>3. RunsAreKnown'
  BY DEF SettlementInv, RunsAreKnown, RunMoves
<1>4. OneExecutionServes'
  BY DEF SettlementInv, OneExecutionServes, RunMoves
<1> QED BY <1>1, <1>2, <1>3, <1>4 DEF SettlementInv

\* An execution that ended, or that ended with an error, without Log.
LEMMA EndedRun ==
  ASSUME TypeOK, NEW e \in Execution,
         \/ runs' = [runs EXCEPT ![e].pc = "ended", ![e].told = "error"]
         \/ runs' = [runs EXCEPT ![e].pc = "ended", ![e].beating = FALSE]
  PROVE  RunMoves(e)
<1>1. runs[e] \in Run /\ "ended" \in Place /\ "error" \in Answer /\ FALSE \in BOOLEAN
  BY DEF TypeOK, Place, Answer
<1>2. CASE runs' = [runs EXCEPT ![e].pc = "ended", ![e].told = "error"]
  <2> DEFINE y == [runs[e] EXCEPT !.pc = "ended"]
             x == [y EXCEPT !.told = "error"]
  <2>1. y \in Run /\ y.served = runs[e].served
    BY <1>1, PlacedRun
  <2>2. runs' = [runs EXCEPT ![e] = x]
    BY <1>2
  <2> HIDE DEF y
  <2>3. x \in Run /\ x.served = runs[e].served
    BY <1>1, <2>1, ToldRun
  <2> HIDE DEF x
  <2> QED BY <2>2, <2>3, RunReplaced
<1>3. CASE runs' = [runs EXCEPT ![e].pc = "ended", ![e].beating = FALSE]
  <2> DEFINE x == [runs[e] EXCEPT !.pc = "ended", !.beating = FALSE]
  <2>1. x \in Run /\ x.served = runs[e].served
    BY ONLY <1>1, StoppedRun
  <2>2. runs' = [runs EXCEPT ![e] = x]
    BY <1>3
  <2> HIDE DEF x
  <2> QED BY <2>1, <2>2, RunReplaced
<1> QED BY <1>2, <1>3

\* The steps that only an execution takes.
LEMMA RunSteps ==
  ASSUME SettlementInv, NEW e \in Execution,
         \/ RejectEarly(e) \/ Admit(e) \/ RegisterFails(e) \/ HeartbeatFails(e)
         \/ Interrupted(e) \/ LogFails(e) \/ RuntimeLost(e)
  PROVE  SettlementInv'
<1>1. /\ TypeOK
      /\ runs[e].pc # "new" => origin[identity[e]] <= month
  BY DEF SettlementInv, RunsAreKnown
<1>2. CASE RejectEarly(e)
  <2>1. RunMoves(e)
    BY <1>1, <1>2, RefuseMoves DEF RejectEarly
  <2>2. origin[identity[e]] <= month
    BY <1>1, <1>2, SettlementAssumption, SMT DEF RejectEarly, TypeOK
  <2> QED BY <1>2, <2>1, <2>2, RunStepKeeps DEF RejectEarly
<1>3. CASE Admit(e)
  <2>1. RunMoves(e)
    BY <1>1, <1>3, RefuseMoves, GotoMoves, "admitted" \in Place DEF Admit, Place
  <2>2. origin[identity[e]] <= month
    BY <1>1, <1>3, SettlementAssumption, SMT DEF Admit, TypeOK
  <2> QED BY <1>3, <2>1, <2>2, RunStepKeeps DEF Admit
<1>4. CASE RegisterFails(e)
  <2>1. RunMoves(e)
    BY <1>1, <1>4, EndedRun DEF RegisterFails
  <2> QED BY <1>1, <1>4, <2>1, RunStepKeeps DEF RegisterFails
<1>5. CASE HeartbeatFails(e)
  <2> DEFINE x == [runs[e] EXCEPT !.beating = FALSE]
  <2>1. runs[e] \in Run
    BY <1>1 DEF TypeOK
  <2>2. x \in Run /\ x.pc = runs[e].pc /\ x.served = runs[e].served
    BY <2>1, BeatenRun, FALSE \in BOOLEAN
  <2>3. runs' = [runs EXCEPT ![e] = x]
    BY <1>5 DEF HeartbeatFails
  <2> HIDE DEF x
  <2>4. RunMoves(e) /\ runs'[e].pc = runs[e].pc
    BY <1>1, <2>2, <2>3, RunReplaced
  <2> QED BY <1>1, <1>5, <2>4, RunStepKeeps DEF HeartbeatFails
<1>6. CASE Interrupted(e)
  <2>1. RunMoves(e)
    BY <1>1, <1>6, RefuseMoves, GotoMoves, "finalizing" \in Place DEF Interrupted, Place
  <2> QED BY <1>1, <1>6, <2>1, RunStepKeeps DEF Interrupted
<1>7. CASE LogFails(e)
  <2>1. RunMoves(e) /\ runs[e].pc # "new"
    BY <1>1, <1>7, RefuseMoves, LogReturnsMoves, EndedRun, FALSE \in BOOLEAN DEF LogFails
  <2> QED BY <1>1, <1>7, <2>1, RunStepKeeps DEF LogFails
<1>8. CASE RuntimeLost(e)
  <2>1. RunMoves(e) /\ runs[e].pc # "new"
    BY <1>1, <1>8, EndedRun DEF RuntimeLost
  <2> QED BY <1>1, <1>8, <2>1, RunStepKeeps DEF RuntimeLost
<1> QED BY <1>2, <1>3, <1>4, <1>5, <1>6, <1>7, <1>8

-----------------------------------------------------------------------------
(* Registration. *)

\* An identity that retention has dropped is of a closed period.
LEMMA OpenPeriodIsNotRetired ==
  ASSUME SettlementInv, NEW r \in Request, PeriodOpen(r)
  PROVE  r \notin retired
  BY SMT DEF SettlementInv, TypeOK, DatesAreOrdered, PeriodOpen

\* The tables when an identity that retention has not dropped is registered
\* for the first time, and when nothing is.
LEMMA RegistrationKeepsTables ==
  ASSUME SettlementInv, NEW r \in Request, r \notin retired, origin[r] <= month,
         keys' = [keys EXCEPT ![r] = IF keys[r].state = "none" THEN OpenKey ELSE keys[r]],
         UNCHANGED <<month, control, origin, rows, effects, retired>>
  PROVE  /\ keys' \in [Request -> KeyRow]
         /\ KeysAndRowsAgree' /\ EffectsMatchSettlement' /\ RowsAreTidy' /\ DatesAreOrdered'
         /\ \A q \in Request : keys[q].state # "none" => keys'[q].state # "none"
         /\ keys'[r].state # "none"
<1> USE SettlementAssumption
<1>0. TypeOK /\ OpenKey \in KeyRow /\ OpenKey.state = "open" /\ OpenKey.at = month
  BY KeyFacts DEF SettlementInv
<1>1. keys' \in [Request -> KeyRow]
  BY <1>0 DEF TypeOK
<1>2. \A q \in Request :
        \/ keys'[q] = keys[q]
        \/ q = r /\ keys[q].state = "none" /\ keys'[q] = OpenKey
  BY <1>0 DEF TypeOK
<1>3. KeysAndRowsAgree'
  BY <1>0, <1>2 DEF SettlementInv, KeysAndRowsAgree
<1>4. EffectsMatchSettlement'
  BY <1>0, <1>2 DEF SettlementInv, EffectsMatchSettlement, KeyDue, One
<1>5. RowsAreTidy'
  BY DEF SettlementInv, RowsAreTidy
<1>6. DatesAreOrdered'
  BY <1>0, <1>2 DEF SettlementInv, DatesAreOrdered
<1>7. /\ \A q \in Request : keys[q].state # "none" => keys'[q].state # "none"
      /\ keys'[r].state # "none"
  BY <1>0, <1>2 DEF TypeOK
<1> QED BY <1>1, <1>3, <1>4, <1>5, <1>6, <1>7

\* A fresh registration is the first: nobody was served under an identity
\* that has no key and was not dropped.
LEMMA RegisterKeeps ==
  ASSUME SettlementInv, NEW e \in Execution, Register(e)
  PROVE  SettlementInv'
<1> DEFINE r == identity[e]
<1> USE SettlementAssumption
<1>0. TypeOK /\ r \in Request /\ runs[e] \in Run
  BY DEF SettlementInv, TypeOK
<1>1. r \notin retired
  BY <1>0, OpenPeriodIsNotRetired DEF Register
<1>2. origin[r] <= month
  BY DEF SettlementInv, RunsAreKnown, Register
<1>3. keys[r].state = "none"
  BY DEF Register
<1>4. /\ keys' \in [Request -> KeyRow]
      /\ KeysAndRowsAgree' /\ EffectsMatchSettlement' /\ RowsAreTidy' /\ DatesAreOrdered'
      /\ \A q \in Request : keys[q].state # "none" => keys'[q].state # "none"
      /\ keys'[r].state # "none"
  BY <1>0, <1>1, <1>2, <1>3, RegistrationKeepsTables DEF Register
<1>5. PostingIsLocked'
  BY DEF SettlementInv, PostingIsLocked, Register
<1>6. CASE runs' = [runs EXCEPT ![e].pc = "ended", ![e].told = "error"]
  <2>1. RunMoves(e)
    BY <1>0, <1>6, EndedRun
  <2>2. TypeOK'
    BY <1>0, <1>4, <2>1 DEF TypeOK, RunMoves, Register
  <2>3. RunsAreKnown'
    BY <1>0, <1>2, <1>4, <2>1 DEF SettlementInv, RunsAreKnown, RunMoves, Register
  <2>4. OneExecutionServes'
    BY <2>1 DEF SettlementInv, OneExecutionServes, RunMoves
  <2> QED BY <1>4, <1>5, <2>2, <2>3, <2>4 DEF SettlementInv
<1>7. CASE runs' = [runs EXCEPT ![e].pc = "running", ![e].beating = TRUE, ![e].served = TRUE]
  <2> DEFINE x == [runs[e] EXCEPT !.pc = "running", !.beating = TRUE]
             y == [x EXCEPT !.served = TRUE]
  <2>1. x \in Run /\ x.pc = "running"
    BY <1>0, StoppedRun, "running" \in Place, TRUE \in BOOLEAN DEF Place
  <2>2. runs' = [runs EXCEPT ![e] = y]
    BY <1>7
  <2> HIDE DEF x
  <2>3. y \in Run
    BY <2>1, RunFields, TRUE \in BOOLEAN
  <2> HIDE DEF y
  <2>4. runs' \in [Execution -> Run] /\ \A f \in Execution \ {e} : runs'[f] = runs[f]
    BY <1>0, <2>2, <2>3 DEF TypeOK
  <2>5. TypeOK'
    BY <1>0, <1>4, <2>4 DEF TypeOK, Register
  <2>6. RunsAreKnown'
    <3>1. ASSUME NEW f \in Execution
          PROVE  /\ runs'[f].pc # "new" => (origin[identity[f]] <= month)'
                 /\ runs'[f].served => keys'[identity[f]].state # "none" \/ identity[f] \in retired'
      <4>1. CASE f = e
        BY <1>2, <1>4, <4>1 DEF Register
      <4>2. CASE f # e
        BY <1>0, <1>4, <2>4, <4>2 DEF SettlementInv, RunsAreKnown, Register
      <4> QED BY <4>1, <4>2
    <3> QED BY <3>1 DEF RunsAreKnown
  <2>7. OneExecutionServes'
    <3>1. \A f \in Execution \ {e} : identity[f] = r => ~ runs[f].served
      BY <1>1, <1>3 DEF SettlementInv, RunsAreKnown
    <3> QED BY <2>4, <3>1 DEF SettlementInv, OneExecutionServes
  <2> QED BY <1>4, <1>5, <2>5, <2>6, <2>7 DEF SettlementInv
<1> QED BY <1>6, <1>7 DEF Register

\* The registration of Log.
LEMMA LogRegisterKeeps ==
  ASSUME SettlementInv, NEW e \in Execution, LogRegister(e)
  PROVE  SettlementInv'
<1> DEFINE r == identity[e]
<1> USE SettlementAssumption
<1>0. TypeOK /\ r \in Request
  BY DEF SettlementInv, TypeOK
<1>1. r \notin retired
  BY <1>0, OpenPeriodIsNotRetired DEF LogRegister
<1>2. origin[r] <= month
  BY DEF SettlementInv, RunsAreKnown, LogRegister
<1>3. /\ keys' \in [Request -> KeyRow]
      /\ KeysAndRowsAgree' /\ EffectsMatchSettlement' /\ RowsAreTidy' /\ DatesAreOrdered'
      /\ \A q \in Request : keys[q].state # "none" => keys'[q].state # "none"
      /\ keys'[r].state # "none"
  BY <1>0, <1>1, <1>2, RegistrationKeepsTables DEF LogRegister
<1>4. RunMoves(e)
  BY <1>0, GotoMoves, "sealing" \in Place, "closing" \in Place DEF LogRegister, Place
<1>5. TypeOK'
  BY <1>0, <1>3, <1>4 DEF TypeOK, RunMoves, LogRegister
<1>6. RunsAreKnown'
  BY <1>0, <1>2, <1>3, <1>4 DEF SettlementInv, RunsAreKnown, RunMoves, LogRegister
<1>7. OneExecutionServes'
  BY <1>4 DEF SettlementInv, OneExecutionServes, RunMoves
<1>8. PostingIsLocked'
  BY DEF SettlementInv, PostingIsLocked, LogRegister
<1> QED BY <1>3, <1>5, <1>6, <1>7, <1>8 DEF SettlementInv

\* A lease that is renewed or lapses.
LEMMA LeaseKeeps ==
  ASSUME SettlementInv, NEW r \in Request, NEW b \in BOOLEAN,
         keys' = [keys EXCEPT ![r].live = b],
         UNCHANGED <<month, control, apiKey, origin, rows, effects, retired, runs, workers,
                     maintenance>>
  PROVE  SettlementInv'
<1> USE SettlementAssumption
<1> DEFINE k == [keys[r] EXCEPT !.live = b]
<1>1. keys[r] \in KeyRow /\ TypeOK
  BY DEF SettlementInv, TypeOK
<1>2. k \in KeyRow /\ k.state = keys[r].state /\ k.at = keys[r].at
  BY <1>1, KeyFacts
<1>3. keys' = [keys EXCEPT ![r] = k]
  OBVIOUS
<1> HIDE DEF k
<1>4. /\ keys' \in [Request -> KeyRow]
      /\ \A q \in Request : keys'[q].state = keys[q].state /\ keys'[q].at = keys[q].at
  BY <1>1, <1>2, <1>3 DEF TypeOK
<1>5. TypeOK'
  BY <1>1, <1>4 DEF TypeOK
<1>6. /\ KeysAndRowsAgree' /\ RowsAreTidy' /\ DatesAreOrdered' /\ RunsAreKnown'
      /\ OneExecutionServes' /\ PostingIsLocked'
  BY <1>4 DEF SettlementInv, KeysAndRowsAgree, RowsAreTidy, DatesAreOrdered, RunsAreKnown,
              OneExecutionServes, PostingIsLocked
<1>7. EffectsMatchSettlement'
  BY <1>4 DEF SettlementInv, EffectsMatchSettlement, KeyDue
<1> QED BY <1>5, <1>6, <1>7 DEF SettlementInv

-----------------------------------------------------------------------------
(* The steps on one settlement. *)

\* What an effect has to be next to its settlement, while neither is dropped.
EffectFits(r, row, effect) ==
  /\ effect.requests = 1
  /\ effect.charged = (IF row.state \in {"posted", "refunded"} THEN row.due ELSE 0)
  /\ effect.refunded = (IF row.state = "refunded" THEN row.due ELSE 0)
  /\ effect.quota = (IF row.state = "posted" /\ r \in Keyed THEN row.due ELSE 0)
  /\ effect.interruptions = One(row.interrupted)

\* The effect of a sealed identity fits its settlement.
LEMMA SealedFits ==
  ASSUME SettlementInv, NEW r \in Request, rows[r].state # "none"
  PROVE  /\ keys[r].state = "sealed" /\ r \notin retired /\ rows[r].at = keys[r].at
         /\ EffectFits(r, rows[r], effects[r])
<1>1. keys[r].state = "sealed" /\ r \notin retired /\ rows[r].at = keys[r].at
  BY DEF SettlementInv, KeysAndRowsAgree
<1>2. EffectFits(r, rows[r], effects[r])
  BY <1>1 DEF SettlementInv, EffectsMatchSettlement, EffectFits, Settled, KeyDue, One
<1> QED BY <1>1, <1>2

\* The identity of a key that is open owes nothing and has no settlement.
LEMMA OpenFits ==
  ASSUME SettlementInv, NEW r \in Request, keys[r].state = "open"
  PROVE  /\ rows[r].state = "none" /\ r \notin retired
         /\ effects[r].requests = 0 /\ effects[r].charged = 0 /\ effects[r].refunded = 0
         /\ effects[r].quota = 0 /\ effects[r].interruptions = 0
<1>1. rows[r] = NoRow /\ rows[r].state = "none" /\ r \notin retired
  BY DEF SettlementInv, KeysAndRowsAgree, RowsAreTidy
<1>2. rows[r].interrupted = FALSE
  BY <1>1, BlankRows
<1> QED BY <1>1, <1>2 DEF SettlementInv, EffectsMatchSettlement, Settled, KeyDue, One

\* A step that gives one registered identity a settlement and an effect that
\* fit keeps the tables right.
LEMMA OneSettlementChanges ==
  ASSUME SettlementInv, NEW r \in Request, NEW k \in KeyRow, NEW x \in SettleRow,
         NEW y \in Effect,
         keys' = [keys EXCEPT ![r] = k], rows' = [rows EXCEPT ![r] = x],
         effects' = [effects EXCEPT ![r] = y],
         UNCHANGED <<control, origin, retired>>,
         keys[r].state # "none", k.state = "sealed", k.at = keys[r].at,
         x.state # "none", x.at = k.at, x.state = "waived" => x.due = 0,
         EffectFits(r, x, y)
  PROVE  /\ keys' \in [Request -> KeyRow] /\ rows' \in [Request -> SettleRow]
         /\ effects' \in [Request -> Effect]
         /\ KeysAndRowsAgree' /\ EffectsMatchSettlement' /\ RowsAreTidy' /\ DatesAreOrdered'
         /\ \A q \in Request : keys[q].state # "none" => keys'[q].state # "none"
<1>0. TypeOK
  BY DEF SettlementInv
<1>1. /\ keys' \in [Request -> KeyRow] /\ rows' \in [Request -> SettleRow]
      /\ effects' \in [Request -> Effect]
  BY <1>0 DEF TypeOK
<1>2. /\ keys'[r] = k /\ rows'[r] = x /\ effects'[r] = y
      /\ \A q \in Request \ {r} : keys'[q] = keys[q] /\ rows'[q] = rows[q] /\ effects'[q] = effects[q]
  BY <1>0 DEF TypeOK
<1>3. r \notin retired
  BY DEF SettlementInv, KeysAndRowsAgree
<1>4. KeysAndRowsAgree'
  BY <1>2, <1>3 DEF SettlementInv, KeysAndRowsAgree
<1>5. EffectsMatchSettlement'
  <2>1. ASSUME NEW q \in Request
        PROVE  LET row    == rows'[q]
                   effect == effects'[q]
               IN  /\ effect.requests = One(keys'[q].state = "sealed" \/ q \in retired')
                   /\ q \notin retired' =>
                        /\ effect.charged = (IF Settled(row) THEN row.due ELSE 0)
                        /\ effect.refunded = (IF row.state = "refunded" THEN row.due ELSE 0)
                        /\ effect.quota = (IF row.state = "posted" THEN KeyDue(q)' ELSE 0)
                        /\ effect.interruptions = One(row.interrupted)
    <3>1. CASE q = r
      BY <1>2, <1>3, <3>1 DEF EffectFits, KeyDue, Settled, One
    <3>2. CASE q # r
      BY <1>2, <3>2 DEF SettlementInv, EffectsMatchSettlement, KeyDue
    <3> QED BY <3>1, <3>2
  <2> QED BY <2>1 DEF EffectsMatchSettlement
<1>6. RowsAreTidy'
  BY <1>2 DEF SettlementInv, RowsAreTidy
<1>7. DatesAreOrdered'
  BY <1>2 DEF SettlementInv, DatesAreOrdered
<1>8. \A q \in Request : keys[q].state # "none" => keys'[q].state # "none"
  BY <1>2
<1> QED BY <1>1, <1>4, <1>5, <1>6, <1>7, <1>8

\* Such a step of an execution or of a worker, when the locks allow it.
SettlementStep(r, k, x, y) ==
  /\ keys' = [keys EXCEPT ![r] = k] /\ rows' = [rows EXCEPT ![r] = x]
  /\ effects' = [effects EXCEPT ![r] = y]
  /\ UNCHANGED <<month, control, apiKey, origin, retired, maintenance>>
  /\ keys[r].state # "none" /\ k.state = "sealed" /\ k.at = keys[r].at
  /\ x.state # "none" /\ x.at = k.at
  /\ x.state = "waived" => x.due = 0
  /\ EffectFits(r, x, y)
  /\ runs' \in [Execution -> Run]
  /\ \A e \in Execution : /\ runs'[e].served = runs[e].served
                          /\ runs'[e].pc # "new" => origin[identity[e]] <= month
  /\ workers' \in [Worker -> Task]
  /\ \A w \in Worker : workers'[w].pc = "posting" =>
       /\ workers[w].pc = "posting" /\ workers'[w].req = workers[w].req
       /\ workers[w].req # r \/ x.state = "pending"

LEMMA SettlementStepKeeps ==
  ASSUME SettlementInv, NEW r \in Request, NEW k \in KeyRow, NEW x \in SettleRow,
         NEW y \in Effect, SettlementStep(r, k, x, y)
  PROVE  SettlementInv'
<1> USE SettlementAssumption
<1>1. /\ keys' \in [Request -> KeyRow] /\ rows' \in [Request -> SettleRow]
      /\ effects' \in [Request -> Effect]
      /\ KeysAndRowsAgree' /\ EffectsMatchSettlement' /\ RowsAreTidy' /\ DatesAreOrdered'
      /\ \A q \in Request : keys[q].state # "none" => keys'[q].state # "none"
  BY OneSettlementChanges DEF SettlementStep
<1>2. TypeOK'
  BY <1>1 DEF SettlementStep, SettlementInv, TypeOK
<1>3. RunsAreKnown'
  BY <1>1 DEF SettlementStep, SettlementInv, RunsAreKnown
<1>4. OneExecutionServes'
  BY DEF SettlementStep, SettlementInv, OneExecutionServes
<1>5. PostingIsLocked'
  <2>1. /\ rows'[r] = x /\ \A q \in Request \ {r} : rows'[q] = rows[q]
        /\ \A w \in Worker : workers[w].req \in Request
    BY DEF SettlementStep, SettlementInv, TypeOK, Task
  <2> QED BY <2>1 DEF SettlementStep, SettlementInv, PostingIsLocked
<1> QED BY <1>1, <1>2, <1>3, <1>4, <1>5 DEF SettlementInv

\* Nothing locked is unlocked: a row with a state other than pending, or a row
\* a transaction could lock, is not being posted.
LEMMA NotPosting ==
  ASSUME SettlementInv, NEW r \in Request, Unlocked(r) \/ rows[r].state # "pending"
  PROVE  \A w \in Worker : workers[w].pc = "posting" => workers[w].req # r
  BY DEF SettlementInv, PostingIsLocked, Unlocked

\* An execution that moves by a step of Log was begun.
LEMMA LoggingRuns ==
  ASSUME SettlementInv, NEW e \in Execution, runs[e].pc # "new", RunMoves(e)
  PROVE  /\ runs' \in [Execution -> Run]
         /\ \A f \in Execution : /\ runs'[f].served = runs[f].served
                                 /\ runs'[f].pc # "new" => origin[identity[f]] <= month
  BY DEF SettlementInv, RunsAreKnown, RunMoves

\* A decision is due at least nothing.
LEMMA DecisionsAreAmounts ==
  ASSUME NEW e \in Execution, NEW due \in Decisions(e)
  PROVE  due \in Nat /\ due \in Amount \cup {0}
  BY SettlementAssumption DEF Decisions

LEMMA SealKeeps ==
  ASSUME SettlementInv, NEW e \in Execution, Seal(e)
  PROVE  SettlementInv'
<1> DEFINE r == identity[e]
           k == SealKey(keys[r])
<1>0. /\ TypeOK /\ r \in Request /\ keys[r] \in KeyRow /\ effects[r] \in Effect
      /\ keys[r].state = "open" /\ runs[e].pc # "new" /\ keys[r].at \in Nat
  BY SettlementAssumption DEF SettlementInv, TypeOK, Seal, KeyRow
<1>1. PICK due \in Decisions(e), b \in BOOLEAN :
        /\ rows' = [rows EXCEPT ![r] = SealedRow(keys[r].at, due, b)]
        /\ effects' = [effects EXCEPT ![r] = CountRequest(@, b)]
  BY DEF Seal
<1>2. PICK ok \in BOOLEAN : LogReturns(e, ok)
  BY DEF Seal
<1> DEFINE x == SealedRow(keys[r].at, due, b)
           y == CountRequest(effects[r], b)
<1>3. k \in KeyRow /\ k.state = "sealed" /\ k.at = keys[r].at
  BY <1>0, KeyFacts
<1>4. due \in Nat
  BY DecisionsAreAmounts
<1>5. /\ x \in SettleRow /\ x.state = (IF due = 0 THEN "waived" ELSE "pending")
      /\ x.due = due /\ x.at = keys[r].at /\ x.interrupted = b
  BY <1>0, <1>4, SealedRowFacts
<1>6. /\ rows[r].state = "none"
      /\ effects[r].requests = 0 /\ effects[r].charged = 0 /\ effects[r].refunded = 0
      /\ effects[r].quota = 0 /\ effects[r].interruptions = 0
  BY <1>0, OpenFits
<1>7. /\ y \in Effect /\ y.requests = effects[r].requests + 1
      /\ y.interruptions = effects[r].interruptions + One(b)
      /\ y.charged = effects[r].charged /\ y.refunded = effects[r].refunded
      /\ y.quota = effects[r].quota
  BY <1>0, CountRequestFacts
<1>8. keys' = [keys EXCEPT ![r] = k] /\ rows' = [rows EXCEPT ![r] = x]
      /\ effects' = [effects EXCEPT ![r] = y]
  BY <1>1 DEF Seal
<1> HIDE DEF k, x, y
<1>9. EffectFits(r, x, y)
  BY <1>5, <1>6, <1>7 DEF EffectFits, One
<1>10. /\ runs' \in [Execution -> Run]
       /\ \A f \in Execution : /\ runs'[f].served = runs[f].served
                               /\ runs'[f].pc # "new" => origin[identity[f]] <= month
  BY <1>0, <1>2, LogReturnsMoves, LoggingRuns
<1>11. \A w \in Worker : workers[w].pc = "posting" => workers[w].req # r
  BY <1>0, <1>6, NotPosting
<1>12. UNCHANGED <<month, control, apiKey, origin, retired, workers, maintenance>>
  BY DEF Seal
<1>13. workers' \in [Worker -> Task]
  BY <1>0, <1>12 DEF TypeOK
<1> HIDE DEF r
<1>14. SettlementStep(r, k, x, y)
  BY <1>0, <1>3, <1>5, <1>8, <1>9, <1>10, <1>11, <1>12, <1>13 DEF SettlementStep
<1> QED BY <1>0, <1>3, <1>5, <1>7, <1>14, SettlementStepKeeps

LEMMA ReenterKeeps ==
  ASSUME SettlementInv, NEW e \in Execution, Reenter(e)
  PROVE  SettlementInv'
<1> DEFINE r == identity[e]
<1>0. /\ TypeOK /\ r \in Request /\ keys[r] \in KeyRow /\ effects[r] \in Effect
      /\ rows[r] \in SettleRow
      /\ keys[r].state = "sealed" /\ runs[e].pc # "new"
  BY SettlementAssumption DEF SettlementInv, TypeOK, Reenter
<1>1. PICK ok \in BOOLEAN : LogReturns(e, ok)
  BY DEF Reenter
<1>2. RunMoves(e)
  BY <1>0, <1>1, LogReturnsMoves
<1>3. UNCHANGED <<month, control, apiKey, origin, keys, retired, workers, maintenance>>
  BY DEF Reenter
<1>4. CASE UNCHANGED <<rows, effects>>
  <2>1. origin[identity[e]] <= month
    BY <1>0 DEF SettlementInv, RunsAreKnown
  <2> QED BY <1>2, <1>3, <1>4, <2>1, RunStepKeeps
<1>5. CASE /\ rows[r].state # "none" /\ ~ rows[r].interrupted
           /\ Unlocked(r)
           /\ rows' = [rows EXCEPT ![r] = Interrupt(@)]
           /\ effects' = [effects EXCEPT ![r] = CountInterruption(@)]
  <2> DEFINE x == Interrupt(rows[r])
             y == CountInterruption(effects[r])
             k == keys[r]
  <2>1. /\ x \in SettleRow /\ x.state = rows[r].state
        /\ x.due = rows[r].due /\ x.at = rows[r].at /\ x.interrupted = TRUE
    BY <1>0, RowFacts
  <2>2. /\ y \in Effect /\ y.requests = effects[r].requests
        /\ y.interruptions = effects[r].interruptions + 1
        /\ y.charged = effects[r].charged /\ y.refunded = effects[r].refunded
        /\ y.quota = effects[r].quota
    BY <1>0, CountInterruptionFacts
  <2>3. rows[r].at = keys[r].at /\ EffectFits(r, rows[r], effects[r])
    BY <1>0, <1>5, SealedFits
  <2>4. keys' = [keys EXCEPT ![r] = k] /\ rows' = [rows EXCEPT ![r] = x]
        /\ effects' = [effects EXCEPT ![r] = y]
    BY <1>0, <1>3, <1>5 DEF TypeOK
  <2> HIDE DEF x, y
  <2>5. EffectFits(r, x, y)
    BY <1>5, <2>1, <2>2, <2>3 DEF EffectFits, One
  <2>6. /\ runs' \in [Execution -> Run]
        /\ \A f \in Execution : /\ runs'[f].served = runs[f].served
                                /\ runs'[f].pc # "new" => origin[identity[f]] <= month
    BY <1>0, <1>2, LoggingRuns
  <2>7. \A w \in Worker : workers[w].pc = "posting" => workers[w].req # r
    BY <1>0, <1>5, NotPosting
  <2>8. x.state = "waived" => x.due = 0
    BY <1>0, <2>1 DEF SettlementInv, RowsAreTidy
  <2>9. workers' \in [Worker -> Task]
    BY <1>0, <1>3 DEF TypeOK
  <2> HIDE DEF r
  <2>10. SettlementStep(r, k, x, y)
    BY <1>0, <1>3, <1>5, <2>1, <2>3, <2>4, <2>5, <2>6, <2>7, <2>8, <2>9 DEF SettlementStep
  <2> QED BY <1>0, <2>1, <2>2, <2>10, SettlementStepKeeps
<1> QED BY <1>4, <1>5 DEF Reenter

\* The executions of a step that leaves them alone.
LEMMA IdleRuns ==
  ASSUME SettlementInv, UNCHANGED runs
  PROVE  /\ runs' \in [Execution -> Run]
         /\ \A f \in Execution : /\ runs'[f].served = runs[f].served
                                 /\ runs'[f].pc # "new" => origin[identity[f]] <= month
  BY DEF SettlementInv, TypeOK, RunsAreKnown

\* A worker that gives its row back posts nothing.
LEMMA WorkerRests ==
  ASSUME SettlementInv, NEW w \in Worker, NEW p \in {"idle", "marking"},
         workers' = [workers EXCEPT ![w].pc = p]
  PROVE  /\ workers' \in [Worker -> Task]
         /\ workers'[w].pc # "posting"
         /\ \A v \in Worker \ {w} : workers'[v] = workers[v]
<1> DEFINE x == [workers[w] EXCEPT !.pc = p]
<1>1. workers \in [Worker -> Task] /\ workers[w] \in Task
  BY DEF SettlementInv, TypeOK
<1>2. x \in Task /\ x.pc = p
  BY <1>1, SMT DEF Task
<1>3. workers' = [workers EXCEPT ![w] = x]
  OBVIOUS
<1> HIDE DEF x
<1> QED BY <1>1, <1>2, <1>3

\* Only the worker that holds the lock posts, and what it posts is pending.
LEMMA PostKeeps ==
  ASSUME SettlementInv, NEW w \in Worker, Post(w)
  PROVE  SettlementInv'
<1> DEFINE r == workers[w].req
           k == keys[r]
           x == PostRow(rows[r])
           y == ChargeEffect(effects[r], rows[r].due, KeyDue(r))
<1>0. /\ TypeOK /\ r \in Request /\ keys[r] \in KeyRow /\ effects[r] \in Effect
      /\ rows[r] \in SettleRow /\ rows[r].due \in Nat
  BY DEF SettlementInv, TypeOK, Task, SettleRow
<1>1. rows[r].state = "pending"
  BY DEF SettlementInv, PostingIsLocked, Post
<1>2. /\ keys[r].state = "sealed" /\ rows[r].at = keys[r].at
      /\ EffectFits(r, rows[r], effects[r])
  BY <1>0, <1>1, SealedFits
<1>3. KeyDue(r) \in Nat /\ KeyDue(r) = IF r \in Keyed THEN rows[r].due ELSE 0
  BY <1>0 DEF KeyDue
<1>4. /\ x \in SettleRow /\ x.state = "posted" /\ x.due = rows[r].due
      /\ x.at = rows[r].at /\ x.interrupted = rows[r].interrupted
  BY <1>0, RowFacts
<1>5. /\ y \in Effect /\ y.charged = effects[r].charged + rows[r].due
      /\ y.quota = effects[r].quota + KeyDue(r) /\ y.refunded = effects[r].refunded
      /\ y.requests = effects[r].requests /\ y.interruptions = effects[r].interruptions
  BY <1>0, <1>3, ChargeFacts, ZenonT(60)
<1>6. /\ keys' = [keys EXCEPT ![r] = k] /\ rows' = [rows EXCEPT ![r] = x]
      /\ effects' = [effects EXCEPT ![r] = y]
      /\ UNCHANGED <<month, control, apiKey, origin, retired, runs, maintenance>>
  BY <1>0 DEF Post, TypeOK
<1>7. EffectFits(r, x, y)
  <2> HIDE DEF r, x, y
  <2> QED BY <1>0, <1>1, <1>2, <1>3, <1>4, <1>5 DEF EffectFits
<1>8. /\ workers' \in [Worker -> Task] /\ workers'[w].pc # "posting"
      /\ \A v \in Worker \ {w} : workers'[v] = workers[v]
  BY WorkerRests DEF Post
<1>9. \A v \in Worker : workers'[v].pc = "posting" =>
        /\ workers[v].pc = "posting" /\ workers'[v].req = workers[v].req
        /\ workers[v].req # r
  BY <1>8 DEF SettlementInv, PostingIsLocked, Post
<1>10. /\ runs' \in [Execution -> Run]
       /\ \A f \in Execution : /\ runs'[f].served = runs[f].served
                               /\ runs'[f].pc # "new" => origin[identity[f]] <= month
  BY <1>6, IdleRuns
<1> HIDE DEF r, x, y
<1>11. SettlementStep(r, k, x, y)
  BY <1>2, <1>4, <1>6, <1>7, <1>8, <1>9, <1>10 DEF SettlementStep
<1> QED BY <1>0, <1>4, <1>5, <1>11, SettlementStepKeeps

\* A step that changes nothing of a settlement the effect depends on: the
\* failure of a posting, the passing of a backoff, the age of the backlog.
LEMMA RowChangeKeeps ==
  ASSUME SettlementInv, NEW r \in Request, NEW x \in SettleRow,
         rows[r].state = "pending", x.state \in {"pending", "review"},
         x.due = rows[r].due, x.at = rows[r].at, x.interrupted = rows[r].interrupted,
         rows' = [rows EXCEPT ![r] = x],
         UNCHANGED <<month, control, apiKey, origin, keys, effects, retired, runs, maintenance>>,
         workers' \in [Worker -> Task],
         \A w \in Worker : workers'[w].pc = "posting" =>
           /\ workers[w].pc = "posting" /\ workers'[w].req = workers[w].req
           /\ workers[w].req # r \/ x.state = "pending"
  PROVE  SettlementInv'
<1> DEFINE k == keys[r]
           y == effects[r]
<1>0. /\ keys[r] \in KeyRow /\ effects[r] \in Effect
      /\ keys' = [keys EXCEPT ![r] = k] /\ effects' = [effects EXCEPT ![r] = y]
  BY DEF SettlementInv, TypeOK
<1>1. /\ keys[r].state = "sealed" /\ rows[r].at = keys[r].at
      /\ EffectFits(r, rows[r], effects[r])
  BY SealedFits
<1>2. EffectFits(r, x, y)
  BY <1>1 DEF EffectFits
<1>3. /\ runs' \in [Execution -> Run]
      /\ \A f \in Execution : /\ runs'[f].served = runs[f].served
                              /\ runs'[f].pc # "new" => origin[identity[f]] <= month
  BY IdleRuns
<1>4. SettlementStep(r, k, x, y)
  BY <1>0, <1>1, <1>2, <1>3 DEF SettlementStep
<1> QED BY <1>0, <1>4, SettlementStepKeeps

\* Workers that take no row they did not hold leave the tables alone.
LEMMA WorkerStepKeeps ==
  ASSUME SettlementInv, workers' \in [Worker -> Task], PostingIsLocked',
         UNCHANGED <<month, control, apiKey, origin, keys, rows, effects, retired, runs,
                     maintenance>>
  PROVE  SettlementInv'
<1>1. TypeOK'
  BY DEF SettlementInv, TypeOK
<1>2. /\ KeysAndRowsAgree' /\ EffectsMatchSettlement' /\ RowsAreTidy' /\ DatesAreOrdered'
      /\ RunsAreKnown' /\ OneExecutionServes'
  BY DEF SettlementInv, KeysAndRowsAgree, EffectsMatchSettlement, RowsAreTidy, DatesAreOrdered,
         RunsAreKnown, OneExecutionServes, KeyDue
<1> QED BY <1>1, <1>2 DEF SettlementInv

LEMMA MarkKeeps ==
  ASSUME SettlementInv, NEW w \in Worker, Mark(w)
  PROVE  SettlementInv'
<1> DEFINE r == workers[w].req
           x == FailRow(rows[r])
<1>0. /\ TypeOK /\ r \in Request /\ rows[r] \in SettleRow
  BY DEF SettlementInv, TypeOK, Task
<1>1. /\ workers' \in [Worker -> Task] /\ workers'[w].pc # "posting"
      /\ \A v \in Worker \ {w} : workers'[v] = workers[v]
  BY WorkerRests DEF Mark
<1>2. \A v \in Worker : workers'[v].pc = "posting" =>
        /\ workers[v].pc = "posting" /\ workers'[v].req = workers[v].req
        /\ workers[v].req # r
  BY <1>1 DEF Mark, Unlocked
<1>3. CASE rows[r].state = "pending"
  <2>1. /\ x \in SettleRow /\ x.state \in {"pending", "review"} /\ x.due = rows[r].due
        /\ x.at = rows[r].at /\ x.interrupted = rows[r].interrupted
    BY <1>0, RowFacts
  <2>2. /\ rows' = [rows EXCEPT ![r] = x]
        /\ UNCHANGED <<month, control, apiKey, origin, keys, effects, retired, runs, maintenance>>
    BY <1>3 DEF Mark
  <2> HIDE DEF r, x
  <2> QED BY <1>0, <1>1, <1>2, <1>3, <2>1, <2>2, RowChangeKeeps
<1>4. CASE rows[r].state # "pending"
  <2>1. UNCHANGED <<month, control, apiKey, origin, keys, rows, effects, retired, runs, maintenance>>
    BY <1>0, <1>4 DEF Mark, TypeOK
  <2>2. PostingIsLocked'
    BY <1>2, <2>1 DEF SettlementInv, PostingIsLocked
  <2> QED BY <1>1, <2>1, <2>2, WorkerStepKeeps
<1> QED BY <1>3, <1>4

\* Pick takes a pending row nobody holds; a failed or lost posting releases
\* its row.
LEMMA WorkerSteps ==
  ASSUME SettlementInv, NEW w \in Worker,
         (\E r \in Request : Pick(w, r)) \/ PostFails(w) \/ WorkerAborts(w)
  PROVE  SettlementInv'
<1>1. CASE \E r \in Request : Pick(w, r)
  <2>1. PICK r \in Request : Pick(w, r)
    BY <1>1
  <2> DEFINE t == [pc |-> "posting", req |-> r]
  <2>2. t \in Task /\ t.pc = "posting" /\ t.req = r
    BY DEF Task
  <2>3. workers \in [Worker -> Task] /\ workers' = [workers EXCEPT ![w] = t]
    BY <2>1 DEF SettlementInv, TypeOK, Pick
  <2> HIDE DEF t
  <2>4. workers' \in [Worker -> Task]
    BY <2>2, <2>3
  <2>5. PostingIsLocked'
    BY <2>1, <2>2, <2>3 DEF SettlementInv, PostingIsLocked, Pick, Due, Unlocked
  <2> QED BY <2>1, <2>4, <2>5, WorkerStepKeeps DEF Pick
<1>2. CASE PostFails(w) \/ WorkerAborts(w)
  <2>1. /\ workers' \in [Worker -> Task] /\ workers'[w].pc # "posting"
        /\ \A v \in Worker \ {w} : workers'[v] = workers[v]
    BY <1>2, WorkerRests DEF PostFails, WorkerAborts
  <2>2. UNCHANGED <<month, control, apiKey, origin, keys, rows, effects, retired, runs, maintenance>>
    BY <1>2 DEF PostFails, WorkerAborts
  <2>3. PostingIsLocked'
    BY <2>1, <2>2 DEF SettlementInv, PostingIsLocked
  <2> QED BY <2>1, <2>2, <2>3, WorkerStepKeeps
<1> QED BY <1>1, <1>2

\* The quota of a posted request still holds its charge, so a refund takes
\* off no more than there is.
LEMMA RefundKeeps ==
  ASSUME SettlementInv, NEW r \in Request, Refund(r)
  PROVE  SettlementInv'
<1> DEFINE k == keys[r]
           x == RefundRow(rows[r])
           y == RefundEffect(effects[r], rows[r].due, KeyDue(r))
<1>0. /\ TypeOK /\ keys[r] \in KeyRow /\ effects[r] \in Effect
      /\ rows[r] \in SettleRow /\ rows[r].due \in Nat
  BY DEF SettlementInv, TypeOK, SettleRow
<1>1. rows[r].state = "posted"
  BY DEF Refund
<1>2. /\ keys[r].state = "sealed" /\ rows[r].at = keys[r].at
      /\ EffectFits(r, rows[r], effects[r])
  BY <1>1, SealedFits
<1>3. KeyDue(r) \in Nat /\ KeyDue(r) = IF r \in Keyed THEN rows[r].due ELSE 0
  BY <1>0 DEF KeyDue
<1>4. KeyDue(r) <= effects[r].quota
  BY <1>0, <1>1, <1>2, <1>3 DEF EffectFits
<1>5. /\ x \in SettleRow /\ x.state = "refunded" /\ x.due = rows[r].due
      /\ x.at = rows[r].at /\ x.interrupted = rows[r].interrupted
  BY <1>0, RowFacts
<1>6. /\ y \in Effect /\ y.refunded = effects[r].refunded + rows[r].due
      /\ y.quota = effects[r].quota - KeyDue(r) /\ y.charged = effects[r].charged
      /\ y.requests = effects[r].requests /\ y.interruptions = effects[r].interruptions
  BY <1>0, <1>3, <1>4, RefundFacts
<1>7. /\ keys' = [keys EXCEPT ![r] = k] /\ rows' = [rows EXCEPT ![r] = x]
      /\ effects' = [effects EXCEPT ![r] = y]
      /\ UNCHANGED <<month, control, apiKey, origin, retired, runs, workers, maintenance>>
  BY <1>0 DEF Refund, TypeOK
<1> HIDE DEF x, y
<1>8. EffectFits(r, x, y)
  BY <1>0, <1>1, <1>2, <1>3, <1>5, <1>6 DEF EffectFits
<1>9. \A w \in Worker : workers[w].pc = "posting" => workers[w].req # r
  BY NotPosting DEF Refund
<1>10. workers' \in [Worker -> Task]
  BY <1>0, <1>7 DEF TypeOK
<1>11. /\ runs' \in [Execution -> Run]
       /\ \A f \in Execution : /\ runs'[f].served = runs[f].served
                               /\ runs'[f].pc # "new" => origin[identity[f]] <= month
  BY <1>7, IdleRuns
<1>12. SettlementStep(r, k, x, y)
  BY <1>2, <1>5, <1>7, <1>8, <1>9, <1>10, <1>11 DEF SettlementStep
<1> QED BY <1>0, <1>5, <1>6, <1>12, SettlementStepKeeps

\* A backoff that passes and a backlog that ages change a flag.
LEMMA FlagSteps ==
  ASSUME SettlementInv, NEW r \in Request, BackoffElapses(r) \/ BacklogAges(r)
  PROVE  SettlementInv'
<1> DEFINE a == [rows[r] EXCEPT !.ready = TRUE]
           b == [rows[r] EXCEPT !.stale = TRUE]
<1>0. rows[r] \in SettleRow /\ rows[r].state = "pending"
  BY DEF SettlementInv, TypeOK, BackoffElapses, BacklogAges
<1>1. /\ a \in SettleRow /\ a.state = "pending" /\ a.due = rows[r].due /\ a.at = rows[r].at
      /\ a.interrupted = rows[r].interrupted
  <2>1. a \in SettleRow
    BY <1>0, RowFlags, TRUE \in BOOLEAN
  <2> QED BY <1>0, <2>1, SMT DEF SettleRow
<1>2. /\ b \in SettleRow /\ b.state = "pending" /\ b.due = rows[r].due /\ b.at = rows[r].at
      /\ b.interrupted = rows[r].interrupted
  <2>1. b \in SettleRow
    BY <1>0, RowFlags, TRUE \in BOOLEAN
  <2> QED BY <1>0, <2>1, SMT DEF SettleRow
<1>3. \/ rows' = [rows EXCEPT ![r] = a]
      \/ rows' = [rows EXCEPT ![r] = b]
  BY DEF BackoffElapses, BacklogAges
<1>4. UNCHANGED <<month, control, apiKey, origin, keys, effects, retired, runs, workers, maintenance>>
  BY DEF BackoffElapses, BacklogAges
<1>5. workers' \in [Worker -> Task]
  BY <1>4 DEF SettlementInv, TypeOK
<1> HIDE DEF a, b
<1>6. PICK x \in {a, b} : rows' = [rows EXCEPT ![r] = x]
  BY <1>3
<1>7. /\ x \in SettleRow /\ x.state = "pending" /\ x.due = rows[r].due /\ x.at = rows[r].at
      /\ x.interrupted = rows[r].interrupted
  BY <1>1, <1>2
<1> QED BY <1>0, <1>4, <1>5, <1>6, <1>7, RowChangeKeeps

-----------------------------------------------------------------------------
(* Recovery and retention. *)

Untouched(q) == keys'[q] = keys[q] /\ rows'[q] = rows[q] /\ effects'[q] = effects[q]

\* A lost identity gets a settlement that charges nothing.
Recovered(q) ==
  /\ keys[q].state = "open" /\ q \notin retired /\ rows[q].state = "none"
  /\ keys'[q] \in KeyRow /\ keys'[q].state = "sealed" /\ keys'[q].at = keys[q].at
  /\ rows'[q] \in SettleRow /\ rows'[q].state = "waived" /\ rows'[q].due = 0
  /\ rows'[q].at = keys[q].at
  /\ effects'[q] \in Effect
  /\ EffectFits(q, rows'[q], effects'[q])
  /\ effects[q].charged = 0 /\ effects[q].refunded = 0

\* What recovery does to one request.
LEMMA RecoverFacts ==
  ASSUME SettlementInv, NEW S \in SUBSET Request, Recover(S), NEW q \in Request
  PROVE  IF q \in S THEN Recovered(q) ELSE Untouched(q)
<1>0. /\ TypeOK /\ keys[q] \in KeyRow /\ effects[q] \in Effect /\ keys[q].at \in Nat
  BY DEF SettlementInv, TypeOK, KeyRow
<1>1. CASE q \notin S
  BY <1>1 DEF Recover, Untouched
<1>2. CASE q \in S
  <2> DEFINE x == SealedRow(keys[q].at, 0, FALSE)
             y == CountRequest(effects[q], FALSE)
             k == SealKey(keys[q])
  <2>1. keys[q].state = "open"
    BY <1>2 DEF Recover, LostKeys
  <2>2. /\ rows[q].state = "none" /\ q \notin retired
        /\ effects[q].requests = 0 /\ effects[q].charged = 0 /\ effects[q].refunded = 0
        /\ effects[q].quota = 0 /\ effects[q].interruptions = 0
    BY <2>1, OpenFits
  <2>3. keys'[q] = k /\ rows'[q] = x /\ effects'[q] = y
    BY <1>2, <2>2 DEF Recover
  <2>4. k \in KeyRow /\ k.state = "sealed" /\ k.at = keys[q].at
    BY <1>0, KeyFacts
  <2>5. /\ x \in SettleRow /\ x.state = "waived" /\ x.due = 0 /\ x.at = keys[q].at
        /\ x.interrupted = FALSE
    BY <1>0, SealedRowFacts, 0 \in Nat, FALSE \in BOOLEAN
  <2>6. /\ y \in Effect /\ y.requests = effects[q].requests + 1
        /\ y.interruptions = effects[q].interruptions + One(FALSE)
        /\ y.charged = effects[q].charged /\ y.refunded = effects[q].refunded
        /\ y.quota = effects[q].quota
    BY <1>0, CountRequestFacts, FALSE \in BOOLEAN
  <2> HIDE DEF x, y, k
  <2>7. EffectFits(q, x, y)
    BY <2>2, <2>5, <2>6 DEF EffectFits, One
  <2> QED BY <1>2, <2>1, <2>2, <2>3, <2>4, <2>5, <2>6, <2>7 DEF Recovered
<1> QED BY <1>1, <1>2

\* Recovery keeps the tables, whatever batch it takes.
LEMMA RecoverKeeps ==
  ASSUME SettlementInv, NEW S \in SUBSET Request, Recover(S),
         maintenance' \in {"idle", "recovered"}
  PROVE  SettlementInv'
<1> USE SettlementAssumption
<1>0. UNCHANGED <<month, control, apiKey, origin, retired, runs, workers>>
  BY DEF Recover
<1>a. \A q \in Request : Recovered(q) \/ Untouched(q)
  BY RecoverFacts
<1>1. TypeOK'
  <2>1. /\ \A q \in Request : /\ keys'[q] \in KeyRow /\ rows'[q] \in SettleRow
                              /\ effects'[q] \in Effect
    BY <1>a DEF SettlementInv, TypeOK, Recovered, Untouched
  <2>2. /\ keys' \in [Request -> KeyRow] /\ rows' \in [Request -> SettleRow]
        /\ effects' \in [Request -> Effect]
    BY <2>1 DEF Recover
  <2> QED BY <1>0, <2>2 DEF SettlementInv, TypeOK
<1>2. KeysAndRowsAgree'
  BY <1>0, <1>a DEF SettlementInv, KeysAndRowsAgree, Recovered, Untouched
<1>3. EffectsMatchSettlement'
  <2>1. ASSUME NEW q \in Request
        PROVE  LET row    == rows'[q]
                   effect == effects'[q]
               IN  /\ effect.requests = One(keys'[q].state = "sealed" \/ q \in retired')
                   /\ q \notin retired' =>
                        /\ effect.charged = (IF Settled(row) THEN row.due ELSE 0)
                        /\ effect.refunded = (IF row.state = "refunded" THEN row.due ELSE 0)
                        /\ effect.quota = (IF row.state = "posted" THEN KeyDue(q)' ELSE 0)
                        /\ effect.interruptions = One(row.interrupted)
    <3>1. CASE Recovered(q)
      BY <1>0, <3>1 DEF Recovered, EffectFits, KeyDue, Settled, One
    <3>2. CASE Untouched(q)
      BY <1>0, <3>2 DEF Untouched, SettlementInv, EffectsMatchSettlement, KeyDue
    <3> QED BY <1>a, <3>1, <3>2
  <2> QED BY <2>1 DEF EffectsMatchSettlement
<1>4. RowsAreTidy' /\ DatesAreOrdered'
  BY <1>0, <1>a DEF SettlementInv, RowsAreTidy, DatesAreOrdered, Recovered, Untouched
<1>5. RunsAreKnown'
  <2>1. \A q \in Request : keys[q].state # "none" => keys'[q].state # "none"
    BY <1>a DEF Recovered, Untouched
  <2> QED BY <1>0, <2>1 DEF SettlementInv, RunsAreKnown
<1>6. OneExecutionServes'
  BY <1>0 DEF SettlementInv, OneExecutionServes
<1>7. PostingIsLocked'
  <2>1. \A q \in Request : rows[q].state = "pending" => rows'[q] = rows[q]
    BY <1>a DEF Recovered, Untouched
  <2>2. \A w \in Worker : workers[w].req \in Request
    BY DEF SettlementInv, TypeOK, Task
  <2> QED BY <1>0, <2>1, <2>2 DEF SettlementInv, PostingIsLocked
<1> QED BY <1>1, <1>2, <1>3, <1>4, <1>5, <1>6, <1>7 DEF SettlementInv

Kept(q) == /\ q \in retired' <=> q \in retired
           /\ keys'[q] = keys[q] /\ rows'[q] = rows[q]

Dropped(q) ==
  /\ q \in retired' /\ q \notin retired
  /\ keys[q].state = "sealed" /\ rows[q].state \in {"waived", "posted", "refunded"}
  /\ keys'[q] = NoKey /\ rows'[q] = NoRow
  /\ origin[q] < control'.closedBefore

\* What retention does to one request: the settlement goes exactly when the
\* identity does, and only when nothing of it is open.
LEMMA RetireFacts ==
  ASSUME SettlementInv, Retire, NEW q \in Request
  PROVE  Kept(q) \/ Dropped(q)
<1>0. /\ TypeOK /\ keys[q] \in KeyRow /\ rows[q] \in SettleRow /\ origin[q] \in Nat
      /\ keys[q].at \in Nat /\ rows[q].at \in Nat /\ Cutoff \in Int /\ control.closedBefore \in Nat
      /\ keys[q].state \in {"none", "open", "sealed"} /\ rows[q].state \in RowState
  BY SettlementAssumption DEF SettlementInv, TypeOK, KeyRow, SettleRow, Cutoff
<1>1. CASE keys[q].state = "sealed" /\ keys[q].at < Cutoff
  <2>1. rows[q].at = keys[q].at /\ rows[q].state # "none" /\ q \notin retired
    BY <1>1 DEF SettlementInv, KeysAndRowsAgree
  <2>2. keys'[q] = NoKey /\ rows'[q] = NoRow /\ q \in retired'
    BY <1>1, <2>1 DEF Retire
  <2>3. rows[q].state \in {"waived", "posted", "refunded"}
    BY <1>0, <1>1, <2>1 DEF Retire, Unresolved, RowState
  <2>4. origin[q] < control'.closedBefore
    <3>1. origin[q] <= keys[q].at
      BY <1>1 DEF SettlementInv, DatesAreOrdered
    <3>2. control'.closedBefore = IF Cutoff > control.closedBefore THEN Cutoff ELSE control.closedBefore
      BY <1>0 DEF Retire, TypeOK
    <3> QED BY <1>0, <1>1, <3>1, <3>2
  <2> QED BY <1>1, <2>1, <2>2, <2>3, <2>4 DEF Dropped
<1>2. CASE ~ (keys[q].state = "sealed" /\ keys[q].at < Cutoff)
  <2>1. keys'[q] = keys[q] /\ (q \in retired' <=> q \in retired)
    BY <1>2 DEF Retire
  <2>2. rows'[q] = rows[q]
    <3>1. rows[q].state = "none" => rows[q] = NoRow
      BY DEF SettlementInv, RowsAreTidy
    <3>2. rows[q].state # "none" => ~ (rows[q].at < Cutoff)
      BY <1>2 DEF SettlementInv, KeysAndRowsAgree
    <3> QED BY <3>1, <3>2 DEF Retire
  <2> QED BY <2>1, <2>2 DEF Kept
<1> QED BY <1>1, <1>2

LEMMA RetireKeeps ==
  ASSUME SettlementInv, Retire
  PROVE  SettlementInv'
<1> USE SettlementAssumption
<1>0. /\ UNCHANGED <<month, apiKey, origin, effects, runs, workers>>
      /\ maintenance' = "idle" /\ retired' \subseteq Request
      /\ \A q \in Request : q \in retired => q \in retired'
  BY DEF SettlementInv, TypeOK, Retire
<1>1. \A q \in Request : Kept(q) \/ Dropped(q)
  BY RetireFacts
<1>2. /\ control' \in [accepting : BOOLEAN, closedBefore : Nat]
      /\ control.closedBefore <= control'.closedBefore
      /\ control.closedBefore \in Nat
  <2> DEFINE n == IF Cutoff > control.closedBefore THEN Cutoff ELSE control.closedBefore
  <2>1. /\ control \in [accepting : BOOLEAN, closedBefore : Nat] /\ control.closedBefore \in Nat
        /\ month \in Nat
    BY DEF SettlementInv, TypeOK
  <2>2. n \in Nat /\ control.closedBefore <= n
    BY <2>1 DEF Cutoff
  <2>3. control' = [control EXCEPT !.closedBefore = n]
    BY DEF Retire
  <2> HIDE DEF n
  <2> QED BY <2>1, <2>2, <2>3
<1>3. TypeOK'
  <2>1. \A q \in Request : keys'[q] \in KeyRow /\ rows'[q] \in SettleRow
    BY <1>1, BlankRows DEF SettlementInv, TypeOK, Kept, Dropped
  <2>2. keys' \in [Request -> KeyRow] /\ rows' \in [Request -> SettleRow]
    BY <2>1 DEF Retire
  <2> QED BY <1>0, <1>2, <2>2 DEF SettlementInv, TypeOK
<1>4. KeysAndRowsAgree'
  BY <1>1, BlankRows DEF SettlementInv, KeysAndRowsAgree, Kept, Dropped
<1>5. EffectsMatchSettlement'
  <2>1. ASSUME NEW q \in Request
        PROVE  LET row    == rows'[q]
                   effect == effects'[q]
               IN  /\ effect.requests = One(keys'[q].state = "sealed" \/ q \in retired')
                   /\ q \notin retired' =>
                        /\ effect.charged = (IF Settled(row) THEN row.due ELSE 0)
                        /\ effect.refunded = (IF row.state = "refunded" THEN row.due ELSE 0)
                        /\ effect.quota = (IF row.state = "posted" THEN KeyDue(q)' ELSE 0)
                        /\ effect.interruptions = One(row.interrupted)
    <3>1. CASE Dropped(q)
      BY <1>0, <3>1 DEF SettlementInv, EffectsMatchSettlement, Dropped, One
    <3>2. CASE Kept(q)
      BY <1>0, <3>2 DEF SettlementInv, EffectsMatchSettlement, Kept, KeyDue, One
    <3> QED BY <1>1, <3>1, <3>2
  <2> QED BY <2>1 DEF EffectsMatchSettlement
<1>6. RowsAreTidy'
  BY <1>1, BlankRows DEF SettlementInv, RowsAreTidy, Kept, Dropped
<1>7. DatesAreOrdered'
  <2>1. \A q \in Request : origin[q] \in Nat
    BY DEF SettlementInv, TypeOK
  <2>2. ASSUME NEW q \in Request
        PROVE  /\ keys'[q].state # "none" => origin'[q] <= keys'[q].at
               /\ q \in retired' => origin'[q] < control'.closedBefore
    <3>1. CASE Dropped(q)
      BY <1>0, <3>1, BlankRows DEF Dropped
    <3>2. CASE Kept(q)
      BY <1>0, <1>2, <1>3, <2>1, <3>2 DEF SettlementInv, DatesAreOrdered, Kept, TypeOK
    <3> QED BY <1>1, <3>1, <3>2
  <2> QED BY <2>2 DEF DatesAreOrdered
<1>8. RunsAreKnown'
  BY <1>0, <1>1 DEF SettlementInv, RunsAreKnown, Kept, Dropped
<1>9. OneExecutionServes'
  BY <1>0 DEF SettlementInv, OneExecutionServes
<1>10. PostingIsLocked'
  <2>1. \A w \in Worker : workers[w].req \in Request
    BY DEF SettlementInv, TypeOK, Task
  <2>2. \A w \in Worker : workers[w].pc # "posting"
    BY <2>1 DEF Retire, Unlocked
  <2> QED BY <1>0, <2>2 DEF PostingIsLocked
<1> QED BY <1>3, <1>4, <1>5, <1>6, <1>7, <1>8, <1>9, <1>10 DEF SettlementInv

\* What the environment does besides: the clock, the operator's switch, the
\* tenant's key, a retention that is refused.
LEMMA ElsewhereKeeps ==
  ASSUME SettlementInv, SetAccepting \/ DeleteAPIKey \/ MonthPasses \/ RetireRefused
  PROVE  SettlementInv'
<1> USE SettlementAssumption DEF SetAccepting, DeleteAPIKey, MonthPasses, RetireRefused
<1>0. UNCHANGED <<origin, keys, rows, effects, retired, runs, workers>>
  OBVIOUS
<1>1. /\ control' \in [accepting : BOOLEAN, closedBefore : Nat]
      /\ control'.closedBefore = control.closedBefore
  BY DEF SettlementInv, TypeOK
<1>2. month \in Nat /\ month' \in Nat /\ month <= month'
  BY DEF SettlementInv, TypeOK
<1>3. TypeOK'
  BY <1>0, <1>1, <1>2 DEF SettlementInv, TypeOK
<1>4. /\ KeysAndRowsAgree' /\ EffectsMatchSettlement' /\ RowsAreTidy' /\ OneExecutionServes'
      /\ PostingIsLocked'
  BY <1>0 DEF SettlementInv, KeysAndRowsAgree, EffectsMatchSettlement, RowsAreTidy,
              OneExecutionServes, PostingIsLocked, KeyDue
<1>5. DatesAreOrdered'
  BY <1>0, <1>1 DEF SettlementInv, DatesAreOrdered
<1>6. RunsAreKnown'
  BY <1>0, <1>2 DEF SettlementInv, RunsAreKnown, TypeOK
<1> QED BY <1>3, <1>4, <1>5, <1>6 DEF SettlementInv

-----------------------------------------------------------------------------
(* The invariant. *)

LEMMA SettlementStarts == Init => SettlementInv
<1> SUFFICES ASSUME Init PROVE SettlementInv
  OBVIOUS
<1> USE SettlementAssumption DEF Init
<1>1. TypeOK
  <2>1. \A e \in Execution : runs[e] \in Run
    BY DEF Run
  <2>2. runs \in [Execution -> Run]
    BY <2>1
  <2>3. [pc |-> "idle", req |-> CHOOSE r \in Request : TRUE] \in Task
    BY DEF Task
  <2>4. workers \in [Worker -> Task]
    BY <2>3
  <2>5. /\ keys \in [Request -> KeyRow] /\ rows \in [Request -> SettleRow]
        /\ effects \in [Request -> Effect]
    BY BlankRows
  <2> QED BY <2>2, <2>4, <2>5 DEF TypeOK
<1>2. KeysAndRowsAgree /\ RowsAreTidy /\ DatesAreOrdered
  BY BlankRows DEF KeysAndRowsAgree, RowsAreTidy, DatesAreOrdered
<1>3. EffectsMatchSettlement
  BY BlankRows DEF EffectsMatchSettlement, NoEffect, Settled, One
<1>4. RunsAreKnown /\ OneExecutionServes
  BY DEF RunsAreKnown, OneExecutionServes
<1>5. PostingIsLocked
  BY DEF PostingIsLocked
<1> QED BY <1>1, <1>2, <1>3, <1>4, <1>5 DEF SettlementInv

LEMMA SettlementSteps == SettlementInv /\ Next => SettlementInv'
<1> SUFFICES ASSUME SettlementInv, Next PROVE SettlementInv'
  OBVIOUS
<1> USE SettlementAssumption
<1>1. ASSUME NEW e \in Execution, RunStep(e) PROVE SettlementInv'
  <2>1. CASE Heartbeat(e)
    BY <2>1, LeaseKeeps, TRUE \in BOOLEAN DEF Heartbeat
  <2> QED BY <1>1, <2>1, RunSteps, RegisterKeeps, LogRegisterKeeps, SealKeeps, ReenterKeeps
          DEF RunStep
<1>2. ASSUME NEW w \in Worker, WorkerStep(w) PROVE SettlementInv'
  BY <1>2, WorkerSteps, PostKeeps, MarkKeeps DEF WorkerStep
<1>3. CASE RecordStep
  <2>1. CASE RecoverRequests
    <3>1. PICK S \in SUBSET Request : Recover(S)
      BY <2>1 DEF RecoverRequests
    <3>2. maintenance' \in {"idle", "recovered"}
      BY <2>1 DEF RecoverRequests, SettlementInv, TypeOK
    <3> QED BY <3>1, <3>2, RecoverKeeps
  <2>2. CASE MaintainRecords
    <3>1. PICK S \in SUBSET Request : Recover(S)
      BY <2>2 DEF MaintainRecords
    <3>2. maintenance' \in {"idle", "recovered"}
      BY <2>2 DEF MaintainRecords
    <3> QED BY <3>1, <3>2, RecoverKeeps
  <2> QED BY <1>3, <2>1, <2>2, RetireKeeps, ElsewhereKeeps, RefundKeeps DEF RecordStep
<1>4. CASE Environment
  <2>1. ASSUME NEW r \in Request, LeaseLapses(r) PROVE SettlementInv'
    BY <2>1, LeaseKeeps, FALSE \in BOOLEAN DEF LeaseLapses
  <2> QED BY <1>4, <2>1, ElsewhereKeeps, FlagSteps DEF Environment
<1> QED BY <1>1, <1>2, <1>3, <1>4 DEF Next

LEMMA SettlementStutters == SettlementInv /\ UNCHANGED vars => SettlementInv'
<1> SUFFICES ASSUME SettlementInv, UNCHANGED vars PROVE SettlementInv'
  OBVIOUS
<1>1. workers' \in [Worker -> Task] /\ PostingIsLocked'
  BY DEF SettlementInv, TypeOK, PostingIsLocked, vars
<1> QED BY <1>1, WorkerStepKeeps DEF vars

LEMMA SettlementInvariance == Spec => []SettlementInv
  BY SettlementStarts, SettlementSteps, SettlementStutters, PTL DEF Spec

-----------------------------------------------------------------------------
(* Theorems. *)

\* The tables keep their shapes in every execution of the request store; above
\* all, a refund (request_settlement.go) never takes more from the key's quota_used
\* than the posting added, and no retry does.
THEOREM SettlementTypes == Spec => []TypeOK
<1>1. SettlementInv => TypeOK
  BY DEF SettlementInv
<1> QED BY <1>1, SettlementInvariance, PTL

\* Money, key quota and daily totals agree with the settlement of every request,
\* for any number of executions of one identity, of workers and of failed
\* postings: charged once, refunded once, counted once.
THEOREM SettlementEffectsMatch == Spec => []EffectsMatchSettlement
<1>1. SettlementInv => EffectsMatchSettlement
  BY DEF SettlementInv
<1> QED BY <1>1, SettlementInvariance, PTL

\* A settlement exists exactly for the sealed identities, dated as they are, and
\* what retention has dropped is never registered again.
THEOREM SettlementKeysAgree == Spec => []KeysAndRowsAgree
<1>1. SettlementInv => KeysAndRowsAgree
  BY DEF SettlementInv
<1> QED BY <1>1, SettlementInvariance, PTL

\* At most one of the executions that carry an identity reaches the upstream.
THEOREM SettlementServesOnce == Spec => []OneExecutionServes
<1>1. SettlementInv => OneExecutionServes
  BY DEF SettlementInv
<1> QED BY <1>1, SettlementInvariance, PTL

-----------------------------------------------------------------------------
(* The refinement of Charges. *)

\* What the payer of one request sees is unmoved.
SeenAlike(q) ==
  /\ q \in retired' <=> q \in retired
  /\ rows'[q].state = rows[q].state /\ rows'[q].due = rows[q].due
  /\ effects'[q].charged = effects[q].charged /\ effects'[q].refunded = effects[q].refunded

\* A step that moves nothing a payer sees is a stutter of Charges.
LEMMA UnseenStep ==
  ASSUME \A q \in Request : SeenAlike(q)
  PROVE  UNCHANGED <<Status, DueOf, Paid>>
<1>1. \A q \in Request : Status'[q] = Status[q] /\ DueOf'[q] = DueOf[q] /\ Paid'[q] = Paid[q]
  BY DEF Status, DueOf, Paid, SeenAlike
<1>2. Status' = Status
  BY <1>1 DEF Status
<1>3. DueOf' = DueOf
  BY <1>1 DEF DueOf
<1>4. Paid' = Paid
  BY <1>1 DEF Paid
<1> QED BY <1>2, <1>3, <1>4

\* A step that moves what the payer of one request sees.
LEMMA SeenStep ==
  ASSUME NEW r \in Request, r \notin retired, r \notin retired',
         \A q \in Request \ {r} : SeenAlike(q)
  PROVE  /\ Status' = [Status EXCEPT ![r] = IF rows'[r].state = "none" THEN "open" ELSE rows'[r].state]
         /\ DueOf' = [DueOf EXCEPT ![r] = rows'[r].due]
         /\ Paid' = [Paid EXCEPT ![r] = effects'[r].charged - effects'[r].refunded]
         /\ Status[r] = IF rows[r].state = "none" THEN "open" ELSE rows[r].state
         /\ DueOf[r] = rows[r].due
         /\ Paid[r] = effects[r].charged - effects[r].refunded
<1>1. \A q \in Request \ {r} : Status'[q] = Status[q] /\ DueOf'[q] = DueOf[q] /\ Paid'[q] = Paid[q]
  BY DEF Status, DueOf, Paid, SeenAlike
<1>2. /\ Status'[r] = IF rows'[r].state = "none" THEN "open" ELSE rows'[r].state
      /\ DueOf'[r] = rows'[r].due
      /\ Paid'[r] = effects'[r].charged - effects'[r].refunded
  BY DEF Status, DueOf, Paid
<1>3. Status' = [Status EXCEPT ![r] = IF rows'[r].state = "none" THEN "open" ELSE rows'[r].state]
  BY <1>1, <1>2 DEF Status
<1>4. DueOf' = [DueOf EXCEPT ![r] = rows'[r].due]
  BY <1>1, <1>2 DEF DueOf
<1>5. Paid' = [Paid EXCEPT ![r] = effects'[r].charged - effects'[r].refunded]
  BY <1>1, <1>2 DEF Paid
<1>6. /\ Status[r] = IF rows[r].state = "none" THEN "open" ELSE rows[r].state
      /\ DueOf[r] = rows[r].due
      /\ Paid[r] = effects[r].charged - effects[r].refunded
  BY DEF Status, DueOf, Paid
<1> QED BY <1>3, <1>4, <1>5, <1>6

\* Sealing waives a request, or says what it owes.
LEMMA SealRefines ==
  ASSUME SettlementInv, NEW e \in Execution, Seal(e)
  PROVE  Abstract!Next
<1> DEFINE r == identity[e]
<1>0. /\ TypeOK /\ r \in Request /\ keys[r] \in KeyRow /\ effects[r] \in Effect
      /\ keys[r].state = "open" /\ keys[r].at \in Nat
  BY SettlementAssumption DEF SettlementInv, TypeOK, Seal, KeyRow
<1>1. PICK due \in Decisions(e), b \in BOOLEAN :
        /\ rows' = [rows EXCEPT ![r] = SealedRow(keys[r].at, due, b)]
        /\ effects' = [effects EXCEPT ![r] = CountRequest(@, b)]
  BY DEF Seal
<1>2. due \in Nat /\ due \in Amount \cup {0}
  BY DecisionsAreAmounts
<1>3. /\ rows'[r].state = (IF due = 0 THEN "waived" ELSE "pending") /\ rows'[r].due = due
  BY <1>0, <1>1, <1>2, SealedRowFacts DEF TypeOK
<1>4. /\ rows[r].state = "none" /\ rows[r].due = 0 /\ r \notin retired
      /\ effects[r].charged = 0 /\ effects[r].refunded = 0
  BY <1>0, OpenFits, BlankRows DEF SettlementInv, RowsAreTidy
<1>5. effects'[r].charged = 0 /\ effects'[r].refunded = 0
  BY <1>0, <1>1, <1>4, CountRequestFacts DEF TypeOK
<1>6. r \notin retired' /\ \A q \in Request \ {r} : SeenAlike(q)
  BY <1>0, <1>1, <1>4 DEF TypeOK, SeenAlike, Seal
<1>7. /\ Status' = [Status EXCEPT ![r] = rows'[r].state]
      /\ DueOf' = [DueOf EXCEPT ![r] = due]
      /\ Paid' = [Paid EXCEPT ![r] = 0]
      /\ Status[r] = "open" /\ DueOf[r] = 0 /\ Paid[r] = 0
  BY <1>0, <1>3, <1>4, <1>5, <1>6, SeenStep
<1>8. UNCHANGED Paid
  BY <1>7 DEF Paid
<1>9. CASE due = 0
  <2>1. UNCHANGED DueOf
    BY <1>7, <1>9 DEF DueOf
  <2>2. Status' = [q \in Request |-> IF q \in {r} THEN "waived" ELSE Status[q]]
    BY <1>3, <1>7, <1>9 DEF Status
  <2>3. Abstract!Waive({r})
    BY <1>7, <1>8, <2>1, <2>2 DEF Abstract!Waive
  <2> QED BY <1>0, <2>3 DEF Abstract!Next
<1>10. CASE due # 0
  <2>1. Abstract!Owe(r, due) /\ due \in Amount
    BY <1>2, <1>3, <1>7, <1>8, <1>10 DEF Abstract!Owe
  <2> QED BY <1>0, <2>1 DEF Abstract!Next
<1> QED BY <1>9, <1>10

\* Posting pays what is owed.
LEMMA PostRefines ==
  ASSUME SettlementInv, NEW w \in Worker, Post(w)
  PROVE  Abstract!Next
<1> DEFINE r == workers[w].req
<1>0. /\ TypeOK /\ r \in Request /\ effects[r] \in Effect
      /\ rows[r] \in SettleRow /\ rows[r].due \in Nat
  BY DEF SettlementInv, TypeOK, Task, SettleRow
<1>1. rows[r].state = "pending"
  BY DEF SettlementInv, PostingIsLocked, Post
<1>2. r \notin retired /\ EffectFits(r, rows[r], effects[r])
  BY <1>0, <1>1, SealedFits
<1>3. KeyDue(r) \in Nat
  BY <1>0 DEF KeyDue
<1>4. rows'[r].state = "posted" /\ rows'[r].due = rows[r].due
  <2>1. rows'[r] = PostRow(rows[r])
    BY <1>0 DEF Post, TypeOK
  <2>2. PostRow(rows[r]).state = "posted" /\ PostRow(rows[r]).due = rows[r].due
    BY <1>0, RowFacts
  <2> QED BY <2>1, <2>2
<1>5. /\ effects'[r].charged = effects[r].charged + rows[r].due
      /\ effects'[r].refunded = effects[r].refunded
  <2>1. effects'[r] = ChargeEffect(effects[r], rows[r].due, KeyDue(r))
    BY <1>0 DEF Post, TypeOK
  <2> DEFINE y == ChargeEffect(effects[r], rows[r].due, KeyDue(r))
  <2>2. y.charged = effects[r].charged + rows[r].due /\ y.refunded = effects[r].refunded
    BY <1>0, <1>3, ChargeFacts
  <2> QED BY <2>1, <2>2
<1>6. effects'[r].charged - effects'[r].refunded = rows[r].due
  BY <1>0, <1>1, <1>2, <1>5 DEF EffectFits
<1>7. r \notin retired' /\ \A q \in Request \ {r} : SeenAlike(q)
  BY <1>0, <1>2 DEF TypeOK, SeenAlike, Post
<1>8. /\ Status' = [Status EXCEPT ![r] = "posted"]
      /\ DueOf' = [DueOf EXCEPT ![r] = DueOf[r]]
      /\ Paid' = [Paid EXCEPT ![r] = DueOf[r]]
      /\ Status[r] = "pending"
  BY <1>0, <1>1, <1>2, <1>4, <1>6, <1>7, SeenStep
<1>9. UNCHANGED DueOf
  BY <1>8 DEF DueOf
<1>10. Abstract!Pay(r)
  BY <1>8, <1>9 DEF Abstract!Pay
<1> QED BY <1>0, <1>10 DEF Abstract!Next

\* A refund gives back what was paid.
LEMMA RefundRefines ==
  ASSUME SettlementInv, NEW r \in Request, Refund(r)
  PROVE  Abstract!Next
<1>0. /\ TypeOK /\ effects[r] \in Effect
      /\ rows[r] \in SettleRow /\ rows[r].due \in Nat
  BY DEF SettlementInv, TypeOK, SettleRow
<1>1. rows[r].state = "posted"
  BY DEF Refund
<1>2. r \notin retired /\ EffectFits(r, rows[r], effects[r])
  BY <1>1, SealedFits
<1>3. KeyDue(r) \in Nat /\ KeyDue(r) <= effects[r].quota
  BY <1>0, <1>1, <1>2 DEF KeyDue, EffectFits
<1>4. rows'[r].state = "refunded" /\ rows'[r].due = rows[r].due
  <2>1. rows'[r] = RefundRow(rows[r])
    BY <1>0 DEF Refund, TypeOK
  <2>2. RefundRow(rows[r]).state = "refunded" /\ RefundRow(rows[r]).due = rows[r].due
    BY <1>0, RowFacts
  <2> QED BY <2>1, <2>2
<1>5. /\ effects'[r].refunded = effects[r].refunded + rows[r].due
      /\ effects'[r].charged = effects[r].charged
  BY <1>0, <1>3, RefundFacts DEF Refund, TypeOK
<1>6. effects'[r].charged - effects'[r].refunded = 0
  BY <1>0, <1>1, <1>2, <1>5 DEF EffectFits
<1>7. r \notin retired' /\ \A q \in Request \ {r} : SeenAlike(q)
  BY <1>0, <1>2 DEF TypeOK, SeenAlike, Refund
<1>8. /\ Status' = [Status EXCEPT ![r] = "refunded"]
      /\ DueOf' = [DueOf EXCEPT ![r] = DueOf[r]]
      /\ Paid' = [Paid EXCEPT ![r] = 0]
      /\ Status[r] = "posted"
  BY <1>1, <1>2, <1>4, <1>6, <1>7, SeenStep
<1>9. UNCHANGED DueOf
  BY <1>8 DEF DueOf
<1>10. Abstract!GiveBack(r)
  BY <1>8, <1>9 DEF Abstract!GiveBack
<1> QED BY <1>10 DEF Abstract!Next

\* A failed posting leaves the charge pending, or puts it under review.
LEMMA MarkRefines ==
  ASSUME SettlementInv, NEW w \in Worker, Mark(w)
  PROVE  Abstract!Next \/ UNCHANGED <<Status, DueOf, Paid>>
<1> DEFINE r == workers[w].req
<1>0. /\ TypeOK /\ r \in Request /\ rows[r] \in SettleRow
  BY DEF SettlementInv, TypeOK, Task
<1>1. /\ rows' = [rows EXCEPT ![r] = IF rows[r].state = "pending" THEN FailRow(rows[r]) ELSE rows[r]]
      /\ UNCHANGED <<effects, retired>>
  BY DEF Mark
<1>2. \A q \in Request \ {r} : SeenAlike(q)
  BY <1>0, <1>1 DEF TypeOK, SeenAlike
<1>3. CASE rows[r].state = "pending" /\ rows[r].attempts >= ReviewAfter
  <2>1. rows'[r] = FailRow(rows[r])
    BY <1>0, <1>1, <1>3 DEF TypeOK
  <2>2. rows'[r].state = "review" /\ rows'[r].due = rows[r].due
    <3>1. FailRow(rows[r]).state = "review" /\ FailRow(rows[r]).due = rows[r].due
      BY <1>0, <1>3, RowFacts
    <3> QED BY <2>1, <3>1
  <2>3. r \notin retired /\ r \notin retired'
    BY <1>0, <1>1, <1>3, SealedFits
  <2>4. /\ Status' = [Status EXCEPT ![r] = "review"]
        /\ DueOf' = [DueOf EXCEPT ![r] = DueOf[r]]
        /\ Paid' = [Paid EXCEPT ![r] = Paid[r]]
        /\ Status[r] = "pending"
    BY <1>0, <1>1, <1>2, <1>3, <2>2, <2>3, SeenStep
  <2>5. UNCHANGED <<DueOf, Paid>>
    BY <2>4 DEF DueOf, Paid
  <2>6. Abstract!GiveUp(r)
    BY <2>4, <2>5 DEF Abstract!GiveUp
  <2> QED BY <1>0, <2>6 DEF Abstract!Next
<1>4. CASE ~ (rows[r].state = "pending" /\ rows[r].attempts >= ReviewAfter)
  <2>1. rows'[r].state = rows[r].state /\ rows'[r].due = rows[r].due
    <3>1. rows'[r] = IF rows[r].state = "pending" THEN FailRow(rows[r]) ELSE rows[r]
      BY <1>0, <1>1 DEF TypeOK
    <3>2. /\ FailRow(rows[r]).due = rows[r].due
          /\ FailRow(rows[r]).state = IF rows[r].attempts >= ReviewAfter THEN "review" ELSE "pending"
      BY <1>0, RowFacts
    <3> QED BY <1>4, <3>1, <3>2
  <2>2. \A q \in Request : SeenAlike(q)
    BY <1>1, <1>2, <2>1 DEF SeenAlike
  <2> QED BY <2>2, UnseenStep
<1> QED BY <1>3, <1>4

\* Recovery waives the requests of its batch.
LEMMA RecoverRefines ==
  ASSUME SettlementInv, NEW S \in SUBSET Request, Recover(S)
  PROVE  Abstract!Next
<1>0. UNCHANGED retired
  BY DEF Recover
<1>1. \A q \in Request : IF q \in S THEN Recovered(q) ELSE Untouched(q)
  BY RecoverFacts
<1>2. ASSUME NEW q \in S PROVE rows[q].due = 0 /\ effects[q].charged = 0 /\ effects[q].refunded = 0
                               /\ effects'[q].charged = 0 /\ effects'[q].refunded = 0
  BY <1>1, BlankRows DEF Recovered, EffectFits, SettlementInv, RowsAreTidy
<1>3. \A q \in Request : DueOf'[q] = DueOf[q] /\ Paid'[q] = Paid[q]
  BY <1>0, <1>1, <1>2 DEF DueOf, Paid, Recovered, Untouched
<1>4. UNCHANGED <<DueOf, Paid>>
  BY <1>3 DEF DueOf, Paid
<1>5. \A q \in S : Status[q] = "open"
  BY <1>1 DEF Status, Recovered
<1>6. \A q \in Request : Status'[q] = IF q \in S THEN "waived" ELSE Status[q]
  BY <1>0, <1>1 DEF Status, Recovered, Untouched
<1>7. Status' = [q \in Request |-> IF q \in S THEN "waived" ELSE Status[q]]
  BY <1>6 DEF Status
<1>8. Abstract!Waive(S)
  BY <1>4, <1>5, <1>7 DEF Abstract!Waive
<1> QED BY <1>8 DEF Abstract!Next

\* Retention archives charges that are decided and owe nothing more.
LEMMA RetireRefines ==
  ASSUME SettlementInv, Retire
  PROVE  Abstract!Next
<1> DEFINE S == {q \in Request : Dropped(q)}
<1>0. UNCHANGED effects
  BY DEF Retire
<1>1. \A q \in Request : q \in S \/ Kept(q)
  BY RetireFacts
<1>2. \A q \in S : q \in Request /\ Dropped(q)
  OBVIOUS
<1> HIDE DEF S
<1>3. \A q \in S : effects[q].charged = rows[q].due
  <2> SUFFICES ASSUME NEW q \in S PROVE effects[q].charged = rows[q].due
    OBVIOUS
  <2>1. rows[q].state \in {"waived", "posted", "refunded"} /\ q \in Request
    BY <1>2 DEF Dropped
  <2>2. EffectFits(q, rows[q], effects[q])
    BY <2>1, SealedFits
  <2> QED BY <2>1, <2>2 DEF EffectFits, SettlementInv, RowsAreTidy
<1>4. \A q \in Request : DueOf'[q] = DueOf[q] /\ Paid'[q] = Paid[q]
  BY <1>0, <1>1, <1>2, <1>3 DEF DueOf, Paid, Kept, Dropped
<1>5. UNCHANGED <<DueOf, Paid>>
  BY <1>4 DEF DueOf, Paid
<1>6. \A q \in S : Status[q] \in {"waived", "posted", "refunded"}
  BY <1>2 DEF Status, Dropped
<1>7. \A q \in Request : Status'[q] = IF q \in S THEN "archived" ELSE Status[q]
  BY <1>1, <1>2 DEF Status, Kept, Dropped
<1>8. Status' = [q \in Request |-> IF q \in S THEN "archived" ELSE Status[q]]
  BY <1>7 DEF Status
<1>9. Abstract!Archive(S)
  BY <1>5, <1>6, <1>8 DEF Abstract!Archive
<1>10. S \in SUBSET Request
  BY <1>2
<1> QED BY <1>9, <1>10 DEF Abstract!Next

\* Every other step is one no payer sees.
LEMMA OthersRefine ==
  ASSUME SettlementInv, retired' = retired,
         effects' = effects \/ (\E e \in Execution : Reenter(e)),
         \A q \in Request : rows'[q].state = rows[q].state /\ rows'[q].due = rows[q].due
  PROVE  UNCHANGED <<Status, DueOf, Paid>>
<1>1. ASSUME NEW e \in Execution, Reenter(e), NEW q \in Request
      PROVE  /\ effects'[q].charged = effects[q].charged
             /\ effects'[q].refunded = effects[q].refunded
  <2>1. effects \in [Request -> Effect] /\ effects[q] \in Effect
    BY DEF SettlementInv, TypeOK
  <2>2. effects'[q] = effects[q] \/ effects'[q] = CountInterruption(effects[q])
    BY <1>1, <2>1 DEF Reenter
  <2> QED BY <2>1, <2>2, CountInterruptionFacts
<1>2. \A q \in Request : SeenAlike(q)
  BY <1>1 DEF SeenAlike
<1> QED BY <1>2, UnseenStep

\* The steps that touch a settlement without moving its state or its charge.
LEMMA QuietRows ==
  ASSUME SettlementInv, NEW q \in Request,
         \/ UNCHANGED rows
         \/ \E e \in Execution : Reenter(e)
         \/ \E r \in Request : BackoffElapses(r) \/ BacklogAges(r)
  PROVE  rows'[q].state = rows[q].state /\ rows'[q].due = rows[q].due
<1>0. rows \in [Request -> SettleRow] /\ rows[q] \in SettleRow
  BY DEF SettlementInv, TypeOK
<1>1. \/ rows'[q] = rows[q]
      \/ rows'[q] = Interrupt(rows[q])
      \/ rows'[q] = [rows[q] EXCEPT !.ready = TRUE]
      \/ rows'[q] = [rows[q] EXCEPT !.stale = TRUE]
  BY <1>0 DEF Reenter, BackoffElapses, BacklogAges
<1>2. /\ Interrupt(rows[q]).state = rows[q].state /\ Interrupt(rows[q]).due = rows[q].due
      /\ [rows[q] EXCEPT !.ready = TRUE].state = rows[q].state
      /\ [rows[q] EXCEPT !.ready = TRUE].due = rows[q].due
      /\ [rows[q] EXCEPT !.stale = TRUE].state = rows[q].state
      /\ [rows[q] EXCEPT !.stale = TRUE].due = rows[q].due
  BY <1>0 DEF Interrupt, SettleRow
<1> QED BY <1>1, <1>2

\* Every step of the request store is a step of Charges or none.
LEMMA StepRefines ==
  ASSUME SettlementInv, Next
  PROVE  Abstract!Next \/ UNCHANGED <<Status, DueOf, Paid>>
<1>1. ASSUME NEW e \in Execution, RunStep(e)
      PROVE  Abstract!Next \/ UNCHANGED <<Status, DueOf, Paid>>
  <2>1. CASE Seal(e)
    BY <2>1, SealRefines
  <2>2. CASE Reenter(e)
    <3>1. retired' = retired
      BY <2>2 DEF Reenter
    <3>2. \A q \in Request : rows'[q].state = rows[q].state /\ rows'[q].due = rows[q].due
      BY <2>2, QuietRows
    <3> QED BY <2>2, <3>1, <3>2, OthersRefine
  <2>3. CASE UNCHANGED <<rows, effects, retired>>
    BY <2>3, OthersRefine
  <2> QED BY <1>1, <2>1, <2>2, <2>3
          DEF RunStep, RejectEarly, Admit, Register, RegisterFails, Heartbeat, HeartbeatFails,
              Interrupted, LogRegister, LogFails, RuntimeLost
<1>2. ASSUME NEW w \in Worker, WorkerStep(w)
      PROVE  Abstract!Next \/ UNCHANGED <<Status, DueOf, Paid>>
  <2>1. CASE Post(w)
    BY <2>1, PostRefines
  <2>2. CASE Mark(w)
    BY <2>2, MarkRefines
  <2>3. CASE UNCHANGED <<rows, effects, retired>>
    BY <2>3, OthersRefine
  <2> QED BY <1>2, <2>1, <2>2, <2>3 DEF WorkerStep, Pick, PostFails, WorkerAborts
<1>3. CASE RecordStep
  <2>1. CASE RecoverRequests \/ MaintainRecords
    <3>1. PICK S \in SUBSET Request : Recover(S)
      BY <2>1 DEF RecoverRequests, MaintainRecords
    <3> QED BY <3>1, RecoverRefines
  <2>2. CASE Retire
    BY <2>2, RetireRefines
  <2>3. CASE RetireRefused
    BY <2>3, OthersRefine DEF RetireRefused
  <2>4. CASE \E r \in Request : Refund(r)
    BY <2>4, RefundRefines
  <2> QED BY <1>3, <2>1, <2>2, <2>3, <2>4 DEF RecordStep
<1>4. CASE Environment
  <2>1. effects' = effects /\ retired' = retired
    BY <1>4 DEF Environment, SetAccepting, DeleteAPIKey, MonthPasses, LeaseLapses,
                BackoffElapses, BacklogAges
  <2>2. UNCHANGED rows \/ \E r \in Request : BackoffElapses(r) \/ BacklogAges(r)
    BY <1>4 DEF Environment, SetAccepting, DeleteAPIKey, MonthPasses, LeaseLapses
  <2>3. \A q \in Request : rows'[q].state = rows[q].state /\ rows'[q].due = rows[q].due
    BY <2>2, QuietRows
  <2> QED BY <2>1, <2>3, OthersRefine
<1> QED BY <1>1, <1>2, <1>3, <1>4 DEF Next

\* The request store implements Charges, for any requests, executions, workers
\* and prices: the decision of a request is never revised, what it owes is paid
\* at most once and given back at most once, and nothing undecided is archived,
\* whichever of Log, the settlement workers, recovery, an operator's refund and
\* retention come first.
THEOREM SettlementImplementsCharges == Spec => ImplementsCharges
<1>1. Init => Abstract!Init
  <2> SUFFICES ASSUME Init PROVE Abstract!Init
    OBVIOUS
  <2>1. /\ Status = [r \in Request |-> "open"] /\ DueOf = [r \in Request |-> 0]
        /\ Paid = [r \in Request |-> 0]
    BY BlankRows DEF Init, Status, DueOf, Paid, NoEffect
  <2> QED BY <2>1 DEF Abstract!Init
<1>2. SettlementInv /\ [Next]_vars => [Abstract!Next]_(Abstract!vars)
  <2>1. UNCHANGED vars => UNCHANGED <<Status, DueOf, Paid>>
    BY DEF vars, Status, DueOf, Paid
  <2> QED BY <2>1, StepRefines DEF Abstract!vars
<1> QED BY <1>1, <1>2, SettlementInvariance, PTL DEF Spec, ImplementsCharges, Abstract!Spec


-----------------------------------------------------------------------------
(* What one settlement in review does to everybody. *)

\* No step takes a settlement out of review, and while one is there no step
\* admits an execution that was not admitted before.
ReviewStep ==
  \A r \in Request : rows[r].state = "review" =>
    /\ rows'[r].state = "review"
    /\ \A e \in Execution : runs'[e].pc = "admitted" => runs[e].pc = "admitted"

\* A settlement in review is sealed already, and nobody is posting it.
LEMMA UnderReview ==
  ASSUME SettlementInv, NEW r \in Request, rows[r].state = "review"
  PROVE  /\ rows \in [Request -> SettleRow] /\ rows[r] \in SettleRow
         /\ keys[r].state = "sealed"
         /\ \A w \in Worker : workers[w].pc = "posting" => workers[w].req # r
  BY DEF SettlementInv, TypeOK, KeysAndRowsAgree, PostingIsLocked

LEMMA ReviewStays ==
  ASSUME SettlementInv, Next, NEW r \in Request, rows[r].state = "review"
  PROVE  rows'[r].state = "review"
<1>1. /\ rows \in [Request -> SettleRow] /\ rows[r] \in SettleRow
      /\ keys[r].state = "sealed"
      /\ \A w \in Worker : workers[w].pc = "posting" => workers[w].req # r
  BY UnderReview
<1>2. ASSUME NEW e \in Execution, RunStep(e)
      PROVE  rows'[r].state = "review"
  <2>1. CASE Seal(e)
    BY <1>1, <2>1 DEF Seal
  <2>2. CASE Reenter(e)
    BY <2>2, QuietRows
  <2>3. CASE UNCHANGED rows
    BY <2>3
  <2> QED BY <1>2, <2>1, <2>2, <2>3
          DEF RunStep, RejectEarly, Admit, Register, RegisterFails, Heartbeat, HeartbeatFails,
              Interrupted, LogRegister, LogFails, RuntimeLost
<1>3. ASSUME NEW w \in Worker, WorkerStep(w)
      PROVE  rows'[r].state = "review"
  <2>1. CASE Post(w)
    BY <1>1, <2>1 DEF Post
  <2>2. CASE Mark(w)
    BY <1>1, <2>2 DEF Mark
  <2>3. CASE UNCHANGED rows
    BY <2>3
  <2> QED BY <1>3, <2>1, <2>2, <2>3 DEF WorkerStep, Pick, PostFails, WorkerAborts
<1>4. CASE RecordStep
  <2>1. CASE RecoverRequests \/ MaintainRecords
    <3>1. PICK S \in SUBSET Request : Recover(S)
      BY <2>1 DEF RecoverRequests, MaintainRecords
    <3> QED BY <3>1 DEF Recover
  <2>2. CASE Retire
    <3>1. ~ (rows[r].at < Cutoff)
      BY <2>2 DEF Retire, Unresolved
    <3>2. rows'[r] = rows[r]
      BY <2>2, <3>1 DEF Retire
    <3> QED BY <3>2
  <2>3. CASE \E q \in Request : Refund(q)
    BY <1>1, <2>3 DEF Refund
  <2> QED BY <1>4, <2>1, <2>2, <2>3 DEF RecordStep, RetireRefused
<1>5. CASE Environment
  <2>1. UNCHANGED rows \/ \E q \in Request : BackoffElapses(q) \/ BacklogAges(q)
    BY <1>5 DEF Environment, SetAccepting, DeleteAPIKey, MonthPasses, LeaseLapses
  <2> QED BY <2>1, QuietRows
<1> QED BY <1>2, <1>3, <1>4, <1>5 DEF Next

\* The admission query of Execute is the one way in.
LEMMA OnlyAdmitAdmits ==
  ASSUME SettlementInv, Next, ~ Healthy, NEW f \in Execution, runs'[f].pc = "admitted"
  PROVE  runs[f].pc = "admitted"
<1>1. runs \in [Execution -> Run] /\ runs[f] \in Run
  BY DEF SettlementInv, TypeOK
<1>2. ASSUME NEW e \in Execution, RunStep(e)
      PROVE  runs[f].pc = "admitted"
  <2>1. CASE \E p \in Place : p # "admitted" /\ Goto(e, p)
    BY <1>1, <2>1 DEF Goto, Run
  <2>2. CASE Refuse(e)
    BY <1>1, <2>2 DEF Refuse, Run
  <2>3. CASE \E ok \in BOOLEAN : LogReturns(e, ok)
    BY <1>1, <2>3 DEF LogReturns, Run
  <2>4. CASE \/ runs' = [runs EXCEPT ![e].pc = "running", ![e].beating = TRUE, ![e].served = TRUE]
             \/ runs' = [runs EXCEPT ![e].pc = "ended", ![e].told = "error"]
             \/ runs' = [runs EXCEPT ![e].pc = "ended", ![e].beating = FALSE]
             \/ runs' = [runs EXCEPT ![e].beating = FALSE]
             \/ UNCHANGED runs
    BY <1>1, <2>4 DEF Run
  <2>5. \/ \E p \in Place : p # "admitted" /\ Goto(e, p)
        \/ Refuse(e)
        \/ \E ok \in BOOLEAN : LogReturns(e, ok)
        \/ runs' = [runs EXCEPT ![e].pc = "running", ![e].beating = TRUE, ![e].served = TRUE]
        \/ runs' = [runs EXCEPT ![e].pc = "ended", ![e].told = "error"]
        \/ runs' = [runs EXCEPT ![e].pc = "ended", ![e].beating = FALSE]
        \/ runs' = [runs EXCEPT ![e].beating = FALSE]
        \/ UNCHANGED runs
    BY <1>2 DEF RunStep, RejectEarly, Admit, Register, RegisterFails, Heartbeat, HeartbeatFails,
                Interrupted, LogRegister, Seal, Reenter, LogFails, RuntimeLost, Place
  <2> QED BY <2>1, <2>2, <2>3, <2>4, <2>5
<1>3. CASE UNCHANGED runs
  BY <1>3
<1>4. ASSUME NEW w \in Worker, WorkerStep(w)
      PROVE  UNCHANGED runs
  BY <1>4 DEF WorkerStep, Pick, Post, PostFails, Mark, WorkerAborts
<1>5. CASE RecordStep \/ Environment
  BY <1>3, <1>5 DEF RecordStep, RecoverRequests, MaintainRecords, Recover, Retire, RetireRefused,
               Refund, Environment, SetAccepting, DeleteAPIKey, MonthPasses, LeaseLapses,
               BackoffElapses, BacklogAges
<1> QED BY <1>2, <1>3, <1>4, <1>5 DEF Next

\* A settlement whose posting has failed too often, say because its API key
\* is gone, stays in review: no retry, refund, recovery or retention moves it,
\* and as long as it is there the admission query of Execute turns every
\* request of every tenant away.
THEOREM ReviewStopsAdmission == Spec => [][ReviewStep]_vars
<1>1. SettlementInv /\ [Next]_vars => [ReviewStep]_vars
  <2> SUFFICES ASSUME SettlementInv, Next, NEW r \in Request, rows[r].state = "review"
               PROVE  /\ rows'[r].state = "review"
                      /\ \A e \in Execution : runs'[e].pc = "admitted" => runs[e].pc = "admitted"
    BY DEF ReviewStep
  <2>1. ~ Healthy
    BY DEF Healthy
  <2> QED BY <2>1, ReviewStays, OnlyAdmitAdmits
<1> QED BY <1>1, SettlementInvariance, PTL DEF Spec
=============================================================================
