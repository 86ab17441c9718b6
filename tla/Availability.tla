---------------------------- MODULE Availability ----------------------------
(***************************************************************************)
(* Upstream availability (internal/ai/routing/availability.lua, its Go     *)
(* client and the attempts of internal/ai/serving that use it).            *)
(*                                                                         *)
(* One run of the script is one step.  The calls around it are not: the    *)
(* answer to an acquire may be lost, the Redis client may send it again,   *)
(* the caller gives up after a second and cancels, and the abandoned       *)
(* acquire may still arrive.  A completion arrives late or never.          *)
(*                                                                         *)
(* A token is the uuid of one attempt; it is reused here only when nothing *)
(* of its earlier use is left.  Delays, back-off levels and statistics are *)
(* left out: whether the window of the last minute trips is left open.     *)
(***************************************************************************)
EXTENDS Integers, FiniteSets

CONSTANTS
  Scope, NoScope,
  Candidate,
  scopesOf,      \* CandidateScopes of each candidate
  Token, NoToken,
  FailureLimit,  \* consecutive failures that trip a scope: 5
  MaxEpoch       \* bound on the generations of a scope

ASSUME AvailabilityAssumption ==
  /\ Candidate # {} /\ scopesOf \in [Candidate -> SUBSET Scope]
  /\ NoScope \notin Scope /\ NoToken \notin Token
  /\ FailureLimit \in Nat \ {0} /\ MaxEpoch \in Nat

VARIABLES
  scopes,    \* the state of each scope
  permits,   \* permit:<token>, the generations a token was admitted in
  tombs,     \* permit:<token>:canceled
  calls      \* what each attempt is doing

vars == <<scopes, permits, tombs, calls>>

Fresh    == [phase |-> "available", epoch |-> 0, failures |-> 0, successes |-> 0,
             owner |-> NoToken]
NoPermit == [s \in Scope |-> -1]
Neutral  == [kind |-> "neutral", scope |-> NoScope]
IdleCall == [pc |-> "idle", cand |-> CHOOSE c \in Candidate : TRUE, sent |-> FALSE]

ScopeRow == [phase : {"available", "cooling", "recovering"}, epoch : 0 .. MaxEpoch,
             failures : Nat, successes : 0 .. 2, owner : Token \cup {NoToken}]
CallRow  == [pc : {"idle", "asking", "cancelling", "running"},
             cand : Candidate, sent : BOOLEAN]

Held(t)     == permits[t] # NoPermit
ScopesOf(t) == scopesOf[calls[t].cand]

-----------------------------------------------------------------------------
(* The script. *)

\* Mutant: the generation stays, so that requests of old still count.
CoolInPlace(x) ==
  [x EXCEPT !.phase = "cooling", !.owner = NoToken, !.successes = 0]

\* Mutant: proofs of an earlier recovery are kept.
CoolKeepsProofs(x) ==
  [x EXCEPT !.phase = "cooling", !.epoch = @ + 1, !.owner = NoToken]

Cool(x) ==
  [x EXCEPT !.phase = "cooling", !.epoch = @ + 1, !.owner = NoToken, !.successes = 0]

\* Mutant: one success too many is asked for.
ProvedLate(x) ==
  IF x.successes + 1 > 2 THEN [x EXCEPT !.phase = "available", !.successes = @ + 1]
                         ELSE [x EXCEPT !.successes = @ + 1]

\* A success of the trial; the second opens the scope.
Proved(x) ==
  IF x.successes + 1 >= 2 THEN [x EXCEPT !.phase = "available", !.successes = @ + 1]
                          ELSE [x EXCEPT !.successes = @ + 1]

\* Mutant: whatever the generation.
CountsAlways(t, s) ==
  /\ s \in ScopesOf(t)
  /\ scopes[s].phase = "recovering" => scopes[s].owner = t

\* A completion counts in the generation it was admitted in, and in a
\* recovering scope only for the owner of the trial.
Counts(t, s) ==
  /\ s \in ScopesOf(t)
  /\ scopes[s].epoch = permits[t][s]
  /\ scopes[s].phase = "recovering" => scopes[s].owner = t

\* What the verdict does to a scope it counts for; window says whether the
\* failure rate of the last minute trips it.  Failures are counted up to the
\* limit, beyond which the code asks nothing of the count.
Judged(t, s, v, window) ==
  LET x == [scopes[s] EXCEPT !.owner = IF @ = t THEN NoToken ELSE @]
  IN  CASE v.kind = "success" ->
             LET y == [x EXCEPT !.failures = 0]
             IN  IF x.phase = "recovering" THEN Proved(y) ELSE y
        [] v.kind = "failure" /\ v.scope = s -> Cool(x)
        [] v.kind = "health" /\ v.scope = s ->
             LET y == [x EXCEPT !.failures = IF @ < FailureLimit THEN @ + 1 ELSE @]
             IN  IF x.phase = "recovering" \/ y.failures >= FailureLimit \/ window
                 THEN Cool(y) ELSE y
        [] OTHER -> x

\* complete: the permit is consumed; without one nothing happens.
Complete(t, v) ==
  /\ permits' = [permits EXCEPT ![t] = NoPermit]
  /\ IF Held(t)
     THEN \E window \in BOOLEAN :
            scopes' = [s \in Scope |->
              IF Counts(t, s) THEN Judged(t, s, v, window) ELSE scopes[s]]
     ELSE UNCHANGED scopes

\* Mutant: a cancelled token is not refused.
AdmitsCancelled(t) ==
  \A s \in ScopesOf(t) : /\ scopes[s].phase # "cooling"
                         /\ scopes[s].phase = "recovering" => scopes[s].owner = NoToken

\* acquire asks every scope before it takes any.  The owner may be the token
\* itself, when an earlier copy of the call was run.
Admits(t) ==
  /\ t \notin tombs
  /\ \A s \in ScopesOf(t) : /\ scopes[s].phase # "cooling"
                            /\ scopes[s].phase = "recovering" => scopes[s].owner = NoToken

Admit(t) ==
  /\ permits' = [permits EXCEPT ![t] =
       [s \in Scope |-> IF s \in ScopesOf(t) THEN scopes[s].epoch ELSE -1]]
  /\ scopes' = [s \in Scope |->
       IF s \in ScopesOf(t) /\ scopes[s].phase = "recovering"
       THEN [scopes[s] EXCEPT !.owner = t] ELSE scopes[s]]

-----------------------------------------------------------------------------
(* Acquire: acquireAvailability of one attempt. *)

Goto(t, pc) == calls' = [calls EXCEPT ![t].pc = pc]

\* The attempt is over; a copy of its acquire may still be on its way.
Leave(t) ==
  calls' = [calls EXCEPT ![t] = IF @.sent THEN [@ EXCEPT !.pc = "idle"] ELSE IdleCall]

\* bound: nothing is admitted in the last generation.
InBounds(t) == \A s \in ScopesOf(t) : scopes[s].epoch < MaxEpoch

Ask(t, c) ==
  /\ calls[t] = IdleCall
  /\ ~ Held(t) /\ t \notin tombs
  /\ calls' = [calls EXCEPT ![t].pc = "asking", ![t].cand = c, ![t].sent = TRUE]
  /\ UNCHANGED <<scopes, permits, tombs>>

\* An earlier copy of a call that was sent again may still be on its way.
AcquireAnswered(t) ==
  /\ calls[t].pc = "asking" /\ InBounds(t)
  /\ \/ /\ Admits(t) /\ Admit(t)
        /\ \E late \in BOOLEAN :
             calls' = [calls EXCEPT ![t].pc = "running", ![t].sent = late]
     \/ /\ ~ Admits(t)
        /\ calls' \in {[calls EXCEPT ![t].pc = "idle"], [calls EXCEPT ![t] = IdleCall]}
        /\ UNCHANGED <<scopes, permits>>
  /\ UNCHANGED tombs

\* A copy of the call is run and its answer lost; while the caller waits, the
\* Redis client (external) may send another.
AcquireUnheard(t) ==
  /\ calls[t].sent /\ InBounds(t)
  /\ Admits(t) /\ Admit(t)
  /\ calls' = [calls EXCEPT ![t] =
       CASE @.pc = "asking" -> @
         [] @.pc = "idle"   -> IdleCall
         [] OTHER           -> [@ EXCEPT !.sent = FALSE]]
  /\ UNCHANGED tombs

AcquireTimesOut(t) ==
  /\ calls[t].pc = "asking"
  /\ Goto(t, "cancelling")
  /\ UNCHANGED <<scopes, permits, tombs>>

\* The abandoned call never arrives, or arrives and is refused.
AcquireLost(t) ==
  /\ calls[t].sent /\ calls[t].pc = "idle"
  /\ calls' = [calls EXCEPT ![t] = IdleCall]
  /\ UNCHANGED <<scopes, permits, tombs>>

Cancel(t) ==
  /\ calls[t].pc = "cancelling"
  /\ tombs' = tombs \cup {t}
  /\ Complete(t, Neutral)
  /\ Leave(t)

CancelLost(t) ==
  /\ calls[t].pc = "cancelling"
  /\ Leave(t)
  /\ UNCHANGED <<scopes, permits, tombs>>

-----------------------------------------------------------------------------
(* The attempt. *)

\* availabilityVerdict: success, a failure that its scope is blamed for (with
\* or without being counted), or nothing.
Outcomes(t) ==
  {Neutral, [kind |-> "success", scope |-> NoScope]}
    \cup [kind : {"health", "failure"}, scope : ScopesOf(t)]

\* No slot at the account, so that the permit is released unjudged; or the
\* upstream has answered, the answer is relayed and the permit completed with
\* the verdict.  The completion may be lost.
RunAttempt(t) ==
  /\ calls[t].pc = "running"
  /\ \/ \E v \in Outcomes(t) : Complete(t, v)
     \/ UNCHANGED <<scopes, permits>>
  /\ Leave(t)
  /\ UNCHANGED tombs

\* The process dies.
Crash(t) ==
  /\ calls[t].pc # "idle"
  /\ Leave(t)
  /\ UNCHANGED <<scopes, permits, tombs>>

-----------------------------------------------------------------------------
(* Time, and the operations of administrators and token refresh. *)

\* load: a scope whose retry_at has passed is recovering for every reader.
CooldownEnds(s) ==
  /\ scopes[s].phase = "cooling"
  /\ scopes' = [scopes EXCEPT ![s].phase = "recovering"]
  /\ UNCHANGED <<permits, tombs, calls>>

\* Mutant: a lapsed owner is not cleared.
DisownedNever(t) == scopes

\* load clears an owner whose lease has lapsed; the lease is the permit's.
Disowned(t) ==
  [s \in Scope |-> IF scopes[s].owner = t THEN [scopes[s] EXCEPT !.owner = NoToken]
                                          ELSE scopes[s]]

\* However long the attempt takes.
PermitExpires(t) ==
  /\ Held(t)
  /\ permits' = [permits EXCEPT ![t] = NoPermit]
  /\ scopes' = Disowned(t)
  /\ UNCHANGED <<tombs, calls>>

\* The tombstone outlasts every delayed call.
TombExpires(t) ==
  /\ t \in tombs /\ ~ calls[t].sent
  /\ tombs' = tombs \ {t}
  /\ UNCHANGED <<scopes, permits, calls>>

\* Suspend, and ImportCooldown where there is no state yet.
Suspend(s) ==
  /\ scopes[s].epoch < MaxEpoch
  /\ scopes' = [scopes EXCEPT ![s] = Cool(@)]
  /\ UNCHANGED <<permits, tombs, calls>>

Restarted(x) ==
  [x EXCEPT !.phase = "recovering", !.epoch = @ + 1, !.owner = NoToken,
            !.successes = 0, !.failures = 0]

\* Resume: every cooling scope of a resource.  Which scopes belong to one
\* resource is left open: R is any set of them.
Resume(R) ==
  /\ \E s \in R : scopes[s].phase = "cooling"
  /\ \A s \in R : scopes[s].phase = "cooling" => scopes[s].epoch < MaxEpoch
  /\ scopes' = [s \in Scope |->
       IF s \in R /\ scopes[s].phase = "cooling" THEN Restarted(scopes[s]) ELSE scopes[s]]
  /\ UNCHANGED <<permits, tombs, calls>>

\* Reset: the scopes whose configuration has changed.
Reset(s) ==
  /\ scopes[s].epoch < MaxEpoch
  /\ scopes' = [scopes EXCEPT ![s] = Restarted(@)]
  /\ UNCHANGED <<permits, tombs, calls>>

\* The key of a scope outlives every permit and every cooldown.
Forget(s) ==
  /\ scopes[s] # Fresh /\ scopes[s].phase # "cooling"
  /\ \A t \in Token : permits[t][s] = -1
  /\ scopes' = [scopes EXCEPT ![s] = Fresh]
  /\ UNCHANGED <<permits, tombs, calls>>

-----------------------------------------------------------------------------
Init ==
  /\ scopes = [s \in Scope |-> Fresh]
  /\ permits = [t \in Token |-> NoPermit]
  /\ tombs = {}
  /\ calls = [t \in Token |-> IdleCall]

CallStep(t) ==
  \/ \E c \in Candidate : Ask(t, c)
  \/ AcquireAnswered(t) \/ AcquireUnheard(t) \/ AcquireTimesOut(t) \/ AcquireLost(t)
  \/ Cancel(t) \/ CancelLost(t)
  \/ RunAttempt(t) \/ Crash(t)

TimePasses ==
  \/ \E t \in Token : PermitExpires(t) \/ TombExpires(t)
  \/ \E s \in Scope : CooldownEnds(s) \/ Forget(s)

Operate ==
  \/ \E R \in SUBSET Scope : Resume(R)
  \/ \E s \in Scope : Suspend(s) \/ Reset(s)

Next == (\E t \in Token : CallStep(t)) \/ TimePasses \/ Operate

Spec == Init /\ [][Next]_vars

\* Time passes; nothing is assumed of callers, of calls or of upstreams.
FairSpec ==
  /\ Spec
  /\ \A s \in Scope : WF_vars(CooldownEnds(s))
  /\ \A t \in Token : WF_vars(PermitExpires(t))

-----------------------------------------------------------------------------
(* Properties. *)

\* The state keeps its shape; above all no scope collects more proofs of its
\* recovery than the two that open it.
TypeOK ==
  /\ scopes \in [Scope -> ScopeRow]
  /\ permits \in [Token -> [Scope -> -1 .. MaxEpoch]]
  /\ tombs \subseteq Token
  /\ calls \in [Token -> CallRow]

\* The tokens whose completion would count in the generation s is in.
Current(s) == {t \in Token : permits[t][s] = scopes[s].epoch}

\* A recovering scope admits one request at a time: the permits of its
\* generation are its owner's and nobody else's, although requests admitted
\* before it tripped are still under way, answers get lost and leases lapse.
\* In the other phases no scope has an owner, and a cooling one no permit.
OneTrialPerScope ==
  \A s \in Scope :
    /\ scopes[s].phase = "recovering" => Current(s) = {scopes[s].owner} \ {NoToken}
    /\ scopes[s].phase # "recovering" => scopes[s].owner = NoToken
    /\ scopes[s].phase = "cooling" => Current(s) = {}

\* A call that was given up and cancelled holds nothing, neither then nor when
\* a delayed copy of it arrives.
CancelledHoldsNothing ==
  \A t \in tombs : ~ Held(t) /\ \A s \in Scope : scopes[s].owner # t

\* A scope that rests is left alone by the requests that were admitted before
\* it tripped, however many fail after it and whenever their completions
\* arrive: only time and operators end or restart the rest.
RestStep ==
  \A s \in Scope : scopes[s].phase = "cooling" /\ scopes'[s] # scopes[s]
                    => permits' = permits

RestIsUndisturbed == [][RestStep]_vars

\* Every scope behaves like the breaker the documentation describes.
B == INSTANCE Breaker WITH
       phase  <- [s \in Scope |-> scopes[s].phase],
       trial  <- [s \in Scope |-> scopes[s].owner],
       proofs <- [s \in Scope |-> IF scopes[s].phase = "recovering" THEN scopes[s].successes ELSE 0]

ImplementsBreaker == B!Spec

Closed(s) == scopes[s].phase = "cooling" \/ scopes[s].owner # NoToken

\* No scope stays closed: every cooldown ends and every trial is over at some
\* time, although its request has crashed or its completion was lost.
ScopesReopen == \A s \in Scope : Closed(s) ~> ~ Closed(s)
=============================================================================
