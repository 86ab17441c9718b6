------------------------- MODULE AvailabilityProofs -------------------------
(***************************************************************************)
(* Upstream availability for any scopes, candidates and tokens: the safety *)
(* properties of Availability and its refinement of Breaker.               *)
(***************************************************************************)
EXTENDS Availability, TLAPS

\* A permit names generations that have begun and can still end.
PermitsAreBounded ==
  \A t \in Token, s \in Scope : /\ permits[t][s] < MaxEpoch
                                /\ permits[t][s] <= scopes[s].epoch

\* While a call is under way its token holds permits for its own scopes only.
CallsKnowTheirScopes ==
  \A t \in Token : calls[t].pc # "idle" \/ calls[t].sent =>
    \A s \in Scope \ ScopesOf(t) : permits[t][s] = -1

\* A resting scope has no proofs, a recovering one not yet enough.
ProofsCount ==
  \A s \in Scope : /\ scopes[s].phase = "cooling" => scopes[s].successes = 0
                   /\ scopes[s].phase = "recovering" => scopes[s].successes <= 1

AvailabilityInv ==
  /\ TypeOK
  /\ OneTrialPerScope
  /\ CancelledHoldsNothing
  /\ PermitsAreBounded
  /\ CallsKnowTheirScopes
  /\ ProofsCount

-----------------------------------------------------------------------------
(* The script's operators on one scope. *)

\* What the idle call and the empty permit are.
LEMMA Constants ==
  /\ IdleCall \in CallRow /\ IdleCall.pc = "idle" /\ IdleCall.sent = FALSE
  /\ NoPermit \in [Scope -> -1 .. MaxEpoch]
  /\ Fresh \in ScopeRow
  BY AvailabilityAssumption, SMT DEF IdleCall, CallRow, NoPermit, Fresh, ScopeRow

\* A row of which one field is given another value of its type is a row.
LEMMA UpdatesOfARow ==
  ASSUME NEW x \in ScopeRow
  PROVE  /\ \A p \in {"available", "cooling", "recovering"} : [x EXCEPT !.phase = p] \in ScopeRow
         /\ \A e \in 0 .. MaxEpoch : [x EXCEPT !.epoch = e] \in ScopeRow
         /\ \A n \in Nat : [x EXCEPT !.failures = n] \in ScopeRow
         /\ \A n \in 0 .. 2 : [x EXCEPT !.successes = n] \in ScopeRow
         /\ \A t \in Token \cup {NoToken} : [x EXCEPT !.owner = t] \in ScopeRow
<1>1. \A p \in {"available", "cooling", "recovering"} : [x EXCEPT !.phase = p] \in ScopeRow
  BY SMT DEF ScopeRow
<1>2. \A e \in 0 .. MaxEpoch : [x EXCEPT !.epoch = e] \in ScopeRow
  BY SMT DEF ScopeRow
<1>3. \A n \in Nat : [x EXCEPT !.failures = n] \in ScopeRow
  BY SMT DEF ScopeRow
<1>4. \A n \in 0 .. 2 : [x EXCEPT !.successes = n] \in ScopeRow
  BY SMT DEF ScopeRow
<1>5. \A t \in Token \cup {NoToken} : [x EXCEPT !.owner = t] \in ScopeRow
  BY SMT DEF ScopeRow
<1> QED BY <1>1, <1>2, <1>3, <1>4, <1>5

\* Tripping a scope of any phase opens a new generation without owner or
\* proofs.
LEMMA CoolFacts ==
  ASSUME NEW x \in ScopeRow, x.epoch < MaxEpoch
  PROVE  /\ Cool(x) \in ScopeRow
         /\ Cool(x).phase = "cooling" /\ Cool(x).epoch = x.epoch + 1
         /\ Cool(x).owner = NoToken /\ Cool(x).successes = 0
<1>1. x.epoch + 1 \in 0 .. MaxEpoch
  BY AvailabilityAssumption, SMT DEF ScopeRow
<1> DEFINE a == [x EXCEPT !.phase = "cooling"]
           b == [a EXCEPT !.epoch = x.epoch + 1]
           c == [b EXCEPT !.owner = NoToken]
           d == [c EXCEPT !.successes = 0]
<1>2. a \in ScopeRow
  BY UpdatesOfARow
<1> HIDE DEF a
<1>3. b \in ScopeRow
  BY <1>1, <1>2, UpdatesOfARow
<1> HIDE DEF b
<1>4. c \in ScopeRow
  BY <1>3, UpdatesOfARow
<1> HIDE DEF c
<1>5. d \in ScopeRow
  BY <1>4, UpdatesOfARow, 0 \in 0 .. 2
<1>6. Cool(x) = d
  BY DEF Cool, a, b, c
<1>7. /\ Cool(x).phase = "cooling" /\ Cool(x).epoch = x.epoch + 1
      /\ Cool(x).owner = NoToken /\ Cool(x).successes = 0
  BY SMT DEF Cool, ScopeRow
<1> QED BY <1>5, <1>6, <1>7

\* An operator's restart does the same and ends the rest.
LEMMA RestartedFacts ==
  ASSUME NEW x \in ScopeRow, x.epoch < MaxEpoch
  PROVE  /\ Restarted(x) \in ScopeRow
         /\ Restarted(x).phase = "recovering" /\ Restarted(x).epoch = x.epoch + 1
         /\ Restarted(x).owner = NoToken /\ Restarted(x).successes = 0
<1>1. x.epoch + 1 \in 0 .. MaxEpoch
  BY AvailabilityAssumption, SMT DEF ScopeRow
<1> DEFINE a == [x EXCEPT !.phase = "recovering"]
           b == [a EXCEPT !.epoch = x.epoch + 1]
           c == [b EXCEPT !.owner = NoToken]
           d == [c EXCEPT !.successes = 0]
           e == [d EXCEPT !.failures = 0]
<1>2. a \in ScopeRow
  BY UpdatesOfARow
<1> HIDE DEF a
<1>3. b \in ScopeRow
  BY <1>1, <1>2, UpdatesOfARow
<1> HIDE DEF b
<1>4. c \in ScopeRow
  BY <1>3, UpdatesOfARow
<1> HIDE DEF c
<1>5. d \in ScopeRow
  BY <1>4, UpdatesOfARow, 0 \in 0 .. 2
<1> HIDE DEF d
<1>6. e \in ScopeRow
  BY <1>5, UpdatesOfARow, 0 \in Nat
<1>7. Restarted(x) = e
  BY DEF Restarted, a, b, c, d
<1>8. /\ Restarted(x).phase = "recovering" /\ Restarted(x).epoch = x.epoch + 1
      /\ Restarted(x).owner = NoToken /\ Restarted(x).successes = 0
  BY SMT DEF Restarted, ScopeRow
<1> QED BY <1>6, <1>7, <1>8

\* What a verdict may do to a scope: trip it, leave it, or count a proof, and
\* in every case the token no longer owns it.
Tripped(x, y) ==
  y.phase = "cooling" /\ y.epoch = x.epoch + 1 /\ y.owner = NoToken /\ y.successes = 0

Left(x, y) ==
  y.phase = x.phase /\ y.epoch = x.epoch /\ y.owner = NoToken /\ y.successes = x.successes

Counted(x, y) ==
  /\ x.phase = "recovering" /\ y.epoch = x.epoch /\ y.owner = NoToken
  /\ \/ x.successes = 0 /\ y.phase = "recovering" /\ y.successes = 1
     \/ x.successes = 1 /\ y.phase = "available" /\ y.successes = 2

\* A verdict that counts for a scope does one of the three.
LEMMA JudgedFacts ==
  ASSUME AvailabilityInv, NEW t \in Token, NEW s \in Scope, NEW v, NEW window \in BOOLEAN,
         Counts(t, s)
  PROVE  /\ Judged(t, s, v, window) \in ScopeRow
         /\ \/ Tripped(scopes[s], Judged(t, s, v, window))
            \/ Left(scopes[s], Judged(t, s, v, window))
            \/ Counted(scopes[s], Judged(t, s, v, window))
<1> DEFINE x == scopes[s]
           y == [x EXCEPT !.owner = IF @ = t THEN NoToken ELSE @]
           z == Judged(t, s, v, window)
<1>1. x \in ScopeRow /\ x.epoch < MaxEpoch /\ x.epoch = permits[t][s]
  BY SMT DEF AvailabilityInv, TypeOK, PermitsAreBounded, Counts
<1>2. x.owner \in {t, NoToken}
  BY <1>1, SMT DEF AvailabilityInv, OneTrialPerScope, Counts
<1>3. /\ y \in ScopeRow /\ y.owner = NoToken /\ y.phase = x.phase /\ y.epoch = x.epoch
      /\ y.successes = x.successes /\ y.epoch < MaxEpoch
  BY <1>1, <1>2, AvailabilityAssumption, SMT DEF ScopeRow
<1>4. x.phase = "recovering" => x.successes \in {0, 1}
  BY <1>1, SMT DEF AvailabilityInv, ProofsCount, ScopeRow
<1> HIDE DEF x, y
<1>5. CASE v.kind = "success"
  <2> DEFINE w == [y EXCEPT !.failures = 0]
  <2>1. /\ w \in ScopeRow /\ w.owner = NoToken /\ w.phase = x.phase /\ w.epoch = x.epoch
        /\ w.successes = x.successes
    BY <1>3, SMT DEF ScopeRow
  <2>2. z = IF y.phase = "recovering" THEN Proved(w) ELSE w
    BY <1>5 DEF Judged, x, y
  <2> HIDE DEF w, z
  <2>3. CASE x.phase = "recovering"
    <3>1. Proved(w) \in ScopeRow /\ Counted(x, Proved(w))
      <4>1. CASE x.successes = 0
        <5>1. Proved(w) = [w EXCEPT !.successes = 1]
          BY <2>1, <4>1, SMT DEF Proved, ScopeRow
        <5> QED BY <5>1, <2>1, <2>3, <4>1, SMT DEF ScopeRow, Counted
      <4>2. CASE x.successes = 1
        <5> DEFINE a == [w EXCEPT !.phase = "available"]
                   b == [a EXCEPT !.successes = 2]
        <5>1. Proved(w) = [w EXCEPT !.phase = "available", !.successes = 2]
          BY <2>1, <4>2, SMT DEF Proved, ScopeRow
        <5>2. Proved(w) = b
          BY <5>1
        <5>3. a \in ScopeRow
          BY <2>1, UpdatesOfARow
        <5>4. /\ a.owner = NoToken /\ a.phase = "available" /\ a.epoch = x.epoch
          BY <2>1, SMT DEF ScopeRow
        <5> HIDE DEF a
        <5>5. b \in ScopeRow
          BY <5>3, UpdatesOfARow, 2 \in 0 .. 2
        <5>6. b.owner = NoToken /\ b.phase = "available" /\ b.epoch = x.epoch /\ b.successes = 2
          BY <5>3, <5>4, SMT DEF ScopeRow
        <5> HIDE DEF b
        <5> QED BY <5>2, <5>5, <5>6, <2>3, <4>2 DEF Counted
      <4> QED BY <4>1, <4>2, <1>4, <2>3
    <3> QED BY <2>2, <2>3, <3>1, <1>3 DEF z, x
  <2>4. CASE x.phase # "recovering"
    BY <2>1, <2>2, <2>4, <1>3 DEF Left, z, x
  <2> QED BY <2>3, <2>4
<1>6. CASE v.kind # "success" /\ v.kind = "failure" /\ v.scope = s
  <2>1. z = Cool(y)
    BY <1>6 DEF Judged, x, y
  <2> QED BY <2>1, <1>3, CoolFacts DEF Tripped, x
<1>7. CASE v.kind # "success" /\ v.kind = "health" /\ v.scope = s
  <2> DEFINE w == [y EXCEPT !.failures = IF @ < FailureLimit THEN @ + 1 ELSE @]
  <2>1. /\ w \in ScopeRow /\ w.owner = NoToken /\ w.phase = x.phase /\ w.epoch = x.epoch
        /\ w.successes = x.successes /\ w.epoch < MaxEpoch
    BY <1>3, AvailabilityAssumption, SMT DEF ScopeRow
  <2>2. z = w \/ z = Cool(w)
    BY <1>7 DEF Judged, x, y
  <2> HIDE DEF w
  <2> QED BY <2>1, <2>2, <1>3, CoolFacts DEF Tripped, Left, x
<1>8. CASE ~ (v.kind = "success") /\ ~ (v.kind = "failure" /\ v.scope = s)
           /\ ~ (v.kind = "health" /\ v.scope = s)
  <2>1. z = y
    BY <1>8 DEF Judged, x, y
  <2> QED BY <2>1, <1>3 DEF Left, x
<1> QED BY <1>5, <1>6, <1>7, <1>8
-----------------------------------------------------------------------------
(* The calls. *)

\* A token whose call is under way.
Busy(u) == calls[u].pc # "idle" \/ calls[u].sent

\* A call of which one field is given another value of its type is a call.
LEMMA UpdatesOfACall ==
  ASSUME NEW c \in CallRow
  PROVE  /\ \A p \in {"idle", "asking", "cancelling", "running"} :
              [c EXCEPT !.pc = p] \in CallRow /\ [c EXCEPT !.pc = p].cand = c.cand
         /\ \A k \in Candidate : [c EXCEPT !.cand = k] \in CallRow
         /\ \A b \in BOOLEAN : [c EXCEPT !.sent = b] \in CallRow
                              /\ [c EXCEPT !.sent = b].cand = c.cand
<1>1. \A p \in {"idle", "asking", "cancelling", "running"} :
        [c EXCEPT !.pc = p] \in CallRow /\ [c EXCEPT !.pc = p].cand = c.cand
  BY SMT DEF CallRow
<1>2. \A k \in Candidate : [c EXCEPT !.cand = k] \in CallRow
  BY SMT DEF CallRow
<1>3. ASSUME NEW b \in BOOLEAN
      PROVE  [c EXCEPT !.sent = b] \in CallRow
  BY Zenon DEF CallRow
<1>4. ASSUME NEW b \in BOOLEAN
      PROVE  [c EXCEPT !.sent = b].cand = c.cand
  BY Zenon DEF CallRow
<1> QED BY <1>1, <1>2, <1>3, <1>4

\* The tokens know their scopes as long as a call keeps its candidate and a
\* permit is only ever given up.
LEMMA CallsKept ==
  ASSUME AvailabilityInv,
         \A u \in Token : \/ permits'[u] = NoPermit
                          \/ /\ permits'[u] = permits[u]
                             /\ Busy(u)' => Busy(u) /\ calls'[u].cand = calls[u].cand
  PROVE  CallsKnowTheirScopes'
  BY SMT DEF AvailabilityInv, CallsKnowTheirScopes, Busy, ScopesOf, NoPermit

\* An attempt that ends leaves an idle call of the same candidate, or nothing.
LEMMA LeaveFacts ==
  ASSUME AvailabilityInv, NEW t \in Token, Leave(t)
  PROVE  /\ calls' \in [Token -> CallRow]
         /\ \A u \in Token : Busy(u)' => Busy(u) /\ calls'[u].cand = calls[u].cand
<1>1. calls \in [Token -> CallRow] /\ calls[t] \in CallRow
  BY DEF AvailabilityInv, TypeOK
<1>2. /\ [calls[t] EXCEPT !.pc = "idle"] \in CallRow
      /\ [calls[t] EXCEPT !.pc = "idle"].cand = calls[t].cand
  BY <1>1, SMT DEF CallRow
<1>3. CASE calls[t].sent
  <2>1. calls' = [calls EXCEPT ![t] = [calls[t] EXCEPT !.pc = "idle"]]
    BY <1>1, <1>3, SMT DEF Leave
  <2> QED BY <1>1, <1>2, <1>3, <2>1, SMT DEF Busy
<1>4. CASE ~ calls[t].sent
  <2>1. calls' = [calls EXCEPT ![t] = IdleCall]
    BY <1>1, <1>4, SMT DEF Leave
  <2> QED BY <1>1, <2>1, Constants, SMT DEF Busy
<1> QED BY <1>3, <1>4

-----------------------------------------------------------------------------
(* The script on all scopes. *)

\* The owner of a trial holds a permit of its scope's generation, and a permit
\* is for the scopes of its call: a completion that does not count for a scope
\* holds no permit of its generation.
LEMMA Uncounted ==
  ASSUME AvailabilityInv, NEW t \in Token, Busy(t), NEW s \in Scope, ~ Counts(t, s)
  PROVE  t \notin Current(s) /\ scopes[s].owner # t
<1>1. /\ scopes[s] \in ScopeRow /\ scopes[s].epoch \in Nat /\ t # NoToken
      /\ scopes[s].phase \in {"available", "cooling", "recovering"}
  BY AvailabilityAssumption, SMT DEF AvailabilityInv, TypeOK, ScopeRow
<1>2. t \in Current(s) => s \in ScopesOf(t)
  BY <1>1, SMT DEF AvailabilityInv, CallsKnowTheirScopes, Busy, Current
<1>3. scopes[s].owner = t => scopes[s].phase = "recovering" /\ t \in Current(s)
  BY <1>1, SMT DEF AvailabilityInv, OneTrialPerScope
<1>4. t \in Current(s) => scopes[s].epoch = permits[t][s]
  BY DEF Current
<1>5. CASE scopes[s].phase = "recovering"
  <2>1. t \in Current(s) => scopes[s].owner = t
    BY <1>5 DEF AvailabilityInv, OneTrialPerScope
  <2> QED BY <1>2, <1>3, <1>4, <2>1 DEF Counts
<1>6. CASE scopes[s].phase # "recovering"
  BY <1>2, <1>3, <1>4, <1>6 DEF Counts
<1> QED BY <1>5, <1>6

\* A token's permit is current in s, and its trial if s is recovering.
Trusted(t, s) ==
  t \in Current(s) /\ (scopes[s].phase = "recovering" => scopes[s].owner = t)

\* A completion, whatever its verdict, or the end of a lease: the token gives
\* up its permit and every trial it owns, no other token loses or gains
\* anything, and a scope it was trusted in is tripped, left or given a proof.
CompleteStep(t) ==
  /\ permits' = [permits EXCEPT ![t] = NoPermit]
  /\ scopes' \in [Scope -> ScopeRow]
  /\ \A s \in Scope :
       \/ scopes'[s] = scopes[s] /\ t \notin Current(s) /\ scopes[s].owner # t
       \/ /\ Trusted(t, s)
          /\ \/ Tripped(scopes[s], scopes'[s])
             \/ Left(scopes[s], scopes'[s])
             \/ Counted(scopes[s], scopes'[s])

\* The script's complete is such a step.
LEMMA CompleteFacts ==
  ASSUME AvailabilityInv, NEW t \in Token, NEW v, Busy(t), Complete(t, v)
  PROVE  CompleteStep(t)
<1>1. permits' = [permits EXCEPT ![t] = NoPermit]
  BY DEF Complete
<1>2. scopes \in [Scope -> ScopeRow]
  BY DEF AvailabilityInv, TypeOK
<1>3. CASE Held(t)
  <2>1. PICK window \in BOOLEAN :
          scopes' = [s \in Scope |->
            IF Counts(t, s) THEN Judged(t, s, v, window) ELSE scopes[s]]
    BY <1>3 DEF Complete
  <2>2. ASSUME NEW s \in Scope
        PROVE  /\ scopes'[s] \in ScopeRow
               /\ \/ scopes'[s] = scopes[s] /\ t \notin Current(s) /\ scopes[s].owner # t
                  \/ /\ Trusted(t, s)
                     /\ \/ Tripped(scopes[s], scopes'[s])
                        \/ Left(scopes[s], scopes'[s])
                        \/ Counted(scopes[s], scopes'[s])
    <3>1. CASE Counts(t, s)
      <4>1. scopes'[s] = Judged(t, s, v, window)
        BY <2>1, <3>1
      <4>2. Trusted(t, s)
        BY <3>1 DEF Counts, Trusted, Current
      <4> QED BY <3>1, <4>1, <4>2, JudgedFacts
    <3>2. CASE ~ Counts(t, s)
      <4>1. scopes'[s] = scopes[s]
        BY <2>1, <3>2
      <4> QED BY <1>2, <3>2, <4>1, Uncounted
    <3> QED BY <3>1, <3>2
  <2>3. scopes' \in [Scope -> ScopeRow]
    BY <2>1, <2>2
  <2> QED BY <1>1, <2>2, <2>3 DEF CompleteStep
<1>4. CASE ~ Held(t)
  <2>1. scopes' = scopes /\ permits[t] = NoPermit
    BY <1>4 DEF Complete, Held
  <2>2. ASSUME NEW s \in Scope
        PROVE  t \notin Current(s) /\ scopes[s].owner # t
    <3>1. permits[t][s] = -1 /\ scopes[s].epoch \in Nat
      BY <2>1, <1>2, AvailabilityAssumption, SMT DEF NoPermit, ScopeRow
    <3>2. ~ Counts(t, s)
      BY <3>1, SMT DEF Counts
    <3> QED BY <3>2, Uncounted
  <2> QED BY <1>1, <1>2, <2>1, <2>2 DEF CompleteStep
<1> QED BY <1>3, <1>4

\* A completion keeps what relates permits to scopes.
LEMMA CompleteKeeps ==
  ASSUME AvailabilityInv, NEW t \in Token, CompleteStep(t)
  PROVE  /\ permits' \in [Token -> [Scope -> -1 .. MaxEpoch]]
         /\ OneTrialPerScope' /\ PermitsAreBounded' /\ ProofsCount'
         /\ permits'[t] = NoPermit
         /\ \A u \in Token : permits'[u] = NoPermit \/ permits'[u] = permits[u]
         /\ \A s \in Scope : scopes'[s].owner \in {NoToken, scopes[s].owner} \ {t}
<1>0. t # NoToken
  BY AvailabilityAssumption
<1>1. /\ permits \in [Token -> [Scope -> -1 .. MaxEpoch]]
      /\ permits' \in [Token -> [Scope -> -1 .. MaxEpoch]]
      /\ permits'[t] = NoPermit /\ \A u \in Token \ {t} : permits'[u] = permits[u]
      /\ \A s \in Scope : permits'[t][s] = -1
  BY Constants, SMT DEF AvailabilityInv, TypeOK, CompleteStep, NoPermit
<1>2. ASSUME NEW s \in Scope
      PROVE  /\ scopes[s] \in ScopeRow /\ scopes'[s] \in ScopeRow
             /\ scopes[s].epoch \in Nat /\ scopes'[s].epoch \in Nat
             /\ \A u \in Token : permits[u][s] \in Int /\ permits'[u][s] \in Int
  BY <1>1, SMT DEF AvailabilityInv, TypeOK, CompleteStep, ScopeRow
<1>3. ASSUME NEW s \in Scope
      PROVE  scopes'[s].epoch = scopes[s].epoch => Current(s)' = Current(s) \ {t}
  BY <1>1, <1>2, SMT DEF Current
<1>4. ASSUME NEW s \in Scope, Tripped(scopes[s], scopes'[s])
      PROVE  Current(s)' = {}
  <2>1. \A u \in Token : permits'[u][s] <= scopes[s].epoch
    BY <1>1, <1>2, SMT DEF AvailabilityInv, PermitsAreBounded
  <2> QED BY <1>2, <1>4, <2>1, SMT DEF Current, Tripped
<1>5. ASSUME NEW s \in Scope
      PROVE  /\ scopes'[s].phase = "recovering" => Current(s)' = {scopes'[s].owner} \ {NoToken}
             /\ scopes'[s].phase # "recovering" => scopes'[s].owner = NoToken
             /\ scopes'[s].phase = "cooling" => Current(s)' = {}
             /\ scopes'[s].owner \in {NoToken, scopes[s].owner} \ {t}
  <2>1. CASE scopes'[s] = scopes[s] /\ t \notin Current(s) /\ scopes[s].owner # t
    <3>1. Current(s)' = Current(s)
      BY <1>3, <2>1
    <3> QED BY <2>1, <3>1 DEF AvailabilityInv, OneTrialPerScope
  <2>2. CASE Tripped(scopes[s], scopes'[s])
    BY <1>0, <1>4, <2>2 DEF Tripped
  <2>3. CASE Trusted(t, s) /\ (Left(scopes[s], scopes'[s]) \/ Counted(scopes[s], scopes'[s]))
    <3>1. scopes'[s].owner = NoToken /\ Current(s)' = Current(s) \ {t}
      BY <1>3, <2>3 DEF Left, Counted
    <3>2. t \in Current(s)
      BY <2>3 DEF Trusted
    <3>3. scopes[s].phase # "cooling"
      BY <3>2 DEF AvailabilityInv, OneTrialPerScope
    <3>4. CASE scopes[s].phase = "recovering"
      <4>1. Current(s) = {t}
        BY <1>0, <2>3, <3>4 DEF AvailabilityInv, OneTrialPerScope, Trusted
      <4> QED BY <1>0, <3>1, <4>1
    <3>5. CASE scopes[s].phase # "recovering"
      <4>1. scopes'[s].phase = scopes[s].phase
        BY <2>3, <3>5 DEF Left, Counted
      <4> QED BY <1>0, <3>1, <3>3, <3>5, <4>1
    <3> QED BY <3>4, <3>5
  <2> QED BY <2>1, <2>2, <2>3 DEF CompleteStep
<1>6. OneTrialPerScope'
  BY <1>5 DEF OneTrialPerScope
<1>7. PermitsAreBounded'
  <2> SUFFICES ASSUME NEW u \in Token, NEW s \in Scope
               PROVE  permits'[u][s] < MaxEpoch /\ permits'[u][s] <= scopes'[s].epoch
    BY DEF PermitsAreBounded
  <2>1. scopes[s].epoch <= scopes'[s].epoch
    BY <1>2, SMT DEF CompleteStep, Tripped, Left, Counted
  <2>2. permits'[u][s] = -1 \/ permits'[u][s] = permits[u][s]
    BY <1>1
  <2>3. permits[u][s] < MaxEpoch /\ permits[u][s] <= scopes[s].epoch
    BY DEF AvailabilityInv, PermitsAreBounded
  <2> QED BY <1>2, <2>1, <2>2, <2>3, AvailabilityAssumption, SMT
<1>8. ProofsCount'
  <2> SUFFICES ASSUME NEW s \in Scope
               PROVE  /\ scopes'[s].phase = "cooling" => scopes'[s].successes = 0
                      /\ scopes'[s].phase = "recovering" => scopes'[s].successes <= 1
    BY DEF ProofsCount
  <2>1. /\ scopes[s].phase = "cooling" => scopes[s].successes = 0
        /\ scopes[s].phase = "recovering" => scopes[s].successes <= 1
    BY DEF AvailabilityInv, ProofsCount
  <2> QED BY <2>1, SMT DEF CompleteStep, Tripped, Left, Counted
<1> QED BY <1>1, <1>5, <1>6, <1>7, <1>8

\* So is the end of a lease, although the token's call may be long forgotten.
LEMMA ExpiryFacts ==
  ASSUME AvailabilityInv, NEW t \in Token, PermitExpires(t)
  PROVE  CompleteStep(t)
<1>1. /\ permits' = [permits EXCEPT ![t] = NoPermit] /\ scopes' = Disowned(t)
      /\ scopes \in [Scope -> ScopeRow] /\ t # NoToken
  BY AvailabilityAssumption DEF PermitExpires, AvailabilityInv, TypeOK
<1>2. ASSUME NEW s \in Scope
      PROVE  /\ scopes'[s] \in ScopeRow
             /\ \/ scopes'[s] = scopes[s] /\ t \notin Current(s) /\ scopes[s].owner # t
                \/ Trusted(t, s) /\ Left(scopes[s], scopes'[s])
  <2>1. /\ scopes[s] \in ScopeRow
        /\ scopes[s].phase \in {"available", "cooling", "recovering"}
    BY <1>1, SMT DEF ScopeRow
  <2>2. CASE scopes[s].owner = t
    <3>1. scopes'[s] = [scopes[s] EXCEPT !.owner = NoToken]
      BY <1>1, <2>2 DEF Disowned
    <3>2. scopes'[s] \in ScopeRow
      BY <2>1, <3>1, SMT DEF ScopeRow
    <3>3. Left(scopes[s], scopes'[s])
      BY <2>1, <3>1, SMT DEF Left, ScopeRow
    <3>4. Trusted(t, s)
      BY <1>1, <2>2 DEF AvailabilityInv, OneTrialPerScope, Trusted
    <3> QED BY <3>2, <3>3, <3>4
  <2>3. CASE scopes[s].owner # t
    <3>1. scopes'[s] = scopes[s]
      BY <1>1, <2>3 DEF Disowned
    <3>2. t \in Current(s) => scopes[s].phase # "recovering" /\ scopes[s].owner = NoToken
      BY <2>3 DEF AvailabilityInv, OneTrialPerScope
    <3> QED BY <2>1, <2>3, <3>1, <3>2 DEF Trusted, Left
  <2> QED BY <2>2, <2>3
<1>3. scopes' \in [Scope -> ScopeRow]
  <2>1. scopes' = [s \in Scope |-> scopes'[s]]
    BY <1>1 DEF Disowned
  <2> QED BY <1>2, <2>1
<1> QED BY <1>1, <1>2, <1>3 DEF CompleteStep

\* Only the scopes of the call change hands, and only free trials.
AdmitStep(t) ==
  /\ t \notin tombs /\ Busy(t)
  /\ permits' \in [Token -> [Scope -> -1 .. MaxEpoch]]
  /\ scopes' \in [Scope -> ScopeRow]
  /\ \A u \in Token \ {t} : permits'[u] = permits[u]
  /\ \A s \in Scope \ ScopesOf(t) : permits'[t][s] = -1 /\ scopes'[s] = scopes[s]
  /\ \A s \in ScopesOf(t) :
       /\ permits'[t][s] = scopes[s].epoch /\ scopes[s].epoch < MaxEpoch
       /\ \/ scopes[s].phase = "available" /\ scopes'[s] = scopes[s]
          \/ /\ scopes[s].phase = "recovering" /\ scopes[s].owner = NoToken
             /\ scopes'[s].phase = "recovering" /\ scopes'[s].owner = t
             /\ scopes'[s].epoch = scopes[s].epoch
             /\ scopes'[s].successes = scopes[s].successes

\* The script's acquire, when it admits, is such a step.
LEMMA AdmitFacts ==
  ASSUME AvailabilityInv, NEW t \in Token, Busy(t), InBounds(t), Admits(t), Admit(t)
  PROVE  AdmitStep(t)
<1> DEFINE p == [s \in Scope |-> IF s \in ScopesOf(t) THEN scopes[s].epoch ELSE -1]
<1>1. /\ permits \in [Token -> [Scope -> -1 .. MaxEpoch]]
      /\ scopes \in [Scope -> ScopeRow] /\ ScopesOf(t) \subseteq Scope
  BY AvailabilityAssumption, SMT DEF AvailabilityInv, TypeOK, ScopesOf, CallRow
<1>2. ASSUME NEW s \in Scope
      PROVE  /\ scopes[s] \in ScopeRow /\ scopes[s].epoch \in 0 .. MaxEpoch
             /\ scopes[s].phase \in {"available", "cooling", "recovering"}
             /\ [scopes[s] EXCEPT !.owner = t] \in ScopeRow
             /\ [scopes[s] EXCEPT !.owner = t].phase = scopes[s].phase
             /\ [scopes[s] EXCEPT !.owner = t].owner = t
             /\ [scopes[s] EXCEPT !.owner = t].epoch = scopes[s].epoch
             /\ [scopes[s] EXCEPT !.owner = t].successes = scopes[s].successes
  BY <1>1, SMTT(30) DEF ScopeRow
<1>3. p \in [Scope -> -1 .. MaxEpoch]
  <2>1. \A s \in Scope : scopes[s].epoch \in -1 .. MaxEpoch
    BY <1>1, SMT DEF ScopeRow
  <2>2. -1 \in -1 .. MaxEpoch
    BY AvailabilityAssumption, SMT
  <2> QED BY <2>1, <2>2, Zenon
<1>4. /\ permits' = [permits EXCEPT ![t] = p]
      /\ permits' \in [Token -> [Scope -> -1 .. MaxEpoch]]
  BY <1>1, <1>3 DEF Admit
<1>5. \A s \in Scope : scopes'[s] =
        IF s \in ScopesOf(t) /\ scopes[s].phase = "recovering"
        THEN [scopes[s] EXCEPT !.owner = t] ELSE scopes[s]
  BY DEF Admit
<1>6. scopes' \in [Scope -> ScopeRow]
  <2>1. scopes' = [s \in Scope |-> scopes'[s]]
    BY DEF Admit
  <2> QED BY <1>2, <1>5, <2>1
<1>7. \A u \in Token \ {t} : permits'[u] = permits[u]
  BY <1>1, <1>4
<1>8. permits'[t] = p
  BY <1>1, <1>4
<1>9. ASSUME NEW s \in ScopesOf(t)
      PROVE  /\ permits'[t][s] = scopes[s].epoch /\ scopes[s].epoch < MaxEpoch
             /\ \/ scopes[s].phase = "available" /\ scopes'[s] = scopes[s]
                \/ /\ scopes[s].phase = "recovering" /\ scopes[s].owner = NoToken
                   /\ scopes'[s].phase = "recovering" /\ scopes'[s].owner = t
                   /\ scopes'[s].epoch = scopes[s].epoch
                   /\ scopes'[s].successes = scopes[s].successes
  <2>1. s \in Scope /\ permits'[t][s] = scopes[s].epoch
    BY <1>1, <1>8, <1>9
  <2>2. /\ scopes[s].epoch < MaxEpoch /\ scopes[s].phase # "cooling"
        /\ scopes[s].phase = "recovering" => scopes[s].owner = NoToken
    BY DEF InBounds, Admits
  <2>3. scopes[s].phase = "available" => scopes'[s] = scopes[s]
    BY <1>5, <2>1
  <2>4. scopes[s].phase = "recovering" => scopes'[s] = [scopes[s] EXCEPT !.owner = t]
    BY <1>5, <1>9, <2>1
  <2> QED BY <1>2, <2>1, <2>2, <2>3, <2>4
<1>10. \A s \in Scope \ ScopesOf(t) : permits'[t][s] = -1 /\ scopes'[s] = scopes[s]
  BY <1>5, <1>8
<1>11. t \notin tombs
  BY DEF Admits
<1> HIDE DEF p
<1> QED BY <1>4, <1>6, <1>7, <1>9, <1>10, <1>11 DEF AdmitStep

\* An admission keeps what relates permits to scopes: above all, it is the only
\* permit of a recovering scope's generation.
LEMMA AdmitKeeps ==
  ASSUME AvailabilityInv, NEW t \in Token, AdmitStep(t)
  PROVE  /\ OneTrialPerScope' /\ PermitsAreBounded' /\ ProofsCount'
         /\ \A s \in Scope : scopes'[s].owner \in {scopes[s].owner, t}
<1>1. /\ t # NoToken /\ scopes \in [Scope -> ScopeRow] /\ ScopesOf(t) \subseteq Scope
      /\ scopes' \in [Scope -> ScopeRow]
  BY AvailabilityAssumption, SMT DEF AvailabilityInv, TypeOK, ScopesOf, CallRow, AdmitStep
<1>2. ASSUME NEW s \in Scope
      PROVE  scopes'[s].epoch = scopes[s].epoch /\ scopes[s].epoch \in Nat
  BY <1>1, SMT DEF AdmitStep, ScopeRow
<1>3. ASSUME NEW s \in Scope \ ScopesOf(t)
      PROVE  Current(s)' = Current(s)
  <2>1. permits[t][s] = -1 /\ permits'[t][s] = -1
    BY <1>3 DEF AvailabilityInv, CallsKnowTheirScopes, AdmitStep, Busy
  <2> QED BY <1>2, <2>1, SMT DEF Current, AdmitStep
<1>4. ASSUME NEW s \in ScopesOf(t)
      PROVE  Current(s)' = Current(s) \cup {t}
  BY <1>1, <1>2, <1>4, SMT DEF Current, AdmitStep
<1>5. ASSUME NEW s \in Scope
      PROVE  /\ scopes'[s].phase = "recovering" => Current(s)' = {scopes'[s].owner} \ {NoToken}
             /\ scopes'[s].phase # "recovering" => scopes'[s].owner = NoToken
             /\ scopes'[s].phase = "cooling" => Current(s)' = {}
             /\ scopes'[s].owner \in {scopes[s].owner, t}
  <2>1. CASE s \notin ScopesOf(t)
    <3>1. scopes'[s] = scopes[s] /\ Current(s)' = Current(s)
      BY <1>3, <2>1 DEF AdmitStep
    <3> QED BY <3>1 DEF AvailabilityInv, OneTrialPerScope
  <2>2. CASE s \in ScopesOf(t) /\ scopes[s].phase = "available"
    <3>1. scopes'[s] = scopes[s]
      BY <2>2 DEF AdmitStep
    <3> QED BY <2>2, <3>1 DEF AvailabilityInv, OneTrialPerScope
  <2>3. CASE s \in ScopesOf(t) /\ scopes[s].phase = "recovering"
    <3>1. /\ scopes[s].owner = NoToken /\ scopes'[s].phase = "recovering"
          /\ scopes'[s].owner = t
      BY <2>3 DEF AdmitStep
    <3>2. Current(s) = {}
      BY <2>3, <3>1 DEF AvailabilityInv, OneTrialPerScope
    <3>3. Current(s)' = {t}
      BY <1>4, <2>3, <3>2
    <3> QED BY <1>1, <3>1, <3>3
  <2> QED BY <2>1, <2>2, <2>3 DEF AdmitStep
<1>6. OneTrialPerScope'
  BY <1>5 DEF OneTrialPerScope
<1>7. PermitsAreBounded'
  <2> SUFFICES ASSUME NEW u \in Token, NEW s \in Scope
               PROVE  permits'[u][s] < MaxEpoch /\ permits'[u][s] <= scopes'[s].epoch
    BY DEF PermitsAreBounded
  <2>1. permits[u][s] < MaxEpoch /\ permits[u][s] <= scopes[s].epoch
    BY DEF AvailabilityInv, PermitsAreBounded
  <2>2. CASE u # t
    BY <1>2, <2>1, <2>2, SMT DEF AdmitStep
  <2>3. CASE u = t /\ s \in ScopesOf(t)
    BY <1>2, <2>3, SMT DEF AdmitStep
  <2>4. CASE u = t /\ s \notin ScopesOf(t)
    <3>1. permits'[u][s] = -1
      BY <2>4 DEF AdmitStep
    <3> QED BY <1>2, <3>1, AvailabilityAssumption, SMT
  <2> QED BY <2>2, <2>3, <2>4
<1>8. ProofsCount'
  BY <1>1, SMT DEF AvailabilityInv, ProofsCount, AdmitStep
<1> QED BY <1>5, <1>6, <1>7, <1>8
\* Time and operators move scopes without touching permits: a scope that moves
\* has no owner, no proofs and no permit of the generation it is then in.
Moved(s) ==
  /\ scopes'[s].owner = NoToken /\ scopes'[s].successes = 0
  /\ Current(s)' = {}
  /\ \A u \in Token : permits[u][s] <= scopes'[s].epoch
  /\ \/ scopes'[s].phase \in {"cooling", "recovering"}
     \/ /\ scopes'[s].phase = "available"
        /\ scopes[s].phase # "cooling" /\ scopes[s].owner = NoToken

MoveStep ==
  /\ UNCHANGED <<permits, tombs, calls>>
  /\ scopes' \in [Scope -> ScopeRow]
  /\ \A s \in Scope : scopes'[s] = scopes[s] \/ Moved(s)

\* A new generation leaves every permit behind.
LEMMA NewGeneration ==
  ASSUME AvailabilityInv, NEW s \in Scope, permits' = permits,
         scopes[s].epoch < MaxEpoch,
         \/ scopes'[s] = Cool(scopes[s])
         \/ scopes'[s] = Restarted(scopes[s])
  PROVE  Moved(s) /\ scopes'[s] \in ScopeRow
<1>1. scopes[s] \in ScopeRow /\ scopes[s].epoch \in Nat
  BY SMT DEF AvailabilityInv, TypeOK, ScopeRow
<1>2. /\ scopes'[s] \in ScopeRow /\ scopes'[s].phase \in {"cooling", "recovering"}
      /\ scopes'[s].epoch = scopes[s].epoch + 1
      /\ scopes'[s].owner = NoToken /\ scopes'[s].successes = 0
  BY <1>1, CoolFacts, RestartedFacts
<1>3. \A u \in Token : permits[u][s] \in Int /\ permits[u][s] <= scopes[s].epoch
  BY SMT DEF AvailabilityInv, TypeOK, PermitsAreBounded
<1>4. \A u \in Token : permits'[u][s] # scopes'[s].epoch /\ permits[u][s] <= scopes'[s].epoch
  BY <1>1, <1>2, <1>3, SMT
<1> QED BY <1>2, <1>4 DEF Moved, Current

\* Each of time's and the operators' steps on scopes is such a move.
LEMMA MoveFacts ==
  ASSUME AvailabilityInv,
         \/ \E s \in Scope : CooldownEnds(s) \/ Forget(s) \/ Suspend(s) \/ Reset(s)
         \/ \E R \in SUBSET Scope : Resume(R)
  PROVE  MoveStep
<1>0. scopes \in [Scope -> ScopeRow]
  BY DEF AvailabilityInv, TypeOK
<1>1. ASSUME NEW s \in Scope, NEW x, scopes' = [scopes EXCEPT ![s] = x],
             x \in ScopeRow, Moved(s), UNCHANGED <<permits, tombs, calls>>
      PROVE  MoveStep
  BY <1>0, <1>1 DEF MoveStep
<1>2. ASSUME NEW s \in Scope, CooldownEnds(s)
      PROVE  MoveStep
  <2> DEFINE x == [scopes[s] EXCEPT !.phase = "recovering"]
  <2>1. scopes' = [scopes EXCEPT ![s] = x] /\ scopes'[s] = x
    BY <1>0, <1>2 DEF CooldownEnds
  <2>2. /\ x \in ScopeRow /\ x.phase = "recovering" /\ x.owner = scopes[s].owner
        /\ x.epoch = scopes[s].epoch /\ x.successes = scopes[s].successes
    BY <1>0, SMT DEF ScopeRow
  <2>3. /\ scopes[s].owner = NoToken /\ Current(s) = {} /\ scopes[s].successes = 0
        /\ \A u \in Token : permits[u][s] <= scopes[s].epoch
    BY <1>2 DEF CooldownEnds, AvailabilityInv, OneTrialPerScope, ProofsCount, PermitsAreBounded
  <2> HIDE DEF x
  <2>4. Current(s)' = Current(s)
    BY <1>2, <2>1, <2>2 DEF Current, CooldownEnds
  <2>5. Moved(s)
    BY <2>1, <2>2, <2>3, <2>4 DEF Moved
  <2> QED BY <1>1, <1>2, <2>1, <2>2, <2>5 DEF CooldownEnds
<1>3. ASSUME NEW s \in Scope, Forget(s)
      PROVE  MoveStep
  <2>1. /\ scopes' = [scopes EXCEPT ![s] = Fresh] /\ scopes'[s] = Fresh
        /\ permits' = permits /\ \A u \in Token : permits[u][s] = -1
        /\ scopes[s].phase # "cooling"
    BY <1>0, <1>3 DEF Forget
  <2>2. /\ Fresh \in ScopeRow /\ Fresh.phase = "available" /\ Fresh.owner = NoToken
        /\ Fresh.epoch = 0 /\ Fresh.successes = 0
    BY Constants DEF Fresh
  <2>3. Current(s) = {} /\ scopes[s].epoch \in Nat
    BY <1>0, <2>1, SMT DEF Current, ScopeRow
  <2>4. scopes[s].owner = NoToken
    <3>1. CASE scopes[s].phase = "recovering"
      <4>1. {scopes[s].owner} \ {NoToken} = {}
        BY <2>3, <3>1 DEF AvailabilityInv, OneTrialPerScope
      <4> QED BY <4>1
    <3>2. CASE scopes[s].phase # "recovering"
      BY <3>2 DEF AvailabilityInv, OneTrialPerScope
    <3> QED BY <3>1, <3>2
  <2>5. Current(s)' = {}
    BY <2>1, <2>2, SMT DEF Current
  <2>6. \A u \in Token : permits[u][s] <= scopes'[s].epoch
    BY <2>1, <2>2, SMT
  <2>7. Moved(s)
    BY <2>1, <2>2, <2>4, <2>5, <2>6 DEF Moved
  <2> QED BY <1>1, <1>3, <2>2, <2>1, <2>7 DEF Forget
<1>4. ASSUME NEW s \in Scope, Suspend(s)
      PROVE  MoveStep
  <2>1. scopes' = [scopes EXCEPT ![s] = Cool(scopes[s])] /\ scopes'[s] = Cool(scopes[s])
    BY <1>0, <1>4 DEF Suspend
  <2>2. Moved(s) /\ Cool(scopes[s]) \in ScopeRow
    BY <1>4, <2>1, NewGeneration DEF Suspend
  <2> QED BY <1>1, <1>4, <2>1, <2>2 DEF Suspend
<1>5. ASSUME NEW s \in Scope, Reset(s)
      PROVE  MoveStep
  <2>1. /\ scopes' = [scopes EXCEPT ![s] = Restarted(scopes[s])]
        /\ scopes'[s] = Restarted(scopes[s])
    BY <1>0, <1>5 DEF Reset
  <2>2. Moved(s) /\ Restarted(scopes[s]) \in ScopeRow
    BY <1>5, <2>1, NewGeneration DEF Reset
  <2> QED BY <1>1, <1>5, <2>1, <2>2 DEF Reset
<1>6. ASSUME NEW R \in SUBSET Scope, Resume(R)
      PROVE  MoveStep
  <2>1. ASSUME NEW s \in Scope
        PROVE  scopes'[s] \in ScopeRow /\ (scopes'[s] = scopes[s] \/ Moved(s))
    <3>1. CASE s \in R /\ scopes[s].phase = "cooling"
      <4>1. /\ scopes'[s] = Restarted(scopes[s]) /\ scopes[s].epoch < MaxEpoch
            /\ permits' = permits
        BY <1>6, <3>1 DEF Resume
      <4> QED BY <4>1, NewGeneration
    <3>2. CASE ~ (s \in R /\ scopes[s].phase = "cooling")
      BY <1>0, <1>6, <3>2 DEF Resume
    <3> QED BY <3>1, <3>2
  <2>2. scopes' = [s \in Scope |-> scopes'[s]] /\ UNCHANGED <<permits, tombs, calls>>
    BY <1>6 DEF Resume
  <2>3. scopes' \in [Scope -> ScopeRow]
    BY <2>1, <2>2
  <2> QED BY <2>1, <2>2, <2>3 DEF MoveStep
<1> QED BY <1>2, <1>3, <1>4, <1>5, <1>6

\* A move keeps the invariant.
LEMMA MoveKeeps ==
  ASSUME AvailabilityInv, MoveStep
  PROVE  AvailabilityInv'
<1>1. TypeOK'
  BY DEF AvailabilityInv, TypeOK, MoveStep
<1>2. OneTrialPerScope'
  <2> SUFFICES ASSUME NEW s \in Scope
               PROVE  /\ scopes'[s].phase = "recovering" => Current(s)' = {scopes'[s].owner} \ {NoToken}
                      /\ scopes'[s].phase # "recovering" => scopes'[s].owner = NoToken
                      /\ scopes'[s].phase = "cooling" => Current(s)' = {}
    BY DEF OneTrialPerScope
  <2>1. CASE scopes'[s] = scopes[s]
    <3>1. Current(s)' = Current(s)
      BY <2>1 DEF MoveStep, Current
    <3> QED BY <2>1, <3>1 DEF AvailabilityInv, OneTrialPerScope
  <2>2. CASE Moved(s)
    BY <2>2 DEF Moved
  <2> QED BY <2>1, <2>2 DEF MoveStep
<1>3. CancelledHoldsNothing'
  <2> SUFFICES ASSUME NEW t \in tombs
               PROVE  ~ Held(t)' /\ \A s \in Scope : scopes'[s].owner # t
    BY DEF CancelledHoldsNothing, MoveStep
  <2>1. t # NoToken /\ ~ Held(t) /\ \A s \in Scope : scopes[s].owner # t
    BY AvailabilityAssumption DEF AvailabilityInv, TypeOK, CancelledHoldsNothing
  <2>2. permits' = permits
    BY DEF MoveStep
  <2> QED BY <2>1, <2>2 DEF MoveStep, Moved, Held
<1>4. PermitsAreBounded'
  <2> SUFFICES ASSUME NEW u \in Token, NEW s \in Scope
               PROVE  permits[u][s] < MaxEpoch /\ permits[u][s] <= scopes'[s].epoch
    BY DEF PermitsAreBounded, MoveStep
  <2> QED BY DEF AvailabilityInv, PermitsAreBounded, MoveStep, Moved
<1>5. CallsKnowTheirScopes'
  BY DEF AvailabilityInv, CallsKnowTheirScopes, ScopesOf, MoveStep
<1>6. ProofsCount'
  <2> SUFFICES ASSUME NEW s \in Scope
               PROVE  /\ scopes'[s].phase = "cooling" => scopes'[s].successes = 0
                      /\ scopes'[s].phase = "recovering" => scopes'[s].successes <= 1
    BY DEF ProofsCount
  <2>1. CASE scopes'[s] = scopes[s]
    BY <2>1 DEF AvailabilityInv, ProofsCount
  <2>2. CASE Moved(s)
    BY <2>2, SMT DEF Moved
  <2> QED BY <2>1, <2>2 DEF MoveStep
<1> QED BY <1>1, <1>2, <1>3, <1>4, <1>5, <1>6 DEF AvailabilityInv
-----------------------------------------------------------------------------
(* The invariant. *)

\* No call begins, and none changes its candidate.
CallsContinue ==
  /\ calls' \in [Token -> CallRow]
  /\ \A u \in Token : Busy(u)' => Busy(u) /\ calls'[u].cand = calls[u].cand

\* Steps of calls that do not reach the script keep the invariant.
LEMMA CallKeeps ==
  ASSUME AvailabilityInv, UNCHANGED <<scopes, permits>>, tombs' \subseteq tombs,
         calls' \in [Token -> CallRow], CallsKnowTheirScopes'
  PROVE  AvailabilityInv'
<1>1. TypeOK'
  BY DEF AvailabilityInv, TypeOK
<1>2. OneTrialPerScope' /\ PermitsAreBounded' /\ ProofsCount'
  BY DEF AvailabilityInv, OneTrialPerScope, Current, PermitsAreBounded, ProofsCount
<1>3. CancelledHoldsNothing'
  BY DEF AvailabilityInv, CancelledHoldsNothing, Held
<1> QED BY <1>1, <1>2, <1>3 DEF AvailabilityInv

\* So do the ends of permits, with or without a tombstone for their token.
LEMMA ReleaseKeeps ==
  ASSUME AvailabilityInv, NEW t \in Token, CompleteStep(t), CallsContinue,
         tombs' \subseteq tombs \cup {t}
  PROVE  AvailabilityInv'
<1>1. /\ permits' \in [Token -> [Scope -> -1 .. MaxEpoch]]
      /\ OneTrialPerScope' /\ PermitsAreBounded' /\ ProofsCount'
      /\ permits'[t] = NoPermit
      /\ \A u \in Token : permits'[u] = NoPermit \/ permits'[u] = permits[u]
      /\ \A s \in Scope : scopes'[s].owner \in {NoToken, scopes[s].owner} \ {t}
  BY CompleteKeeps
<1>2. TypeOK'
  BY <1>1 DEF AvailabilityInv, TypeOK, CompleteStep, CallsContinue
<1>3. CancelledHoldsNothing'
  <2> SUFFICES ASSUME NEW u \in tombs'
               PROVE  ~ Held(u)' /\ \A s \in Scope : scopes'[s].owner # u
    BY DEF CancelledHoldsNothing
  <2>1. CASE u = t
    BY <1>1, <2>1 DEF Held, NoPermit
  <2>2. CASE u # t
    <3>1. /\ u \in tombs /\ u \in Token /\ u # NoToken /\ permits[u] = NoPermit
          /\ \A s \in Scope : scopes[s].owner # u
      BY <2>2, AvailabilityAssumption
         DEF AvailabilityInv, TypeOK, CancelledHoldsNothing, Held
    <3> QED BY <1>1, <3>1 DEF Held, NoPermit
  <2> QED BY <2>1, <2>2
<1>4. CallsKnowTheirScopes'
  BY <1>1, CallsKept DEF CallsContinue
<1> QED BY <1>1, <1>2, <1>3, <1>4 DEF AvailabilityInv

\* And so do admissions.
LEMMA AdmissionKeeps ==
  ASSUME AvailabilityInv, NEW t \in Token, AdmitStep(t), CallsContinue, tombs' = tombs
  PROVE  AvailabilityInv'
<1>1. /\ OneTrialPerScope' /\ PermitsAreBounded' /\ ProofsCount'
      /\ \A s \in Scope : scopes'[s].owner \in {scopes[s].owner, t}
  BY AdmitKeeps
<1>2. TypeOK'
  BY DEF AvailabilityInv, TypeOK, AdmitStep, CallsContinue
<1>3. CancelledHoldsNothing'
  <2> SUFFICES ASSUME NEW u \in tombs
               PROVE  ~ Held(u)' /\ \A s \in Scope : scopes'[s].owner # u
    BY DEF CancelledHoldsNothing
  <2>1. /\ u # t /\ u \in Token /\ permits[u] = NoPermit
        /\ \A s \in Scope : scopes[s].owner # u
    BY DEF AdmitStep, AvailabilityInv, TypeOK, CancelledHoldsNothing, Held
  <2> QED BY <1>1, <2>1 DEF AdmitStep, Held, NoPermit
<1>4. CallsKnowTheirScopes'
  <2> SUFFICES ASSUME NEW u \in Token, Busy(u)', NEW s \in Scope, s \notin ScopesOf(u)'
               PROVE  permits'[u][s] = -1
    BY DEF CallsKnowTheirScopes, Busy
  <2>1. Busy(u) /\ s \notin ScopesOf(u)
    BY DEF CallsContinue, ScopesOf
  <2>2. CASE u = t
    BY <2>1, <2>2 DEF AdmitStep
  <2>3. CASE u # t
    BY <2>1, <2>3 DEF AdmitStep, AvailabilityInv, CallsKnowTheirScopes, Busy
  <2> QED BY <2>2, <2>3
<1> QED BY <1>1, <1>2, <1>3, <1>4 DEF AvailabilityInv

\* A call that is written over continues as what it is written over with.
LEMMA CallWritten ==
  ASSUME AvailabilityInv, NEW t \in Token, NEW c \in CallRow,
         calls' = [calls EXCEPT ![t] = c],
         \/ c = IdleCall
         \/ Busy(t) /\ c.cand = calls[t].cand
  PROVE  CallsContinue
  BY Constants, SMT DEF AvailabilityInv, TypeOK, CallsContinue, Busy

\* What one step does to scopes and permits.
Kind ==
  \/ UNCHANGED <<scopes, permits>>
  \/ \E t \in Token : CompleteStep(t) \/ AdmitStep(t)
  \/ MoveStep

\* Every step of a call keeps the invariant and is of one kind.
LEMMA CallSteps ==
  ASSUME AvailabilityInv, NEW t \in Token, CallStep(t)
  PROVE  AvailabilityInv' /\ Kind
<1>0. /\ calls \in [Token -> CallRow] /\ calls[t] \in CallRow
      /\ calls[t].cand \in Candidate
  BY DEF AvailabilityInv, TypeOK, CallRow
<1>1. ASSUME NEW c \in Candidate, Ask(t, c)
      PROVE  AvailabilityInv' /\ Kind
  <2> DEFINE a == [calls[t] EXCEPT !.pc = "asking"]
             b == [a EXCEPT !.cand = c]
             d == [b EXCEPT !.sent = TRUE]
  <2>0. calls' = [calls EXCEPT ![t] = d] /\ permits[t] = NoPermit
    BY <1>0, <1>1 DEF Ask, Held
  <2>a. a \in CallRow
    BY <1>0, UpdatesOfACall
  <2> HIDE DEF a
  <2>b. b \in CallRow
    BY <2>a, UpdatesOfACall
  <2> HIDE DEF b
  <2>d. d \in CallRow
    BY <2>b, UpdatesOfACall
  <2> HIDE DEF d
  <2>1. calls' \in [Token -> CallRow] /\ \A u \in Token \ {t} : calls'[u] = calls[u]
    BY <1>0, <2>0, <2>d
  <2>2. permits' = permits /\ scopes' = scopes /\ tombs' = tombs
    BY <1>1 DEF Ask
  <2>3. CallsKnowTheirScopes'
    BY <2>0, <2>1, <2>2, CallsKept DEF Busy
  <2> QED BY <2>1, <2>2, <2>3, CallKeeps DEF Kind
<1>2. ASSUME UNCHANGED <<scopes, permits, tombs>>, CallsContinue
      PROVE  AvailabilityInv' /\ Kind
  <2>1. CallsKnowTheirScopes'
    BY <1>2, CallsKept DEF CallsContinue
  <2> QED BY <1>2, <2>1, CallKeeps DEF CallsContinue, Kind
<1>3. Leave(t) => CallsContinue
  BY LeaveFacts DEF CallsContinue
<1>4. CASE AcquireAnswered(t)
  <2>0. Busy(t) /\ InBounds(t) /\ tombs' = tombs
    BY <1>4 DEF AcquireAnswered, Busy
  <2>1. ASSUME Admits(t), Admit(t), NEW late \in BOOLEAN,
               calls' = [calls EXCEPT ![t].pc = "running", ![t].sent = late]
        PROVE  AvailabilityInv' /\ Kind
    <3> DEFINE a == [calls[t] EXCEPT !.pc = "running"]
               c == [a EXCEPT !.sent = late]
    <3>1. calls' = [calls EXCEPT ![t] = c]
      BY <1>0, <2>1
    <3>a. a \in CallRow /\ a.cand = calls[t].cand
      BY <1>0, UpdatesOfACall
    <3> HIDE DEF a
    <3>2. c \in CallRow /\ c.cand = calls[t].cand
      BY <3>a, UpdatesOfACall
    <3> HIDE DEF c
    <3>3. CallsContinue
      BY <2>0, <3>1, <3>2, CallWritten
    <3>4. AdmitStep(t)
      BY <2>0, <2>1, AdmitFacts
    <3> QED BY <2>0, <3>3, <3>4, AdmissionKeeps DEF Kind
  <2>2. CASE calls' = [calls EXCEPT ![t] = IdleCall] /\ UNCHANGED <<scopes, permits>>
    BY <1>2, <2>0, <2>2, CallWritten, Constants
  <2>3. CASE calls' = [calls EXCEPT ![t].pc = "idle"] /\ UNCHANGED <<scopes, permits>>
    <3> DEFINE c == [calls[t] EXCEPT !.pc = "idle"]
    <3>1. c \in CallRow /\ c.cand = calls[t].cand
      BY <1>0, UpdatesOfACall
    <3>2. calls' = [calls EXCEPT ![t] = c]
      BY <1>0, <2>3
    <3> HIDE DEF c
    <3> QED BY <1>2, <2>0, <2>3, <3>1, <3>2, CallWritten
  <2> QED BY <1>4, <2>1, <2>2, <2>3 DEF AcquireAnswered
<1>5. CASE AcquireUnheard(t)
  <2>0. Busy(t) /\ InBounds(t) /\ Admits(t) /\ Admit(t) /\ tombs' = tombs
    BY <1>5 DEF AcquireUnheard, Busy
  <2> DEFINE c == [calls[t] EXCEPT !.sent = FALSE]
  <2>1. c \in CallRow /\ c.cand = calls[t].cand
    BY <1>0, UpdatesOfACall
  <2>2. \/ calls' = [calls EXCEPT ![t] = calls[t]]
        \/ calls' = [calls EXCEPT ![t] = IdleCall]
        \/ calls' = [calls EXCEPT ![t] = c]
    BY <1>0, <1>5 DEF AcquireUnheard
  <2> HIDE DEF c
  <2>3. CallsContinue
    BY <1>0, <2>0, <2>1, <2>2, CallWritten, Constants
  <2>4. AdmitStep(t)
    BY <2>0, AdmitFacts
  <2> QED BY <2>0, <2>3, <2>4, AdmissionKeeps DEF Kind
<1>6. CASE AcquireTimesOut(t)
  <2> DEFINE c == [calls[t] EXCEPT !.pc = "cancelling"]
  <2>1. c \in CallRow /\ c.cand = calls[t].cand
    BY <1>0, SMT DEF CallRow
  <2>2. /\ calls' = [calls EXCEPT ![t] = c] /\ Busy(t)
        /\ UNCHANGED <<scopes, permits, tombs>>
    BY <1>0, <1>6 DEF AcquireTimesOut, Goto, Busy
  <2> HIDE DEF c
  <2> QED BY <1>2, <2>1, <2>2, CallWritten
<1>7. CASE AcquireLost(t)
  BY <1>2, <1>7, CallWritten, Constants DEF AcquireLost
<1>8. CASE Cancel(t)
  <2>1. CompleteStep(t)
    BY <1>8, CompleteFacts DEF Cancel, Busy
  <2> QED BY <1>3, <1>8, <2>1, ReleaseKeeps DEF Cancel, Kind
<1>9. CASE CancelLost(t)
  BY <1>2, <1>3, <1>9 DEF CancelLost
<1>10. CASE RunAttempt(t)
  <2>1. CallsContinue /\ tombs' = tombs /\ Busy(t)
    BY <1>3, <1>10 DEF RunAttempt, Busy
  <2>2. CASE \E v \in Outcomes(t) : Complete(t, v)
    <3>1. CompleteStep(t)
      BY <2>1, <2>2, CompleteFacts
    <3> QED BY <2>1, <3>1, ReleaseKeeps DEF Kind
  <2>3. CASE UNCHANGED <<scopes, permits>>
    BY <1>2, <2>1, <2>3
  <2> QED BY <1>10, <2>2, <2>3 DEF RunAttempt
<1>11. CASE Crash(t)
  BY <1>2, <1>3, <1>11 DEF Crash
<1> QED BY <1>1, <1>4, <1>5, <1>6, <1>7, <1>8, <1>9, <1>10, <1>11 DEF CallStep

\* Every step does.
LEMMA Steps ==
  ASSUME AvailabilityInv, Next
  PROVE  AvailabilityInv' /\ Kind
<1>1. CASE \E t \in Token : CallStep(t)
  BY <1>1, CallSteps
<1>2. ASSUME NEW t \in Token, PermitExpires(t)
      PROVE  AvailabilityInv' /\ Kind
  <2>1. CompleteStep(t)
    BY <1>2, ExpiryFacts
  <2>2. CallsContinue /\ tombs' = tombs
    BY <1>2 DEF PermitExpires, CallsContinue, AvailabilityInv, TypeOK, Busy
  <2> QED BY <2>1, <2>2, ReleaseKeeps DEF Kind
<1>3. ASSUME NEW t \in Token, TombExpires(t)
      PROVE  AvailabilityInv' /\ Kind
  <2>1. /\ UNCHANGED <<scopes, permits, calls>> /\ tombs' \subseteq tombs
        /\ calls' \in [Token -> CallRow] /\ CallsKnowTheirScopes'
    BY <1>3 DEF TombExpires, AvailabilityInv, TypeOK, CallsKnowTheirScopes, ScopesOf
  <2> QED BY <2>1, CallKeeps DEF Kind
<1>4. CASE \/ \E s \in Scope : CooldownEnds(s) \/ Forget(s) \/ Suspend(s) \/ Reset(s)
           \/ \E R \in SUBSET Scope : Resume(R)
  BY <1>4, MoveFacts, MoveKeeps DEF Kind
<1> QED BY <1>1, <1>2, <1>3, <1>4 DEF Next, TimePasses, Operate

\* The invariant holds at the start.
LEMMA Start == Init => AvailabilityInv
<1> SUFFICES ASSUME Init
             PROVE  AvailabilityInv
  OBVIOUS
<1>1. /\ Fresh.phase = "available" /\ Fresh.owner = NoToken /\ Fresh.epoch = 0
      /\ Fresh.successes = 0
  BY DEF Fresh
<1>2. TypeOK
  BY Constants DEF Init, TypeOK
<1>3. OneTrialPerScope /\ ProofsCount
  BY <1>1 DEF Init, OneTrialPerScope, ProofsCount
<1>4. CancelledHoldsNothing
  BY DEF Init, CancelledHoldsNothing
<1>5. PermitsAreBounded
  BY <1>1, AvailabilityAssumption, SMT DEF Init, PermitsAreBounded, NoPermit
<1>6. CallsKnowTheirScopes
  BY Constants DEF Init, CallsKnowTheirScopes
<1> QED BY <1>2, <1>3, <1>4, <1>5, <1>6 DEF AvailabilityInv

\* A step that changes nothing keeps it.
LEMMA Stutter ==
  ASSUME AvailabilityInv, UNCHANGED vars
  PROVE  AvailabilityInv'
<1>1. /\ UNCHANGED <<scopes, permits>> /\ tombs' \subseteq tombs
      /\ calls' \in [Token -> CallRow] /\ CallsKnowTheirScopes'
  BY DEF vars, AvailabilityInv, TypeOK, CallsKnowTheirScopes, ScopesOf
<1> QED BY <1>1, CallKeeps

\* AvailabilityInv holds in every reachable state.
LEMMA Invariance == Spec => []AvailabilityInv
<1>1. AvailabilityInv /\ [Next]_vars => AvailabilityInv'
  BY Steps, Stutter
<1> QED BY <1>1, Start, PTL DEF Spec

-----------------------------------------------------------------------------
(* The results. *)

\* The state of availability.lua keeps its shape for any scopes, candidates and
\* attempts: above all no scope counts a third proof of its recovery.
THEOREM TypeCorrect == Spec => []TypeOK
<1>1. AvailabilityInv => TypeOK
  BY DEF AvailabilityInv
<1> QED BY <1>1, Invariance, PTL

\* A recovering scope has at most one trial, and its permits are that trial's,
\* whatever is lost, repeated, late or crashed around acquire and complete.
THEOREM TrialsAreSingle == Spec => []OneTrialPerScope
<1>1. AvailabilityInv => OneTrialPerScope
  BY DEF AvailabilityInv
<1> QED BY <1>1, Invariance, PTL

\* A cancelled acquire holds nothing, and a delayed copy of it gets nothing.
THEOREM CancelIsFinal == Spec => []CancelledHoldsNothing
<1>1. AvailabilityInv => CancelledHoldsNothing
  BY DEF AvailabilityInv
<1> QED BY <1>1, Invariance, PTL

\* No acquire and no completion disturbs a scope that rests.
THEOREM RestIsRespected == Spec => RestIsUndisturbed
<1>1. ASSUME AvailabilityInv, [Next]_vars
      PROVE  [RestStep]_vars
  <2>1. CASE UNCHANGED vars
    BY <2>1
  <2>2. CASE Next
    <3> SUFFICES ASSUME NEW s \in Scope, scopes[s].phase = "cooling", scopes'[s] # scopes[s]
                 PROVE  permits' = permits
      BY DEF RestStep
    <3>1. Kind
      BY <1>1, <2>2, Steps
    <3>2. ASSUME NEW t \in Token, CompleteStep(t)
          PROVE  FALSE
      <4>1. Trusted(t, s)
        BY <3>2 DEF CompleteStep
      <4>2. Current(s) = {}
        BY <1>1 DEF AvailabilityInv, OneTrialPerScope
      <4> QED BY <4>1, <4>2 DEF Trusted
    <3>3. ASSUME NEW t \in Token, AdmitStep(t)
          PROVE  FALSE
      BY <3>3 DEF AdmitStep
    <3> QED BY <3>1, <3>2, <3>3 DEF Kind, MoveStep
  <2> QED BY <2>1, <2>2, <1>1
<1> QED BY <1>1, Invariance, PTL DEF Spec, RestIsUndisturbed

\* The script, with everything that goes wrong around it, implements the
\* breaker that docs/UPSTREAM_AVAILABILITY.md describes, scope by scope.
THEOREM BreakerIsImplemented == Spec => ImplementsBreaker
<1>1. Init => B!Init
  <2>1. Fresh.phase = "available" /\ Fresh.owner = NoToken
    BY DEF Fresh
  <2> QED BY <2>1 DEF Init, B!Init
<1>2. ASSUME AvailabilityInv, Next
      PROVE  B!Next
  <2> USE DEF B!Becomes
  <2> SUFFICES ASSUME NEW s \in Scope
               PROVE  \/ B!Same(s) \/ B!Trip(s) \/ B!Restart(s) \/ B!CoolDown(s)
                      \/ B!Try(s) \/ B!Release(s) \/ B!Succeed(s) \/ B!Forget(s)
    BY DEF B!Next
  <2>1. Kind
    BY <1>2, Steps
  <2>2. CASE scopes'[s] = scopes[s]
    BY <2>2 DEF B!Same
  <2>3. ASSUME NEW t \in Token, CompleteStep(t)
        PROVE  \/ B!Same(s) \/ B!Trip(s) \/ B!Release(s) \/ B!Succeed(s)
    <3>0. t # NoToken
      BY AvailabilityAssumption
    <3>1. CASE scopes'[s] = scopes[s]
      BY <3>1 DEF B!Same
    <3>2. CASE Tripped(scopes[s], scopes'[s])
      BY <3>2 DEF Tripped, B!Trip
    <3>3. CASE Trusted(t, s) /\ Left(scopes[s], scopes'[s])
      <4>1. CASE scopes[s].phase = "recovering"
        BY <3>0, <3>3, <4>1 DEF Trusted, Left, B!Release
      <4>2. CASE scopes[s].phase # "recovering"
        <5>1. scopes[s].owner = NoToken
          BY <1>2, <4>2 DEF AvailabilityInv, OneTrialPerScope
        <5> QED BY <3>3, <4>2, <5>1 DEF Left, B!Same
      <4> QED BY <4>1, <4>2
    <3>4. CASE Trusted(t, s) /\ Counted(scopes[s], scopes'[s])
      BY <3>0, <3>4, SMT DEF Trusted, Counted, B!Succeed
    <3> QED BY <2>3, <3>1, <3>2, <3>3, <3>4 DEF CompleteStep
  <2>4. ASSUME NEW t \in Token, AdmitStep(t)
        PROVE  B!Same(s) \/ B!Try(s)
    <3>1. CASE scopes'[s] = scopes[s]
      BY <3>1 DEF B!Same
    <3>2. CASE /\ scopes[s].phase = "recovering" /\ scopes[s].owner = NoToken
               /\ scopes'[s].phase = "recovering" /\ scopes'[s].owner = t
               /\ scopes'[s].successes = scopes[s].successes
      BY <3>2 DEF B!Try
    <3> QED BY <2>4, <3>1, <3>2 DEF AdmitStep
  <2>5. CASE Moved(s)
    BY <2>5 DEF Moved, B!Trip, B!Restart, B!Forget
  <2> QED BY <2>1, <2>2, <2>3, <2>4, <2>5 DEF Kind, MoveStep
<1>3. ASSUME UNCHANGED vars
      PROVE  UNCHANGED <<[s \in Scope |-> scopes[s].phase], [s \in Scope |-> scopes[s].owner],
                         [s \in Scope |-> IF scopes[s].phase = "recovering"
                                          THEN scopes[s].successes ELSE 0]>>
  BY <1>3 DEF vars
<1> QED BY <1>1, <1>2, <1>3, Invariance, PTL DEF Spec, ImplementsBreaker, B!Spec
=============================================================================
