------------------------- MODULE TokenRefreshProofs -------------------------
(***************************************************************************)
(* Token refresh for any number of processes, requests, identities, tokens *)
(* and versions: the safety properties of TokenRefresh.                    *)
(***************************************************************************)
EXTENDS TokenRefresh, TLAPS

\* The token t descends from the last login, or from one of which something
\* was lost.
LoginOf(r)        == Max({n \in DOMAIN r : r[n] = n})
Descends(t, r, l) == r[t] = LoginOf(r) \/ \E n \in l : r[n] = r[t]

\* A refresh in its transaction has a token of the version it has read; while
\* the row has that version, its token is the one read or was put back over a
\* replacement.  What the provider granted is accepted and of the same login;
\* what it refused stays refused.
Busy(f) == f.pc \notin {"idle", "waiting"}

FlightFits(f, x, r, v, l) ==
  /\ f.pc \in {"waiting", "read"} => f.expected < MaxVersion
  /\ Busy(f) =>
       /\ f.token \in DOMAIN r /\ f.version <= x.version
       /\ f.version = x.version =>
            Descends(f.token, r, l) /\ (x.token = f.token \/ x.token \in l)
       /\ f.pc # "read" => f.version < MaxVersion
  /\ f.pc = "granted" => f.got \in DOMAIN r /\ f.got \in v /\ r[f.got] = r[f.token]
  /\ f.pc = "refused" => f.token \notin v

\* A request knows the identity of the version it has read, and while it
\* observes the quota the row keeps that identity.
ReaderFits(k, x, r) ==
  /\ k.pc # "idle" => /\ k.version <= x.version /\ k.account \in Account
                      /\ k.version = x.version => k.account = x.account
  /\ k.pc = "refit" => k.token \in DOMAIN r
  /\ k.pc = "observing" => k.account = x.account

\* The row's token was issued, descends from the last login and is accepted
\* or about to be replaced, unless its replacement was lost.
RowFits ==
  /\ row.token \in DOMAIN root
  /\ row.token \in live \cup Carried \cup lost
  /\ Descends(row.token, root, lost)

RootsAreIssued == \A n \in DOMAIN root : root[n] \in DOMAIN root

FlightsFit == \A p \in Process : FlightFits(flights[p], row, root, live, lost)
ReadersFit == \A q \in Reader : ReaderFits(readers[q], row, root)

TokenInv ==
  /\ TypeOK
  /\ RootsAreIssued
  /\ RowFits
  /\ FlightsFit
  /\ ReadersFit
  /\ QuotaIsOfThisAccount

-----------------------------------------------------------------------------
(* What every step keeps. *)

\* Tokens and losses are never forgotten, no dead token revives, and while the
\* version stays the identity and the last login do.
Onward ==
  /\ \A n \in DOMAIN root : n \in DOMAIN root' /\ root'[n] = root[n]
  /\ lost \subseteq lost'
  /\ \A n \in DOMAIN root : n \in live' => n \in live
  /\ row'.version >= row.version
  /\ row'.version = row.version =>
       /\ row'.account = row.account /\ LoginOf(root') = LoginOf(root)
       /\ row'.token = row.token \/ row'.token \in lost'

LEMMA DescentStays ==
  ASSUME TypeOK, Onward, NEW t \in DOMAIN root, Descends(t, root, lost),
         LoginOf(root') = LoginOf(root)
  PROVE  Descends(t, root', lost')
<1>1. root'[t] = root[t]
  BY DEF Onward
<1>2. CASE root[t] = LoginOf(root)
  BY <1>1, <1>2 DEF Descends
<1>3. CASE \E n \in lost : root[n] = root[t]
  <2>1. PICK n \in lost : root[n] = root[t]
    BY <1>3
  <2>2. n \in lost' /\ root'[n] = root[n]
    BY DEF Onward, TypeOK
  <2> QED BY <1>1, <2>1, <2>2 DEF Descends
<1> QED BY <1>2, <1>3 DEF Descends

LEMMA FlightStays ==
  ASSUME TypeOK, TypeOK', Onward, NEW f \in FlightType, FlightFits(f, row, root, live, lost),
         f.pc = "granted" => f.got \in live'
  PROVE  FlightFits(f, row', root', live', lost')
<1>1. /\ f.version \in Int /\ f.expected \in Int /\ row.version \in Int /\ row'.version \in Int
      /\ f.got \in Int /\ f.token \in Int
  BY TokenRefreshAssumption DEF TypeOK, FlightType, RowType
<1>2. ASSUME Busy(f)
      PROVE  /\ f.token \in DOMAIN root' /\ f.version <= row'.version
             /\ f.version = row'.version =>
                  Descends(f.token, root', lost') /\ (row'.token = f.token \/ row'.token \in lost')
             /\ f.pc # "read" => f.version < MaxVersion
  <2>1. /\ f.token \in DOMAIN root /\ f.version <= row.version
        /\ f.pc # "read" => f.version < MaxVersion
    BY <1>2 DEF FlightFits
  <2>2. f.token \in DOMAIN root' /\ f.version <= row'.version
    BY <1>1, <2>1 DEF Onward
  <2>3. ASSUME f.version = row'.version
        PROVE  Descends(f.token, root', lost') /\ (row'.token = f.token \/ row'.token \in lost')
    <3>1. row'.version = row.version /\ f.version = row.version
      BY <1>1, <2>1, <2>3 DEF Onward
    <3>2. Descends(f.token, root, lost) /\ (row.token = f.token \/ row.token \in lost)
      BY <1>2, <3>1 DEF FlightFits
    <3>3. LoginOf(root') = LoginOf(root) /\ (row'.token = row.token \/ row'.token \in lost')
      BY <3>1 DEF Onward
    <3>4. Descends(f.token, root', lost')
      BY <2>1, <3>2, <3>3, DescentStays
    <3> QED BY <3>2, <3>3, <3>4 DEF Onward
  <2> QED BY <2>1, <2>2, <2>3
<1>3. ASSUME f.pc = "granted"
      PROVE  f.got \in DOMAIN root' /\ f.got \in live' /\ root'[f.got] = root'[f.token]
  <2>1. f.got \in DOMAIN root /\ root[f.got] = root[f.token] /\ f.token \in DOMAIN root
    BY <1>3 DEF FlightFits, Busy
  <2> QED BY <1>3, <2>1 DEF Onward
<1>4. ASSUME f.pc = "refused" PROVE f.token \notin live'
  <2>1. f.token \notin live /\ f.token \in DOMAIN root
    BY <1>4 DEF FlightFits, Busy
  <2> QED BY <2>1 DEF Onward
<1>5. f.pc \in {"waiting", "read"} => f.expected < MaxVersion
  BY DEF FlightFits
<1> QED BY <1>2, <1>3, <1>4, <1>5 DEF FlightFits

LEMMA ReaderStays ==
  ASSUME TypeOK, TypeOK', Onward, NEW k \in ReaderType, ReaderFits(k, row, root),
         k.pc = "observing" => row'.account = row.account
  PROVE  ReaderFits(k, row', root')
<1>1. k.version \in Int /\ row.version \in Int /\ row'.version \in Int
  BY TokenRefreshAssumption DEF TypeOK, ReaderType, RowType
<1>2. ASSUME k.pc # "idle"
      PROVE  /\ k.version <= row'.version /\ k.account \in Account
             /\ k.version = row'.version => k.account = row'.account
  BY <1>1, <1>2 DEF ReaderFits, Onward
<1>3. k.pc = "refit" => k.token \in DOMAIN root'
  BY DEF ReaderFits, Onward
<1>4. k.pc = "observing" => k.account = row'.account
  BY DEF ReaderFits
<1> QED BY <1>2, <1>3, <1>4 DEF ReaderFits

\* The parts of the invariant after a step.
LEMMA InvParts ==
  ASSUME TokenInv, TypeOK', Onward, RootsAreIssued', RowFits', QuotaIsOfThisAccount',
         \A p \in Process :
           \/ flights'[p] = flights[p] /\ (flights[p].pc = "granted" => live \subseteq live')
           \/ FlightFits(flights'[p], row', root', live', lost'),
         \A q \in Reader :
           \/ /\ readers'[q] = readers[q]
              /\ readers[q].pc = "observing" => row'.account = row.account
           \/ ReaderFits(readers'[q], row', root')
  PROVE  TokenInv'
<1>1. ASSUME NEW p \in Process PROVE FlightFits(flights'[p], row', root', live', lost')
  <2> SUFFICES ASSUME flights'[p] = flights[p], flights[p].pc = "granted" => live \subseteq live'
               PROVE  FlightFits(flights[p], row', root', live', lost')
    OBVIOUS
  <2>1. flights[p] \in FlightType /\ FlightFits(flights[p], row, root, live, lost)
    BY DEF TokenInv, TypeOK, FlightsFit
  <2>2. flights[p].pc = "granted" => flights[p].got \in live'
    BY <2>1 DEF FlightFits
  <2> QED BY <2>1, <2>2, FlightStays DEF TokenInv
<1>2. ASSUME NEW q \in Reader PROVE ReaderFits(readers'[q], row', root')
  <2> SUFFICES ASSUME readers'[q] = readers[q],
                      readers[q].pc = "observing" => row'.account = row.account
               PROVE  ReaderFits(readers[q], row', root')
    OBVIOUS
  <2>1. readers[q] \in ReaderType /\ ReaderFits(readers[q], row, root)
    BY DEF TokenInv, TypeOK, ReadersFit
  <2> QED BY <2>1, ReaderStays DEF TokenInv
<1> QED BY <1>1, <1>2 DEF TokenInv, FlightsFit, ReadersFit

\* The row after a step: with its token, with one whose replacement is lost,
\* or with one that is accepted.
LEMMA RowStays ==
  ASSUME TokenInv, Onward, row'.token = row.token, LoginOf(root') = LoginOf(root),
         live \subseteq live' \cup Carried' \cup lost', Carried \subseteq live' \cup Carried' \cup lost'
  PROVE  RowFits'
<1>1. row.token \in DOMAIN root /\ Descends(row.token, root, lost) /\ TypeOK
  BY DEF TokenInv, RowFits
<1>2. Descends(row.token, root', lost')
  BY <1>1, DescentStays
<1>3. row'.token \in DOMAIN root' /\ row'.token \in live' \cup Carried' \cup lost'
  BY DEF TokenInv, RowFits, Onward
<1> QED BY <1>2, <1>3 DEF RowFits

LEMMA RowGoesBack ==
  ASSUME row'.token \in lost', row'.token \in DOMAIN root'
  PROVE  RowFits'
  BY DEF RowFits, Descends

-----------------------------------------------------------------------------
(* The rows of the tables and their updates. *)

LEMMA FlightColumns ==
  ASSUME NEW f \in FlightType
  PROVE  /\ \A pc \in {"idle", "waiting", "read", "calling", "failed", "granted", "refused"} :
              [f EXCEPT !.pc = pc] \in FlightType
         /\ \A n \in 0 .. MaxVersion : [f EXCEPT !.expected = n] \in FlightType
         /\ \A n \in 0 .. MaxVersion : [f EXCEPT !.version = n] \in FlightType
         /\ \A n \in 0 .. MaxTokens : [f EXCEPT !.token = n] \in FlightType
         /\ \A b \in BOOLEAN : [f EXCEPT !.legacy = b] \in FlightType
         /\ \A n \in 0 .. MaxTokens : [f EXCEPT !.got = n] \in FlightType
<1>1. \A pc \in {"idle", "waiting", "read", "calling", "failed", "granted", "refused"} :
        [f EXCEPT !.pc = pc] \in FlightType
  BY SMT DEF FlightType
<1>2. \A n \in 0 .. MaxVersion : [f EXCEPT !.expected = n] \in FlightType
  BY SMT DEF FlightType
<1>3. \A n \in 0 .. MaxVersion : [f EXCEPT !.version = n] \in FlightType
  BY SMT DEF FlightType
<1>4. \A n \in 0 .. MaxTokens : [f EXCEPT !.token = n] \in FlightType
  BY SMT DEF FlightType
<1>5. \A b \in BOOLEAN : [f EXCEPT !.legacy = b] \in FlightType
  BY SMT DEF FlightType
<1>6. \A n \in 0 .. MaxTokens : [f EXCEPT !.got = n] \in FlightType
  BY SMT DEF FlightType
<1> QED BY <1>1, <1>2, <1>3, <1>4, <1>5, <1>6

\* A refresh that is asked for, has the lock and the row, and calls the
\* provider, and its answer.
WaitingFlight(f, n)    == [f EXCEPT !.pc = "waiting", !.expected = n]
ReadFlight(f, n, t, b) == [f EXCEPT !.pc = "read", !.version = n, !.token = t, !.legacy = b]
CallingFlight(f)       == [f EXCEPT !.pc = "calling", !.expected = 0]
GrantedFlight(f, t)    == [f EXCEPT !.pc = "granted", !.got = t]
EndedFlight(f, pc)     == [f EXCEPT !.pc = pc]

LEMMA WaitingFacts ==
  ASSUME NEW f \in FlightType, NEW n \in 0 .. MaxVersion
  PROVE  /\ WaitingFlight(f, n) \in FlightType /\ WaitingFlight(f, n).pc = "waiting"
         /\ WaitingFlight(f, n).expected = n
<1> DEFINE a == [f EXCEPT !.pc = "waiting"]
<1>1. a \in FlightType
  BY FlightColumns
<1>2. WaitingFlight(f, n) = [a EXCEPT !.expected = n]
  BY DEF WaitingFlight
<1>3. WaitingFlight(f, n) \in FlightType
  <2> HIDE DEF a
  <2> QED BY <1>1, <1>2, FlightColumns
<1>4. WaitingFlight(f, n).pc = "waiting" /\ WaitingFlight(f, n).expected = n
  BY SMT DEF WaitingFlight, FlightType
<1> QED BY <1>3, <1>4

LEMMA ReadFacts ==
  ASSUME NEW f \in FlightType, NEW n \in 0 .. MaxVersion, NEW t \in 0 .. MaxTokens
  PROVE  \A b \in BOOLEAN :
           /\ ReadFlight(f, n, t, b) \in FlightType /\ ReadFlight(f, n, t, b).pc = "read"
           /\ ReadFlight(f, n, t, b).version = n /\ ReadFlight(f, n, t, b).token = t
           /\ ReadFlight(f, n, t, b).expected = f.expected
<1> TAKE b \in BOOLEAN
<1> DEFINE a == [f EXCEPT !.pc = "read"]
           c == [a EXCEPT !.version = n]
           d == [c EXCEPT !.token = t]
<1>1. a \in FlightType
  BY FlightColumns
<1>2. c \in FlightType
  <2> HIDE DEF a
  <2> QED BY <1>1, FlightColumns
<1>3. d \in FlightType
  <2> HIDE DEF c
  <2> QED BY <1>2, FlightColumns
<1>4. ReadFlight(f, n, t, b) = [d EXCEPT !.legacy = b]
  BY DEF ReadFlight
<1>5. ReadFlight(f, n, t, b) \in FlightType
  <2> HIDE DEF d
  <2> QED BY <1>3, <1>4, FlightColumns
<1>6. /\ ReadFlight(f, n, t, b).pc = "read"
      /\ ReadFlight(f, n, t, b).version = n /\ ReadFlight(f, n, t, b).token = t
      /\ ReadFlight(f, n, t, b).expected = f.expected
  BY SMT DEF ReadFlight, FlightType
<1> QED BY <1>5, <1>6

LEMMA CallingFacts ==
  ASSUME NEW f \in FlightType
  PROVE  /\ CallingFlight(f) \in FlightType /\ CallingFlight(f).pc = "calling"
         /\ CallingFlight(f).version = f.version /\ CallingFlight(f).token = f.token
<1> DEFINE a == [f EXCEPT !.pc = "calling"]
<1>1. a \in FlightType
  BY FlightColumns
<1>0. 0 \in 0 .. MaxVersion
  BY TokenRefreshAssumption
<1>2. CallingFlight(f) = [a EXCEPT !.expected = 0]
  BY DEF CallingFlight
<1>3. CallingFlight(f) \in FlightType
  <2> HIDE DEF a
  <2> QED BY <1>0, <1>1, <1>2, FlightColumns
<1>4. /\ CallingFlight(f).pc = "calling"
      /\ CallingFlight(f).version = f.version /\ CallingFlight(f).token = f.token
  BY SMT DEF CallingFlight, FlightType
<1> QED BY <1>3, <1>4

LEMMA GrantedFacts ==
  ASSUME NEW f \in FlightType, NEW t \in 0 .. MaxTokens
  PROVE  /\ GrantedFlight(f, t) \in FlightType /\ GrantedFlight(f, t).pc = "granted"
         /\ GrantedFlight(f, t).version = f.version /\ GrantedFlight(f, t).token = f.token
         /\ GrantedFlight(f, t).got = t
<1> DEFINE a == [f EXCEPT !.pc = "granted"]
<1>1. a \in FlightType
  BY FlightColumns
<1>2. GrantedFlight(f, t) = [a EXCEPT !.got = t]
  BY DEF GrantedFlight
<1>3. GrantedFlight(f, t) \in FlightType
  <2> HIDE DEF a
  <2> QED BY <1>1, <1>2, FlightColumns, ZenonT(60)
<1>4. /\ GrantedFlight(f, t).pc = "granted"
      /\ GrantedFlight(f, t).version = f.version /\ GrantedFlight(f, t).token = f.token
      /\ GrantedFlight(f, t).got = t
  BY SMT DEF GrantedFlight, FlightType
<1> QED BY <1>3, <1>4

LEMMA EndedFacts ==
  ASSUME NEW f \in FlightType, NEW pc \in {"failed", "refused"}
  PROVE  /\ EndedFlight(f, pc) \in FlightType /\ EndedFlight(f, pc).pc = pc
         /\ EndedFlight(f, pc).version = f.version /\ EndedFlight(f, pc).token = f.token
<1>1. EndedFlight(f, pc) \in FlightType
  BY FlightColumns DEF EndedFlight
<1> QED BY <1>1, SMT DEF EndedFlight, FlightType

LEMMA IdleFacts ==
  /\ IdleFlight \in FlightType /\ IdleFlight.pc = "idle"
  /\ IdleReader \in ReaderType /\ IdleReader.pc = "idle"
  BY TokenRefreshAssumption, SMT DEF IdleFlight, FlightType, IdleReader, ReaderType

\* The updates of the row.
LEMMA RowColumns ==
  ASSUME NEW x \in RowType
  PROVE  /\ \A st \in {"active", "disabled", "deleted"} : [x EXCEPT !.status = st] \in RowType
         /\ \A n \in 1 .. MaxVersion : [x EXCEPT !.version = n] \in RowType
         /\ \A n \in 1 .. MaxTokens : [x EXCEPT !.token = n] \in RowType
         /\ \A a \in Account : [x EXCEPT !.account = a] \in RowType
         /\ \A b \in BOOLEAN : [x EXCEPT !.legacy = b] \in RowType
         /\ \A b \in BOOLEAN : [x EXCEPT !.cooling = b] \in RowType
         /\ \A b \in BOOLEAN : [x EXCEPT !.expiring = b] \in RowType
<1>1. \A st \in {"active", "disabled", "deleted"} : [x EXCEPT !.status = st] \in RowType
  BY SMT DEF RowType
<1>2. \A n \in 1 .. MaxVersion : [x EXCEPT !.version = n] \in RowType
  BY SMT DEF RowType
<1>3. \A n \in 1 .. MaxTokens : [x EXCEPT !.token = n] \in RowType
  BY SMT DEF RowType
<1>4. \A a \in Account : [x EXCEPT !.account = a] \in RowType
  BY SMT DEF RowType
<1>5. \A b \in BOOLEAN : [x EXCEPT !.legacy = b] \in RowType
  BY SMT DEF RowType
<1>6. \A b \in BOOLEAN : [x EXCEPT !.cooling = b] \in RowType
  BY SMT DEF RowType
<1>7. \A b \in BOOLEAN : [x EXCEPT !.expiring = b] \in RowType
  BY SMT DEF RowType
<1> QED BY <1>1, <1>2, <1>3, <1>4, <1>5, <1>6, <1>7

LEMMA RefittedFacts ==
  ASSUME NEW x \in RowType, NEW t \in 1 .. MaxTokens
  PROVE  /\ Refitted(x, t) \in RowType /\ Refitted(x, t).token = t
         /\ Refitted(x, t).version = x.version /\ Refitted(x, t).account = x.account
         /\ Refitted(x, t).cooling = x.cooling
<1> DEFINE a == [x EXCEPT !.token = t]
<1>1. a \in RowType
  BY RowColumns
<1>2. Refitted(x, t) = [a EXCEPT !.legacy = FALSE]
  BY DEF Refitted
<1>3. Refitted(x, t) \in RowType
  <2> HIDE DEF a
  <2> QED BY <1>1, <1>2, RowColumns
<1>4. /\ Refitted(x, t).token = t
      /\ Refitted(x, t).version = x.version /\ Refitted(x, t).account = x.account
      /\ Refitted(x, t).cooling = x.cooling
  BY SMT DEF Refitted, RowType
<1> QED BY <1>3, <1>4

LEMMA UpdatedFacts ==
  ASSUME NEW x \in RowType, NEW t \in 1 .. MaxTokens, x.version < MaxVersion
  PROVE  /\ Updated(x, t) \in RowType /\ Updated(x, t).token = t
         /\ Updated(x, t).version = x.version + 1 /\ Updated(x, t).account = x.account
         /\ Updated(x, t).cooling = FALSE
<1> DEFINE a == [x EXCEPT !.token = t]
           n == x.version + 1
           b == [a EXCEPT !.version = n]
           c == [b EXCEPT !.legacy = FALSE]
           d == [c EXCEPT !.cooling = FALSE]
<1>1. a \in RowType
  BY RowColumns
<1>2. b \in RowType
  <2>1. n \in 1 .. MaxVersion
    BY TokenRefreshAssumption DEF RowType
  <2> HIDE DEF a, n
  <2> QED BY <1>1, <2>1, RowColumns
<1>3. c \in RowType
  <2> HIDE DEF b
  <2> QED BY <1>2, RowColumns
<1>4. d \in RowType
  <2> HIDE DEF c
  <2> QED BY <1>3, RowColumns
<1>5. Updated(x, t) = [d EXCEPT !.expiring = FALSE]
  BY DEF Updated
<1>6. Updated(x, t) \in RowType
  <2> HIDE DEF d
  <2> QED BY <1>4, <1>5, RowColumns
<1>7. /\ Updated(x, t).token = t
      /\ Updated(x, t).version = x.version + 1 /\ Updated(x, t).account = x.account
  BY SMT DEF Updated, RowType
<1>8. Updated(x, t).cooling = FALSE
  BY Zenon DEF Updated, RowType
<1> QED BY <1>6, <1>7, <1>8

\* A row of which only a flag or the status changes.
CooledRow(x, b)   == [x EXCEPT !.cooling = b]
ExpiringRow(x)    == [x EXCEPT !.expiring = TRUE]
LegacyRow(x)      == [x EXCEPT !.legacy = TRUE]
DeletedRow(x)     == [x EXCEPT !.status = "deleted"]

Flagged(x, y) == y \in RowType /\ y.token = x.token /\ y.version = x.version /\ y.account = x.account

LEMMA FlaggedFacts ==
  ASSUME NEW x \in RowType
  PROVE  /\ \A b \in BOOLEAN : Flagged(x, CooledRow(x, b))
         /\ Flagged(x, ExpiringRow(x)) /\ Flagged(x, LegacyRow(x)) /\ Flagged(x, DeletedRow(x))
         /\ ExpiringRow(x).cooling = x.cooling /\ LegacyRow(x).cooling = x.cooling
         /\ DeletedRow(x).cooling = x.cooling
<1>1. ASSUME NEW b \in BOOLEAN PROVE Flagged(x, CooledRow(x, b))
  BY <1>1, RowColumns, SMT DEF Flagged, CooledRow, RowType
<1>2. Flagged(x, ExpiringRow(x)) /\ ExpiringRow(x).cooling = x.cooling
  <2>1. ExpiringRow(x) \in RowType
    BY RowColumns DEF ExpiringRow
  <2> QED BY <2>1, SMT DEF Flagged, ExpiringRow, RowType
<1>3. Flagged(x, LegacyRow(x)) /\ LegacyRow(x).cooling = x.cooling
  <2>1. LegacyRow(x) \in RowType
    BY RowColumns DEF LegacyRow
  <2> QED BY <2>1, SMT DEF Flagged, LegacyRow, RowType
<1>4. Flagged(x, DeletedRow(x)) /\ DeletedRow(x).cooling = x.cooling
  <2>1. DeletedRow(x) \in RowType
    BY RowColumns DEF DeletedRow
  <2> QED BY <2>1, SMT DEF Flagged, DeletedRow, RowType
<1> QED BY <1>1, <1>2, <1>3, <1>4

-----------------------------------------------------------------------------
(* One refresh moves. *)

Exclusive == \A p, o \in Process : InTransaction(p) /\ InTransaction(o) => p = o

LEMMA TypeParts ==
  ASSUME row' \in RowType, pool' \in {"active", "disabled"}, flights' \in [Process -> FlightType],
         readers' \in [Reader -> ReaderType], quota' \in Account \cup {NoAccount},
         root' \in Seq(1 .. MaxTokens), Len(root') <= MaxTokens,
         live' \subseteq DOMAIN root', lost' \subseteq DOMAIN root', Exclusive'
  PROVE  TypeOK'
  BY DEF TypeOK, Exclusive

LEMMA FlightMoves ==
  ASSUME TypeOK, NEW p \in Process, NEW f \in FlightType, flights' = [flights EXCEPT ![p] = f],
         Busy(f) => Busy(flights[p]) \/ LockIsFree
  PROVE  /\ flights' \in [Process -> FlightType] /\ Exclusive'
         /\ flights'[p] = f /\ \A o \in Process : o # p => flights'[o] = flights[o]
<1>1. flights \in [Process -> FlightType]
  BY DEF TypeOK
<1>2. flights'[p] = f /\ \A o \in Process : o # p => flights'[o] = flights[o]
  BY <1>1
<1>3. \A a, o \in Process : Busy(flights[a]) /\ Busy(flights[o]) => a = o
  BY DEF TypeOK, InTransaction, Busy
<1>4. LockIsFree => \A o \in Process : ~ Busy(flights[o])
  BY DEF LockIsFree, InTransaction, Busy
<1>5. ASSUME NEW a \in Process, NEW o \in Process, Busy(flights'[a]), Busy(flights'[o]) PROVE a = o
  BY <1>2, <1>3, <1>4, <1>5
<1>6. Exclusive'
  BY <1>5 DEF Exclusive, InTransaction, Busy
<1> QED BY <1>1, <1>2, <1>6

\* What is about to be written is lost to the row only with the refresh that
\* carries it.
LEMMA CarriedMoves ==
  ASSUME NEW p \in Process, \A o \in Process : o # p => flights'[o] = flights[o]
  PROVE  /\ \A t \in Carried : t \in Carried' \/ (flights[p].pc = "granted" /\ t = flights[p].token)
         /\ flights'[p].pc = "granted" => flights'[p].token \in Carried'
<1>1. ASSUME NEW t \in Carried
      PROVE  t \in Carried' \/ (flights[p].pc = "granted" /\ t = flights[p].token)
  <2>1. PICK o \in Process : flights[o].pc = "granted" /\ t = flights[o].token
    BY DEF Carried
  <2>2. CASE o = p
    BY <2>1, <2>2
  <2>3. CASE o # p
    BY <2>1, <2>3 DEF Carried
  <2> QED BY <2>2, <2>3
<1> QED BY <1>1 DEF Carried

\* While p is in its transaction no other refresh has an answer.
LEMMA OnlyOneAnswer ==
  ASSUME TypeOK, NEW p \in Process, Busy(flights[p])
  PROVE  /\ \A o \in Process : o # p => ~ Busy(flights[o]) /\ flights[o].pc # "granted"
         /\ \A t \in Carried : flights[p].pc = "granted" /\ t = flights[p].token
<1>1. \A o \in Process : o # p => ~ Busy(flights[o])
  BY DEF TypeOK, InTransaction, Busy
<1>2. \A o \in Process : o # p => flights[o].pc # "granted"
  BY <1>1 DEF Busy
<1> QED BY <1>1, <1>2 DEF Carried

LEMMA TokenNumbers ==
  ASSUME TokenInv
  PROVE  /\ row \in RowType /\ row.version \in 1 .. MaxVersion /\ row.token \in 1 .. MaxTokens
         /\ row.account \in Account /\ Len(root) \in Nat /\ Len(root) <= MaxTokens
         /\ DOMAIN root = 1 .. Len(root) /\ DOMAIN root \subseteq 1 .. MaxTokens
         /\ row.token \in DOMAIN root /\ MaxTokens \in Nat /\ MaxVersion \in Nat
         /\ root \in Seq(1 .. MaxTokens)
<1>1. row \in RowType /\ root \in Seq(1 .. MaxTokens) /\ Len(root) <= MaxTokens
  BY DEF TokenInv, TypeOK
<1>2. MaxTokens \in Nat /\ MaxVersion \in Nat
  BY TokenRefreshAssumption
<1>3. DOMAIN root = 1 .. Len(root) /\ Len(root) \in Nat
  BY <1>1
<1>4. row.version \in 1 .. MaxVersion /\ row.token \in 1 .. MaxTokens /\ row.account \in Account
  BY <1>1 DEF RowType
<1> QED BY <1>1, <1>2, <1>3, <1>4 DEF TokenInv, RowFits

\* A step of a refresh that leaves the row and the provider alone.
LEMMA FlightOnly ==
  ASSUME TokenInv, NEW p \in Process, NEW f \in FlightType, flights' = [flights EXCEPT ![p] = f],
         Busy(f) => Busy(flights[p]) \/ LockIsFree,
         FlightFits(f, row, root, live, lost),
         UNCHANGED <<row, pool, readers, quota, root, live>>,
         lost \subseteq lost', lost' \subseteq DOMAIN root,
         flights[p].pc = "granted" => flights[p].token \in live \cup lost'
  PROVE  TokenInv'
<1>1. TypeOK
  BY DEF TokenInv
<1>2. /\ flights' \in [Process -> FlightType] /\ Exclusive'
      /\ flights'[p] = f /\ \A o \in Process : o # p => flights'[o] = flights[o]
  BY <1>1, FlightMoves
<1>3. TypeOK'
  BY <1>1, <1>2, TypeParts DEF TypeOK
<1>4. Onward
  <2>1. row.version \in Int
    BY TokenNumbers
  <2> QED BY <2>1 DEF Onward
<1>5. FlightFits(f, row', root', live', lost')
  <2>1. f.pc = "granted" => f.got \in live'
    BY DEF FlightFits
  <2> QED BY <1>1, <1>3, <1>4, <2>1, FlightStays
<1>6. RowFits'
  <2>1. Carried \subseteq live' \cup Carried' \cup lost'
    BY <1>2, CarriedMoves
  <2> QED BY <1>4, <2>1, RowStays
<1>7. RootsAreIssued' /\ QuotaIsOfThisAccount'
  BY DEF TokenInv, RootsAreIssued, QuotaIsOfThisAccount
<1>8. \A o \in Process : \/ flights'[o] = flights[o] /\ (flights[o].pc = "granted" => live \subseteq live')
                         \/ FlightFits(flights'[o], row', root', live', lost')
  BY <1>2, <1>5
<1> QED BY <1>3, <1>4, <1>6, <1>7, <1>8, InvParts

LEMMA KnownFlight ==
  ASSUME TokenInv, NEW p \in Process
  PROVE  /\ flights[p] \in FlightType /\ FlightFits(flights[p], row, root, live, lost)
         /\ flights \in [Process -> FlightType]
         /\ flights[p].version \in Int /\ flights[p].expected \in Int
         /\ Busy(flights[p]) => flights[p].token \in DOMAIN root
         /\ flights[p].pc = "granted" => flights[p].got \in live /\ Busy(flights[p])
<1>1. flights[p] \in FlightType /\ FlightFits(flights[p], row, root, live, lost)
      /\ flights \in [Process -> FlightType]
  BY DEF TokenInv, TypeOK, FlightsFit
<1>2. flights[p].version \in Int /\ flights[p].expected \in Int
  BY <1>1, TokenRefreshAssumption DEF FlightType
<1> QED BY <1>1, <1>2 DEF FlightFits, Busy

LEMMA IdleFits ==
  FlightFits(IdleFlight, row, root, live, lost) /\ FlightFits(IdleFlight, row', root', live', lost')
  BY IdleFacts DEF FlightFits, Busy

\* A refresh ends: its transaction has changed the row under the version it
\* read, or written the new token with a new version, or nothing.
LEMMA FlightEnds ==
  ASSUME TokenInv, NEW p \in Process, Finish(p),
         UNCHANGED <<pool, readers, quota, root, live>>,
         row' \in RowType, row'.account = row.account,
         lost \subseteq lost', lost' \subseteq DOMAIN root,
         \/ /\ row'.version = row.version /\ (row'.token = row.token \/ row'.token \in lost')
            /\ flights[p].pc = "granted" => flights[p].token \in live \cup lost'
         \/ row'.version = row.version + 1 /\ RowFits'
  PROVE  TokenInv'
<1>1. TypeOK /\ IdleFlight \in FlightType /\ ~ Busy(IdleFlight)
  BY IdleFacts DEF TokenInv, Busy
<1>2. /\ flights' \in [Process -> FlightType] /\ Exclusive'
      /\ flights'[p] = IdleFlight /\ \A o \in Process : o # p => flights'[o] = flights[o]
  BY <1>1, FlightMoves DEF Finish
<1>3. TypeOK'
  BY <1>1, <1>2, TypeParts DEF TypeOK
<1>4. Onward
  <2>1. row.version \in Int
    BY TokenNumbers
  <2> QED BY <2>1 DEF Onward
<1>5. RowFits'
  <2> SUFFICES ASSUME row'.token = row.token \/ row'.token \in lost',
                      flights[p].pc = "granted" => flights[p].token \in live \cup lost'
               PROVE  RowFits'
    OBVIOUS
  <2>1. Carried \subseteq live' \cup Carried' \cup lost'
    BY <1>2, CarriedMoves
  <2>2. CASE row'.token = row.token
    BY <1>4, <2>1, <2>2, RowStays
  <2>3. CASE row'.token \in lost'
    BY <2>3, RowGoesBack
  <2> QED BY <2>2, <2>3
<1>6. RootsAreIssued' /\ QuotaIsOfThisAccount'
  BY DEF TokenInv, RootsAreIssued, QuotaIsOfThisAccount
<1>7. \A o \in Process : \/ flights'[o] = flights[o] /\ (flights[o].pc = "granted" => live \subseteq live')
                         \/ FlightFits(flights'[o], row', root', live', lost')
  BY <1>2, IdleFits
<1> QED BY <1>3, <1>4, <1>5, <1>6, <1>7, InvParts

LEMMA WaitKeeps ==
  ASSUME TokenInv, NEW p \in Process, Wait(p)
  PROVE  TokenInv'
<1> DEFINE f == WaitingFlight(flights[p], row.version)
<1>1. flights[p] \in FlightType /\ row.version \in 0 .. MaxVersion
  BY KnownFlight, TokenNumbers
<1>2. f \in FlightType /\ f.pc = "waiting" /\ f.expected = row.version
  BY <1>1, WaitingFacts
<1>3. flights' = [flights EXCEPT ![p] = f]
  BY KnownFlight DEF Wait, WaitingFlight
<1>4. /\ row.version < MaxVersion /\ UNCHANGED <<row, pool, readers, quota, root, live>> /\ lost' = lost
      /\ flights[p].pc = "idle"
  BY DEF Wait
<1> HIDE DEF f
<1>5. FlightFits(f, row, root, live, lost) /\ ~ Busy(f)
  BY <1>2, <1>4 DEF FlightFits, Busy
<1>6. lost \subseteq DOMAIN root
  BY DEF TokenInv, TypeOK
<1> QED BY <1>2, <1>3, <1>4, <1>5, <1>6, FlightOnly

LEMMA LockKeeps ==
  ASSUME TokenInv, NEW p \in Process, Lock(p)
  PROVE  TokenInv'
<1> DEFINE f == ReadFlight(flights[p], row.version, row.token, row.legacy)
<1>1. /\ flights[p] \in FlightType /\ row.version \in 0 .. MaxVersion /\ row.token \in 0 .. MaxTokens
      /\ row.legacy \in BOOLEAN
  <2>1. flights[p] \in FlightType
    BY KnownFlight
  <2>2. row.version \in 0 .. MaxVersion /\ row.token \in 0 .. MaxTokens /\ row \in RowType
    BY TokenNumbers
  <2>3. row.legacy \in BOOLEAN
    BY <2>2, Zenon DEF RowType
  <2> QED BY <2>1, <2>2, <2>3
<1>2. /\ flights[p].pc = "waiting" /\ LockIsFree
      /\ UNCHANGED <<row, pool, readers, quota, root, live>> /\ lost' = lost
      /\ lost \subseteq DOMAIN root
  BY DEF Lock, TokenInv, TypeOK
<1>3. CASE flights' = [flights EXCEPT ![p] = f]
  <2>1. /\ f \in FlightType /\ f.pc = "read" /\ f.version = row.version /\ f.token = row.token
        /\ f.expected = flights[p].expected
    BY <1>1, ReadFacts
  <2> HIDE DEF f
  <2>2. flights[p].expected < MaxVersion
    BY <1>2, KnownFlight DEF FlightFits
  <2>3. Descends(row.token, root, lost) /\ row.token \in DOMAIN root /\ row.version \in Int
    BY TokenNumbers DEF TokenInv, RowFits
  <2>4. FlightFits(f, row, root, live, lost)
    BY <2>1, <2>2, <2>3 DEF FlightFits
  <2> QED BY <1>2, <1>3, <2>1, <2>4, FlightOnly
<1>4. CASE Finish(p)
  BY <1>2, <1>4, TokenNumbers, FlightEnds
<1> QED BY <1>3, <1>4, KnownFlight DEF Lock, ReadFlight

\* What a commit of x adds to lost is x's token, when it is not the row's.
LEMMA OverwrittenFacts ==
  ASSUME TokenInv, NEW x, x.token \in DOMAIN root
  PROVE  /\ lost \cup Overwritten(x) \subseteq DOMAIN root
         /\ x.token = row.token \/ x.token \in lost \cup Overwritten(x)
  BY DEF Overwritten, TokenInv, TypeOK

\* The row with the tokens that somebody read before.
LEMMA PutBack ==
  ASSUME TokenInv, NEW t \in DOMAIN root
  PROVE  /\ Refitted(row, t) \in RowType /\ Refitted(row, t).token = t
         /\ Refitted(row, t).version = row.version /\ Refitted(row, t).account = row.account
         /\ Refitted(row, t).cooling = row.cooling
  BY TokenNumbers, RefittedFacts

LEMMA CheckKeeps ==
  ASSUME TokenInv, NEW p \in Process, Check(p)
  PROVE  TokenInv'
<1>1. /\ flights[p].pc = "read" /\ Busy(flights[p]) /\ flights[p] \in FlightType
      /\ flights[p].token \in DOMAIN root
  BY KnownFlight DEF Check, Busy
<1>2. CASE flights[p].version = flights[p].expected
  <2> DEFINE f == CallingFlight(flights[p])
  <2>1. /\ f \in FlightType /\ f.pc = "calling" /\ f.version = flights[p].version
        /\ f.token = flights[p].token
    BY <1>1, CallingFacts
  <2>2. flights' = [flights EXCEPT ![p] = f]
    BY <1>2, KnownFlight DEF Check, CallingFlight
  <2>3. UNCHANGED <<row, pool, readers, quota, root, live>> /\ lost' = lost
    BY <1>2 DEF Check
  <2> HIDE DEF f
  <2>4. FlightFits(f, row, root, live, lost)
    BY <1>1, <1>2, <2>1, KnownFlight DEF FlightFits, Busy
  <2>5. lost \subseteq DOMAIN root
    BY DEF TokenInv, TypeOK
  <2> QED BY <1>1, <2>1, <2>2, <2>3, <2>4, <2>5, FlightOnly
<1>3. CASE flights[p].version # flights[p].expected
  <2> DEFINE x == IF flights[p].legacy /\ row.status # "deleted"
                  THEN Refitted(row, flights[p].token) ELSE row
  <2>1. x \in RowType /\ x.token \in DOMAIN root /\ x.version = row.version /\ x.account = row.account
    BY <1>1, TokenNumbers, PutBack
  <2>2. /\ Finish(p) /\ row' = x /\ lost' = lost \cup Overwritten(x)
        /\ UNCHANGED <<pool, readers, quota, root, live>>
    BY <1>3 DEF Check
  <2> HIDE DEF x
  <2>3. lost' \subseteq DOMAIN root /\ (x.token = row.token \/ x.token \in lost') /\ lost \subseteq lost'
    BY <2>1, <2>2, OverwrittenFacts
  <2> QED BY <1>1, <2>1, <2>2, <2>3, FlightEnds
<1> QED BY <1>2, <1>3

\* The tokens the provider issues are numbered on, and only a login is the
\* root of itself.
LEMMA IssueFacts ==
  ASSUME TokenInv, NEW n \in DOMAIN root \cup {NewToken}, NewToken <= MaxTokens, Issue(n)
  PROVE  /\ root' \in Seq(1 .. MaxTokens) /\ Len(root') <= MaxTokens
         /\ DOMAIN root' = DOMAIN root \cup {NewToken} /\ NewToken \notin DOMAIN root
         /\ \A m \in DOMAIN root : root'[m] = root[m]
         /\ root'[NewToken] = n
         /\ RootsAreIssued'
         /\ n \in DOMAIN root => LoginOf(root') = LoginOf(root)
         /\ n = NewToken => LoginOf(root') = NewToken
<1>1. /\ root \in Seq(1 .. MaxTokens) /\ Len(root) \in Nat /\ MaxTokens \in Nat
      /\ DOMAIN root = 1 .. Len(root) /\ DOMAIN root \subseteq 1 .. MaxTokens
      /\ root' = Append(root, n) /\ NewToken = Len(root) + 1
  BY TokenNumbers DEF Issue, NewToken
<1>2. n \in 1 .. MaxTokens /\ NewToken \in 1 .. MaxTokens
  BY <1>1
<1>3. root' \in Seq(1 .. MaxTokens) /\ Len(root') = Len(root) + 1
  BY <1>1, <1>2
<1>4. DOMAIN root' = DOMAIN root \cup {NewToken} /\ NewToken \notin DOMAIN root
  BY <1>1, <1>3
<1>5. \A m \in DOMAIN root : root'[m] = root[m]
  BY <1>1
<1>6. root'[NewToken] = n
  BY <1>1
<1>7. RootsAreIssued'
  <2>1. \A m \in DOMAIN root : root[m] \in DOMAIN root
    BY DEF TokenInv, RootsAreIssued
  <2> QED BY <1>4, <1>5, <1>6, <2>1 DEF RootsAreIssued
<1>8. ASSUME n \in DOMAIN root PROVE LoginOf(root') = LoginOf(root)
  <2>1. {m \in DOMAIN root' : root'[m] = m} = {m \in DOMAIN root : root[m] = m}
    BY <1>4, <1>5, <1>6, <1>8
  <2> QED BY <2>1 DEF LoginOf
<1>9. ASSUME n = NewToken PROVE LoginOf(root') = NewToken
  <2> DEFINE S == {m \in DOMAIN root' : root'[m] = m}
  <2>1. NewToken \in S /\ \A m \in S : m \in Int /\ NewToken >= m
    BY <1>1, <1>4, <1>6, <1>9
  <2>2. NewToken \in Int
    BY <1>1
  <2> HIDE DEF S
  <2>3. \A k \in S : (\A m \in S : k >= m) => k = NewToken
    BY <2>1, <2>2
  <2>4. Max(S) = NewToken
    BY <2>1, <2>3 DEF Max
  <2> QED BY <2>4 DEF LoginOf, S
<1> QED BY <1>1, <1>3, <1>4, <1>5, <1>6, <1>7, <1>8, <1>9

\* The provider rotates a token: the refresh that asked has the replacement,
\* or the answer is lost.
LEMMA ProviderMoves ==
  ASSUME TokenInv, NEW p \in Process, NEW f \in FlightType, flights' = [flights EXCEPT ![p] = f],
         flights[p].pc = "calling", f.token = flights[p].token,
         UNCHANGED <<row, pool, readers, quota>>,
         root' \in Seq(1 .. MaxTokens), Len(root') <= MaxTokens, RootsAreIssued',
         \A n \in DOMAIN root : n \in DOMAIN root' /\ root'[n] = root[n],
         LoginOf(root') = LoginOf(root),
         lost \subseteq lost', lost' \subseteq DOMAIN root,
         live' \subseteq DOMAIN root', \A n \in DOMAIN root : n \in live' => n \in live,
         live \ {f.token} \subseteq live', f.pc = "granted" \/ f.token \in live' \cup lost',
         FlightFits(f, row', root', live', lost')
  PROVE  TokenInv'
<1>1. TypeOK /\ Busy(flights[p])
  BY DEF TokenInv, Busy
<1>2. /\ flights' \in [Process -> FlightType] /\ Exclusive'
      /\ flights'[p] = f /\ \A o \in Process : o # p => flights'[o] = flights[o]
  BY <1>1, FlightMoves
<1>3. lost' \subseteq DOMAIN root'
  OBVIOUS
<1>4. TypeOK'
  BY <1>1, <1>2, <1>3, TypeParts DEF TypeOK
<1>5. Onward
  <2>1. row.version \in Int
    BY TokenNumbers
  <2> QED BY <2>1 DEF Onward
<1>6. RowFits'
  <2>1. Carried \subseteq live' \cup Carried' \cup lost'
    BY <1>2, CarriedMoves
  <2>2. f.pc = "granted" => f.token \in Carried'
    BY <1>2, CarriedMoves
  <2>3. live \subseteq live' \cup Carried' \cup lost'
    BY <2>2
  <2> QED BY <1>5, <2>1, <2>3, RowStays
<1>7. QuotaIsOfThisAccount'
  BY DEF TokenInv, QuotaIsOfThisAccount
<1>8. \A o \in Process : \/ flights'[o] = flights[o] /\ (flights[o].pc = "granted" => live \subseteq live')
                         \/ FlightFits(flights'[o], row', root', live', lost')
  BY <1>1, <1>2, OnlyOneAnswer
<1> QED BY <1>4, <1>5, <1>6, <1>7, <1>8, InvParts

LEMMA AnswerKeeps ==
  ASSUME TokenInv, NEW p \in Process, Answer(p)
  PROVE  TokenInv'
<1> DEFINE t == flights[p].token
<1>1. /\ flights[p].pc = "calling" /\ Busy(flights[p]) /\ flights[p] \in FlightType
      /\ flights \in [Process -> FlightType]
      /\ t \in DOMAIN root /\ UNCHANGED <<row, pool, readers, quota, lost>>
      /\ FlightFits(flights[p], row, root, live, lost)
  BY KnownFlight DEF Answer, Busy
<1>2. lost \subseteq DOMAIN root /\ live \subseteq DOMAIN root
  BY DEF TokenInv, TypeOK
<1>3. CASE /\ t \in live
           /\ flights' = [flights EXCEPT ![p].pc = "granted", ![p].got = t]
           /\ UNCHANGED <<root, live>>
  <2> DEFINE f == GrantedFlight(flights[p], t)
  <2>1. t \in 0 .. MaxTokens
    BY <1>1, TokenNumbers
  <2>2. f \in FlightType /\ f.pc = "granted" /\ f.version = flights[p].version /\ f.token = t /\ f.got = t
    <3> HIDE DEF t
    <3>1. /\ GrantedFlight(flights[p], t).token = flights[p].token
          /\ GrantedFlight(flights[p], t) \in FlightType /\ GrantedFlight(flights[p], t).pc = "granted"
          /\ GrantedFlight(flights[p], t).version = flights[p].version
          /\ GrantedFlight(flights[p], t).got = t
      BY <1>1, <2>1, GrantedFacts
    <3> QED BY <3>1 DEF t
  <2>3. flights' = [flights EXCEPT ![p] = f]
    BY <1>1, <1>3 DEF GrantedFlight
  <2> HIDE DEF f
  <2>4. FlightFits(f, row, root, live, lost)
    BY <1>1, <1>3, <2>2 DEF FlightFits, Busy
  <2> QED BY <1>1, <1>2, <1>3, <2>2, <2>3, <2>4, FlightOnly
<1>4. CASE /\ t \notin live
           /\ flights' = [flights EXCEPT ![p].pc = "refused"]
           /\ UNCHANGED <<root, live>>
  <2> DEFINE f == EndedFlight(flights[p], "refused")
  <2>1. f \in FlightType /\ f.pc = "refused" /\ f.version = flights[p].version /\ f.token = t
    BY <1>1, EndedFacts
  <2>2. flights' = [flights EXCEPT ![p] = f]
    BY <1>4 DEF EndedFlight
  <2> HIDE DEF f
  <2>3. FlightFits(f, row, root, live, lost)
    BY <1>1, <1>4, <2>1 DEF FlightFits, Busy
  <2> QED BY <1>1, <1>2, <1>4, <2>1, <2>2, <2>3, FlightOnly
<1>5. CASE /\ t \in live /\ NewToken <= MaxTokens
           /\ flights' = [flights EXCEPT ![p].pc = "granted", ![p].got = NewToken]
           /\ Issue(root[t])
           /\ live' = (live \ {t}) \cup {NewToken}
  <2> DEFINE f == GrantedFlight(flights[p], NewToken)
  <2>1. NewToken \in 0 .. MaxTokens /\ root[t] \in DOMAIN root
    <3>1. NewToken \in 0 .. MaxTokens
      BY <1>5, TokenNumbers DEF NewToken
    <3>2. root[t] \in DOMAIN root
      <4> HIDE DEF t
      <4> QED BY <1>1 DEF TokenInv, RootsAreIssued
    <3> QED BY <3>1, <3>2
  <2>2. f \in FlightType /\ f.pc = "granted" /\ f.version = flights[p].version /\ f.token = t
        /\ f.got = NewToken
    BY <1>1, <2>1, GrantedFacts
  <2>3. flights' = [flights EXCEPT ![p] = f]
    BY <1>1, <1>5 DEF GrantedFlight
  <2>4. /\ root' \in Seq(1 .. MaxTokens) /\ Len(root') <= MaxTokens
        /\ DOMAIN root' = DOMAIN root \cup {NewToken} /\ NewToken \notin DOMAIN root
        /\ \A m \in DOMAIN root : root'[m] = root[m]
        /\ root'[NewToken] = root[t] /\ RootsAreIssued' /\ LoginOf(root') = LoginOf(root)
    <3> DEFINE n == root[t]
    <3>1. n \in DOMAIN root \cup {NewToken} /\ n \in DOMAIN root /\ Issue(n)
      BY <1>5, <2>1
    <3> HIDE DEF n, t
    <3>2. /\ root' \in Seq(1 .. MaxTokens) /\ Len(root') <= MaxTokens
          /\ DOMAIN root' = DOMAIN root \cup {NewToken} /\ NewToken \notin DOMAIN root
          /\ \A m \in DOMAIN root : root'[m] = root[m]
          /\ root'[NewToken] = n /\ RootsAreIssued' /\ LoginOf(root') = LoginOf(root)
      BY <1>5, <3>1, IssueFacts
    <3> QED BY <3>2 DEF n
  <2> HIDE DEF f
  <2>5. Onward
    <3>1. row.version \in Int
      BY TokenNumbers
    <3> QED BY <1>1, <1>5, <2>4, <3>1 DEF Onward
  <2>6. FlightFits(f, row', root', live', lost')
    <3>1. /\ t \in DOMAIN root' /\ f.version <= row'.version /\ f.version < MaxVersion
          /\ f.version = row'.version =>
               Descends(t, root, lost) /\ (row'.token = t \/ row'.token \in lost')
      BY <1>1, <2>2, <2>4 DEF FlightFits, Busy
    <3>2. Descends(t, root, lost) => Descends(t, root', lost')
      <4> HIDE DEF t
      <4> QED BY <1>1, <2>4, <2>5, DescentStays DEF TokenInv
    <3>3. f.got \in DOMAIN root' /\ f.got \in live' /\ root'[f.got] = root'[f.token]
      BY <1>1, <1>5, <2>2, <2>4
    <3> QED BY <2>2, <3>1, <3>2, <3>3 DEF FlightFits
  <2>7. live' \subseteq DOMAIN root' /\ (\A n \in DOMAIN root : n \in live' => n \in live)
        /\ live \ {f.token} \subseteq live'
    BY <1>2, <1>5, <2>2, <2>4
  <2> QED BY <1>1, <1>2, <2>2, <2>3, <2>4, <2>6, <2>7, ProviderMoves
<1> QED BY <1>3, <1>4, <1>5 DEF Answer

LEMMA AnswerLostKeeps ==
  ASSUME TokenInv, NEW p \in Process, AnswerLost(p)
  PROVE  TokenInv'
<1> DEFINE t == flights[p].token
           f == EndedFlight(flights[p], "failed")
<1>1. /\ flights[p].pc = "calling" /\ Busy(flights[p]) /\ flights[p] \in FlightType
      /\ t \in DOMAIN root /\ UNCHANGED <<row, pool, readers, quota, root>>
      /\ FlightFits(flights[p], row, root, live, lost)
  BY KnownFlight DEF AnswerLost, Busy
<1>2. lost \subseteq DOMAIN root /\ live \subseteq DOMAIN root
  BY DEF TokenInv, TypeOK
<1>3. f \in FlightType /\ f.pc = "failed" /\ f.version = flights[p].version /\ f.token = t
  BY <1>1, EndedFacts
<1>4. flights' = [flights EXCEPT ![p] = f]
  BY DEF AnswerLost, EndedFlight
<1> HIDE DEF f
<1>5. FlightFits(f, row, root, live, lost)
  BY <1>1, <1>3 DEF FlightFits, Busy
<1>6. CASE UNCHANGED <<live, lost>>
  BY <1>1, <1>2, <1>3, <1>4, <1>5, <1>6, FlightOnly
<1>7. CASE live' = live \ {t} /\ lost' = lost \cup {t}
  <2>1. /\ \A n \in DOMAIN root : n \in DOMAIN root' /\ root'[n] = root[n]
        /\ LoginOf(root') = LoginOf(root) /\ RootsAreIssued'
        /\ root' \in Seq(1 .. MaxTokens) /\ Len(root') <= MaxTokens
    BY <1>1 DEF TokenInv, TypeOK, RootsAreIssued
  <2>2. /\ lost \subseteq lost' /\ lost' \subseteq DOMAIN root /\ live' \subseteq DOMAIN root'
        /\ (\A n \in DOMAIN root : n \in live' => n \in live)
        /\ live \ {f.token} \subseteq live' /\ f.token \in live' \cup lost'
    BY <1>1, <1>2, <1>3, <1>7
  <2>3. FlightFits(f, row', root', live', lost')
    <3>1. f.version = row.version => Descends(t, root, lost) /\ (row.token = t \/ row.token \in lost)
      BY <1>3, <1>5 DEF FlightFits, Busy
    <3>2. Descends(t, root, lost) => Descends(t, root', lost')
      BY <1>1, <1>7 DEF Descends
    <3> QED BY <1>1, <1>3, <1>5, <1>7, <3>1, <3>2 DEF FlightFits, Busy
  <2> QED BY <1>1, <1>3, <1>4, <2>1, <2>2, <2>3, ProviderMoves
<1> QED BY <1>6, <1>7 DEF AnswerLost

\* What the transaction of p has done to the row by itself.
LEMMA ViewFacts ==
  ASSUME TokenInv, NEW p \in Process, Busy(flights[p]),
         NEW x \in {row, Refitted(row, flights[p].token)}
  PROVE  /\ x \in RowType /\ x.token \in DOMAIN root
         /\ x.version = row.version /\ x.account = row.account /\ x.cooling = row.cooling
<1>1. flights[p].token \in DOMAIN root
  BY KnownFlight
<1>2. CASE x = row
  BY <1>2, TokenNumbers
<1>3. CASE x = Refitted(row, flights[p].token)
  BY <1>1, <1>3, PutBack
<1> QED BY <1>2, <1>3

\* The three ways in which a refresh is concluded.
ConcludeUpdates(p, x) ==
  /\ flights[p].pc = "granted" /\ UpdatesTokens(p)
  /\ row' = Updated(x, flights[p].got) /\ lost' = lost

ConcludeMarks(p, x) ==
  /\ flights[p].pc = "refused" /\ MarksInvalid(p)
  /\ row' = CooledRow(x, TRUE) /\ lost' = lost \cup (Dropped(p) \cup Overwritten(x))

ConcludeLeaves(p, x) ==
  row' = x /\ lost' = lost \cup (Dropped(p) \cup Overwritten(x))

LEMMA ConcludeForms ==
  ASSUME TokenInv, NEW p \in Process, Conclude(p)
  PROVE  /\ Busy(flights[p]) /\ Finish(p) /\ UNCHANGED <<pool, readers, quota, root, live>>
         /\ \E x \in {row, Refitted(row, flights[p].token)} :
              ConcludeUpdates(p, x) \/ ConcludeMarks(p, x) \/ ConcludeLeaves(p, x)
<1>1. Busy(flights[p]) /\ Finish(p) /\ UNCHANGED <<pool, readers, quota, root, live>>
  BY DEF Conclude, Busy
<1> DEFINE x == IF row.status = "deleted" THEN row ELSE View(p)
           updates == flights[p].pc = "granted" /\ UpdatesTokens(p)
           marks   == flights[p].pc = "refused" /\ MarksInvalid(p)
<1>2. x \in {row, Refitted(row, flights[p].token)}
  BY DEF View
<1>3. /\ row' = CASE updates -> Updated(x, flights[p].got)
                  [] marks   -> [x EXCEPT !.cooling = TRUE]
                  [] OTHER   -> x
      /\ lost' = lost \cup (IF updates THEN {} ELSE Dropped(p) \cup Overwritten(x))
  BY DEF Conclude
<1>4. ~ (updates /\ marks)
  OBVIOUS
<1> HIDE DEF x
<1>5. CASE updates
  BY <1>2, <1>3, <1>4, <1>5, <1>1 DEF ConcludeUpdates
<1>6. CASE marks
  BY <1>2, <1>3, <1>4, <1>6, <1>1 DEF ConcludeMarks, CooledRow
<1>7. CASE ~ updates /\ ~ marks
  <2> HIDE DEF updates, marks
  <2> QED BY <1>2, <1>3, <1>7, <1>1 DEF ConcludeLeaves
<1> QED BY <1>5, <1>6, <1>7

\* A replacement that goes nowhere leaves its token live or lost.
LEMMA DroppedFacts ==
  ASSUME TokenInv, NEW p \in Process
  PROVE  /\ Dropped(p) \subseteq DOMAIN root
         /\ flights[p].pc = "granted" => flights[p].token \in live \cup Dropped(p)
  BY KnownFlight DEF Dropped

LEMMA ConcludeKeeps ==
  ASSUME TokenInv, NEW p \in Process, Conclude(p)
  PROVE  TokenInv'
<1>1. Busy(flights[p]) /\ Finish(p) /\ UNCHANGED <<pool, readers, quota, root, live>>
  BY ConcludeForms
<1>2. PICK x \in {row, Refitted(row, flights[p].token)} :
        ConcludeUpdates(p, x) \/ ConcludeMarks(p, x) \/ ConcludeLeaves(p, x)
  BY ConcludeForms
<1>3. /\ x \in RowType /\ x.token \in DOMAIN root
      /\ x.version = row.version /\ x.account = row.account
  BY <1>1, ViewFacts
<1>4. lost \subseteq DOMAIN root
  BY DEF TokenInv, TypeOK
<1>5. CASE ConcludeUpdates(p, x)
  <2> DEFINE g == flights[p].got
  <2>1. /\ flights[p].pc = "granted" /\ row.version = flights[p].version
        /\ row' = Updated(x, g) /\ lost' = lost
    BY <1>5 DEF ConcludeUpdates, UpdatesTokens
  <2>2. /\ g \in DOMAIN root /\ g \in live /\ root[g] = root[flights[p].token]
        /\ flights[p].version < MaxVersion /\ Descends(flights[p].token, root, lost)
    BY <2>1, KnownFlight DEF FlightFits, Busy
  <2>3. g \in 1 .. MaxTokens /\ x.version < MaxVersion
    BY <1>3, <2>1, <2>2, TokenNumbers
  <2>4. /\ row' \in RowType /\ row'.token = g /\ row'.version = row.version + 1
        /\ row'.account = row.account
    <3> HIDE DEF g
    <3> QED BY <1>3, <2>1, <2>3, UpdatedFacts
  <2>5. Descends(g, root, lost)
    BY <2>2 DEF Descends
  <2>6. RowFits'
    BY <1>1, <2>1, <2>2, <2>4, <2>5 DEF RowFits
  <2> QED BY <1>1, <1>4, <2>1, <2>4, <2>6, FlightEnds
<1>6. CASE ConcludeMarks(p, x) \/ ConcludeLeaves(p, x)
  <2>1. lost' = lost \cup (Dropped(p) \cup Overwritten(x))
    BY <1>6 DEF ConcludeMarks, ConcludeLeaves
  <2>2. /\ lost' \subseteq DOMAIN root /\ lost \subseteq lost'
        /\ x.token = row.token \/ x.token \in lost'
        /\ flights[p].pc = "granted" => flights[p].token \in live \cup lost'
    BY <1>3, <2>1, OverwrittenFacts, DroppedFacts
  <2>3. /\ row' \in RowType /\ row'.token = x.token /\ row'.version = row.version
        /\ row'.account = row.account
    BY <1>3, <1>6, FlaggedFacts, ZenonT(60) DEF ConcludeMarks, ConcludeLeaves, Flagged
  <2> QED BY <1>1, <2>2, <2>3, FlightEnds
<1> QED BY <1>2, <1>5, <1>6

LEMMA AbortKeeps ==
  ASSUME TokenInv, NEW p \in Process, Abort(p)
  PROVE  TokenInv'
<1>1. /\ Finish(p) /\ lost' = lost \cup Dropped(p)
      /\ UNCHANGED <<row, pool, readers, quota, root, live>>
  BY DEF Abort
<1>2. /\ lost' \subseteq DOMAIN root /\ lost \subseteq lost'
      /\ flights[p].pc = "granted" => flights[p].token \in live \cup lost'
  BY <1>1, DroppedFacts DEF TokenInv, TypeOK
<1> QED BY <1>1, <1>2, TokenNumbers, FlightEnds

-----------------------------------------------------------------------------
(* Requests and inspections. *)

LEMMA KnownReader ==
  ASSUME TokenInv, NEW q \in Reader
  PROVE  /\ readers[q] \in ReaderType /\ ReaderFits(readers[q], row, root)
         /\ readers \in [Reader -> ReaderType]
  BY DEF TokenInv, TypeOK, ReadersFit

LEMMA IdleReaderFits == ReaderFits(IdleReader, row, root) /\ ReaderFits(IdleReader, row', root')
  BY IdleFacts DEF ReaderFits

\* A request goes on, having perhaps put tokens back.
LEMMA ReaderMoves ==
  ASSUME TokenInv, NEW q \in Reader, NEW k \in ReaderType, readers' = [readers EXCEPT ![q] = k],
         ReaderFits(k, row', root'), UNCHANGED <<pool, flights, root, live>>,
         row' \in RowType, row'.version = row.version, row'.account = row.account,
         row'.token = row.token \/ row'.token \in lost',
         lost \subseteq lost', lost' \subseteq DOMAIN root,
         quota' \in Account \cup {NoAccount}, QuotaIsOfThisAccount'
  PROVE  TokenInv'
<1>1. readers' \in [Reader -> ReaderType] /\ \A o \in Reader : o # q => readers'[o] = readers[o]
  BY KnownReader
<1>2. readers'[q] = k
  BY KnownReader
<1>3. TypeOK'
  <2>1. Exclusive'
    BY DEF Exclusive, InTransaction, TokenInv, TypeOK
  <2> QED BY <1>1, <2>1, TypeParts DEF TokenInv, TypeOK
<1>4. Onward
  <2>1. row.version \in Int
    BY TokenNumbers
  <2> QED BY <2>1 DEF Onward
<1>5. Carried' = Carried
  BY DEF Carried
<1>6. RowFits'
  <2>1. CASE row'.token = row.token
    BY <1>4, <1>5, <2>1, RowStays
  <2>2. CASE row'.token \in lost'
    BY <2>2, RowGoesBack
  <2> QED BY <2>1, <2>2
<1>7. RootsAreIssued'
  BY DEF TokenInv, RootsAreIssued
<1> QED BY <1>1, <1>2, <1>3, <1>4, <1>6, <1>7, InvParts

LEMMA ReadKeeps ==
  ASSUME TokenInv, NEW q \in Reader, Read(q)
  PROVE  TokenInv'
<1> DEFINE k == [pc |-> IF row.legacy THEN "refit" ELSE "using", version |-> row.version,
                 token |-> IF row.legacy THEN row.token ELSE 0, account |-> row.account]
<1>1. /\ row.version \in 0 .. MaxVersion /\ row.version \in Int /\ row.token \in 0 .. MaxTokens
      /\ 0 \in 0 .. MaxTokens /\ row.account \in Account /\ row.token \in DOMAIN root
      /\ row \in RowType
  BY TokenNumbers
<1>2. CASE row.legacy
  <2>1. k = [pc |-> "refit", version |-> row.version, token |-> row.token, account |-> row.account]
    BY <1>2
  <2>2. k \in ReaderType /\ ReaderFits(k, row, root)
    <3> HIDE DEF k
    <3> QED BY <1>1, <2>1 DEF ReaderType, ReaderFits
  <2> HIDE DEF k
  <2> QED BY <1>1, <2>2, ReaderMoves DEF Read, k, TokenInv, TypeOK, QuotaIsOfThisAccount
<1>3. CASE ~ row.legacy
  <2>1. k = [pc |-> "using", version |-> row.version, token |-> 0, account |-> row.account]
    BY <1>3
  <2>2. k \in ReaderType /\ ReaderFits(k, row, root)
    <3> HIDE DEF k
    <3> QED BY <1>1, <2>1 DEF ReaderType, ReaderFits
  <2> HIDE DEF k
  <2> QED BY <1>1, <2>2, ReaderMoves DEF Read, k, TokenInv, TypeOK, QuotaIsOfThisAccount
<1> QED BY <1>2, <1>3

\* The request after its re-encryption, and while it observes.
UsingReader(k)     == [k EXCEPT !.pc = "using", !.token = 0]
ObservingReader(k) == [k EXCEPT !.pc = "observing"]

LEMMA ReaderFacts ==
  ASSUME NEW k \in ReaderType
  PROVE  /\ UsingReader(k) \in ReaderType /\ UsingReader(k).pc = "using"
         /\ UsingReader(k).version = k.version /\ UsingReader(k).account = k.account
         /\ ObservingReader(k) \in ReaderType /\ ObservingReader(k).pc = "observing"
         /\ ObservingReader(k).version = k.version /\ ObservingReader(k).account = k.account
<1>1. 0 \in 0 .. MaxTokens
  BY TokenRefreshAssumption
<1>2. UsingReader(k) \in ReaderType /\ ObservingReader(k) \in ReaderType
  <2>1. \A pc \in {"using", "observing"} : [k EXCEPT !.pc = pc] \in ReaderType
    BY SMT DEF ReaderType
  <2>2. \A a \in ReaderType : [a EXCEPT !.token = 0] \in ReaderType
    BY <1>1, SMT DEF ReaderType
  <2> DEFINE a == [k EXCEPT !.pc = "using"]
  <2>3. UsingReader(k) = [a EXCEPT !.token = 0] /\ a \in ReaderType
    BY <2>1 DEF UsingReader
  <2> HIDE DEF a
  <2> QED BY <2>1, <2>2, <2>3 DEF ObservingReader
<1>3. /\ UsingReader(k).pc = "using"
      /\ UsingReader(k).version = k.version /\ UsingReader(k).account = k.account
      /\ ObservingReader(k).pc = "observing"
      /\ ObservingReader(k).version = k.version /\ ObservingReader(k).account = k.account
  BY SMT DEF UsingReader, ObservingReader, ReaderType
<1> QED BY <1>2, <1>3

LEMMA ReencryptKeeps ==
  ASSUME TokenInv, NEW q \in Reader, Reencrypt(q)
  PROVE  TokenInv'
<1> DEFINE k == UsingReader(readers[q])
           x == IF row.status = "deleted" THEN row ELSE Refitted(row, readers[q].token)
<1>1. /\ readers[q] \in ReaderType /\ ReaderFits(readers[q], row, root) /\ readers[q].pc = "refit"
      /\ readers \in [Reader -> ReaderType]
  BY KnownReader DEF Reencrypt
<1>2. /\ k \in ReaderType /\ k.pc = "using" /\ k.version = readers[q].version
      /\ k.account = readers[q].account
  BY <1>1, ReaderFacts
<1>3. readers' = [readers EXCEPT ![q] = k] /\ UNCHANGED <<pool, flights, quota, root, live>>
  BY <1>1 DEF Reencrypt, UsingReader
<1> HIDE DEF k
<1>4. readers[q].token \in DOMAIN root
  BY <1>1 DEF ReaderFits
<1>5. x \in RowType /\ x.token \in DOMAIN root /\ x.version = row.version /\ x.account = row.account
  BY <1>4, TokenNumbers, PutBack
<1>6. \/ row' = x /\ lost' = lost \cup Overwritten(x)
      \/ UNCHANGED <<row, lost>>
  BY DEF Reencrypt
<1> HIDE DEF x
<1>7. /\ row' \in RowType /\ row'.version = row.version /\ row'.account = row.account
      /\ row'.token = row.token \/ row'.token \in lost'
      /\ lost \subseteq lost' /\ lost' \subseteq DOMAIN root
  <2>1. CASE row' = x /\ lost' = lost \cup Overwritten(x)
    BY <1>5, <2>1, OverwrittenFacts
  <2>2. CASE UNCHANGED <<row, lost>>
    BY <2>2 DEF TokenInv, TypeOK
  <2> QED BY <1>6, <2>1, <2>2
<1>8. ReaderFits(k, row', root')
  BY <1>1, <1>2, <1>3, <1>7 DEF ReaderFits
<1>9. quota' \in Account \cup {NoAccount} /\ QuotaIsOfThisAccount'
  BY <1>3, <1>7 DEF TokenInv, TypeOK, QuotaIsOfThisAccount
<1> QED BY <1>2, <1>3, <1>7, <1>8, <1>9, ReaderMoves

LEMMA ObserveKeeps ==
  ASSUME TokenInv, NEW q \in Reader, Observe(q)
  PROVE  TokenInv'
<1> DEFINE k == IF Observes(q) THEN ObservingReader(readers[q]) ELSE IdleReader
<1>1. /\ readers[q] \in ReaderType /\ ReaderFits(readers[q], row, root) /\ readers[q].pc = "using"
  BY KnownReader DEF Observe
<1>2. readers' = [readers EXCEPT ![q] = k]
  BY DEF Observe, ObservingReader
<1>3. k \in ReaderType /\ ReaderFits(k, row, root)
  <2>1. CASE Observes(q)
    <3>1. row.version = readers[q].version
      BY <2>1 DEF Observes
    <3>2. ReaderFits(ObservingReader(readers[q]), row, root)
      BY <1>1, <3>1, ReaderFacts DEF ReaderFits
    <3> QED BY <1>1, <2>1, <3>2, ReaderFacts
  <2>2. CASE ~ Observes(q)
    BY <2>2, IdleFacts, IdleReaderFits
  <2> QED BY <2>1, <2>2
<1> HIDE DEF k
<1>4. /\ UNCHANGED <<row, pool, flights, quota, root, live, lost>>
      /\ quota' \in Account \cup {NoAccount} /\ QuotaIsOfThisAccount' /\ lost \subseteq DOMAIN root
      /\ row \in RowType
  BY DEF Observe, TokenInv, TypeOK, QuotaIsOfThisAccount
<1> QED BY <1>2, <1>3, <1>4, ReaderMoves

\* The quota that is written is that of the identity the row has now.
LEMMA RecordKeeps ==
  ASSUME TokenInv, NEW q \in Reader, Record(q) \/ LetGo(q)
  PROVE  TokenInv'
<1>1. /\ readers' = [readers EXCEPT ![q] = IdleReader]
      /\ UNCHANGED <<row, pool, flights, root, live, lost>>
      /\ quota' = quota \/ (readers[q].pc = "observing" /\ quota' = readers[q].account)
  BY DEF Record, LetGo
<1>2. readers[q].pc = "observing" => readers[q].account = row.account
  BY KnownReader DEF ReaderFits
<1>3. /\ quota' \in Account \cup {NoAccount} /\ QuotaIsOfThisAccount' /\ lost \subseteq DOMAIN root
      /\ row \in RowType
  BY <1>1, <1>2, TokenNumbers DEF TokenInv, TypeOK, QuotaIsOfThisAccount
<1> QED BY <1>1, <1>3, IdleFacts, IdleReaderFits, ReaderMoves

-----------------------------------------------------------------------------
(* Administrators, and time. *)

\* The row keeps its token, its version and its identity.
LEMMA RowFlagged ==
  ASSUME TokenInv, Flagged(row, row'), UNCHANGED <<flights, readers, root, live, lost>>,
         pool' \in {"active", "disabled"}, quota' \in {quota, NoAccount}
  PROVE  TokenInv'
<1>1. row' \in RowType /\ row'.token = row.token /\ row'.version = row.version
      /\ row'.account = row.account
  BY DEF Flagged
<1>2. TypeOK'
  <2>1. Exclusive'
    BY DEF Exclusive, InTransaction, TokenInv, TypeOK
  <2> QED BY <1>1, <2>1, TypeParts DEF TokenInv, TypeOK
<1>3. Onward
  <2>1. row.version \in Int
    BY TokenNumbers
  <2> QED BY <1>1, <2>1 DEF Onward
<1>4. Carried' = Carried
  BY DEF Carried
<1>5. RowFits'
  BY <1>1, <1>3, <1>4, RowStays
<1>6. RootsAreIssued' /\ QuotaIsOfThisAccount'
  BY <1>1 DEF TokenInv, RootsAreIssued, QuotaIsOfThisAccount
<1> QED BY <1>1, <1>2, <1>3, <1>5, <1>6, InvParts

LEMMA TimeKeeps ==
  ASSUME TokenInv, Delete \/ UpdatePoolStatus \/ RotateKey \/ Expire \/ CooldownEnds
  PROVE  TokenInv' /\ (row'.cooling => row.cooling) /\ TokenStep
<1>1. row \in RowType
  BY TokenNumbers
<1>2. /\ UNCHANGED <<flights, readers, root, live, lost>>
      /\ pool' \in {"active", "disabled"} /\ quota' = quota
  BY DEF Delete, UpdatePoolStatus, RotateKey, Expire, CooldownEnds, TokenInv, TypeOK
<1>3. Flagged(row, row') /\ (row'.cooling => row.cooling)
  <2>1. CASE Delete
    <3>1. row' = DeletedRow(row)
      BY <2>1 DEF Delete, DeletedRow
    <3> QED BY <1>1, <3>1, FlaggedFacts
  <2>2. CASE UpdatePoolStatus
    BY <1>1, <2>2 DEF UpdatePoolStatus, Flagged
  <2>3. CASE RotateKey
    <3>1. row' = LegacyRow(row)
      BY <2>3 DEF RotateKey, LegacyRow
    <3> QED BY <1>1, <3>1, FlaggedFacts
  <2>4. CASE Expire
    <3>1. row' = ExpiringRow(row)
      BY <2>4 DEF Expire, ExpiringRow
    <3> QED BY <1>1, <3>1, FlaggedFacts
  <2>5. CASE CooldownEnds
    <3>1. row' = CooledRow(row, FALSE) /\ row.cooling
      BY <2>5 DEF CooldownEnds, CooledRow
    <3>2. Flagged(row, row')
      BY <1>1, <3>1, FlaggedFacts
    <3> QED BY <3>1, <3>2
  <2> QED BY <2>1, <2>2, <2>3, <2>4, <2>5
<1>4. TokenStep
  BY <1>3 DEF Flagged, TokenStep
<1> QED BY <1>2, <1>3, <1>4, RowFlagged

\* An edit gives the row a new version, with the tokens of a new login or
\* those it has, when nobody observes its quota.
LEMMA RowEdited ==
  ASSUME TokenInv, row' \in RowType, row'.version = row.version + 1, RowIsFree({}),
         UNCHANGED <<pool, flights, readers, lost>>,
         \/ row'.token = row.token /\ UNCHANGED <<root, live>>
         \/ /\ row'.token = NewToken /\ NewToken <= MaxTokens /\ Issue(NewToken)
            /\ live' = live \cup {NewToken},
         quota' = IF row'.account # row.account THEN NoAccount ELSE quota
  PROVE  TokenInv'
<1>1. \A q \in Reader : readers[q].pc # "observing"
  BY DEF RowIsFree
<1>2. lost \subseteq DOMAIN root /\ live \subseteq DOMAIN root /\ RootsAreIssued /\ row.version \in Int
  BY TokenNumbers DEF TokenInv, TypeOK
<1>3. Carried' = Carried
  BY DEF Carried
<1>4. /\ root' \in Seq(1 .. MaxTokens) /\ Len(root') <= MaxTokens
      /\ live' \subseteq DOMAIN root' /\ lost' \subseteq DOMAIN root'
      /\ live \subseteq live' /\ RootsAreIssued' /\ Onward /\ RowFits'
  <2>1. CASE row'.token = row.token /\ UNCHANGED <<root, live>>
    <3>1. Onward
      BY <1>2, <2>1 DEF Onward
    <3>2. RowFits'
      BY <1>3, <2>1, <3>1, RowStays
    <3> QED BY <1>2, <2>1, <3>1, <3>2 DEF TokenInv, TypeOK, RootsAreIssued
  <2>2. CASE /\ row'.token = NewToken /\ NewToken <= MaxTokens /\ Issue(NewToken)
             /\ live' = live \cup {NewToken}
    <3>1. /\ root' \in Seq(1 .. MaxTokens) /\ Len(root') <= MaxTokens
          /\ DOMAIN root' = DOMAIN root \cup {NewToken} /\ NewToken \notin DOMAIN root
          /\ \A m \in DOMAIN root : root'[m] = root[m]
          /\ root'[NewToken] = NewToken /\ RootsAreIssued' /\ LoginOf(root') = NewToken
      BY <2>2, IssueFacts
    <3>2. Onward
      BY <1>2, <2>2, <3>1 DEF Onward
    <3>3. RowFits'
      BY <2>2, <3>1 DEF RowFits, Descends
    <3> QED BY <1>2, <2>2, <3>1, <3>2, <3>3
  <2> QED BY <2>1, <2>2
<1>5. quota' \in Account \cup {NoAccount} /\ QuotaIsOfThisAccount'
  BY DEF TokenInv, TypeOK, QuotaIsOfThisAccount
<1>6. TypeOK'
  <2>1. Exclusive'
    BY DEF Exclusive, InTransaction, TokenInv, TypeOK
  <2> QED BY <1>4, <1>5, <2>1, TypeParts DEF TokenInv, TypeOK
<1> QED BY <1>1, <1>4, <1>5, <1>6, InvParts

LEMMA UpdateStatusKeeps ==
  ASSUME TokenInv, NEW status \in {"active", "disabled"}, UpdateStatus(status)
  PROVE  TokenInv' /\ (row'.cooling => row.cooling) /\ TokenStep
<1> DEFINE n == row.version + 1
           c == row.cooling /\ status # "active"
           a == [row EXCEPT !.status = status]
           b == [a EXCEPT !.version = n]
<1>1. row \in RowType /\ row.version \in 1 .. MaxVersion
  BY TokenNumbers
<1>2. n \in 1 .. MaxVersion /\ RowIsFree({})
  BY <1>1, TokenRefreshAssumption DEF UpdateStatus, CanChange
<1>3. c \in BOOLEAN
  OBVIOUS
<1>4. a \in RowType
  BY <1>1, RowColumns
<1>5. b \in RowType
  <2> HIDE DEF a, n
  <2> QED BY <1>2, <1>4, RowColumns
<1>6. row' = [b EXCEPT !.cooling = c]
  BY <1>1 DEF UpdateStatus
<1>7. row' \in RowType
  <2> HIDE DEF b, c
  <2> QED BY <1>3, <1>5, <1>6, RowColumns
<1>8. row'.version = row.version + 1 /\ row'.token = row.token /\ row'.account = row.account
  BY <1>1, SMT DEF UpdateStatus, RowType
<1>9. row'.cooling => row.cooling
  <2>1. row'.cooling = c
    <3> HIDE DEF b, c
    <3> QED BY <1>5, <1>6, Zenon DEF RowType
  <2> QED BY <2>1
<1>10. UNCHANGED <<pool, flights, readers, quota, root, live, lost>>
  BY DEF UpdateStatus
<1>11. TokenInv'
  BY <1>2, <1>7, <1>8, <1>10, RowEdited
<1>12. TokenStep
  BY <1>8 DEF TokenStep
<1> QED BY <1>9, <1>11, <1>12

\* The row that UpdateCredential writes.
EditedRow(x, t, a, st, n, lg, ex, c) ==
  [x EXCEPT !.token = t, !.legacy = lg, !.expiring = ex, !.account = a, !.status = st,
            !.version = n, !.cooling = c]

LEMMA EditedFacts ==
  ASSUME NEW x \in RowType, NEW t \in 1 .. MaxTokens, NEW a \in Account,
         NEW st \in {"active", "disabled", "deleted"}, NEW n \in 1 .. MaxVersion,
         NEW lg \in BOOLEAN, NEW ex \in BOOLEAN, NEW c \in BOOLEAN
  PROVE  /\ EditedRow(x, t, a, st, n, lg, ex, c) \in RowType
         /\ EditedRow(x, t, a, st, n, lg, ex, c).token = t
         /\ EditedRow(x, t, a, st, n, lg, ex, c).account = a
         /\ EditedRow(x, t, a, st, n, lg, ex, c).version = n
         /\ EditedRow(x, t, a, st, n, lg, ex, c).cooling = c
<1> DEFINE y1 == [x EXCEPT !.token = t]
           y2 == [y1 EXCEPT !.legacy = lg]
           y3 == [y2 EXCEPT !.expiring = ex]
           y4 == [y3 EXCEPT !.account = a]
           y5 == [y4 EXCEPT !.status = st]
           y6 == [y5 EXCEPT !.version = n]
           y7 == [y6 EXCEPT !.cooling = c]
<1>1. y1 \in RowType
  BY RowColumns
<1>2. y2 \in RowType
  <2> HIDE DEF y1
  <2> QED BY <1>1, RowColumns
<1>3. y3 \in RowType
  <2> HIDE DEF y2
  <2> QED BY <1>2, RowColumns
<1>4. y4 \in RowType
  <2> HIDE DEF y3
  <2> QED BY <1>3, RowColumns
<1>5. y5 \in RowType
  <2> HIDE DEF y4
  <2> QED BY <1>4, RowColumns
<1>6. y6 \in RowType
  <2> HIDE DEF y5
  <2> QED BY <1>5, RowColumns
<1>7. y7 \in RowType
  <2> HIDE DEF y6
  <2> QED BY <1>6, RowColumns
<1>8. EditedRow(x, t, a, st, n, lg, ex, c) = y7
  BY DEF EditedRow
<1>9. y7.token = t /\ y7.account = a /\ y7.version = n
  BY SMT DEF RowType
<1>10. y7.cooling = c
  <2> HIDE DEF y6
  <2> QED BY <1>6, Zenon DEF RowType
<1> HIDE DEF y7
<1> QED BY <1>7, <1>8, <1>9, <1>10

LEMMA UpdateCredentialKeeps ==
  ASSUME TokenInv, NEW tokens \in BOOLEAN, NEW account \in Account,
         NEW status \in {"keep", "active", "disabled"}, UpdateCredential(tokens, account, status)
  PROVE  TokenInv' /\ (row'.cooling => row.cooling) /\ TokenStep
<1> DEFINE t  == IF tokens THEN NewToken ELSE row.token
           st == IF status = "keep" THEN row.status ELSE status
           n  == row.version + 1
           changed == tokens \/ account # row.account
           resets == (changed /\ st = "active") \/ status = "active"
           lg == row.legacy /\ ~ tokens
           ex == row.expiring /\ ~ tokens
           c  == row.cooling /\ ~ resets
           y  == EditedRow(row, t, account, st, n, lg, ex, c)
<1>1. /\ row \in RowType /\ row.version \in 1 .. MaxVersion /\ row.token \in 1 .. MaxTokens
      /\ Len(root) \in Nat /\ row.status \in {"active", "disabled", "deleted"}
  <2>1. row \in RowType
    BY TokenNumbers
  <2>2. row.status \in {"active", "disabled", "deleted"}
    BY <2>1 DEF RowType
  <2> QED BY <2>1, <2>2, TokenNumbers
<1>2. /\ RowIsFree({}) /\ row.version < MaxVersion /\ (tokens => NewToken <= MaxTokens)
      /\ quota' = IF account # row.account THEN NoAccount ELSE quota
      /\ UNCHANGED <<pool, flights, readers, lost>>
  BY DEF UpdateCredential, CanChange
<1>3. t \in 1 .. MaxTokens
  BY <1>1, <1>2, TokenRefreshAssumption DEF NewToken
<1>4. n \in 1 .. MaxVersion
  BY <1>1, <1>2, TokenRefreshAssumption
<1>5. st \in {"active", "disabled", "deleted"} /\ lg \in BOOLEAN /\ ex \in BOOLEAN /\ c \in BOOLEAN
  BY <1>1
<1>6. y \in RowType /\ y.token = t /\ y.account = account /\ y.version = n /\ y.cooling = c
  <2>1. PICK lg1 \in BOOLEAN, ex1 \in BOOLEAN, c1 \in BOOLEAN : lg1 = lg /\ ex1 = ex /\ c1 = c
    <3> HIDE DEF lg, ex, c
    <3> QED BY <1>5
  <2> HIDE DEF t, st, n, lg, ex, c
  <2>2. PICK t1 \in 1 .. MaxTokens, n1 \in 1 .. MaxVersion,
             st1 \in {"active", "disabled", "deleted"} : t1 = t /\ n1 = n /\ st1 = st
    BY <1>3, <1>4, <1>5
  <2> DEFINE z == EditedRow(row, t1, account, st1, n1, lg1, ex1, c1)
  <2>3. /\ z \in RowType /\ z.token = t1 /\ z.account = account /\ z.version = n1
        /\ z.cooling = c1
    <3>0. PICK x \in RowType : x = row
      BY <1>1
    <3> DEFINE zx == EditedRow(x, t1, account, st1, n1, lg1, ex1, c1)
    <3>1. zx \in RowType
      BY EditedFacts
    <3>2. zx.token = t1 /\ zx.account = account /\ zx.version = n1
      BY EditedFacts
    <3>3. zx.cooling = c1
      BY EditedFacts
    <3>4. zx = z
      BY <3>0
    <3> HIDE DEF z, zx
    <3> QED BY <3>1, <3>2, <3>3, <3>4
  <2>4. y = z
    BY <2>1, <2>2
  <2> HIDE DEF y, z
  <2> QED BY <2>1, <2>2, <2>3, <2>4
<1>7. \/ /\ row' = y
         /\ IF tokens THEN Issue(NewToken) /\ live' = live \cup {NewToken}
                      ELSE UNCHANGED <<root, live>>
      \/ UNCHANGED <<row, root, live>>
  BY <1>1 DEF UpdateCredential, EditedRow, RowType
<1>8. CASE UNCHANGED <<row, root, live>>
  <2>1. Flagged(row, row') /\ pool' \in {"active", "disabled"} /\ quota' \in {quota, NoAccount}
    BY <1>1, <1>2, <1>8 DEF Flagged, TokenInv, TypeOK
  <2>2. TokenStep
    BY <1>8 DEF TokenStep
  <2> QED BY <1>2, <1>8, <2>1, <2>2, RowFlagged
<1>9. CASE /\ row' = y
           /\ IF tokens THEN Issue(NewToken) /\ live' = live \cup {NewToken}
                        ELSE UNCHANGED <<root, live>>
  <2>1. row' \in RowType /\ row'.version = row.version + 1 /\ row'.account = account
    <3> HIDE DEF y
    <3> QED BY <1>6, <1>9
  <2>2. \/ row'.token = row.token /\ UNCHANGED <<root, live>>
        \/ /\ row'.token = NewToken /\ NewToken <= MaxTokens /\ Issue(NewToken)
           /\ live' = live \cup {NewToken}
    <3> HIDE DEF y
    <3> QED BY <1>2, <1>6, <1>9
  <2>3. row'.cooling => row.cooling
    <3>1. row'.cooling = c
      <4> HIDE DEF y, c
      <4> QED BY <1>6, <1>9, Zenon
    <3> QED BY <3>1, Zenon
  <2>4. TokenInv'
    BY <1>2, <2>1, <2>2, RowEdited
  <2>5. TokenStep
    BY <1>1, <2>1 DEF TokenStep
  <2> QED BY <2>3, <2>4, <2>5
<1> QED BY <1>7, <1>8, <1>9


-----------------------------------------------------------------------------
(* The whole specification. *)

LEMMA TokenInit == Init => TokenInv
<1> SUFFICES ASSUME Init
             PROVE  TokenInv
  OBVIOUS
<1>1. /\ row \in [status : {"active"}, version : {1}, token : {1},
                  account : {CHOOSE a \in Account : TRUE},
                  legacy : BOOLEAN, cooling : {FALSE}, expiring : {FALSE}]
      /\ pool = "active"
      /\ flights = [p \in Process |-> IdleFlight]
      /\ readers = [q \in Reader |-> IdleReader]
      /\ quota = NoAccount
      /\ root = <<1>> /\ live = {1} /\ lost = {}
  BY DEF Init
<1>2. (CHOOSE a \in Account : TRUE) \in Account
  BY TokenRefreshAssumption
<1>3. 1 \in 1 .. MaxVersion /\ 1 \in 1 .. MaxTokens /\ MaxTokens \in Nat /\ 1 <= MaxTokens
  BY TokenRefreshAssumption
<1>4. row \in RowType /\ row.token = 1
  BY <1>1, <1>2, <1>3 DEF RowType
<1>5. root \in Seq(1 .. MaxTokens) /\ Len(root) = 1 /\ DOMAIN root = {1} /\ root[1] = 1
  BY <1>1, <1>3
<1>6. \A p \in Process : flights[p] = IdleFlight
  BY <1>1
<1>7. \A q \in Reader : readers[q] = IdleReader
  BY <1>1
<1>8. TypeOK
  <2>1. \A p \in Process : ~ InTransaction(p)
    BY <1>6, IdleFacts DEF InTransaction
  <2>2. flights \in [Process -> FlightType] /\ readers \in [Reader -> ReaderType]
    BY <1>1, IdleFacts
  <2> QED BY <1>1, <1>3, <1>4, <1>5, <2>1, <2>2 DEF TypeOK
<1>9. RowFits
  <2>1. {n \in DOMAIN root : root[n] = n} = {1}
    BY <1>5
  <2>2. LoginOf(root) = 1
    BY <2>1 DEF LoginOf, Max
  <2> QED BY <1>1, <1>4, <1>5, <2>2 DEF RowFits, Descends
<1>10. RootsAreIssued
  BY <1>5 DEF RootsAreIssued
<1>11. FlightsFit
  BY <1>6, IdleFits DEF FlightsFit
<1>12. ReadersFit
  BY <1>7, IdleReaderFits DEF ReadersFit
<1> QED BY <1>1, <1>8, <1>9, <1>10, <1>11, <1>12 DEF TokenInv, QuotaIsOfThisAccount

LEMMA TokenStutter ==
  ASSUME TokenInv, UNCHANGED vars
  PROVE  TokenInv'
<1>1. UNCHANGED <<row, pool, flights, readers, quota, root, live, lost>>
  BY DEF vars
<1>2. Flagged(row, row') /\ pool' \in {"active", "disabled"} /\ quota' \in {quota, NoAccount}
  BY <1>1, TokenNumbers DEF Flagged, TokenInv, TypeOK
<1> QED BY <1>1, <1>2, RowFlagged

LEMMA TokenNext ==
  ASSUME TokenInv, Next
  PROVE  TokenInv'
<1>1. ASSUME NEW p \in Process, Refresh(p)
      PROVE  TokenInv'
  BY <1>1, WaitKeeps, LockKeeps, CheckKeeps, AnswerKeeps, AnswerLostKeeps, ConcludeKeeps,
     AbortKeeps DEF Refresh, RefreshOne, RefreshByID
<1>2. ASSUME NEW q \in Reader, Use(q)
      PROVE  TokenInv'
  BY <1>2, ReadKeeps, ReencryptKeeps, ObserveKeeps, RecordKeeps DEF Use
<1>3. CASE Administer
  BY <1>3, UpdateCredentialKeeps, UpdateStatusKeeps, TimeKeeps DEF Administer
<1> QED BY <1>1, <1>2, <1>3, TimeKeeps DEF Next

LEMMA TokenInvariance == Spec => []TokenInv
<1>1. TokenInv /\ [Next]_vars => TokenInv'
  BY TokenNext, TokenStutter
<1> QED BY <1>1, TokenInit, PTL DEF Spec

\* Whatever the processes, the requests and the administrators do, the
\* variables keep their shapes, one transaction of WithRefreshLock excludes
\* every other, and the provider accepts only tokens it has issued.
THEOREM TokenTypes == Spec => []TypeOK
<1>1. TokenInv => TypeOK
  BY DEF TokenInv
<1> QED BY <1>1, TokenInvariance, PTL

\* The version that UpdateTokens compares keeps every answer of the provider
\* that is not lost for the row it was asked for: the row holds a token of
\* the last login that is accepted or about to be replaced.
THEOREM TokenOfTheLastGrant == Spec => []RowHoldsTheLastGrant
<1>1. LoginOf(root) = LastLogin
  BY DEF LoginOf, LastLogin
<1>2. TokenInv => RowHoldsTheLastGrant
  BY <1>1 DEF TokenInv, RowFits, Descends, RowHoldsTheLastGrant
<1> QED BY <1>2, TokenInvariance, PTL

\* ObserveCredentialQuota compares the version and holds the row for share
\* while it writes to Redis, so that no quota of an earlier identity is kept.
THEOREM TokenQuota == Spec => []QuotaIsOfThisAccount
<1>1. TokenInv => QuotaIsOfThisAccount
  BY DEF TokenInv
<1> QED BY <1>1, TokenInvariance, PTL


-----------------------------------------------------------------------------
(* Only dead tokens are condemned. *)

LEMMA CheckCondemns ==
  ASSUME TokenInv, NEW p \in Process, Check(p)
  PROVE  row'.cooling = row.cooling
<1>1. flights[p].token \in DOMAIN root
  BY KnownFlight DEF Check, Busy
<1>2. row' = row \/ row' = Refitted(row, flights[p].token)
  BY DEF Check
<1> QED BY <1>1, <1>2, PutBack

LEMMA ReencryptCondemns ==
  ASSUME TokenInv, NEW q \in Reader, Reencrypt(q)
  PROVE  row'.cooling = row.cooling
<1>1. readers[q].token \in DOMAIN root
  BY KnownReader DEF Reencrypt, ReaderFits
<1>2. row' = row \/ row' = Refitted(row, readers[q].token)
  BY DEF Reencrypt
<1> QED BY <1>1, <1>2, PutBack

\* The one step that cools the account: its refresh was refused, and the row
\* still has the version, and so the token, that the refresh has read.
LEMMA ConcludeCondemns ==
  ASSUME TokenInv, NEW p \in Process, Conclude(p)
  PROVE  CondemnStep
<1>1. Busy(flights[p])
  BY ConcludeForms
<1>2. PICK x \in {row, Refitted(row, flights[p].token)} :
        ConcludeUpdates(p, x) \/ ConcludeMarks(p, x) \/ ConcludeLeaves(p, x)
  BY ConcludeForms
<1>3. x \in RowType /\ x.version = row.version /\ x.cooling = row.cooling
  BY <1>1, ViewFacts
<1>4. CASE ConcludeUpdates(p, x)
  <2>1. /\ flights[p].pc = "granted" /\ row.version = flights[p].version
        /\ row' = Updated(x, flights[p].got)
    BY <1>4 DEF ConcludeUpdates, UpdatesTokens
  <2>2. flights[p].got \in 1 .. MaxTokens /\ x.version < MaxVersion
    BY <1>1, <1>3, <2>1, KnownFlight, TokenNumbers DEF FlightFits, Busy
  <2>3. row'.cooling = FALSE
    BY <1>3, <2>1, <2>2, UpdatedFacts
  <2> QED BY <2>3 DEF CondemnStep
<1>5. CASE ConcludeMarks(p, x)
  <2>1. flights[p].pc = "refused" /\ row.version = flights[p].version
    BY <1>5 DEF ConcludeMarks, MarksInvalid
  <2>2. flights[p].token \notin live /\ (row.token = flights[p].token \/ row.token \in lost)
    BY <1>1, <2>1, KnownFlight DEF FlightFits
  <2>3. row.token \notin Carried
    BY <1>1, <2>1, OnlyOneAnswer DEF TokenInv
  <2> QED BY <2>2, <2>3 DEF CondemnStep
<1>6. CASE ConcludeLeaves(p, x)
  <2>1. row'.cooling = row.cooling
    BY <1>3, <1>6 DEF ConcludeLeaves
  <2> QED BY <2>1 DEF CondemnStep
<1> QED BY <1>2, <1>4, <1>5, <1>6

LEMMA NextCondemns ==
  ASSUME TokenInv, Next
  PROVE  CondemnStep
<1>1. ASSUME NEW p \in Process, Refresh(p)
      PROVE  CondemnStep
  <2>1. CASE Check(p)
    BY <2>1, CheckCondemns DEF CondemnStep
  <2>2. CASE Conclude(p)
    BY <2>2, ConcludeCondemns
  <2>3. CASE ~ Check(p) /\ ~ Conclude(p)
    <3>1. row' = row
      BY <1>1, <2>3 DEF Refresh, RefreshOne, RefreshByID, Wait, Lock, Answer, AnswerLost, Abort
    <3> QED BY <3>1 DEF CondemnStep
  <2> QED BY <2>1, <2>2, <2>3
<1>2. ASSUME NEW q \in Reader, Use(q)
      PROVE  CondemnStep
  <2>1. CASE Reencrypt(q)
    BY <2>1, ReencryptCondemns DEF CondemnStep
  <2>2. CASE ~ Reencrypt(q)
    <3>1. row' = row
      BY <1>2, <2>2 DEF Use, Read, Observe, Record, LetGo
    <3> QED BY <3>1 DEF CondemnStep
  <2> QED BY <2>1, <2>2
<1>3. CASE Administer \/ Expire \/ CooldownEnds
  <2>1. row'.cooling => row.cooling
    BY <1>3, UpdateCredentialKeeps, UpdateStatusKeeps, TimeKeeps DEF Administer
  <2> QED BY <2>1 DEF CondemnStep
<1> QED BY <1>1, <1>2, <1>3 DEF Next

\* MarkInvalid compares the version: a refusal of the provider that comes
\* after the row was refreshed or edited cools nothing, for any number of
\* processes.
THEOREM TokenCondemnations == Spec => OnlyDeadTokensAreCondemned
<1>1. TokenInv /\ [Next]_vars => [CondemnStep]_vars
  BY NextCondemns
<1> QED BY <1>1, TokenInvariance, PTL DEF Spec, OnlyDeadTokensAreCondemned


-----------------------------------------------------------------------------
(* Where tokens may change without a version.                              *)
(*                                                                         *)
(* That maybeReencrypt changes only the representation of the tokens is    *)
(* not so: TLC shows it.  It takes a row of an earlier key, though: while  *)
(* there is none, the property it refutes holds.                           *)

\* Nobody has read a row of an earlier key.
NoRefits ==
  /\ \A p \in Process : flights[p].legacy = FALSE
  /\ \A q \in Reader : readers[q].pc # "refit"

LEMMA FlightLegacy ==
  ASSUME NEW f \in FlightType, NEW n, NEW t, NEW pc
  PROVE  /\ WaitingFlight(f, n).legacy = f.legacy /\ CallingFlight(f).legacy = f.legacy
         /\ GrantedFlight(f, t).legacy = f.legacy /\ EndedFlight(f, pc).legacy = f.legacy
         /\ ReadFlight(f, n, t, FALSE).legacy = FALSE
<1>1. WaitingFlight(f, n).legacy = f.legacy
  BY Zenon DEF WaitingFlight, FlightType
<1>2. CallingFlight(f).legacy = f.legacy
  BY Zenon DEF CallingFlight, FlightType
<1>3. GrantedFlight(f, t).legacy = f.legacy
  BY Zenon DEF GrantedFlight, FlightType
<1>4. EndedFlight(f, pc).legacy = f.legacy
  BY Zenon DEF EndedFlight, FlightType
<1>5. ReadFlight(f, n, t, FALSE).legacy = FALSE
  BY Zenon DEF ReadFlight, FlightType
<1> QED BY <1>1, <1>2, <1>3, <1>4, <1>5, Zenon

LEMMA OneFlightRefits ==
  ASSUME TokenInv, NoRefits, NEW p \in Process, NEW f, f.legacy = FALSE,
         flights' = [flights EXCEPT ![p] = f], readers' = readers
  PROVE  NoRefits'
<1>1. flights \in [Process -> FlightType]
  BY DEF TokenInv, TypeOK
<1>2. ASSUME NEW o \in Process PROVE flights'[o].legacy = FALSE
  <2>1. CASE o = p
    <3>1. flights'[o] = f
      BY <1>1, <2>1, Zenon
    <3> QED BY <3>1, Zenon
  <2>2. CASE o # p
    <3>1. flights'[o] = flights[o]
      BY <1>1, <2>2, Zenon
    <3>2. flights[o].legacy = FALSE
      BY Zenon DEF NoRefits
    <3> QED BY <3>1, <3>2, Zenon
  <2> QED BY <2>1, <2>2, Zenon
<1>3. \A q \in Reader : readers'[q].pc # "refit"
  BY DEF NoRefits
<1> QED BY <1>2, <1>3, Zenon DEF NoRefits

LEMMA OneReaderRefits ==
  ASSUME TokenInv, NoRefits, NEW q \in Reader, NEW k, k.pc # "refit",
         readers' = [readers EXCEPT ![q] = k], flights' = flights
  PROVE  NoRefits'
<1>1. readers \in [Reader -> ReaderType]
  BY DEF TokenInv, TypeOK
<1>2. \A o \in Reader : readers'[o].pc # "refit"
  BY <1>1 DEF NoRefits
<1>3. \A p \in Process : flights'[p].legacy = FALSE
  BY Zenon DEF NoRefits
<1> QED BY <1>2, <1>3, Zenon DEF NoRefits

LEMMA RefreshRefits ==
  ASSUME TokenInv, NoRefits, ~ row.legacy, NEW p \in Process, Refresh(p)
  PROVE  NoRefits'
<1>1. readers' = readers
  BY DEF Refresh, RefreshOne, RefreshByID, Wait, Lock, Check, Answer, AnswerLost, Conclude, Abort
<1>2. PICK e \in FlightType : e = flights[p]
  BY KnownFlight
<1>3. e.legacy = FALSE
  BY <1>2, Zenon DEF NoRefits
<1>4. row.legacy = FALSE
  <2>1. row \in RowType
    BY TokenNumbers
  <2>2. row.legacy \in BOOLEAN
    BY <2>1, Zenon DEF RowType
  <2> QED BY <2>2, Zenon
<1>5. IdleFlight.legacy = FALSE
  BY Zenon DEF IdleFlight
<1>6. PICK f :
        /\ flights' = [flights EXCEPT ![p] = f]
        /\ \/ f = IdleFlight \/ f = CallingFlight(e)
           \/ \E n : f = WaitingFlight(e, n)
           \/ \E t : f = GrantedFlight(e, t)
           \/ \E pc : f = EndedFlight(e, pc)
           \/ \E n, t : f = ReadFlight(e, n, t, row.legacy)
  <2>1. CASE RefreshOne(p) \/ RefreshByID(p)
    <3>1. flights' = [flights EXCEPT ![p] = WaitingFlight(e, row.version)]
      BY <1>2, <2>1, KnownFlight DEF RefreshOne, RefreshByID, Wait, WaitingFlight
    <3> QED BY <3>1
  <2>2. CASE Lock(p)
    <3>1. \/ flights' = [flights EXCEPT ![p] = ReadFlight(e, row.version, row.token, row.legacy)]
          \/ flights' = [flights EXCEPT ![p] = IdleFlight]
      BY <1>2, <2>2, KnownFlight DEF Lock, Finish, ReadFlight
    <3> QED BY <3>1
  <2>3. CASE Check(p)
    <3>1. \/ flights' = [flights EXCEPT ![p] = CallingFlight(e)]
          \/ flights' = [flights EXCEPT ![p] = IdleFlight]
      BY <1>2, <2>3, KnownFlight DEF Check, Finish, CallingFlight
    <3> QED BY <3>1
  <2>4. CASE Answer(p)
    <3>1. \/ flights' = [flights EXCEPT ![p] = GrantedFlight(e, flights[p].token)]
          \/ flights' = [flights EXCEPT ![p] = GrantedFlight(e, NewToken)]
          \/ flights' = [flights EXCEPT ![p] = EndedFlight(e, "refused")]
      BY <1>2, <2>4, KnownFlight DEF Answer, GrantedFlight, EndedFlight
    <3> QED BY <3>1
  <2>5. CASE AnswerLost(p)
    <3>1. flights' = [flights EXCEPT ![p] = EndedFlight(e, "failed")]
      BY <1>2, <2>5, KnownFlight DEF AnswerLost, EndedFlight
    <3> QED BY <3>1
  <2>6. CASE Conclude(p) \/ Abort(p)
    BY <2>6 DEF Conclude, Abort, Finish
  <2> QED BY <2>1, <2>2, <2>3, <2>4, <2>5, <2>6 DEF Refresh
<1>7. f.legacy = FALSE
  <2>1. CASE f = IdleFlight
    BY <1>5, <2>1, Zenon
  <2>2. CASE f = CallingFlight(e)
    BY <1>3, <2>2, FlightLegacy, Zenon
  <2>3. CASE \E n : f = WaitingFlight(e, n)
    <3>1. PICK n : f = WaitingFlight(e, n)
      BY <2>3
    <3>2. WaitingFlight(e, n).legacy = e.legacy
      BY FlightLegacy, Zenon
    <3> QED BY <1>3, <3>1, <3>2, Zenon
  <2>4. CASE \E t : f = GrantedFlight(e, t)
    <3>1. PICK t : f = GrantedFlight(e, t)
      BY <2>4
    <3>2. GrantedFlight(e, t).legacy = e.legacy
      BY FlightLegacy, Zenon
    <3> QED BY <1>3, <3>1, <3>2, Zenon
  <2>5. CASE \E pc : f = EndedFlight(e, pc)
    <3>1. PICK pc : f = EndedFlight(e, pc)
      BY <2>5
    <3>2. EndedFlight(e, pc).legacy = e.legacy
      BY FlightLegacy, Zenon
    <3> QED BY <1>3, <3>1, <3>2, Zenon
  <2>6. CASE \E n, t : f = ReadFlight(e, n, t, row.legacy)
    <3>1. PICK n, t : f = ReadFlight(e, n, t, row.legacy)
      BY <2>6
    <3>2. f = ReadFlight(e, n, t, FALSE)
      BY <1>4, <3>1, Zenon
    <3> QED BY <3>2, FlightLegacy, Zenon
  <2> QED BY <1>6, <2>1, <2>2, <2>3, <2>4, <2>5, <2>6
<1> QED BY <1>1, <1>6, <1>7, OneFlightRefits

LEMMA UseRefits ==
  ASSUME TokenInv, NoRefits, ~ row.legacy, NEW q \in Reader, Use(q)
  PROVE  NoRefits'
<1>1. flights' = flights
  BY DEF Use, Read, Reencrypt, Observe, Record, LetGo
<1>2. readers[q].pc # "refit" /\ readers[q] \in ReaderType
  BY KnownReader DEF NoRefits
<1>3. CASE Read(q)
  <2> DEFINE k == [pc |-> "using", version |-> row.version, token |-> 0, account |-> row.account]
  <2>1. readers' = [readers EXCEPT ![q] = k]
    BY <1>3 DEF Read
  <2>2. k.pc # "refit"
    OBVIOUS
  <2> HIDE DEF k
  <2> QED BY <1>1, <2>1, <2>2, OneReaderRefits
<1>4. CASE Observe(q)
  <2> DEFINE k == IF Observes(q) THEN ObservingReader(readers[q]) ELSE IdleReader
  <2>1. readers' = [readers EXCEPT ![q] = k]
    BY <1>4 DEF Observe, ObservingReader
  <2>2. k.pc # "refit"
    BY <1>2, ReaderFacts, IdleFacts
  <2> HIDE DEF k
  <2> QED BY <1>1, <2>1, <2>2, OneReaderRefits
<1>5. CASE Record(q) \/ LetGo(q)
  <2>1. readers' = [readers EXCEPT ![q] = IdleReader]
    BY <1>5 DEF Record, LetGo
  <2> QED BY <1>1, <2>1, IdleFacts, OneReaderRefits
<1> QED BY <1>2, <1>3, <1>4, <1>5 DEF Use, Reencrypt

LEMMA NextRefits ==
  ASSUME TokenInv, NoRefits, ~ row.legacy, [Next]_vars
  PROVE  NoRefits'
<1>1. CASE UNCHANGED <<flights, readers>>
  BY <1>1, Zenon DEF NoRefits
<1>2. CASE Administer \/ Expire \/ CooldownEnds
  <2>1. UNCHANGED <<flights, readers>>
    BY <1>2 DEF Administer, Expire, CooldownEnds, UpdateCredential, UpdateStatus, Delete,
                UpdatePoolStatus, RotateKey
  <2> QED BY <1>1, <2>1
<1>3. CASE UNCHANGED vars
  BY <1>1, <1>3 DEF vars
<1> QED BY <1>2, <1>3, RefreshRefits, UseRefits DEF Next

\* The step of a refresh that has read a row of the present key.
LEMMA RefreshTokens ==
  ASSUME TokenInv, NoRefits, NEW p \in Process, Refresh(p)
  PROVE  TokenStep
<1>1. ~ flights[p].legacy
  BY Zenon DEF NoRefits
<1>2. CASE Check(p)
  <2>1. row' = row
    BY <1>1, <1>2 DEF Check
  <2> QED BY <2>1 DEF TokenStep
<1>3. CASE Conclude(p)
  <2>1. View(p) = row
    BY <1>1 DEF View, HoldsRow
  <2>2. row \in RowType /\ row.version \in Int
    BY TokenNumbers
  <2>3. \/ flights[p].pc = "granted" /\ UpdatesTokens(p) /\ row' = Updated(row, flights[p].got)
        \/ row' = CooledRow(row, TRUE)
        \/ row' = row
    BY <1>3, <2>1 DEF Conclude, CooledRow
  <2>4. CASE flights[p].pc = "granted" /\ UpdatesTokens(p) /\ row' = Updated(row, flights[p].got)
    <3>1. flights[p].got \in 1 .. MaxTokens /\ row.version < MaxVersion
      BY <2>4, KnownFlight, TokenNumbers DEF UpdatesTokens, FlightFits, Busy
    <3>2. row'.version = row.version + 1
      BY <2>2, <2>4, <3>1, UpdatedFacts
    <3> QED BY <2>2, <3>2 DEF TokenStep
  <2>5. CASE row' = CooledRow(row, TRUE)
    BY <2>2, <2>5, FlaggedFacts DEF Flagged, TokenStep
  <2> QED BY <2>3, <2>4, <2>5 DEF TokenStep
<1>4. CASE ~ Check(p) /\ ~ Conclude(p)
  <2>1. row' = row
    BY <1>4 DEF Refresh, RefreshOne, RefreshByID, Wait, Lock, Answer, AnswerLost, Abort
  <2> QED BY <2>1 DEF TokenStep
<1> QED BY <1>2, <1>3, <1>4

LEMMA NextTokens ==
  ASSUME TokenInv, NoRefits, Next
  PROVE  TokenStep
<1>1. ASSUME NEW q \in Reader, Use(q)
      PROVE  TokenStep
  <2>1. row' = row
    BY <1>1 DEF Use, Read, Reencrypt, Observe, Record, LetGo, NoRefits
  <2> QED BY <2>1 DEF TokenStep
<1>2. CASE Administer \/ Expire \/ CooldownEnds
  BY <1>2, UpdateCredentialKeeps, UpdateStatusKeeps, TimeKeeps DEF Administer
<1> QED BY <1>1, <1>2, RefreshTokens DEF Next

\* As long as no row is encrypted with an earlier key, tokens change only
\* together with token_version, which is what the comment at maybeReencrypt
\* and the comparisons of UpdateTokens and MarkInvalid rely on: the tokens
\* that are put back over their replacement are confined to key rotations.
THEOREM TokensChangeWithoutRotation ==
  Spec /\ []~row.legacy => TokensChangeWithTheVersion
<1>1. Init => NoRefits
  <2> SUFFICES ASSUME Init PROVE NoRefits
    OBVIOUS
  <2>1. \A p \in Process : flights[p] = IdleFlight
    BY DEF Init
  <2>2. \A q \in Reader : readers[q] = IdleReader
    BY DEF Init
  <2>3. IdleFlight.legacy = FALSE
    BY Zenon DEF IdleFlight
  <2>4. \A p \in Process : flights[p].legacy = FALSE
    BY <2>1, <2>3, Zenon
  <2> QED BY <2>2, <2>4, IdleFacts DEF NoRefits
<1>2. TokenInv /\ NoRefits /\ ~ row.legacy /\ [Next]_vars => NoRefits'
  BY NextRefits
<1>3. TokenInv /\ NoRefits /\ [Next]_vars => [TokenStep]_vars
  BY NextTokens
<1> QED BY <1>1, <1>2, <1>3, TokenInvariance, PTL DEF Spec, TokensChangeWithTheVersion
=============================================================================
