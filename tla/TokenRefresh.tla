---------------------------- MODULE TokenRefresh ----------------------------
(***************************************************************************)
(* One OAuth account of a credential pool (internal/ai/tokenrefresh and    *)
(* internal/ai/adapters/postgres/oauth_credential*.go): the refreshers of  *)
(* all gateway processes, the requests that use the account, and the       *)
(* administrators who edit it.                                             *)
(*                                                                         *)
(* A refresh is one transaction under an advisory lock with a call to the  *)
(* provider in its middle.  The provider may give a new refresh token for  *)
(* the old one, which is then dead; what is not committed after that is    *)
(* lost.                                                                   *)
(*                                                                         *)
(* Left out: accounts without a refresh token, the access token (it is     *)
(* written together with the refresh token), weights, statistics, and the  *)
(* availability scopes, which are reset and suspended as Availability has  *)
(* it.  The provider states a lifetime with every token.  Processes change *)
(* to a new encryption key together, when none of them is at work.         *)
(***************************************************************************)
EXTENDS Integers, Sequences, FiniteSetsExt

CONSTANTS
  Process,    \* gateway processes; singleflight leaves each one refresh
  Reader,     \* requests and quota inspections that use the account
  Account,    \* upstream identities
  NoAccount,
  MaxTokens,  \* bound on the tokens the provider issues
  MaxVersion  \* bound on token_version

ASSUME TokenRefreshAssumption ==
  /\ Account # {} /\ NoAccount \notin Account
  /\ MaxTokens \in Nat \ {0} /\ MaxVersion \in Nat \ {0}

VARIABLES
  row,      \* the row of ai_provider_oauth_credentials
  pool,     \* the status of its pool
  flights,  \* the refresh of each process
  readers,
  quota,    \* the account whose quota Redis holds for this row
  root,     \* of every token issued so far, the login it descends from
  live,     \* the refresh tokens the provider accepts
  lost      \* history: tokens whose replacement the row does not hold

vars == <<row, pool, flights, readers, quota, root, live, lost>>

RowType ==
  [status : {"active", "disabled", "deleted"}, version : 1 .. MaxVersion,
   token : 1 .. MaxTokens, account : Account,
   legacy : BOOLEAN,     \* encrypted with an earlier key
   cooling : BOOLEAN,    \* cooldown_until in the future
   expiring : BOOLEAN]   \* expires_at within the window

IdleFlight == [pc |-> "idle", expected |-> 0, version |-> 0, token |-> 0,
               legacy |-> FALSE, got |-> 0]
IdleReader == [pc |-> "idle", version |-> 0, token |-> 0, account |-> NoAccount]

FlightType ==
  [pc : {"idle", "waiting", "read", "calling", "failed", "granted", "refused"},
   expected : 0 .. MaxVersion, version : 0 .. MaxVersion, token : 0 .. MaxTokens,
   legacy : BOOLEAN, got : 0 .. MaxTokens]
ReaderType ==
  [pc : {"idle", "refit", "using", "observing"}, version : 0 .. MaxVersion,
   token : 0 .. MaxTokens, account : Account \cup {NoAccount}]

\* The provider (external) issues a token of login n.
Issue(n) == root' = Append(root, n)
NewToken == Len(root) + 1

-----------------------------------------------------------------------------
(* Locks. *)

\* The advisory lock, held until the transaction ends.
InTransaction(p) == flights[p].pc \notin {"idle", "waiting"}

\* A refresh that has re-encrypted the row holds it from then on.
HoldsRow(p) == InTransaction(p) /\ flights[p].pc # "read" /\ flights[p].legacy

\* Nobody but those in mine holds the row, neither for update nor for share.
RowIsFree(mine) ==
  /\ \A o \in Process \ mine : ~ HoldsRow(o)
  /\ \A q \in Reader : readers[q].pc # "observing"

-----------------------------------------------------------------------------
(* Re-encryption, as part of every decryption of a row. *)

\* maybeReencrypt writes the tokens it has read over those of the row.
Refitted(x, token) == [x EXCEPT !.token = token, !.legacy = FALSE]

\* The row as the transaction of p sees it.
View(p) == IF HoldsRow(p) THEN Refitted(row, flights[p].token) ELSE row

\* What a commit of x loses besides: tokens put back over their replacement.
Overwritten(x) == IF x.token # row.token THEN {x.token} ELSE {}

-----------------------------------------------------------------------------
(* Refresh. *)

\* ListExpiring
Due ==
  /\ pool = "active" /\ row.status = "active"
  /\ ~ row.cooling /\ row.expiring
  /\ row.version < MaxVersion   \* bound

Wait(p) ==
  /\ flights[p].pc = "idle" /\ row.version < MaxVersion
  /\ flights' = [flights EXCEPT ![p].pc = "waiting", ![p].expected = row.version]
  /\ UNCHANGED <<row, pool, readers, quota, root, live, lost>>

\* The loop of a process, which may come to the row long after it was listed.
RefreshOne(p) == Due /\ Wait(p)

\* A request that met a 401, or an administrator.
RefreshByID(p) == row.status # "deleted" /\ Wait(p)

Finish(p) == flights' = [flights EXCEPT ![p] = IdleFlight]

\* Mutant: no advisory lock.
LockIsFreeAlways == TRUE

LockIsFree == \A o \in Process : ~ InTransaction(o)

\* WithRefreshLock, then GetDecryptedByID.
Lock(p) ==
  /\ flights[p].pc = "waiting" /\ LockIsFree
  /\ IF pool = "active" /\ row.status = "active"
     THEN flights' = [flights EXCEPT ![p].pc = "read", ![p].version = row.version,
                                     ![p].token = row.token, ![p].legacy = row.legacy]
     ELSE Finish(p)
  /\ UNCHANGED <<row, pool, readers, quota, root, live, lost>>

\* decryptRow re-encrypts; a row that was refreshed meanwhile is left alone,
\* and the transaction committed.
Check(p) ==
  /\ flights[p].pc = "read"
  /\ flights[p].legacy => RowIsFree({p})
  /\ IF flights[p].version = flights[p].expected
     THEN /\ flights' = [flights EXCEPT ![p].pc = "calling", ![p].expected = 0]
          /\ UNCHANGED <<row, lost>>
     ELSE LET x == IF flights[p].legacy /\ row.status # "deleted"
                   THEN Refitted(row, flights[p].token) ELSE row
          IN  /\ Finish(p)
              /\ row' = x /\ lost' = lost \cup Overwritten(x)
  /\ UNCHANGED <<pool, readers, quota, root, live>>

\* The provider accepts the token, with or without rotating it, or refuses it.
Answer(p) ==
  /\ flights[p].pc = "calling"
  /\ \/ /\ flights[p].token \in live
        /\ flights' = [flights EXCEPT ![p].pc = "granted", ![p].got = flights[p].token]
        /\ UNCHANGED <<root, live>>
     \/ /\ flights[p].token \in live /\ NewToken <= MaxTokens
        /\ flights' = [flights EXCEPT ![p].pc = "granted", ![p].got = NewToken]
        /\ Issue(root[flights[p].token])
        /\ live' = (live \ {flights[p].token}) \cup {NewToken}
     \/ /\ flights[p].token \notin live
        /\ flights' = [flights EXCEPT ![p].pc = "refused"]
        /\ UNCHANGED <<root, live>>
  /\ UNCHANGED <<row, pool, readers, quota, lost>>

\* It is down, or its answer is lost after it has rotated the token.
AnswerLost(p) ==
  /\ flights[p].pc = "calling"
  /\ flights' = [flights EXCEPT ![p].pc = "failed"]
  /\ \/ UNCHANGED <<live, lost>>
     \/ /\ flights[p].token \in live
        /\ live' = live \ {flights[p].token}
        /\ lost' = lost \cup {flights[p].token}
  /\ UNCHANGED <<row, pool, readers, quota, root>>

\* Mutants: the version is not compared.
UpdatesAnyway(p) == pool = "active" /\ row.status \notin {"disabled", "deleted"}
MarksAnyway(p)   == row.status = "active"

\* UpdateTokens and MarkInvalid find the row as the refresh has read it.
UpdatesTokens(p) ==
  /\ pool = "active" /\ row.status \notin {"disabled", "deleted"}
  /\ row.version = flights[p].version
MarksInvalid(p) == row.status = "active" /\ row.version = flights[p].version

Updated(x, got) ==
  [x EXCEPT !.token = got, !.version = @ + 1, !.legacy = FALSE, !.cooling = FALSE,
            !.expiring = FALSE]

\* The replacement p carries has no row to go to.
Dropped(p) ==
  IF flights[p].pc = "granted" /\ flights[p].got # flights[p].token
  THEN {flights[p].token} ELSE {}

\* The answer is written and the transaction committed.
Conclude(p) ==
  /\ flights[p].pc \in {"failed", "granted", "refused"}
  /\ flights[p].pc # "failed" => RowIsFree({p})
  /\ LET updates == flights[p].pc = "granted" /\ UpdatesTokens(p)
         marks   == flights[p].pc = "refused" /\ MarksInvalid(p)
         x       == IF row.status = "deleted" THEN row ELSE View(p)
     IN  /\ row' = CASE updates -> Updated(x, flights[p].got)
                     [] marks   -> [x EXCEPT !.cooling = TRUE]
                     [] OTHER   -> x
         /\ lost' = lost \cup (IF updates THEN {} ELSE Dropped(p) \cup Overwritten(x))
  /\ Finish(p)
  /\ UNCHANGED <<pool, readers, quota, root, live>>

\* Redis or the commit fails, 30 seconds have passed, the process stops or dies.
Abort(p) ==
  /\ flights[p].pc # "idle"
  /\ lost' = lost \cup Dropped(p)
  /\ Finish(p)
  /\ UNCHANGED <<row, pool, readers, quota, root, live>>

-----------------------------------------------------------------------------
(* Requests and inspections. *)

\* GetDecryptedByID for a request or an inspection.
Read(q) ==
  /\ readers[q].pc = "idle"
  /\ pool = "active" /\ row.status = "active"
  /\ readers' = [readers EXCEPT ![q] =
       [pc |-> IF row.legacy THEN "refit" ELSE "using", version |-> row.version,
        token |-> IF row.legacy THEN row.token ELSE 0, account |-> row.account]]
  /\ UNCHANGED <<row, pool, flights, quota, root, live, lost>>

\* The statement may fail; the request goes on.
Reencrypt(q) ==
  /\ readers[q].pc = "refit"
  /\ \/ /\ RowIsFree({})
        /\ LET x == IF row.status = "deleted" THEN row ELSE Refitted(row, readers[q].token)
           IN  row' = x /\ lost' = lost \cup Overwritten(x)
     \/ UNCHANGED <<row, lost>>
  /\ readers' = [readers EXCEPT ![q].pc = "using", ![q].token = 0]
  /\ UNCHANGED <<pool, flights, quota, root, live>>

\* Mutant: the version is not compared.
ObservesAnyway(q) == row.status = "active"

Observes(q) == row.status = "active" /\ row.version = readers[q].version

\* ObserveCredentialQuota takes the row for share while it writes to Redis.
Observe(q) ==
  /\ readers[q].pc = "using"
  /\ \A p \in Process : ~ HoldsRow(p)
  /\ readers' = [readers EXCEPT ![q] = IF Observes(q) THEN [@ EXCEPT !.pc = "observing"]
                                                      ELSE IdleReader]
  /\ UNCHANGED <<row, pool, flights, quota, root, live, lost>>

\* The write succeeds or fails.
Record(q) ==
  /\ readers[q].pc = "observing"
  /\ quota' \in {quota, readers[q].account}
  /\ readers' = [readers EXCEPT ![q] = IdleReader]
  /\ UNCHANGED <<row, pool, flights, root, live, lost>>

\* There is nothing to observe, or the process dies.
LetGo(q) ==
  /\ readers[q].pc # "idle"
  /\ readers' = [readers EXCEPT ![q] = IdleReader]
  /\ UNCHANGED <<row, pool, flights, quota, root, live, lost>>

-----------------------------------------------------------------------------
(* Administrators, and time. *)

CanChange == row.status # "deleted" /\ RowIsFree({}) /\ row.version < MaxVersion

\* UpdateCredential: tokens of another login, another identity, a status.  It
\* holds the row until it has cleared the quota in Redis and committed; when
\* the commit fails the quota is cleared all the same.
UpdateCredential(tokens, account, status) ==
  LET changed == tokens \/ account # row.account
      x == [row EXCEPT !.token = IF tokens THEN NewToken ELSE @,
                       !.legacy = @ /\ ~ tokens,
                       !.expiring = @ /\ ~ tokens,
                       !.account = account,
                       !.status = IF status = "keep" THEN @ ELSE status,
                       !.version = @ + 1]
      resets == (changed /\ x.status = "active") \/ status = "active"
  IN  /\ CanChange
      /\ changed \/ status # "keep"
      /\ tokens => NewToken <= MaxTokens
      /\ \/ row' = [x EXCEPT !.cooling = @ /\ ~ resets]
            /\ IF tokens THEN Issue(NewToken) /\ live' = live \cup {NewToken}
                         ELSE UNCHANGED <<root, live>>
         \/ account # row.account /\ UNCHANGED <<row, root, live>>
      /\ quota' = IF account # row.account THEN NoAccount ELSE quota
      /\ UNCHANGED <<pool, flights, readers, lost>>

UpdateStatus(status) ==
  /\ CanChange
  /\ row' = [row EXCEPT !.status = status, !.version = @ + 1,
                        !.cooling = @ /\ status # "active"]
  /\ UNCHANGED <<pool, flights, readers, quota, root, live, lost>>

Delete ==
  /\ row.status # "deleted" /\ RowIsFree({})
  /\ row' = [row EXCEPT !.status = "deleted"]
  /\ UNCHANGED <<pool, flights, readers, quota, root, live, lost>>

UpdatePoolStatus ==
  /\ pool' \in {"active", "disabled"} \ {pool}
  /\ UNCHANGED <<row, flights, readers, quota, root, live, lost>>

Expire ==
  /\ ~ row.expiring /\ row' = [row EXCEPT !.expiring = TRUE]
  /\ UNCHANGED <<pool, flights, readers, quota, root, live, lost>>

CooldownEnds ==
  /\ row.cooling /\ row' = [row EXCEPT !.cooling = FALSE]
  /\ UNCHANGED <<pool, flights, readers, quota, root, live, lost>>

\* The processes are started with a new key.
RotateKey ==
  /\ ~ row.legacy
  /\ \A p \in Process : flights[p] = IdleFlight
  /\ \A q \in Reader : readers[q] = IdleReader
  /\ row' = [row EXCEPT !.legacy = TRUE]
  /\ UNCHANGED <<pool, flights, readers, quota, root, live, lost>>

-----------------------------------------------------------------------------
Init ==
  /\ row \in [status : {"active"}, version : {1}, token : {1},
              account : {CHOOSE a \in Account : TRUE},   \* one is like the other
              legacy : BOOLEAN, cooling : {FALSE}, expiring : {FALSE}]
  /\ pool = "active"
  /\ flights = [p \in Process |-> IdleFlight]
  /\ readers = [q \in Reader |-> IdleReader]
  /\ quota = NoAccount
  /\ root = <<1>> /\ live = {1} /\ lost = {}

Refresh(p) ==
  \/ RefreshOne(p) \/ RefreshByID(p) \/ Lock(p) \/ Check(p)
  \/ Answer(p) \/ AnswerLost(p) \/ Conclude(p) \/ Abort(p)

Use(q) == Read(q) \/ Reencrypt(q) \/ Observe(q) \/ Record(q) \/ LetGo(q)

Administer ==
  \/ \E tokens \in BOOLEAN, account \in Account, status \in {"keep", "active", "disabled"} :
       UpdateCredential(tokens, account, status)
  \/ \E status \in {"active", "disabled"} : UpdateStatus(status)
  \/ Delete \/ UpdatePoolStatus \/ RotateKey

Next ==
  \/ \E p \in Process : Refresh(p)
  \/ \E q \in Reader : Use(q)
  \/ Administer \/ Expire \/ CooldownEnds

Spec == Init /\ [][Next]_vars

-----------------------------------------------------------------------------
(* Properties. *)

\* The variables keep their shapes: in particular a refresh in its transaction
\* excludes every other, and the provider accepts only tokens it has issued.
TypeOK ==
  /\ row \in RowType
  /\ pool \in {"active", "disabled"}
  /\ flights \in [Process -> FlightType]
  /\ readers \in [Reader -> ReaderType]
  /\ quota \in Account \cup {NoAccount}
  /\ root \in Seq(1 .. MaxTokens) /\ Len(root) <= MaxTokens
  /\ live \subseteq DOMAIN root /\ lost \subseteq DOMAIN root
  /\ \A p, o \in Process : InTransaction(p) /\ InTransaction(o) => p = o

LastLogin == Max({n \in DOMAIN root : root[n] = n})

Carried == {flights[p].token : p \in {o \in Process : flights[o].pc = "granted"}}

\* However refreshes, edits and failures interleave, the row holds a token of
\* the last login that was entered, and one that the provider accepts or whose
\* replacement is about to be written.  The exceptions are those in lost: the
\* answer or the transaction failed after the token was rotated, an edit of
\* the row or of its pool overtook the refresh, or a request re-encrypted
\* tokens that had been replaced since it read them, from where an earlier
\* login may live on.
RowHoldsTheLastGrant ==
  row.token \notin lost =>
    /\ row.token \in live \cup Carried
    /\ root[row.token] = LastLogin \/ \E n \in lost : root[n] = root[row.token]

\* A refusal cools the account only if it concerns the token the row holds,
\* and nobody is about to write a better one: late failures of replaced tokens
\* and of a second process are kept from it.  Tokens that were put back over
\* their replacement are excepted.
CondemnStep ==
  row'.cooling /\ ~ row.cooling => row.token \notin (live \cup Carried) \ lost

OnlyDeadTokensAreCondemned == [][CondemnStep]_vars

\* The quota that Redis holds for the row was observed on the account it now
\* stands for, although requests of the earlier one answer late.
QuotaIsOfThisAccount == quota \in {NoAccount, row.account}

\* What the comment at maybeReencrypt says: the statement changes only the
\* representation of the tokens, which is why it leaves token_version alone.
TokenStep == row'.token # row.token => row'.version > row.version

TokensChangeWithTheVersion == [][TokenStep]_vars
=============================================================================
