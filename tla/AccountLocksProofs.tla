------------------------- MODULE AccountLocksProofs -------------------------
(***************************************************************************)
(* The ledger's lock order for any accounts and any number of concurrent   *)
(* transactions: they never wait for each other in a circle.               *)
(***************************************************************************)
EXTENDS AccountLocks, TLAPS, FiniteSetTheorems, WellFoundedInduction

Row == {AccountRow(a) : a \in Account} \cup {LotRows(a) : a \in Account}

\* The lock order, of a row after the rows of S: a row that is held already
\* costs nothing, lots come after their account, and a new account comes after
\* every account.
Follows(row, S) ==
  \/ row \in S
  \/ \E a \in Account : row = LotRows(a) /\ AccountRow(a) \in S
  \/ \E a \in Account : row = AccountRow(a) /\ \A b \in Account : AccountRow(b) \in S => b < a

\* A sequence of locks, taken after those of H, keeps the order.
Before(p, i, H) == H \cup {p[j] : j \in 1 .. i - 1}

InOrder(p, H) == \A i \in 1 .. Len(p) : Follows(p[i], Before(p, i, H))

Rows(p) == {p[i] : i \in 1 .. Len(p)}

\* Row locks exclude each other; what a transaction still has to lock keeps the
\* order; and nobody holds lots without holding their account.
LocksInv ==
  /\ plan \in [Txn -> Seq(Row)]
  /\ held \in [Txn -> SUBSET Row]
  /\ \A x, y \in Txn : x # y => held[x] \cap held[y] = {}
  /\ \A x \in Txn : InOrder(plan[x], held[x])
  /\ \A x \in Txn, a \in Account : LotRows(a) \in held[x] => AccountRow(a) \in held[x]

-----------------------------------------------------------------------------
(* Rows and orders. *)

\* Rows of different tables or accounts are different rows.
LEMMA RowsDiffer ==
  /\ \A a, b : AccountRow(a) = AccountRow(b) => a = b
  /\ \A a, b : LotRows(a) = LotRows(b) => a = b
  /\ \A a, b : AccountRow(a) # LotRows(b)
  /\ \A a : AccountRow(a)[2] = a
  /\ \A a \in Account : AccountRow(a) \in Row /\ LotRows(a) \in Row
  BY DEF AccountRow, LotRows, Row

\* One order after another is an order.
LEMMA OrdersCompose ==
  ASSUME NEW p \in Seq(Row), NEW q \in Seq(Row), NEW H,
         InOrder(p, H), InOrder(q, H \cup Rows(p))
  PROVE  /\ p \o q \in Seq(Row)
         /\ InOrder(p \o q, H)
         /\ Rows(p \o q) = Rows(p) \cup Rows(q)
<1> DEFINE s == p \o q
<1>1. /\ s \in Seq(Row) /\ Len(s) = Len(p) + Len(q)
      /\ \A i \in 1 .. Len(p) : s[i] = p[i]
      /\ \A i \in 1 .. Len(q) : s[Len(p) + i] = q[i]
      /\ Len(p) \in Nat /\ Len(q) \in Nat
  OBVIOUS
<1> HIDE DEF s
<1>2. ASSUME NEW i \in 1 .. Len(s) PROVE Follows(s[i], Before(s, i, H))
  <2>1. CASE i <= Len(p)
    <3>1. i \in 1 .. Len(p) /\ s[i] = p[i]
      BY <1>1, <2>1
    <3>2. Before(s, i, H) = Before(p, i, H)
      <4>1. \A j \in 1 .. i - 1 : s[j] = p[j]
        BY <1>1, <2>1
      <4>2. {s[j] : j \in 1 .. i - 1} = {p[j] : j \in 1 .. i - 1}
        BY <4>1
      <4> QED BY <4>2 DEF Before
    <3> QED BY <3>1, <3>2 DEF InOrder
  <2>2. CASE i > Len(p)
    <3>1. PICK k \in 1 .. Len(q) : i = Len(p) + k
      <4>1. i - Len(p) \in 1 .. Len(q) /\ i = Len(p) + (i - Len(p))
        BY <1>1, <2>2
      <4> QED BY <4>1
    <3>2. s[i] = q[k]
      BY <1>1, <3>1
    <3>3. Before(s, i, H) = Before(q, k, H \cup Rows(p))
      <4>1. ASSUME NEW r \in Before(s, i, H) PROVE r \in Before(q, k, H \cup Rows(p))
        <5>1. CASE r \in H
          BY <5>1 DEF Before
        <5>2. CASE r \notin H
          <6>1. PICK j \in 1 .. i - 1 : r = s[j]
            BY <4>1, <5>2 DEF Before
          <6>2. CASE j <= Len(p)
            BY <1>1, <6>1, <6>2 DEF Before, Rows
          <6>3. CASE j > Len(p)
            <7>1. j - Len(p) \in 1 .. k - 1 /\ j = Len(p) + (j - Len(p)) /\ j - Len(p) \in 1 .. Len(q)
              BY <1>1, <3>1, <6>1, <6>3
            <7>2. r = q[j - Len(p)]
              BY <1>1, <6>1, <7>1
            <7> QED BY <7>1, <7>2 DEF Before
          <6> QED BY <1>1, <6>2, <6>3
        <5> QED BY <5>1, <5>2
      <4>2. ASSUME NEW r \in Before(q, k, H \cup Rows(p)) PROVE r \in Before(s, i, H)
        <5>1. CASE r \in H
          BY <5>1 DEF Before
        <5>2. CASE r \in Rows(p)
          <6>1. PICK j \in 1 .. Len(p) : r = p[j]
            BY <5>2 DEF Rows
          <6>2. j \in 1 .. i - 1 /\ s[j] = r
            BY <1>1, <3>1, <6>1
          <6> QED BY <6>2 DEF Before
        <5>3. CASE \E j \in 1 .. k - 1 : r = q[j]
          <6>1. PICK j \in 1 .. k - 1 : r = q[j]
            BY <5>3
          <6>2. Len(p) + j \in 1 .. i - 1 /\ j \in 1 .. Len(q)
            BY <1>1, <3>1, <6>1
          <6>3. s[Len(p) + j] = r
            BY <1>1, <6>1, <6>2
          <6> QED BY <6>2, <6>3 DEF Before
        <5> QED BY <4>2, <5>1, <5>2, <5>3 DEF Before
      <4> QED BY <4>1, <4>2
    <3> QED BY <3>1, <3>2, <3>3 DEF InOrder
  <2> QED BY <1>1, <2>1, <2>2
<1>3. Rows(s) = Rows(p) \cup Rows(q)
  <2>1. ASSUME NEW i \in 1 .. Len(s) PROVE s[i] \in Rows(p) \cup Rows(q)
    <3>1. CASE i <= Len(p)
      BY <1>1, <3>1 DEF Rows
    <3>2. CASE i > Len(p)
      <4>1. i - Len(p) \in 1 .. Len(q) /\ i = Len(p) + (i - Len(p))
        BY <1>1, <3>2
      <4> QED BY <1>1, <4>1 DEF Rows
    <3> QED BY <1>1, <3>1, <3>2
  <2>2. ASSUME NEW i \in 1 .. Len(p) PROVE p[i] \in Rows(s)
    BY <1>1 DEF Rows
  <2>3. ASSUME NEW i \in 1 .. Len(q) PROVE q[i] \in Rows(s)
    <3>1. Len(p) + i \in 1 .. Len(s) /\ s[Len(p) + i] = q[i]
      BY <1>1
    <3> QED BY <3>1 DEF Rows
  <2> QED BY <2>1, <2>2, <2>3 DEF Rows
<1> QED BY <1>1, <1>2, <1>3 DEF InOrder, s

\* An account may be locked after H.
MayLock(a, H) == AccountRow(a) \in H \/ \A b \in Account : AccountRow(b) \in H => b < a

\* Single locks, and a charge.
LEMMA ShortOrders ==
  ASSUME NEW a \in Account, NEW H
  PROVE  /\ AccountRow(a) \in H =>
              InOrder(<<LotRows(a)>>, H) /\ Rows(<<LotRows(a)>>) = {LotRows(a)}
         /\ MayLock(a, H) =>
              /\ InOrder(Grant(a), H) /\ InOrder(Charge(a), H)
         /\ Grant(a) \in Seq(Row) /\ Rows(Grant(a)) = {AccountRow(a)}
         /\ Charge(a) \in Seq(Row) /\ Rows(Charge(a)) = {AccountRow(a), LotRows(a)}
         /\ <<LotRows(a)>> \in Seq(Row)
<1>1. <<LotRows(a)>> \in Seq(Row) /\ Grant(a) \in Seq(Row) /\ Charge(a) \in Seq(Row)
  BY RowsDiffer DEF Grant, Charge
<1>2. /\ Rows(<<LotRows(a)>>) = {LotRows(a)} /\ Rows(Grant(a)) = {AccountRow(a)}
      /\ Rows(Charge(a)) = {AccountRow(a), LotRows(a)}
  BY DEF Rows, Grant, Charge
<1>3. ASSUME AccountRow(a) \in H PROVE InOrder(<<LotRows(a)>>, H)
  BY <1>3 DEF InOrder, Follows, Before
<1>4. ASSUME MayLock(a, H) PROVE InOrder(Grant(a), H)
  BY <1>4 DEF InOrder, Follows, Before, MayLock, Grant
<1>5. ASSUME MayLock(a, H) PROVE InOrder(Charge(a), H)
  BY <1>5 DEF InOrder, Follows, Before, MayLock, Charge
<1> QED BY <1>1, <1>2, <1>3, <1>4, <1>5

\* Accounts locked by id are locked in order.
LEMMA LockAccountsInOrder ==
  ASSUME NEW A \in SUBSET Account, NEW s \in lockAccounts(A)
  PROVE  s \in Seq(Row) /\ InOrder(s, {}) /\ Rows(s) = {AccountRow(a) : a \in A}
<1>1. Cardinality(A) \in Nat
  BY LocksAssumption, FS_Subset, FS_CardinalityType
<1>2. s \in [1 .. Cardinality(A) -> {AccountRow(a) : a \in A}]
  BY DEF lockAccounts
<1>3. s \in Seq(Row) /\ Len(s) = Cardinality(A)
  BY <1>1, <1>2, RowsDiffer
<1>4. \A i \in 1 .. Len(s) : \E a \in A : s[i] = AccountRow(a)
  BY <1>2, <1>3
<1>5. InOrder(s, {})
  <2> SUFFICES ASSUME NEW i \in 1 .. Len(s) PROVE Follows(s[i], Before(s, i, {}))
    BY DEF InOrder
  <2>1. PICK a \in A : s[i] = AccountRow(a)
    BY <1>4
  <2>2. ASSUME NEW b \in Account, AccountRow(b) \in Before(s, i, {}) PROVE b < a
    <3>1. PICK j \in 1 .. i - 1 : AccountRow(b) = s[j]
      BY <2>2 DEF Before
    <3>2. j \in 1 .. Len(s) /\ j < i
      BY <1>3, <3>1
    <3>3. s[j][2] < s[i][2]
      BY <1>2, <1>3, <3>2 DEF lockAccounts
    <3> QED BY <2>1, <3>1, <3>3, RowsDiffer
  <2> QED BY <2>1, <2>2 DEF Follows
<1>6. Rows(s) = {AccountRow(a) : a \in A}
  <2>1. \A a \in A : \E i \in 1 .. Len(s) : s[i] = AccountRow(a)
    BY <1>2, <1>3 DEF lockAccounts
  <2> QED BY <1>4, <2>1 DEF Rows
<1> QED BY <1>3, <1>5, <1>6

-----------------------------------------------------------------------------
(* The transactions of the ledger. *)

LEMMA AccountsAreFinite ==
  ASSUME NEW t \in Tenants, NEW u \in Users
  PROVE  /\ t \in Account /\ u \in Account /\ t < u
         /\ {t, u} \in SUBSET Account /\ {u} \in SUBSET Account
  BY LocksAssumption DEF Account

\* The cases of Plans, one by one.
LEMMA PlanCases ==
  ASSUME NEW t, NEW u
  PROVE  /\ Plans("postSettlement", t, u) = {s \o Charge(t) \o Charge(u) : s \in lockAccounts({t, u})}
         /\ Plans("Refund", t, u) = {s \o Grant(t) \o Grant(u) : s \in lockAccounts({t, u})}
         /\ Plans("DebitStrict", t, u) = {Charge(t) \o Charge(u)}
         /\ Plans("reverseOrder", t, u) = RevokeOrderLots(u)
         /\ Plans("GrantManual", t, u) = {Grant(u)}
         /\ Plans("Withdrawal", t, u) = {Charge(t)}
         /\ Plans("ExpireDueLots", t, u) = ExpireDueLots
<1>1. Plans("postSettlement", t, u) = {s \o Charge(t) \o Charge(u) : s \in lockAccounts({t, u})}
  BY DEF Plans
<1>2. Plans("Refund", t, u) = {s \o Grant(t) \o Grant(u) : s \in lockAccounts({t, u})}
  BY DEF Plans
<1>3. Plans("DebitStrict", t, u) = {Charge(t) \o Charge(u)}
  BY DEF Plans
<1>4. Plans("reverseOrder", t, u) = RevokeOrderLots(u)
  BY DEF Plans
<1>5. Plans("GrantManual", t, u) = {Grant(u)}
  BY DEF Plans
<1>6. Plans("Withdrawal", t, u) = {Charge(t)}
  BY DEF Plans
<1>7. Plans("ExpireDueLots", t, u) = ExpireDueLots
  BY DEF Plans
<1> QED BY <1>1, <1>2, <1>3, <1>4, <1>5, <1>6, <1>7

\* Every transaction of the ledger and its services locks in order.
LEMMA PlansInOrder ==
  ASSUME NEW k \in LedgerKinds, NEW t \in Tenants, NEW u \in Users, NEW p \in Plans(k, t, u)
  PROVE  p \in Seq(Row) /\ InOrder(p, {})
<1>0. /\ t \in Account /\ u \in Account /\ t < u
      /\ {t, u} \in SUBSET Account /\ {u} \in SUBSET Account
  BY AccountsAreFinite
<1>1. CASE k = "postSettlement"
  <2>a. p \in Plans("postSettlement", t, u)
    BY <1>1
  <2>b. p \in {s \o Charge(t) \o Charge(u) : s \in lockAccounts({t, u})}
    BY <2>a, PlanCases, ZenonT(60)
  <2>1. PICK s \in lockAccounts({t, u}) : p = (s \o Charge(t)) \o Charge(u)
    BY <2>b
  <2>2. s \in Seq(Row) /\ InOrder(s, {}) /\ AccountRow(t) \in Rows(s) /\ AccountRow(u) \in Rows(s)
    BY <1>0, LockAccountsInOrder
  <2>3. /\ Charge(t) \in Seq(Row) /\ InOrder(Charge(t), {} \cup Rows(s))
        /\ Charge(u) \in Seq(Row)
    BY <1>0, <2>2, ShortOrders DEF MayLock
  <2>4. /\ s \o Charge(t) \in Seq(Row) /\ InOrder(s \o Charge(t), {})
        /\ AccountRow(u) \in Rows(s \o Charge(t))
    BY <2>2, <2>3, OrdersCompose
  <2>5. InOrder(Charge(u), {} \cup Rows(s \o Charge(t)))
    BY <1>0, <2>4, ShortOrders DEF MayLock
  <2> QED BY <2>1, <2>3, <2>4, <2>5, OrdersCompose
<1>2. CASE k = "Refund"
  <2>a. p \in Plans("Refund", t, u)
    BY <1>2
  <2>b. p \in {s \o Grant(t) \o Grant(u) : s \in lockAccounts({t, u})}
    BY <2>a, PlanCases, ZenonT(60)
  <2>1. PICK s \in lockAccounts({t, u}) : p = (s \o Grant(t)) \o Grant(u)
    BY <2>b
  <2>2. s \in Seq(Row) /\ InOrder(s, {}) /\ AccountRow(t) \in Rows(s) /\ AccountRow(u) \in Rows(s)
    BY <1>0, LockAccountsInOrder
  <2>3. /\ Grant(t) \in Seq(Row) /\ InOrder(Grant(t), {} \cup Rows(s))
        /\ Grant(u) \in Seq(Row)
    BY <1>0, <2>2, ShortOrders DEF MayLock
  <2>4. /\ s \o Grant(t) \in Seq(Row) /\ InOrder(s \o Grant(t), {})
        /\ AccountRow(u) \in Rows(s \o Grant(t))
    BY <2>2, <2>3, OrdersCompose
  <2>5. InOrder(Grant(u), {} \cup Rows(s \o Grant(t)))
    BY <1>0, <2>4, ShortOrders DEF MayLock
  <2> QED BY <2>1, <2>3, <2>4, <2>5, OrdersCompose
<1>3. CASE k = "DebitStrict"
  <2>a. p \in Plans("DebitStrict", t, u)
    BY <1>3
  <2>b. p \in {Charge(t) \o Charge(u)}
    BY <2>a, PlanCases
  <2>1. p = Charge(t) \o Charge(u)
    BY <2>b
  <2>2. MayLock(t, {})
    BY DEF MayLock
  <2>3. /\ Charge(t) \in Seq(Row) /\ InOrder(Charge(t), {})
        /\ Rows(Charge(t)) = {AccountRow(t), LotRows(t)} /\ Charge(u) \in Seq(Row)
    BY <1>0, <2>2, ShortOrders
  <2>4. MayLock(u, {} \cup Rows(Charge(t)))
    BY <1>0, <2>3, RowsDiffer DEF MayLock
  <2>5. InOrder(Charge(u), {} \cup Rows(Charge(t)))
    BY <1>0, <2>4, ShortOrders
  <2> QED BY <2>1, <2>3, <2>5, OrdersCompose
<1>4. CASE k = "reverseOrder"
  <2>a. p \in Plans("reverseOrder", t, u)
    BY <1>4
  <2>b. p \in RevokeOrderLots(u)
    BY <2>a, PlanCases
  <2>1. PICK s \in lockAccounts({u}) : p = s \o <<LotRows(u)>>
    BY <2>b DEF RevokeOrderLots
  <2>2. s \in Seq(Row) /\ InOrder(s, {}) /\ AccountRow(u) \in Rows(s)
    BY <1>0, LockAccountsInOrder
  <2>3. <<LotRows(u)>> \in Seq(Row) /\ InOrder(<<LotRows(u)>>, {} \cup Rows(s))
    BY <1>0, <2>2, ShortOrders
  <2> QED BY <2>1, <2>2, <2>3, OrdersCompose
<1>5. CASE k = "GrantManual"
  <2>a. p \in Plans("GrantManual", t, u)
    BY <1>5
  <2>b. p \in {Grant(u)}
    BY <2>a, PlanCases
  <2>1. p = Grant(u)
    BY <2>b
  <2>2. MayLock(u, {})
    BY DEF MayLock
  <2> QED BY <1>0, <2>1, <2>2, ShortOrders
<1>6. CASE k = "Withdrawal"
  <2>a. p \in Plans("Withdrawal", t, u)
    BY <1>6
  <2>b. p \in {Charge(t)}
    BY <2>a, PlanCases
  <2>1. p = Charge(t)
    BY <2>b
  <2>2. MayLock(t, {})
    BY DEF MayLock
  <2> QED BY <1>0, <2>1, <2>2, ShortOrders
<1>7. CASE k = "ExpireDueLots"
  <2>a. p \in Plans("ExpireDueLots", t, u)
    BY <1>7
  <2>b. p \in ExpireDueLots
    BY <2>a, PlanCases
  <2>1. PICK A \in SUBSET Account : p \in lockAccounts(A)
    BY <2>b DEF ExpireDueLots
  <2> QED BY <2>1, LockAccountsInOrder
<1> QED BY <1>1, <1>2, <1>3, <1>4, <1>5, <1>6, <1>7 DEF LedgerKinds

LEMMA LocksStart == Init => LocksInv
<1> SUFFICES ASSUME Init PROVE LocksInv
  OBVIOUS
<1>1. plan \in [Txn -> Seq(Row)] /\ held \in [Txn -> SUBSET Row]
  BY DEF Init
<1>2. \A x \in Txn : InOrder(plan[x], held[x])
  BY DEF Init, InOrder
<1> QED BY <1>1, <1>2 DEF Init, LocksInv

LEMMA BeginKeeps ==
  ASSUME Kind \subseteq LedgerKinds, LocksInv, NEW x \in Txn, Begin(x)
  PROVE  LocksInv'
<1>1. PICK k \in Kind, t \in Tenants, u \in Users :
        \E s \in Plans(k, t, u) : plan' = [plan EXCEPT ![x] = s]
  BY DEF Begin
<1>2. PICK s \in Plans(k, t, u) : plan' = [plan EXCEPT ![x] = s]
  BY <1>1
<1>3. s \in Seq(Row) /\ InOrder(s, {})
  BY PlansInOrder
<1>4. held[x] = {} /\ held' = held
  BY DEF Begin, Idle
<1>5. plan' \in [Txn -> Seq(Row)] /\ \A y \in Txn : plan'[y] = IF y = x THEN s ELSE plan[y]
  BY <1>2, <1>3 DEF LocksInv
<1>6. \A y \in Txn : InOrder(plan'[y], held'[y])
  BY <1>3, <1>4, <1>5 DEF LocksInv
<1> QED BY <1>4, <1>5, <1>6 DEF LocksInv

\* The row a transaction locks next follows what it holds; the rest follows
\* what it will hold then.
LEMMA AcquireKeeps ==
  ASSUME LocksInv, NEW x \in Txn, Acquire(x)
  PROVE  LocksInv'
<1> DEFINE p == plan[x]
           h == Head(p)
           q == Tail(p)
           H == held[x] \cup {h}
<1>0. p \in Seq(Row) /\ p # <<>> /\ held[x] \subseteq Row
  BY DEF LocksInv, Acquire
<1>1. /\ h \in Row /\ h = p[1] /\ q \in Seq(Row) /\ Len(q) = Len(p) - 1 /\ Len(p) \in Nat
      /\ Len(p) >= 1
      /\ \A i \in 1 .. Len(q) : q[i] = p[i + 1]
  BY <1>0
<1>2. /\ \A y \in Txn : plan'[y] = IF y = x THEN q ELSE plan[y]
      /\ \A y \in Txn : held'[y] = IF y = x THEN H ELSE held[y]
      /\ plan' \in [Txn -> Seq(Row)] /\ held' \in [Txn -> SUBSET Row]
  BY <1>0, <1>1 DEF LocksInv, Acquire
<1>3. \A y \in Txn : y # x => h \notin held[y]
  BY DEF Acquire, Holder
<1>4. Follows(h, held[x])
  <2>1. Before(p, 1, held[x]) = held[x]
    BY DEF Before
  <2>2. InOrder(p, held[x])
    BY DEF LocksInv
  <2>3. Follows(p[1], Before(p, 1, held[x]))
    BY <1>1, <2>2 DEF InOrder
  <2> QED BY <1>1, <2>1, <2>3
<1>5. InOrder(q, H)
  <2> SUFFICES ASSUME NEW i \in 1 .. Len(q) PROVE Follows(q[i], Before(q, i, H))
    BY DEF InOrder
  <2>1. q[i] = p[i + 1] /\ i + 1 \in 1 .. Len(p)
    BY <1>1
  <2>2. Before(q, i, H) = Before(p, i + 1, held[x])
    <3> HIDE DEF p, h, q, H
    <3>1. ASSUME NEW r \in Before(q, i, H) PROVE r \in Before(p, i + 1, held[x])
      <4>1. CASE r \in held[x]
        BY <4>1 DEF Before
      <4>2. CASE r = h
        <5>1. 1 \in 1 .. (i + 1) - 1 /\ r = p[1]
          BY <1>1, <4>2
        <5> QED BY <5>1 DEF Before
      <4>3. CASE \E j \in 1 .. i - 1 : r = q[j]
        <5>1. PICK j \in 1 .. i - 1 : r = q[j]
          BY <4>3
        <5>2. j + 1 \in 1 .. (i + 1) - 1 /\ r = p[j + 1]
          BY <1>1, <5>1
        <5> QED BY <5>2 DEF Before
      <4> QED BY <3>1, <4>1, <4>2, <4>3 DEF Before, H
    <3>2. ASSUME NEW r \in Before(p, i + 1, held[x]) PROVE r \in Before(q, i, H)
      <4>1. CASE r \in held[x]
        BY <4>1 DEF Before, H
      <4>2. CASE \E j \in 1 .. (i + 1) - 1 : r = p[j]
        <5>1. PICK j \in 1 .. (i + 1) - 1 : r = p[j]
          BY <4>2
        <5>2. CASE j = 1
          BY <1>1, <5>1, <5>2 DEF Before, H
        <5>3. CASE j # 1
          <6>1. j - 1 \in 1 .. i - 1 /\ r = q[j - 1]
            <7>1. j - 1 \in 1 .. i - 1 /\ j - 1 \in 1 .. Len(q) /\ (j - 1) + 1 = j
              BY <1>1, <5>1, <5>3
            <7> QED BY <1>1, <5>1, <7>1
          <6> QED BY <6>1 DEF Before
        <5> QED BY <5>2, <5>3
      <4> QED BY <3>2, <4>1, <4>2 DEF Before
    <3> QED BY <3>1, <3>2
  <2>3. InOrder(p, held[x])
    BY DEF LocksInv
  <2> QED BY <2>1, <2>2, <2>3 DEF InOrder
<1>6. \A a \in Account : LotRows(a) \in H => AccountRow(a) \in H
  BY <1>4, RowsDiffer DEF Follows, LocksInv
<1> HIDE DEF H, q
<1>7. \A y, z \in Txn : y # z => held'[y] \cap held'[z] = {}
  BY <1>2, <1>3 DEF LocksInv, H
<1>8. \A y \in Txn : InOrder(plan'[y], held'[y])
  BY <1>2, <1>5 DEF LocksInv
<1>9. \A y \in Txn, a \in Account : LotRows(a) \in held'[y] => AccountRow(a) \in held'[y]
  BY <1>2, <1>6 DEF LocksInv
<1> QED BY <1>2, <1>7, <1>8, <1>9 DEF LocksInv

LEMMA EndKeeps ==
  ASSUME LocksInv, NEW x \in Txn, End(x)
  PROVE  LocksInv'
<1>1. /\ \A y \in Txn : plan'[y] = IF y = x THEN <<>> ELSE plan[y]
      /\ \A y \in Txn : held'[y] = IF y = x THEN {} ELSE held[y]
      /\ plan' \in [Txn -> Seq(Row)] /\ held' \in [Txn -> SUBSET Row]
  BY DEF LocksInv, End
<1>2. InOrder(<<>>, {})
  BY DEF InOrder
<1> QED BY <1>1, <1>2 DEF LocksInv

LEMMA LocksInvariance ==
  ASSUME Kind \subseteq LedgerKinds
  PROVE  Spec => []LocksInv
<1>1. LocksInv /\ [Next]_vars => LocksInv'
  <2> SUFFICES ASSUME LocksInv, [Next]_vars PROVE LocksInv'
    OBVIOUS
  <2>1. CASE Next
    BY <2>1, BeginKeeps, AcquireKeeps, EndKeeps DEF Next
  <2>2. CASE UNCHANGED vars
    BY <2>2, SMTT(30) DEF vars, LocksInv, InOrder, Follows, Before
  <2> QED BY <2>1, <2>2
<1> QED BY <1>1, LocksStart, PTL DEF Spec

-----------------------------------------------------------------------------
(* No circle of waits. *)

Less == {ss \in Nat \X Nat : ss[1] < ss[2]}

LEMMA LessIsWellFounded == IsWellFoundedOn(Less, Nat)
  BY NatLessThanWellFounded DEF OpToRel, Less

\* A finite set of accounts has a last one: the one that fewest of the set
\* come after.
LEMMA LastAccount ==
  ASSUME NEW T \in SUBSET Account, T # {}
  PROVE  \E a \in T : \A b \in T : b <= a
<1> DEFINE After(a) == {b \in T : b > a}
           N == {Cardinality(After(a)) : a \in T}
<1>1. IsFiniteSet(T) /\ T \subseteq Nat
  BY LocksAssumption, FS_Subset
<1>2. \A a \in T : IsFiniteSet(After(a)) /\ Cardinality(After(a)) \in Nat
  <2> SUFFICES ASSUME NEW a \in T PROVE IsFiniteSet(After(a)) /\ Cardinality(After(a)) \in Nat
    OBVIOUS
  <2>1. After(a) \in SUBSET T
    OBVIOUS
  <2> HIDE DEF After
  <2> QED BY <1>1, <2>1, FS_Subset, FS_CardinalityType
<1>3. N \subseteq Nat /\ N # {}
  BY <1>2
<1>4. PICK n \in N : \A m \in N : ~ (<<m, n>> \in Less)
  <2> HIDE DEF N
  <2> QED BY <1>3, WFMin, LessIsWellFounded
<1>5. PICK a \in T : n = Cardinality(After(a))
  BY <1>4
<1>6. ASSUME NEW b \in T, ~ (b <= a) PROVE FALSE
  <2>1. b > a /\ a \in Nat /\ b \in Nat
    BY <1>1, <1>6
  <2>2. After(b) \in SUBSET After(a) /\ b \in After(a) /\ b \notin After(b)
    <3>1. ASSUME NEW c \in T, c > b PROVE c > a
      BY <1>1, <2>1, <3>1
    <3>2. b \in After(a) /\ b \notin After(b)
      BY <2>1
    <3> QED BY <3>1, <3>2
  <2>3. Cardinality(After(b)) \in N
    OBVIOUS
  <2> HIDE DEF After, N
  <2>4. /\ Cardinality(After(b)) <= Cardinality(After(a))
        /\ Cardinality(After(b)) # Cardinality(After(a))
    BY <1>2, <2>2, FS_Subset
  <2>5. Cardinality(After(b)) < n
    BY <1>2, <1>5, <2>4
  <2>6. <<Cardinality(After(b)), n>> \in Less
    BY <1>2, <1>5, <2>5 DEF Less
  <2> QED BY <1>4, <2>3, <2>6
<1> QED BY <1>6

\* Whoever waits, waits for an account later than all it holds: lots are only
\* held together with their account.
LEMMA WaitersWaitForLaterAccounts ==
  ASSUME LocksInv, NEW x \in Txn, NEW y \in Txn, WaitsFor(x, y)
  PROVE  \E a \in Account : /\ Head(plan[x]) = AccountRow(a)
                            /\ \A b \in Account : AccountRow(b) \in held[x] => b < a
<1>1. plan[x] \in Seq(Row) /\ plan[x] # <<>> /\ Head(plan[x]) \in held[y] /\ x # y
  BY DEF LocksInv, WaitsFor
<1>2. Head(plan[x]) = plan[x][1] /\ 1 \in 1 .. Len(plan[x])
  BY <1>1
<1>3. Before(plan[x], 1, held[x]) = held[x]
  BY DEF Before
<1>4. Follows(plan[x][1], Before(plan[x], 1, held[x]))
  BY <1>2 DEF LocksInv, InOrder
<1>5. Follows(Head(plan[x]), held[x])
  BY <1>2, <1>3, <1>4
<1>6. held[x] \cap held[y] = {}
  BY <1>1 DEF LocksInv
<1>7. ASSUME NEW a \in Account, Head(plan[x]) = LotRows(a), AccountRow(a) \in held[x] PROVE FALSE
  BY <1>1, <1>6, <1>7 DEF LocksInv
<1> QED BY <1>1, <1>5, <1>6, <1>7 DEF Follows

\* Of any transactions, the one that waits for the last account waits for
\* nobody among them.
LEMMA OrderPreventsDeadlock == LocksInv => NoDeadlock
<1> SUFFICES ASSUME LocksInv, NEW S \in SUBSET Txn, S # {},
                    \A x \in S : \E y \in S : WaitsFor(x, y)
             PROVE  FALSE
  BY DEF NoDeadlock
<1> DEFINE T == {a \in Account : \E x \in S : Head(plan[x]) = AccountRow(a)}
<1>1. \A x \in S : \E a \in T : /\ Head(plan[x]) = AccountRow(a)
                                /\ \A b \in Account : AccountRow(b) \in held[x] => b < a
  BY WaitersWaitForLaterAccounts
<1>2. T \in SUBSET Account /\ T # {}
  BY <1>1
<1>3. PICK a \in T : \A b \in T : b <= a
  <2> HIDE DEF T
  <2> QED BY <1>2, LastAccount
<1>4. PICK x \in S : Head(plan[x]) = AccountRow(a)
  OBVIOUS
<1>5. PICK y \in S : WaitsFor(x, y)
  OBVIOUS
<1>6. a \in Account /\ AccountRow(a) \in held[y]
  BY <1>4, <1>5 DEF WaitsFor
<1>7. PICK b \in T : a < b
  BY <1>1, <1>6
<1> QED BY <1>2, <1>3, <1>7, LocksAssumption

\* Whichever transactions of the ledger and its services run at the same time,
\* however many and on whatever accounts, none of them waits in a circle: the
\* account before its lots, accounts by id (ledger.go lockAccounts).  The kinds
\* of the payment service, which locks the end user before the tenant, are not
\* among them.
THEOREM LedgerTransactionsNeverDeadlock ==
  ASSUME Kind \subseteq LedgerKinds
  PROVE  Spec => []NoDeadlock
  BY LocksInvariance, OrderPreventsDeadlock, PTL
=============================================================================
