---------------------------- MODULE LedgerProofs ----------------------------
(***************************************************************************)
(* Proofs about the ledger, for any accounts, orders, amounts and bounds.  *)
(***************************************************************************)
EXTENDS Ledger, TLAPS, FiniteSetTheorems

-----------------------------------------------------------------------------
(* Laws of SumTo, for tables of any length.  Induction over the rows is by *)
(* NatSetInduction, which states the principle for a SET of numbers; it    *)
(* follows from the pigeonhole facts of FiniteSetTheorems.                 *)

(* A set that holds 0 and the successor of each number it holds holds all *)
(* of Nat: otherwise adding 1 maps its part below a missing k one-to-one   *)
(* onto a proper subset of that part.                                      *)
LEMMA NatSetInduction ==
  ASSUME NEW T, 0 \in T, \A n \in Nat : n \in T => n + 1 \in T
  PROVE  Nat \subseteq T
<1> SUFFICES ASSUME NEW k \in Nat, k \notin T PROVE FALSE
  OBVIOUS
<1> DEFINE S == {x \in 0..k : x \in T}
<1> DEFINE D == {x \in 1..k : x - 1 \in S}
<1> DEFINE up == [x \in S |-> x + 1]
<1>1. IsFiniteSet(S)
  <2>1. IsFiniteSet(0..k)
    BY FS_Interval, 0 \in Int, k \in Int
  <2> QED BY <2>1, FS_Subset
<1>2. D \in SUBSET S
  <2>1. \A x \in D : x \in 0..k /\ x \in T
    <3> TAKE x \in D
    <3>1. x - 1 \in Nat /\ x - 1 \in T /\ x \in 1..k
      OBVIOUS
    <3>2. (x - 1) + 1 \in T
      BY <3>1
    <3> QED BY <3>1, <3>2
  <2> QED BY <2>1
<1>3. ExistsBijection(S, D)
  <2>0. \A x \in S : x + 1 \in D
    <3> TAKE x \in S
    <3>1. x \in Nat /\ x <= k /\ x # k
      OBVIOUS
    <3> QED BY <3>1
  <2>1. up \in [S -> D]
    BY <2>0
  <2>2. \A x, y \in S : up[x] = up[y] => x = y
    OBVIOUS
  <2>3. \A d \in D : \E x \in S : up[x] = d
    <3> TAKE d \in D
    <3> WITNESS d - 1 \in S
    <3> QED OBVIOUS
  <2>4. up \in Bijection(S, D)
    BY <2>1, <2>2, <2>3 DEF Bijection, Injection, Surjection, IsInjective
  <2> QED BY <2>4 DEF ExistsBijection
<1>4. 0 \in S /\ 0 \notin D
  OBVIOUS
<1>5. S = D
  BY <1>1, <1>2, <1>3, FS_Bijection, FS_Subset
<1> HIDE DEF S, D
<1> QED BY <1>4, <1>5

\* s is the table of the partial sums of f up to n.
IsPrefixSum(s, f, n) ==
  /\ s \in [0 .. n -> Int]
  /\ s[0] = 0
  /\ \A i \in 1 .. n : s[i] = s[i-1] + f[i]

(* The partial sums of a table of integers exist ...                       *)
LEMMA PrefixSumExists ==
  ASSUME NEW n \in Nat, NEW f, \A i \in 1 .. n : f[i] \in Int
  PROVE  \A m \in 0 .. n : \E s : IsPrefixSum(s, f, m)
<1> DEFINE T == {m \in Nat : m <= n => \E s : IsPrefixSum(s, f, m)}
<1>1. 0 \in T
  <2> DEFINE z == [i \in 0 .. 0 |-> 0]
  <2>1. IsPrefixSum(z, f, 0)
    BY DEF IsPrefixSum
  <2> QED BY <2>1
<1>2. ASSUME NEW m \in Nat, m \in T PROVE m + 1 \in T
  <2> SUFFICES ASSUME m + 1 <= n PROVE \E s : IsPrefixSum(s, f, m + 1)
    OBVIOUS
  <2>1. PICK s : IsPrefixSum(s, f, m)
    BY <1>2
  <2> DEFINE t == [i \in 0 .. (m+1) |-> IF i = m + 1 THEN s[m] + f[m+1] ELSE s[i]]
  <2>2. IsPrefixSum(t, f, m + 1)
    <3>0. m + 1 \in 1 .. n /\ f[m+1] \in Int
      OBVIOUS
    <3>1. s \in [0 .. m -> Int] /\ s[0] = 0 /\ \A i \in 1 .. m : s[i] = s[i-1] + f[i]
      BY <2>1 DEF IsPrefixSum
    <3>2. t \in [0 .. (m+1) -> Int]
      BY <3>0, <3>1
    <3>3. t[0] = 0
      BY <3>1
    <3>4. ASSUME NEW i \in 1 .. (m+1) PROVE t[i] = t[i-1] + f[i]
      <4>1. CASE i = m + 1
        BY <4>1, <3>1
      <4>2. CASE i # m + 1
        <5>1. i \in 1 .. m /\ i - 1 \in 0 .. m /\ i \in 0 .. (m+1) /\ i - 1 # m + 1 /\ i - 1 \in 0 .. (m+1)
          BY <4>2
        <5> QED BY <3>1, <4>2, <5>1
      <4> QED BY <4>1, <4>2
    <3> QED BY <3>2, <3>3, <3>4 DEF IsPrefixSum
  <2> QED BY <2>2
<1>3. Nat \subseteq T
  <2> HIDE DEF T
  <2> QED BY <1>1, <1>2, NatSetInduction
<1> QED BY <1>3

(* ... are unique, and those of a longer table extend those of a shorter.  *)
LEMMA PrefixSumUnique ==
  ASSUME NEW m \in Nat, NEW k \in Nat, m <= k, NEW f, NEW s, NEW t,
         IsPrefixSum(s, f, m), IsPrefixSum(t, f, k)
  PROVE  \A i \in 0 .. m : s[i] = t[i]
<1> DEFINE T == {i \in Nat : i <= m => s[i] = t[i]}
<1>1. 0 \in T
  BY DEF IsPrefixSum
<1>2. ASSUME NEW i \in Nat, i \in T PROVE i + 1 \in T
  <2> SUFFICES ASSUME i + 1 <= m PROVE s[i+1] = t[i+1]
    OBVIOUS
  <2>1. s[i] = t[i]
    BY <1>2
  <2>2. i + 1 \in 1 .. m /\ i + 1 \in 1 .. k /\ (i + 1) - 1 = i
    OBVIOUS
  <2>3. s[i+1] = s[i] + f[i+1] /\ t[i+1] = t[i] + f[i+1]
    BY <2>2 DEF IsPrefixSum
  <2> QED BY <2>1, <2>3
<1>3. Nat \subseteq T
  <2> HIDE DEF T
  <2> QED BY <1>1, <1>2, NatSetInduction
<1> QED BY <1>3

(* The recursive definition of PrefixSums computes them.                   *)
LEMMA PrefixSumsIs ==
  ASSUME NEW n \in Nat, NEW f, \A i \in 1 .. n : f[i] \in Int
  PROVE  IsPrefixSum(PrefixSums(f, n), f, n)
<1> DEFINE F(s) == [i \in 0 .. n |-> IF i = 0 THEN 0 ELSE s[i-1] + f[i]]
<1> DEFINE p == PrefixSums(f, n)
<1>1. \E s : s = F(s)
  <2>1. PICK s : IsPrefixSum(s, f, n)
    BY PrefixSumExists
  <2>2. \A i \in 0 .. n : s[i] = F(s)[i]
    BY <2>1 DEF IsPrefixSum
  <2>3. s = F(s)
    BY <2>1, <2>2 DEF IsPrefixSum
  <2> QED BY <2>3
<1>2. p = CHOOSE s : s = F(s)
  BY DEF PrefixSums
<1>3. p = F(p)
  <2> HIDE DEF F, p
  <2> QED BY <1>1, <1>2
<1>4. p[0] = 0 /\ \A i \in 1 .. n : p[i] = p[i-1] + f[i]
  <2> HIDE DEF p
  <2>1. \A i \in 0 .. n : p[i] = IF i = 0 THEN 0 ELSE p[i-1] + f[i]
    BY <1>3
  <2> QED BY <2>1
<1>5. \A i \in 0 .. n : p[i] \in Int
  <2> HIDE DEF p
  <2> DEFINE T == {i \in Nat : i <= n => p[i] \in Int}
  <2>1. 0 \in T
    BY <1>4
  <2>2. ASSUME NEW i \in Nat, i \in T PROVE i + 1 \in T
    <3> SUFFICES ASSUME i + 1 <= n PROVE p[i+1] \in Int
      OBVIOUS
    <3>1. i + 1 \in 1 .. n /\ (i + 1) - 1 = i /\ f[i+1] \in Int /\ p[i] \in Int
      BY <2>2
    <3> QED BY <1>4, <3>1
  <2>3. Nat \subseteq T
    <3> HIDE DEF T
    <3> QED BY <2>1, <2>2, NatSetInduction
  <2> QED BY <2>3
<1>6. p \in [0 .. n -> Int]
  <2> HIDE DEF p
  <2> QED BY <1>3, <1>5
<1> QED BY <1>4, <1>6 DEF IsPrefixSum

(* What SumTo computes: the empty sum is 0 and each row adds its term.     *)
LEMMA SumToStep ==
  ASSUME NEW n \in Nat, NEW f, \A i \in 1 .. n : f[i] \in Int
  PROVE  /\ SumTo(f, 0) = 0
         /\ SumTo(f, n) \in Int
         /\ n > 0 => SumTo(f, n) = SumTo(f, n - 1) + f[n]
<1>1. IsPrefixSum(PrefixSums(f, n), f, n)
  BY PrefixSumsIs
<1>2. IsPrefixSum(PrefixSums(f, 0), f, 0)
  BY PrefixSumsIs
<1>3. SumTo(f, 0) = 0 /\ SumTo(f, n) \in Int
  BY <1>1, <1>2 DEF IsPrefixSum, SumTo
<1>4. ASSUME n > 0 PROVE SumTo(f, n) = SumTo(f, n - 1) + f[n]
  <2>1. n - 1 \in Nat /\ n - 1 <= n /\ \A i \in 1 .. (n-1) : f[i] \in Int
    BY <1>4
  <2>2. IsPrefixSum(PrefixSums(f, n-1), f, n-1)
    BY <2>1, PrefixSumsIs
  <2>3. PrefixSums(f, n-1)[n-1] = PrefixSums(f, n)[n-1]
    BY <1>1, <2>1, <2>2, PrefixSumUnique
  <2>4. n \in 1 .. n /\ n - 1 \in 0 .. (n - 1)
    BY <1>4
  <2>5. PrefixSums(f, n)[n] = PrefixSums(f, n)[n-1] + f[n]
    BY <1>1, <2>4 DEF IsPrefixSum
  <2> QED BY <2>3, <2>5 DEF SumTo
<1> QED BY <1>3, <1>4

(* Subtracting one table's terms from another's subtracts the sums.        *)
LEMMA SumToMinus ==
  ASSUME NEW n \in Nat, NEW f, NEW g, NEW h,
         \A i \in 1 .. n : f[i] \in Int /\ g[i] \in Int /\ h[i] = f[i] - g[i]
  PROVE  SumTo(h, n) = SumTo(f, n) - SumTo(g, n)
<1> DEFINE T == {m \in Nat : m <= n => SumTo(h, m) = SumTo(f, m) - SumTo(g, m)}
<1>1. 0 \in T
  BY SumToStep
<1>2. ASSUME NEW m \in Nat, m \in T PROVE m + 1 \in T
  <2> SUFFICES ASSUME m + 1 <= n
               PROVE  SumTo(h, m+1) = SumTo(f, m+1) - SumTo(g, m+1)
    OBVIOUS
  <2>1. \A i \in 1 .. (m+1) : f[i] \in Int /\ g[i] \in Int /\ h[i] \in Int /\ h[i] = f[i] - g[i]
    OBVIOUS
  <2>2. m + 1 \in Nat /\ m + 1 > 0 /\ (m + 1) - 1 = m /\ m + 1 \in 1 .. (m+1)
    OBVIOUS
  <2>3. /\ SumTo(f, m+1) = SumTo(f, m) + f[m+1]
        /\ SumTo(g, m+1) = SumTo(g, m) + g[m+1]
        /\ SumTo(h, m+1) = SumTo(h, m) + h[m+1]
    BY <2>1, <2>2, SumToStep
  <2>4. SumTo(f, m) \in Int /\ SumTo(g, m) \in Int
    BY <2>1, SumToStep
  <2>5. SumTo(h, m) = SumTo(f, m) - SumTo(g, m)
    BY <1>2
  <2> QED BY <2>1, <2>2, <2>3, <2>4, <2>5
<1>3. Nat \subseteq T
  <2> HIDE DEF T
  <2> QED BY <1>1, <1>2, NatSetInduction
<1> QED BY <1>3

(* Terms that are pairwise ordered have ordered sums.                      *)
LEMMA SumToMonotone ==
  ASSUME NEW n \in Nat, NEW f, NEW g,
         \A i \in 1 .. n : f[i] \in Int /\ g[i] \in Int /\ f[i] <= g[i]
  PROVE  SumTo(f, n) <= SumTo(g, n)
<1> DEFINE T == {m \in Nat : m <= n => SumTo(f, m) <= SumTo(g, m)}
<1>1. 0 \in T
  BY SumToStep
<1>2. ASSUME NEW m \in Nat, m \in T PROVE m + 1 \in T
  <2> SUFFICES ASSUME m + 1 <= n
               PROVE  SumTo(f, m+1) <= SumTo(g, m+1)
    OBVIOUS
  <2>1. \A i \in 1 .. (m+1) : f[i] \in Int /\ g[i] \in Int /\ f[i] <= g[i]
    OBVIOUS
  <2>2. m + 1 \in Nat /\ m + 1 > 0 /\ (m + 1) - 1 = m /\ m + 1 \in 1 .. (m+1)
    OBVIOUS
  <2>3. /\ SumTo(f, m+1) = SumTo(f, m) + f[m+1]
        /\ SumTo(g, m+1) = SumTo(g, m) + g[m+1]
    BY <2>1, <2>2, SumToStep
  <2>4. SumTo(f, m) \in Int /\ SumTo(g, m) \in Int
    BY <2>1, SumToStep
  <2>5. SumTo(f, m) <= SumTo(g, m)
    BY <1>2
  <2> QED BY <2>1, <2>2, <2>3, <2>4, <2>5
<1>3. Nat \subseteq T
  <2> HIDE DEF T
  <2> QED BY <1>1, <1>2, NatSetInduction
<1> QED BY <1>3

(* Equal terms have equal sums.                                            *)
LEMMA SumToCong ==
  ASSUME NEW n \in Nat, NEW f, NEW g,
         \A i \in 1 .. n : f[i] \in Int /\ f[i] = g[i]
  PROVE  SumTo(f, n) = SumTo(g, n)
<1>1. SumTo(f, n) \in Int /\ SumTo(g, n) \in Int
  BY SumToStep
<1>2. SumTo(f, n) <= SumTo(g, n) /\ SumTo(g, n) <= SumTo(f, n)
  BY SumToMonotone
<1> QED BY <1>1, <1>2

(* A sum of naturals is a natural, 0 if every term is.                     *)
LEMMA SumToNat ==
  ASSUME NEW n \in Nat, NEW f, \A i \in 1 .. n : f[i] \in Nat
  PROVE  /\ SumTo(f, n) \in Nat
         /\ (\A i \in 1 .. n : f[i] = 0) => SumTo(f, n) = 0
<1> DEFINE z == [i \in 1 .. n |-> 0]
<1>1. SumTo(z, n) = SumTo(z, n) - SumTo(z, n)
  BY SumToMinus
<1>2. SumTo(z, n) \in Int /\ SumTo(f, n) \in Int
  BY SumToStep
<1>3. SumTo(z, n) = 0
  BY <1>1, <1>2
<1>4. SumTo(z, n) <= SumTo(f, n)
  BY SumToMonotone
<1>5. ASSUME \A i \in 1 .. n : f[i] = 0 PROVE SumTo(f, n) = SumTo(z, n)
  BY <1>5, SumToCong
<1> QED BY <1>2, <1>3, <1>4, <1>5

-----------------------------------------------------------------------------
(* The inductive invariant. *)

\* A lot that names an order belongs to the account that order credited.
LotOwners ==
  \A i \in Lots : lots[i].order # NoOrder =>
    /\ orders[lots[i].order].status # "none"
    /\ orders[lots[i].order].account = lots[i].account

LedgerInv ==
  /\ TypeOK
  /\ LotStates
  /\ LotOwners
  /\ OrdersReconcile
  /\ DriftBoundedByRefunds

-----------------------------------------------------------------------------
(* What the updates of a lot row keep and change.                          *)
LEMMA ConsumeRow ==
  ASSUME NEW l \in LotRow, NEW k \in Nat
  PROVE  /\ Consume(l, k) \in LotRow /\ Consume(l, k).consumed = l.consumed + k
         /\ Consume(l, k).account = l.account /\ Consume(l, k).state = l.state
         /\ Consume(l, k).granted = l.granted /\ Consume(l, k).order = l.order
         /\ Consume(l, k).unused = l.unused /\ Consume(l, k).expires = l.expires
BY DEF Consume, LotRow

LEMMA RevokeRow ==
  ASSUME NEW l \in LotRow
  PROVE  /\ Revoke(l) \in LotRow /\ Revoke(l).consumed = l.granted
         /\ Revoke(l).account = l.account /\ Revoke(l).state = "revoked"
         /\ Revoke(l).granted = l.granted /\ Revoke(l).order = l.order
         /\ Revoke(l).unused = l.unused
BY DEF Revoke, LotRow, LotState

LEMMA ExpireRow ==
  ASSUME NEW l \in LotRow, l.consumed <= l.granted
  PROVE  /\ Expire(l) \in LotRow /\ Expire(l).unused = l.granted - l.consumed
         /\ Expire(l).account = l.account /\ Expire(l).state = "expired"
         /\ Expire(l).granted = l.granted /\ Expire(l).order = l.order
         /\ Expire(l).consumed = l.consumed
<1>1. l.granted - l.consumed \in Nat
  BY DEF LotRow
<1> QED BY <1>1 DEF Expire, LotRow, LotState

LEMMA CloseRow ==
  ASSUME NEW row \in OrderRow, NEW r \in Nat, NEW x \in Nat
  PROVE  /\ Close(row, r, x) \in OrderRow /\ Close(row, r, x).status = "reversed"
         /\ Close(row, r, x).reversed = r /\ Close(row, r, x).lost = x
         /\ Close(row, r, x).account = row.account /\ Close(row, r, x).credit = row.credit
         /\ Close(row, r, x).online = row.online
BY DEF Close, OrderRow

(* What is left in any set of lots is a natural number, row by row and in  *)
(* total, and grows with the set.                                          *)
LEMMA RemainingNat ==
  ASSUME TypeOK, NEW S, NEW a
  PROVE  /\ \A i \in Lots : RemainingIn(S, a)[i] \in Nat
         /\ RemainingTotal(S, a) \in Nat
<1>1. \A i \in Lots : RemainingIn(S, a)[i] \in Nat
  BY DEF TypeOK, RemainingIn, Remaining, Larger, LotRow
<1> QED BY <1>1, SumToNat DEF RemainingTotal, TypeOK, Lots

LEMMA RemainingSubset ==
  ASSUME TypeOK, NEW S, NEW R, NEW a, S \subseteq R
  PROVE  RemainingTotal(S, a) <= RemainingTotal(R, a)
<1>1. \A i \in Lots : /\ RemainingIn(S, a)[i] \in Int /\ RemainingIn(R, a)[i] \in Int
                      /\ RemainingIn(S, a)[i] <= RemainingIn(R, a)[i]
  BY DEF TypeOK, RemainingIn, Remaining, Larger, LotRow
<1> QED BY <1>1, SumToMonotone DEF RemainingTotal, TypeOK, Lots

(* Charging attributes to the account's open lots as much of the amount as *)
(* they hold, and leaves the lots of other accounts alone.                 *)
LEMMA DebitAvailable ==
  ASSUME TypeOK, LotStates, NEW a \in Account, NEW m \in Nat, Debit(a, m), NEW b \in Account
  PROVE  AvailableLots(b)' = IF b = a THEN AvailableLots(a) - Smaller(m, AvailableLots(a))
                                      ELSE AvailableLots(b)
<1>1. PICK applied \in [Lots -> 0 .. m] :
         /\ Attribution(a, m, applied)
         /\ lots' = [i \in Lots |-> Consume(lots[i], applied[i])]
  BY DEF Debit
<1> DEFINE f == RemainingIn(ActiveLots, b)
<1> DEFINE h == RemainingIn(ActiveLots, b)'
<1>2. nlots' = nlots /\ Lots' = Lots /\ nlots \in Nat
  BY DEF Debit, Lots, TypeOK
<1>3. \A i \in Lots : lots[i] \in LotRow /\ applied[i] \in Nat
  BY DEF TypeOK
<1>3a. \A i \in Lots : lots'[i] = Consume(lots[i], applied[i])
  BY <1>1
<1>4. \A i \in Lots : /\ lots'[i].account = lots[i].account /\ lots'[i].state = lots[i].state
                      /\ lots'[i].granted = lots[i].granted
                      /\ lots'[i].consumed = lots[i].consumed + applied[i]
  BY <1>3, <1>3a, ConsumeRow
<1>5. ActiveLots' = ActiveLots
  BY <1>2, <1>4 DEF ActiveLots
<1>6. \A i \in Lots : applied[i] <= RemainingIn(ActiveLots, a)[i]
  BY <1>1 DEF Attribution
<1>7. \A i \in Lots : /\ f[i] = IF i \in ActiveLots /\ lots[i].account = b
                                  THEN Larger(Remaining(i), 0) ELSE 0
                      /\ h[i] = IF i \in ActiveLots /\ lots[i].account = b
                                  THEN Larger(Remaining(i) - applied[i], 0) ELSE 0
  <2>1. \A i \in Lots : Remaining(i)' = Remaining(i) - applied[i]
    BY <1>3, <1>4 DEF Remaining, LotRow
  <2> QED BY <1>2, <1>4, <1>5, <2>1 DEF RemainingIn
<1>8. \A i \in Lots : Remaining(i) \in Int /\ f[i] \in Int
  BY <1>7, <1>3 DEF Remaining, LotRow, Larger
<1>9. CASE b = a
  <2>1. \A i \in Lots : h[i] = f[i] - applied[i]
    BY <1>3, <1>6, <1>7, <1>8, <1>9 DEF Larger
  <2>2. SumTo(h, nlots) = SumTo(f, nlots) - SumTo(applied, nlots)
    <3> HIDE DEF f, h
    <3>1. \A i \in 1 .. nlots : f[i] \in Int /\ applied[i] \in Int /\ h[i] = f[i] - applied[i]
      BY <1>3, <1>8, <2>1 DEF Lots
    <3> QED BY <1>2, <3>1, SumToMinus
  <2>3. SumTo(applied, nlots) = Smaller(m, AvailableLots(a))
    BY <1>1 DEF Attribution
  <2> QED BY <1>2, <1>5, <1>9, <2>2, <2>3 DEF AvailableLots, RemainingTotal
<1>10. CASE b # a
  <2>1. \A i \in Lots : h[i] = f[i]
    <3> SUFFICES ASSUME NEW i \in Lots PROVE h[i] = f[i]
      OBVIOUS
    <3>1. CASE lots[i].account = b
      <4>1. RemainingIn(ActiveLots, a)[i] = 0
        BY <1>10, <3>1 DEF RemainingIn
      <4>2. applied[i] = 0
        BY <1>3, <1>6, <4>1
      <4> QED BY <1>7, <1>8, <4>2
    <3>2. CASE lots[i].account # b
      BY <1>7, <3>2
    <3> QED BY <3>1, <3>2
  <2>2. SumTo(h, nlots) = SumTo(f, nlots)
    <3> HIDE DEF f, h
    <3> QED BY <1>2, <1>8, <2>1, SumToCong DEF Lots
  <2> QED BY <1>2, <1>5, <1>10, <2>2 DEF AvailableLots, RemainingTotal
<1> QED BY <1>9, <1>10

(* A grant adds to the open lots what is left of it after clearing debt.   *)
LEMMA GrantAvailable ==
  ASSUME TypeOK, NEW a \in Account, NEW m \in Nat \ {0}, NEW e, NEW o,
         Grant(a, m, e, o), NEW b \in Account
  PROVE  AvailableLots(b)' = AvailableLots(b) + (IF b = a THEN Larger(LotMicro(a, m), 0) ELSE 0)
<1>0. LotMicro(a, m) \in Int /\ AvailableLots(b) \in Nat /\ nlots \in Nat
  BY RemainingNat DEF LotMicro, TypeOK, AvailableLots
<1>1. CASE LotMicro(a, m) <= 0
  <2>1. UNCHANGED <<nlots, lots>>
    BY <1>1 DEF Grant
  <2>2. AvailableLots(b)' = AvailableLots(b)
    BY <2>1 DEF AvailableLots, RemainingTotal, RemainingIn, ActiveLots, Lots, Remaining
  <2> QED BY <1>0, <1>1, <2>2 DEF Larger
<1>2. CASE ~ (LotMicro(a, m) <= 0)
  <2> DEFINE f == RemainingIn(ActiveLots, b)
  <2> DEFINE h == RemainingIn(ActiveLots, b)'
  <2> DEFINE new == [account |-> a, granted |-> LotMicro(a, m), consumed |-> 0,
                     expires |-> e, order |-> o, state |-> "active", unused |-> 0]
  <2>1. nlots' = nlots + 1 /\ Lots' = 1 .. nlots + 1
        /\ lots' = [i \in 1 .. nlots + 1 |-> IF i = nlots + 1 THEN new ELSE lots[i]]
    BY <1>2 DEF Grant, Lots
  <2>2. \A i \in Lots : i \in Lots' /\ i # nlots + 1 /\ lots'[i] = lots[i]
    BY <1>0, <2>1 DEF Lots
  <2>3. \A i \in Lots : h[i] = f[i] /\ f[i] \in Int
    <3>1. \A i \in Lots : h[i] = f[i]
      BY <2>2 DEF RemainingIn, ActiveLots, Remaining
    <3> QED BY <3>1, RemainingNat
  <2>4. nlots + 1 \in Lots' /\ lots'[nlots + 1] = new
    BY <1>0, <2>1
  <2>5. h[nlots + 1] = IF b = a THEN LotMicro(a, m) ELSE 0
    BY <1>0, <1>2, <2>4 DEF RemainingIn, ActiveLots, Remaining, Larger
  <2>6. \A i \in 1 .. nlots + 1 : h[i] \in Int
    <3> SUFFICES ASSUME NEW i \in 1 .. nlots + 1 PROVE h[i] \in Int
      OBVIOUS
    <3>1. i \in Lots \/ i = nlots + 1
      BY <1>0 DEF Lots
    <3> QED BY <1>0, <2>3, <2>5, <3>1
  <2>7. SumTo(h, nlots + 1) = SumTo(h, nlots) + h[nlots + 1]
    <3> HIDE DEF h
    <3>1. nlots + 1 \in Nat /\ nlots + 1 > 0 /\ (nlots + 1) - 1 = nlots
      BY <1>0
    <3> QED BY <2>6, <3>1, SumToStep
  <2>8. SumTo(h, nlots) = SumTo(f, nlots)
    <3> HIDE DEF h, f
    <3> QED BY <1>0, <2>3, SumToCong DEF Lots
  <2> QED BY <1>0, <1>2, <2>1, <2>5, <2>7, <2>8 DEF AvailableLots, RemainingTotal, Larger
<1> QED BY <1>1, <1>2

(* Taking the active lots of S out of service, by expiry or revocation,    *)
(* removes exactly what they still held.                                   *)
LEMMA TakeOutAvailable ==
  ASSUME TypeOK, NEW S, S \subseteq ActiveLots, UNCHANGED nlots,
         \A i \in Lots : /\ lots'[i].account = lots[i].account
                         /\ i \in S => lots'[i].state # "active"
                         /\ i \notin S => lots'[i] = lots[i],
         NEW b \in Account
  PROVE  /\ AvailableLots(b)' = AvailableLots(b) - RemainingTotal(S, b)
         /\ RemainingTotal(S, b) <= AvailableLots(b)
<1> DEFINE f == RemainingIn(ActiveLots, b)
<1> DEFINE g == RemainingIn(S, b)
<1> DEFINE h == RemainingIn(ActiveLots, b)'
<1>1. nlots \in Nat /\ nlots' = nlots /\ Lots' = Lots
  BY DEF Lots, TypeOK
<1>2. \A i \in Lots : f[i] \in Int /\ g[i] \in Int
  BY RemainingNat
<1>3. \A i \in Lots : h[i] = f[i] - g[i]
  <2> SUFFICES ASSUME NEW i \in Lots PROVE h[i] = f[i] - g[i]
    OBVIOUS
  <2>1. CASE i \in S
    <3>1. i \notin ActiveLots' /\ i \in ActiveLots
      BY <2>1 DEF ActiveLots
    <3>2. h[i] = 0 /\ f[i] = g[i]
      BY <1>1, <2>1, <3>1 DEF RemainingIn
    <3> QED BY <1>2, <3>2
  <2>2. CASE i \notin S
    <3>1. (i \in ActiveLots') = (i \in ActiveLots) /\ Remaining(i)' = Remaining(i)
      BY <1>1, <2>2 DEF ActiveLots, Remaining
    <3>2. h[i] = f[i] /\ g[i] = 0
      BY <1>1, <2>2, <3>1 DEF RemainingIn
    <3> QED BY <1>2, <3>2
  <2> QED BY <2>1, <2>2
<1>4. SumTo(h, nlots) = SumTo(f, nlots) - SumTo(g, nlots)
  <2> HIDE DEF f, g, h
  <2> QED BY <1>1, <1>2, <1>3, SumToMinus DEF Lots
<1>5. AvailableLots(b)' = AvailableLots(b) - RemainingTotal(S, b)
  BY <1>1, <1>4 DEF AvailableLots, RemainingTotal
<1> QED BY <1>5, RemainingSubset DEF AvailableLots

(* The sums over an order's lots are naturals.                             *)
LEMMA OrderSumsNat ==
  ASSUME TypeOK, NEW o
  PROVE  GrantedByLots(o) \in Nat /\ RefundExpired(o) \in Nat /\ ConsumedOfLots(o) \in Nat
<1> DEFINE g == [i \in Lots |-> IF i \in OrderLots(o) THEN lots[i].granted ELSE 0]
<1> DEFINE u == [i \in Lots |-> IF i \in OrderLots(o) THEN lots[i].unused ELSE 0]
<1> DEFINE c == [i \in Lots |-> IF i \in OrderLots(o) THEN lots[i].consumed ELSE 0]
<1>1. nlots \in Nat /\ \A i \in 1 .. nlots : g[i] \in Nat /\ u[i] \in Nat /\ c[i] \in Nat
  BY DEF TypeOK, LotRow, Lots
<1>2. SumTo(g, nlots) \in Nat /\ SumTo(u, nlots) \in Nat /\ SumTo(c, nlots) \in Nat
  <2> HIDE DEF g, u, c
  <2> QED BY <1>1, SumToNat
<1> QED BY <1>2 DEF GrantedByLots, RefundExpired, ConsumedOfLots

(* Steps that keep the grants of an order's lots keep what they carry, and *)
(* its expired part too unless one of those lots expires.                  *)
LEMMA OrderSumsSame ==
  ASSUME TypeOK, UNCHANGED nlots, NEW o,
         \A i \in Lots : lots'[i].order = lots[i].order /\ lots'[i].granted = lots[i].granted
  PROVE  /\ OrderLots(o)' = OrderLots(o)
         /\ GrantedByLots(o)' = GrantedByLots(o)
         /\ (\A i \in OrderLots(o) : lots'[i].unused = lots[i].unused)
              => RefundExpired(o)' = RefundExpired(o)
<1>1. nlots \in Nat /\ Lots' = Lots /\ \A i \in Lots : lots[i] \in LotRow
  BY DEF Lots, TypeOK
<1>2. OrderLots(o)' = OrderLots(o)
  BY <1>1 DEF OrderLots
<1>3. GrantedByLots(o)' = GrantedByLots(o)
  <2> DEFINE f == [i \in Lots |-> IF i \in OrderLots(o) THEN lots[i].granted ELSE 0]
  <2> DEFINE g == [i \in Lots |-> IF i \in OrderLots(o) THEN lots'[i].granted ELSE 0]
  <2>1. \A i \in 1 .. nlots : f[i] \in Int /\ f[i] = g[i]
    BY <1>1 DEF Lots, LotRow
  <2>2. SumTo(f, nlots) = SumTo(g, nlots)
    <3> HIDE DEF f, g
    <3> QED BY <1>1, <2>1, SumToCong
  <2> QED BY <1>1, <1>2, <2>2 DEF GrantedByLots
<1>4. ASSUME \A i \in OrderLots(o) : lots'[i].unused = lots[i].unused
      PROVE  RefundExpired(o)' = RefundExpired(o)
  <2> DEFINE f == [i \in Lots |-> IF i \in OrderLots(o) THEN lots[i].unused ELSE 0]
  <2> DEFINE g == [i \in Lots |-> IF i \in OrderLots(o) THEN lots'[i].unused ELSE 0]
  <2>1. \A i \in 1 .. nlots : f[i] \in Int /\ f[i] = g[i]
    BY <1>1, <1>4 DEF Lots, LotRow
  <2>2. SumTo(f, nlots) = SumTo(g, nlots)
    <3> HIDE DEF f, g
    <3> QED BY <1>1, <2>1, SumToCong
  <2> QED BY <1>1, <1>2, <2>2 DEF RefundExpired
<1> QED BY <1>2, <1>3, <1>4

-----------------------------------------------------------------------------
LEMMA InitInv == Init => LedgerInv
<1> SUFFICES ASSUME Init PROVE LedgerInv
  OBVIOUS
<1>1. Lots = {} /\ nlots = 0
  BY DEF Init, Lots
<1>2. TypeOK
  <2>1. (CHOOSE a \in Account : TRUE) \in Account
    BY LedgerAssumption
  <2>2. orders \in [Order -> OrderRow]
    BY <2>1 DEF Init, OrderRow
  <2>3. lots \in [Lots -> LotRow]
    BY <1>1 DEF Init
  <2> QED BY <1>1, <2>2, <2>3 DEF Init, TypeOK
<1>3. LotStates /\ LotOwners
  BY <1>1 DEF LotStates, LotOwners
<1>4. OrdersReconcile
  <2> SUFFICES ASSUME NEW o \in Order
               PROVE  OrderLots(o) = {} /\ GrantedByLots(o) <= orders[o].credit /\ orders[o].status = "none"
    BY DEF OrdersReconcile
  <2>1. orders[o].status = "none" /\ orders[o].credit = 0
    BY DEF Init
  <2>2. OrderLots(o) = {}
    BY <1>1 DEF OrderLots
  <2>3. GrantedByLots(o) = 0
    <3> DEFINE g == [i \in Lots |-> IF i \in OrderLots(o) THEN lots[i].granted ELSE 0]
    <3>1. \A i \in 1 .. 0 : g[i] \in Nat
      OBVIOUS
    <3>2. SumTo(g, 0) = 0
      <4> HIDE DEF g
      <4> QED BY <3>1, SumToNat
    <3> QED BY <1>1, <3>2 DEF GrantedByLots
  <2> QED BY <2>1, <2>2, <2>3
<1>5. DriftBoundedByRefunds
  <2> SUFFICES ASSUME NEW a \in Account
               PROVE  AvailableLots(a) = 0 /\ balance[a] = 0 /\ unbacked[a] = 0
    BY DEF DriftBoundedByRefunds, Larger
  <2>1. AvailableLots(a) = 0
    <3> DEFINE g == RemainingIn(ActiveLots, a)
    <3>1. \A i \in 1 .. 0 : g[i] \in Nat
      OBVIOUS
    <3>2. SumTo(g, 0) = 0
      <4> HIDE DEF g
      <4> QED BY <3>1, SumToNat
    <3> QED BY <1>1, <3>2 DEF AvailableLots, RemainingTotal
  <2> QED BY <2>1 DEF Init
<1> QED BY <1>2, <1>3, <1>4, <1>5 DEF LedgerInv

(* Charge and ChargeIfFunded.                                              *)
LEMMA DebitInv ==
  ASSUME LedgerInv, NEW a \in Account, NEW m \in Nat, Debit(a, m), UNCHANGED <<orders, unbacked, now>>
  PROVE  LedgerInv'
<1> USE DEF LedgerInv
<1>1. PICK applied \in [Lots -> 0 .. m] :
         /\ Attribution(a, m, applied)
         /\ lots' = [i \in Lots |-> Consume(lots[i], applied[i])]
  BY DEF Debit
<1>2. nlots' = nlots /\ Lots' = Lots /\ nlots \in Nat /\ balance' = [balance EXCEPT ![a] = @ - m]
  BY DEF Debit, Lots, TypeOK
<1>3. \A i \in Lots : lots[i] \in LotRow /\ applied[i] \in Nat
  BY DEF TypeOK
<1>4. \A i \in Lots : lots'[i] = Consume(lots[i], applied[i])
  BY <1>1
<1>5. \A i \in Lots : /\ lots'[i] \in LotRow
                      /\ lots'[i].account = lots[i].account /\ lots'[i].state = lots[i].state
                      /\ lots'[i].granted = lots[i].granted /\ lots'[i].order = lots[i].order
                      /\ lots'[i].unused = lots[i].unused
                      /\ lots'[i].consumed = lots[i].consumed + applied[i]
  BY <1>3, <1>4, ConsumeRow
<1>6. \A i \in Lots : /\ applied[i] <= Larger(Remaining(i), 0)
                      /\ lots[i].state # "active" => applied[i] = 0
  <2>1. \A i \in Lots : applied[i] <= RemainingIn(ActiveLots, a)[i]
    BY <1>1 DEF Attribution
  <2>2. \A i \in Lots : /\ RemainingIn(ActiveLots, a)[i] <= Larger(Remaining(i), 0)
                        /\ RemainingIn(ActiveLots, a)[i] \in Int
                        /\ Larger(Remaining(i), 0) \in Int
                        /\ lots[i].state # "active" => RemainingIn(ActiveLots, a)[i] = 0
    BY <1>3 DEF RemainingIn, ActiveLots, Larger, Remaining, LotRow
  <2> QED BY <1>3, <2>1, <2>2
<1>7. TypeOK'
  <2>1. lots' \in [Lots' -> LotRow]
    BY <1>1, <1>2, <1>5
  <2>2. balance' \in [Account -> Int]
    BY <1>2 DEF TypeOK
  <2> QED BY <1>2, <2>1, <2>2 DEF TypeOK
<1>8. LotStates'
  <2>1. \A i \in Lots : lots'[i].consumed <= lots'[i].granted
    BY <1>3, <1>5, <1>6 DEF LotStates, Larger, Remaining, LotRow
  <2>2. \A i \in Lots : lots[i].state # "active" => lots'[i].consumed = lots[i].consumed
    BY <1>3, <1>5, <1>6 DEF LotRow
  <2> QED BY <1>2, <1>5, <2>1, <2>2 DEF LotStates, Remaining
<1>9. LotOwners'
  BY <1>2, <1>5 DEF LotOwners
<1>10. OrdersReconcile'
  <2> SUFFICES ASSUME NEW o \in Order
               PROVE  /\ OrderLots(o)' = OrderLots(o) /\ ActiveLots' = ActiveLots
                      /\ GrantedByLots(o)' = GrantedByLots(o)
                      /\ RefundExpired(o)' = RefundExpired(o)
    BY DEF OrdersReconcile
  <2>1. ActiveLots' = ActiveLots
    BY <1>2, <1>5 DEF ActiveLots
  <2>2. OrderLots(o) \subseteq Lots
    BY DEF OrderLots
  <2> QED BY <1>2, <1>5, <2>1, <2>2, OrderSumsSame
<1>11. DriftBoundedByRefunds'
  <2> SUFFICES ASSUME NEW b \in Account
               PROVE  /\ 0 <= AvailableLots(b)' - Larger(balance'[b], 0)
                      /\ AvailableLots(b)' - Larger(balance'[b], 0) <= unbacked[b]
    BY DEF DriftBoundedByRefunds
  <2>1. AvailableLots(b)' = IF b = a THEN AvailableLots(a) - Smaller(m, AvailableLots(a))
                                     ELSE AvailableLots(b)
    BY DebitAvailable
  <2>2. AvailableLots(b) \in Nat /\ balance[b] \in Int /\ unbacked[b] \in Nat
    BY RemainingNat DEF AvailableLots, TypeOK
  <2>3. balance'[b] = IF b = a THEN balance[b] - m ELSE balance[b]
    BY <1>2 DEF TypeOK
  <2>4. /\ 0 <= AvailableLots(b) - Larger(balance[b], 0)
        /\ AvailableLots(b) - Larger(balance[b], 0) <= unbacked[b]
    BY DEF DriftBoundedByRefunds
  <2> QED BY <2>1, <2>2, <2>3, <2>4 DEF Larger, Smaller
<1> QED BY <1>7, <1>8, <1>9, <1>10, <1>11

(* A grant, with or without an order of its own: o is the order it         *)
(* creates in the same transaction, or NoOrder.                            *)
LEMMA GrantInv ==
  ASSUME LedgerInv, NEW a \in Account, NEW m \in Nat \ {0}, NEW e \in Nat,
         NEW o \in Order \cup {NoOrder}, NEW online \in BOOLEAN, Grant(a, m, e, o),
         UNCHANGED <<unbacked, now>>,
         \/ o = NoOrder /\ UNCHANGED orders
         \/ /\ o \in Order /\ orders[o].status = "none"
            /\ orders' = [orders EXCEPT ![o] = [status |-> "active", online |-> online, account |-> a,
                                               credit |-> m, reversed |-> 0, lost |-> 0]]
  PROVE  LedgerInv'
<1> USE DEF LedgerInv
<1> DEFINE micro == LotMicro(a, m)
<1> DEFINE new == [account |-> a, granted |-> micro, consumed |-> 0,
                   expires |-> e, order |-> o, state |-> "active", unused |-> 0]
<1>0. /\ micro \in Int /\ micro <= m /\ nlots \in Nat /\ NoOrder \notin Order
      /\ balance' = [balance EXCEPT ![a] = @ + m] /\ balance[a] \in Int
  BY LedgerAssumption DEF LotMicro, TypeOK, Grant
<1>1. \A p \in Order : /\ orders[p] \in OrderRow /\ orders'[p] \in OrderRow
                       /\ p # o => orders'[p] = orders[p]
                       /\ p = o => /\ orders[p].status = "none" /\ orders'[p].status = "active"
                                   /\ orders'[p].account = a /\ orders'[p].credit = m
  BY <1>0 DEF TypeOK, OrderRow
<1>2. orders' \in [Order -> OrderRow] /\ balance' \in [Account -> Int]
  BY <1>0, <1>1 DEF TypeOK, OrderRow
<1>3. DriftBoundedByRefunds'
  <2> SUFFICES ASSUME NEW b \in Account
               PROVE  /\ 0 <= AvailableLots(b)' - Larger(balance'[b], 0)
                      /\ AvailableLots(b)' - Larger(balance'[b], 0) <= unbacked[b]
    BY DEF DriftBoundedByRefunds
  <2>1. AvailableLots(b)' = AvailableLots(b) + (IF b = a THEN Larger(micro, 0) ELSE 0)
    BY GrantAvailable
  <2>2. AvailableLots(b) \in Nat /\ balance[b] \in Int /\ unbacked[b] \in Nat
    BY RemainingNat DEF AvailableLots, TypeOK
  <2>3. balance'[b] = IF b = a THEN balance[b] + m ELSE balance[b]
    BY <1>0 DEF TypeOK
  <2>4. /\ 0 <= AvailableLots(b) - Larger(balance[b], 0)
        /\ AvailableLots(b) - Larger(balance[b], 0) <= unbacked[b]
    BY DEF DriftBoundedByRefunds
  <2> QED BY <1>0, <2>1, <2>2, <2>3, <2>4 DEF Larger, LotMicro
<1>4. CASE micro <= 0
  <2>1. UNCHANGED <<nlots, lots>>
    BY <1>4 DEF Grant
  <2>2. Lots' = Lots /\ ActiveLots' = ActiveLots
    BY <2>1 DEF Lots, ActiveLots
  <2>3. \A p \in Order : /\ OrderLots(p)' = OrderLots(p) /\ GrantedByLots(p)' = GrantedByLots(p)
                         /\ RefundExpired(p)' = RefundExpired(p)
    BY <2>1, <2>2 DEF OrderLots, GrantedByLots, RefundExpired
  <2>4. TypeOK' /\ LotStates'
    BY <1>2, <2>1, <2>2 DEF TypeOK, LotStates, Remaining
  <2>5. LotOwners'
    <3> SUFFICES ASSUME NEW i \in Lots, lots[i].order # NoOrder
                 PROVE  /\ orders'[lots[i].order].status # "none"
                        /\ orders'[lots[i].order].account = lots[i].account
      BY <2>1, <2>2 DEF LotOwners
    <3>1. /\ lots[i].order \in Order /\ orders[lots[i].order].status # "none"
          /\ orders[lots[i].order].account = lots[i].account
      BY DEF LotOwners, TypeOK, LotRow
    <3> QED BY <1>1, <3>1
  <2>6. OrdersReconcile'
    <3> SUFFICES ASSUME NEW p \in Order
                 PROVE  (/\ orders[p].status = "none" => OrderLots(p) = {}
                         /\ GrantedByLots(p) <= orders[p].credit
                         /\ orders[p].status = "reversed" =>
                              /\ OrderLots(p) \cap ActiveLots = {}
                              /\ orders[p].reversed + orders[p].lost
                                   + (IF orders[p].online THEN RefundExpired(p) ELSE 0)
                                 = orders[p].credit)'
      BY DEF OrdersReconcile
    <3>1. CASE p = o
      <4>1. OrderLots(p) = {}
        BY <1>1, <3>1 DEF OrdersReconcile
      <4>2. GrantedByLots(p) = 0
        <5> DEFINE g == [i \in Lots |-> IF i \in OrderLots(p) THEN lots[i].granted ELSE 0]
        <5>1. \A i \in 1 .. nlots : g[i] = 0 /\ g[i] \in Nat
          BY <4>1 DEF Lots
        <5>2. SumTo(g, nlots) = 0
          <6> HIDE DEF g
          <6> QED BY <1>0, <5>1, SumToNat
        <5> QED BY <5>2 DEF GrantedByLots
      <4> QED BY <1>1, <2>2, <2>3, <3>1, <4>1, <4>2
    <3>2. CASE p # o
      BY <1>1, <2>2, <2>3, <3>2 DEF OrdersReconcile
    <3> QED BY <3>1, <3>2
  <2> QED BY <1>3, <2>4, <2>5, <2>6
<1>5. CASE ~ (micro <= 0)
  <2>1. nlots' = nlots + 1 /\ Lots' = 1 .. nlots + 1
        /\ lots' = [i \in 1 .. nlots + 1 |-> IF i = nlots + 1 THEN new ELSE lots[i]]
    BY <1>5 DEF Grant, Lots
  <2>2. \A i \in Lots : i \in Lots' /\ i # nlots + 1 /\ lots'[i] = lots[i]
    BY <1>0, <2>1 DEF Lots
  <2>3. nlots + 1 \in Lots' /\ lots'[nlots + 1] = new /\ new \in LotRow
    BY <1>0, <1>5, <2>1 DEF LotRow, LotState
  <2>4. \A i \in Lots' : i \in Lots \/ i = nlots + 1
    BY <1>0, <2>1 DEF Lots
  <2>5. TypeOK'
    <3>1. lots' \in [Lots' -> LotRow]
      BY <2>1, <2>2, <2>3, <2>4 DEF TypeOK
    <3>2. nlots' \in Nat
      BY <1>0, <2>1
    <3> QED BY <1>2, <3>1, <3>2 DEF TypeOK
  <2>6. LotStates'
    <3>1. \A i \in Lots : /\ lots'[i].consumed <= lots'[i].granted
                          /\ lots'[i].state = "expired" => lots'[i].unused = Remaining(i)'
                          /\ lots'[i].state # "expired" => lots'[i].unused = 0
                          /\ lots'[i].state = "revoked" => lots'[i].consumed = lots'[i].granted
      BY <2>2 DEF LotStates, Remaining
    <3>2. new.consumed <= new.granted /\ new.state = "active" /\ new.unused = 0
      BY <1>0, <1>5
    <3> QED BY <2>3, <2>4, <3>1, <3>2 DEF LotStates
  <2>7. LotOwners'
    <3> SUFFICES ASSUME NEW i \in Lots', lots'[i].order # NoOrder
                 PROVE  /\ orders'[lots'[i].order].status # "none"
                        /\ orders'[lots'[i].order].account = lots'[i].account
      BY DEF LotOwners
    <3>1. CASE i \in Lots
      <4>1. /\ lots[i].order \in Order /\ orders[lots[i].order].status # "none"
            /\ orders[lots[i].order].account = lots[i].account /\ lots'[i] = lots[i]
        BY <2>2, <3>1 DEF LotOwners, TypeOK, LotRow
      <4> QED BY <1>1, <4>1
    <3>2. CASE i = nlots + 1
      <4>1. lots'[i].order = o /\ lots'[i].account = a /\ o \in Order
        BY <2>3, <3>2
      <4> QED BY <1>1, <4>1
    <3> QED BY <2>4, <3>1, <3>2
  <2>8. OrdersReconcile'
    <3> SUFFICES ASSUME NEW p \in Order
                 PROVE  (/\ orders[p].status = "none" => OrderLots(p) = {}
                         /\ GrantedByLots(p) <= orders[p].credit
                         /\ orders[p].status = "reversed" =>
                              /\ OrderLots(p) \cap ActiveLots = {}
                              /\ orders[p].reversed + orders[p].lost
                                   + (IF orders[p].online THEN RefundExpired(p) ELSE 0)
                                 = orders[p].credit)'
      BY DEF OrdersReconcile
    <3> DEFINE g == [i \in Lots |-> IF i \in OrderLots(p) THEN lots[i].granted ELSE 0]
    <3> DEFINE h == [i \in Lots' |-> IF i \in OrderLots(p)' THEN lots'[i].granted ELSE 0]
    <3> DEFINE u == [i \in Lots |-> IF i \in OrderLots(p) THEN lots[i].unused ELSE 0]
    <3> DEFINE v == [i \in Lots' |-> IF i \in OrderLots(p)' THEN lots'[i].unused ELSE 0]
    <3>1. \A i \in 1 .. nlots : /\ h[i] = g[i] /\ v[i] = u[i] /\ g[i] \in Nat /\ u[i] \in Nat
      BY <2>2 DEF OrderLots, Lots, TypeOK, LotRow
    <3>2. h[nlots+1] = (IF p = o THEN micro ELSE 0) /\ v[nlots+1] = 0
      BY <2>3 DEF OrderLots
    <3>3. \A i \in 1 .. nlots+1 : h[i] \in Int /\ v[i] \in Int
      <4> SUFFICES ASSUME NEW i \in 1 .. nlots+1 PROVE h[i] \in Int /\ v[i] \in Int
        OBVIOUS
      <4>1. i \in 1 .. nlots \/ i = nlots + 1
        BY <1>0
      <4> HIDE DEF h, v, g, u
      <4> QED BY <1>0, <3>1, <3>2, <4>1
    <3>4. /\ SumTo(h, nlots+1) = SumTo(g, nlots) + (IF p = o THEN micro ELSE 0)
          /\ SumTo(v, nlots+1) = SumTo(u, nlots)
          /\ SumTo(g, nlots) \in Nat
      <4> HIDE DEF h, v, g, u
      <4>1. nlots + 1 \in Nat /\ nlots + 1 > 0 /\ (nlots + 1) - 1 = nlots
        BY <1>0
      <4>2. /\ SumTo(h, nlots+1) = SumTo(h, nlots) + h[nlots+1]
            /\ SumTo(v, nlots+1) = SumTo(v, nlots) + v[nlots+1]
        BY <3>3, <4>1, SumToStep
      <4>3. SumTo(h, nlots) = SumTo(g, nlots) /\ SumTo(v, nlots) = SumTo(u, nlots)
        BY <1>0, <3>1, SumToCong
      <4>4. SumTo(g, nlots) \in Nat /\ SumTo(u, nlots) \in Nat
        BY <1>0, <3>1, SumToNat
      <4> QED BY <3>2, <4>2, <4>3, <4>4
    <3>5. /\ GrantedByLots(p)' = GrantedByLots(p) + (IF p = o THEN micro ELSE 0)
          /\ RefundExpired(p)' = RefundExpired(p) /\ GrantedByLots(p) \in Nat
      BY <2>1, <3>4 DEF GrantedByLots, RefundExpired
    <3>6. CASE p = o
      <4>1. OrderLots(p) = {}
        BY <1>1, <3>6 DEF OrdersReconcile
      <4>2. GrantedByLots(p) = 0
        <5>1. \A i \in 1 .. nlots : g[i] = 0 /\ g[i] \in Nat
          BY <4>1 DEF Lots
        <5>2. SumTo(g, nlots) = 0
          <6> HIDE DEF g
          <6> QED BY <1>0, <5>1, SumToNat
        <5> QED BY <5>2 DEF GrantedByLots
      <4> QED BY <1>0, <1>1, <3>5, <3>6, <4>2
    <3>7. CASE p # o
      <4>1. OrderLots(p)' = OrderLots(p)
        BY <2>2, <2>3, <2>4, <3>7 DEF OrderLots
      <4>2. (OrderLots(p) \cap ActiveLots)' = OrderLots(p) \cap ActiveLots
        BY <2>2, <4>1 DEF OrderLots, ActiveLots
      <4>3. GrantedByLots(p)' = GrantedByLots(p)
        BY <3>5, <3>7
      <4> QED BY <1>1, <3>5, <3>7, <4>1, <4>2, <4>3 DEF OrdersReconcile
    <3> QED BY <3>6, <3>7
  <2> QED BY <1>3, <2>5, <2>6, <2>7, <2>8
<1> QED BY <1>4, <1>5

(* Taking a set of active lots out of service, whatever the mark left on   *)
(* them: the part the three actions below share.                           *)
LEMMA TakeOutRows ==
  ASSUME LedgerInv, NEW S, S \subseteq ActiveLots, UNCHANGED nlots,
         \/ lots' = RevokedLots(S)
         \/ lots' = [i \in Lots |-> IF i \in S THEN Expire(lots[i]) ELSE lots[i]]
  PROVE  /\ lots' \in [Lots' -> LotRow]
         /\ Lots' = Lots
         /\ LotStates'
         /\ \A i \in Lots : /\ lots'[i].account = lots[i].account /\ lots'[i].order = lots[i].order
                            /\ lots'[i].granted = lots[i].granted
                            /\ i \in S => lots'[i].state # "active"
                            /\ i \notin S => lots'[i] = lots[i]
<1> USE DEF LedgerInv
<1>1. Lots' = Lots
  BY DEF Lots
<1>2. \A i \in Lots : lots[i] \in LotRow /\ lots[i].consumed <= lots[i].granted
  BY DEF TypeOK, LotStates
<1>3. CASE lots' = RevokedLots(S)
  <2>1. \A i \in Lots : lots'[i] = IF i \in S THEN Revoke(lots[i]) ELSE lots[i]
    BY <1>3 DEF RevokedLots
  <2>2. \A i \in S : i \in Lots /\ lots[i].state = "active"
    BY DEF ActiveLots
  <2>3. \A i \in Lots : lots'[i] \in LotRow
    BY <1>2, <2>1, RevokeRow
  <2>4. lots' \in [Lots' -> LotRow]
    BY <1>1, <1>3, <2>3 DEF RevokedLots
  <2>5. \A i \in S : lots'[i].consumed = lots'[i].granted /\ lots'[i].state = "revoked"
                     /\ lots'[i].unused = 0
    BY <1>2, <2>1, <2>2, RevokeRow DEF LotStates
  <2>6. LotStates'
    <3> SUFFICES ASSUME NEW i \in Lots
                 PROVE  (/\ lots[i].consumed <= lots[i].granted
                         /\ lots[i].state = "expired" => lots[i].unused = Remaining(i)
                         /\ lots[i].state # "expired" => lots[i].unused = 0
                         /\ lots[i].state = "revoked" => lots[i].consumed = lots[i].granted)'
      BY <1>1 DEF LotStates
    <3>1. CASE i \in S
      <4>1. lots'[i].granted \in Nat
        BY <2>3 DEF LotRow
      <4> QED BY <2>5, <3>1, <4>1
    <3>2. CASE i \notin S
      BY <2>1, <3>2 DEF LotStates, Remaining
    <3> QED BY <3>1, <3>2
  <2> QED BY <1>1, <1>2, <2>1, <2>4, <2>6, RevokeRow
<1>4. CASE lots' = [i \in Lots |-> IF i \in S THEN Expire(lots[i]) ELSE lots[i]]
  <2>1. \A i \in Lots : lots'[i] = IF i \in S THEN Expire(lots[i]) ELSE lots[i]
    BY <1>4
  <2>2. \A i \in S : i \in Lots
    BY DEF ActiveLots
  <2>3. \A i \in Lots : lots'[i] \in LotRow
    BY <1>2, <2>1, ExpireRow
  <2>4. lots' \in [Lots' -> LotRow]
    BY <1>1, <1>4, <2>3
  <2>5. \A i \in S : /\ lots'[i].consumed <= lots'[i].granted /\ lots'[i].state = "expired"
                     /\ lots'[i].unused = lots'[i].granted - lots'[i].consumed
    BY <1>2, <2>1, <2>2, ExpireRow
  <2>6. LotStates'
    <3> SUFFICES ASSUME NEW i \in Lots
                 PROVE  (/\ lots[i].consumed <= lots[i].granted
                         /\ lots[i].state = "expired" => lots[i].unused = Remaining(i)
                         /\ lots[i].state # "expired" => lots[i].unused = 0
                         /\ lots[i].state = "revoked" => lots[i].consumed = lots[i].granted)'
      BY <1>1 DEF LotStates
    <3>1. CASE i \in S
      BY <2>5, <3>1 DEF Remaining
    <3>2. CASE i \notin S
      BY <2>1, <3>2 DEF LotStates, Remaining
    <3> QED BY <3>1, <3>2
  <2> QED BY <1>1, <1>2, <2>1, <2>4, <2>6, ExpireRow
<1> QED BY <1>3, <1>4

(* The expiry pass.                                                        *)
LEMMA ExpireInv ==
  ASSUME LedgerInv, NEW S, S \subseteq ActiveLots, ExpireLots(S)
  PROVE  LedgerInv'
<1> USE DEF LedgerInv
<1>1. S \subseteq ActiveLots /\ UNCHANGED <<nlots, orders, unbacked, now>>
      /\ balance' = [a \in Account |-> balance[a] - RemainingTotal(S, a)]
  BY DEF ExpireLots
<1>2. /\ lots' \in [Lots' -> LotRow] /\ Lots' = Lots /\ LotStates'
      /\ \A i \in Lots : /\ lots'[i].account = lots[i].account /\ lots'[i].order = lots[i].order
                         /\ lots'[i].granted = lots[i].granted
                         /\ i \in S => lots'[i].state # "active"
                         /\ i \notin S => lots'[i] = lots[i]
  BY <1>1, TakeOutRows DEF ExpireLots
<1>3. TypeOK'
  <2>1. balance' \in [Account -> Int]
    BY <1>1, RemainingNat DEF TypeOK
  <2> QED BY <1>1, <1>2, <2>1 DEF TypeOK
<1>4. LotOwners'
  BY <1>1, <1>2 DEF LotOwners
<1>5. OrdersReconcile'
  <2> SUFFICES ASSUME NEW p \in Order
               PROVE  (/\ orders[p].status = "none" => OrderLots(p) = {}
                       /\ GrantedByLots(p) <= orders[p].credit
                       /\ orders[p].status = "reversed" =>
                            /\ OrderLots(p) \cap ActiveLots = {}
                            /\ orders[p].reversed + orders[p].lost
                                 + (IF orders[p].online THEN RefundExpired(p) ELSE 0)
                               = orders[p].credit)'
    BY DEF OrdersReconcile
  <2>1. OrderLots(p)' = OrderLots(p) /\ GrantedByLots(p)' = GrantedByLots(p)
    BY <1>1, <1>2, OrderSumsSame
  <2>2. OrderLots(p) \subseteq Lots
    BY DEF OrderLots
  <2>3. ActiveLots' \subseteq ActiveLots
    BY <1>2 DEF ActiveLots
  <2>4. ASSUME orders[p].status = "reversed"
        PROVE  (OrderLots(p) \cap ActiveLots)' = {} /\ RefundExpired(p)' = RefundExpired(p)
    <3>1. OrderLots(p) \cap ActiveLots = {}
      BY <2>4 DEF OrdersReconcile
    <3>2. \A i \in OrderLots(p) : i \notin S
      BY <1>1, <3>1
    <3>3. \A i \in OrderLots(p) : lots'[i].unused = lots[i].unused
      BY <1>2, <2>2, <3>2
    <3> QED BY <1>1, <1>2, <2>1, <2>3, <3>1, <3>3, OrderSumsSame
  <2> QED BY <1>1, <2>1, <2>4 DEF OrdersReconcile
<1>6. DriftBoundedByRefunds'
  <2> SUFFICES ASSUME NEW b \in Account
               PROVE  /\ 0 <= AvailableLots(b)' - Larger(balance'[b], 0)
                      /\ AvailableLots(b)' - Larger(balance'[b], 0) <= unbacked[b]
    BY <1>1 DEF DriftBoundedByRefunds
  <2>1. /\ AvailableLots(b)' = AvailableLots(b) - RemainingTotal(S, b)
        /\ RemainingTotal(S, b) <= AvailableLots(b)
    BY <1>1, <1>2, TakeOutAvailable
  <2>2. AvailableLots(b) \in Nat /\ RemainingTotal(S, b) \in Nat /\ balance[b] \in Int /\ unbacked[b] \in Nat
    BY RemainingNat DEF AvailableLots, TypeOK
  <2>3. balance'[b] = balance[b] - RemainingTotal(S, b)
    BY <1>1
  <2>4. /\ 0 <= AvailableLots(b) - Larger(balance[b], 0)
        /\ AvailableLots(b) - Larger(balance[b], 0) <= unbacked[b]
    BY DEF DriftBoundedByRefunds
  <2> QED BY <2>1, <2>2, <2>3, <2>4 DEF Larger
<1> QED BY <1>2, <1>3, <1>4, <1>5, <1>6

(* The lots of one order belong to its account, so the part of them that   *)
(* is left is at most what they were granted.                              *)
LEMMA OrderRemaining ==
  ASSUME LedgerInv, NEW o \in Order, NEW S, S \subseteq OrderLots(o)
  PROVE  /\ \A b \in Account : b # orders[o].account => RemainingTotal(S, b) = 0
         /\ RemainingTotal(S, orders[o].account) <= orders[o].credit
<1> USE DEF LedgerInv
<1>0. nlots \in Nat /\ NoOrder \notin Order
  BY LedgerAssumption DEF TypeOK
<1>1. \A i \in S : i \in Lots /\ lots[i].account = orders[o].account
  BY <1>0 DEF OrderLots, LotOwners
<1>2. ASSUME NEW b \in Account, b # orders[o].account PROVE RemainingTotal(S, b) = 0
  <2> DEFINE f == RemainingIn(S, b)
  <2>1. \A i \in 1 .. nlots : f[i] = 0 /\ f[i] \in Nat
    BY <1>1, <1>2 DEF RemainingIn, Lots
  <2>2. SumTo(f, nlots) = 0
    <3> HIDE DEF f
    <3> QED BY <1>0, <2>1, SumToNat
  <2> QED BY <2>2 DEF RemainingTotal
<1>3. RemainingTotal(S, orders[o].account) <= GrantedByLots(o)
  <2> DEFINE f == RemainingIn(S, orders[o].account)
  <2> DEFINE g == [i \in Lots |-> IF i \in OrderLots(o) THEN lots[i].granted ELSE 0]
  <2>1. \A i \in 1 .. nlots : f[i] \in Int /\ g[i] \in Int /\ f[i] <= g[i]
    <3> SUFFICES ASSUME NEW i \in Lots PROVE f[i] \in Int /\ g[i] \in Int /\ f[i] <= g[i]
      BY DEF Lots
    <3>1. lots[i].granted \in Nat /\ lots[i].consumed \in Nat
      BY DEF TypeOK, LotRow
    <3>2. f[i] = IF i \in S /\ lots[i].account = orders[o].account
                   THEN Larger(lots[i].granted - lots[i].consumed, 0) ELSE 0
      BY DEF RemainingIn, Remaining
    <3>3. g[i] = IF i \in OrderLots(o) THEN lots[i].granted ELSE 0
      OBVIOUS
    <3> HIDE DEF f, g
    <3> QED BY <3>1, <3>2, <3>3 DEF Larger
  <2>2. SumTo(f, nlots) <= SumTo(g, nlots)
    <3> HIDE DEF f, g
    <3> QED BY <1>0, <2>1, SumToMonotone
  <2> QED BY <2>2 DEF RemainingTotal, GrantedByLots
<1>4. GrantedByLots(o) <= orders[o].credit /\ GrantedByLots(o) \in Nat /\ orders[o].credit \in Nat
  BY OrderSumsNat DEF OrdersReconcile, TypeOK, OrderRow
<1>5. RemainingTotal(S, orders[o].account) \in Nat
  BY RemainingNat
<1> QED BY <1>2, <1>3, <1>4, <1>5

(* Revoking the active lots of an order and closing its row; common to     *)
(* manual reversal and payment refund.                                     *)
LEMMA RevokeOrderInv ==
  ASSUME LedgerInv, NEW o \in Order, NEW r \in Nat, NEW x \in Nat,
         orders[o].status = "active",
         r + x + (IF orders[o].online THEN RefundExpired(o) ELSE 0) = orders[o].credit,
         lots' = RevokedLots(OrderLots(o) \cap ActiveLots),
         orders' = [orders EXCEPT ![o] = Close(orders[o], r, x)],
         UNCHANGED <<nlots, now>>,
         balance' \in [Account -> Int], unbacked' \in [Account -> Nat]
  PROVE  TypeOK' /\ LotStates' /\ LotOwners' /\ OrdersReconcile'
<1> USE DEF LedgerInv
<1> DEFINE S == OrderLots(o) \cap ActiveLots
<1>1. /\ lots' \in [Lots' -> LotRow] /\ Lots' = Lots /\ LotStates'
      /\ \A i \in Lots : /\ lots'[i].account = lots[i].account /\ lots'[i].order = lots[i].order
                         /\ lots'[i].granted = lots[i].granted
                         /\ i \in S => lots'[i].state # "active"
                         /\ i \notin S => lots'[i] = lots[i]
  BY TakeOutRows
<1>2. \A i \in Lots : lots'[i].unused = lots[i].unused
  <2>1. \A i \in Lots : lots'[i] = IF i \in S THEN Revoke(lots[i]) ELSE lots[i]
    BY DEF RevokedLots
  <2>2. \A i \in Lots : lots[i] \in LotRow
    BY DEF TypeOK
  <2> QED BY <2>1, <2>2, RevokeRow
<1>2a. orders'[o] = Close(orders[o], r, x) /\ \A p \in Order : p # o => orders'[p] = orders[p]
  BY DEF TypeOK
<1>3. \A p \in Order : /\ orders'[p] \in OrderRow
                       /\ p # o => orders'[p] = orders[p]
                       /\ orders'[p].account = orders[p].account /\ orders'[p].credit = orders[p].credit
                       /\ orders'[p].online = orders[p].online
                       /\ p = o => /\ orders'[p].status = "reversed"
                                   /\ orders'[p].reversed = r /\ orders'[p].lost = x
  BY <1>2a, CloseRow DEF TypeOK
<1>4. orders' \in [Order -> OrderRow]
  BY <1>3 DEF TypeOK
<1>5. TypeOK'
  BY <1>1, <1>4 DEF TypeOK
<1>6. LotOwners'
  <2> SUFFICES ASSUME NEW i \in Lots, lots[i].order # NoOrder
               PROVE  /\ orders'[lots[i].order].status # "none"
                      /\ orders'[lots[i].order].account = lots[i].account
    <3>1. Lots' = Lots /\ \A i \in Lots : lots'[i].account = lots[i].account /\ lots'[i].order = lots[i].order
      BY <1>1
    <3> QED BY <3>1, ZenonT(60) DEF LotOwners
  <2>1. /\ lots[i].order \in Order /\ orders[lots[i].order].status # "none"
        /\ orders[lots[i].order].account = lots[i].account
    BY DEF LotOwners, TypeOK, LotRow
  <2> QED BY <1>3, <2>1
<1>7. OrdersReconcile'
  <2> SUFFICES ASSUME NEW p \in Order
               PROVE  (/\ orders[p].status = "none" => OrderLots(p) = {}
                       /\ GrantedByLots(p) <= orders[p].credit
                       /\ orders[p].status = "reversed" =>
                            /\ OrderLots(p) \cap ActiveLots = {}
                            /\ orders[p].reversed + orders[p].lost
                                 + (IF orders[p].online THEN RefundExpired(p) ELSE 0)
                               = orders[p].credit)'
    BY DEF OrdersReconcile
  <2>1. OrderLots(p) \subseteq Lots
    BY DEF OrderLots
  <2>2. /\ OrderLots(p)' = OrderLots(p) /\ GrantedByLots(p)' = GrantedByLots(p)
        /\ RefundExpired(p)' = RefundExpired(p)
    BY <1>1, <1>2, <2>1, OrderSumsSame
  <2>3. ActiveLots' \subseteq ActiveLots
    BY <1>1 DEF ActiveLots
  <2>4. CASE p = o
    <3>1. (OrderLots(p) \cap ActiveLots)' = {}
      <4>1. \A i \in OrderLots(o) \cap ActiveLots : i \in Lots /\ lots'[i].state # "active"
        BY <1>1, <2>1, <2>4
      <4> QED BY <1>1, <2>2, <2>3, <2>4, <4>1 DEF ActiveLots
    <3>2. orders'[p].status = "reversed" /\ GrantedByLots(p)' <= orders'[p].credit
      BY <1>3, <2>2, <2>4 DEF OrdersReconcile
    <3> QED BY <1>3, <2>2, <2>4, <3>1, <3>2
  <2>5. CASE p # o
    <3>1. orders'[p] = orders[p]
      BY <1>3, <2>5
    <3> QED BY <2>2, <2>3, <3>1 DEF OrdersReconcile
  <2> QED BY <2>4, <2>5
<1> QED BY <1>1, <1>5, <1>6, <1>7

LEMMA ReverseOrderInv ==
  ASSUME LedgerInv, NEW o \in Order, ReverseOrder(o)
  PROVE  LedgerInv'
<1> USE DEF LedgerInv
<1> DEFINE S == OrderLots(o) \cap ActiveLots
<1> DEFINE r == RemainingTotal(S, orders[o].account)
<1> DEFINE x == orders[o].credit - r
<1>1. /\ orders[o].status = "active" /\ ~ orders[o].online
      /\ balance' = [a \in Account |-> balance[a] - RemainingTotal(S, a)]
      /\ lots' = RevokedLots(S)
      /\ orders' = [orders EXCEPT ![o] = Close(orders[o], r, x)]
      /\ UNCHANGED <<nlots, unbacked, now>>
  BY DEF ReverseOrder
<1>2. r \in Nat /\ x \in Nat /\ orders[o].credit \in Nat
  <2>1. r \in Nat /\ orders[o].credit \in Nat
    BY RemainingNat DEF TypeOK, OrderRow
  <2>2. r <= orders[o].credit
    BY OrderRemaining
  <2> QED BY <2>1, <2>2
<1>3. balance' \in [Account -> Int] /\ unbacked' \in [Account -> Nat]
  BY <1>1, RemainingNat DEF TypeOK
<1>4. r + x + (IF orders[o].online THEN RefundExpired(o) ELSE 0) = orders[o].credit
  BY <1>1, <1>2
<1>5. TypeOK' /\ LotStates' /\ LotOwners' /\ OrdersReconcile'
  <2> HIDE DEF r, x
  <2> QED BY <1>1, <1>2, <1>3, <1>4, RevokeOrderInv
<1>6. DriftBoundedByRefunds'
  <2> SUFFICES ASSUME NEW b \in Account
               PROVE  /\ 0 <= AvailableLots(b)' - Larger(balance'[b], 0)
                      /\ AvailableLots(b)' - Larger(balance'[b], 0) <= unbacked[b]
    BY <1>1 DEF DriftBoundedByRefunds
  <2>1. /\ AvailableLots(b)' = AvailableLots(b) - RemainingTotal(S, b)
        /\ RemainingTotal(S, b) <= AvailableLots(b)
    BY <1>1, TakeOutRows, TakeOutAvailable, ZenonT(60)
  <2>2. AvailableLots(b) \in Nat /\ RemainingTotal(S, b) \in Nat /\ balance[b] \in Int /\ unbacked[b] \in Nat
    BY RemainingNat DEF AvailableLots, TypeOK
  <2>3. balance'[b] = balance[b] - RemainingTotal(S, b)
    BY <1>1
  <2>4. /\ 0 <= AvailableLots(b) - Larger(balance[b], 0)
        /\ AvailableLots(b) - Larger(balance[b], 0) <= unbacked[b]
    BY DEF DriftBoundedByRefunds
  <2> QED BY <2>1, <2>2, <2>3, <2>4 DEF Larger
<1> QED BY <1>5, <1>6

LEMMA RefundInv ==
  ASSUME LedgerInv, NEW o \in Order, ReverseGrantForRefund(o)
  PROVE  LedgerInv'
<1> USE DEF LedgerInv
<1> DEFINE S == OrderLots(o) \cap ActiveLots
<1> DEFINE a == orders[o].account
<1> DEFINE r == RefundAvailable(o)
<1> DEFINE x == RefundNonAvailable(o)
<1>1. /\ orders[o].status = "active" /\ orders[o].online
      /\ GrantedByLots(o) <= orders[o].credit
      /\ r + x + RefundExpired(o) = orders[o].credit
      /\ balance' = [balance EXCEPT ![a] = @ - (r + x)]
      /\ lots' = RevokedLots(S)
      /\ orders' = [orders EXCEPT ![o] = Close(orders[o], r, x)]
      /\ unbacked' = [unbacked EXCEPT ![a] = @ + x]
      /\ UNCHANGED <<nlots, now>>
  BY DEF ReverseGrantForRefund
<1>2. r \in Nat /\ x \in Nat /\ a \in Account
  <2>1. r \in Nat
    BY RemainingNat DEF RefundAvailable
  <2>2. orders[o].credit \in Nat /\ a \in Account
    BY DEF TypeOK, OrderRow
  <2>3. ConsumedOfLots(o) \in Nat /\ GrantedByLots(o) \in Nat
    BY OrderSumsNat
  <2> QED BY <1>1, <2>1, <2>2, <2>3 DEF RefundNonAvailable
<1>3. balance' \in [Account -> Int] /\ unbacked' \in [Account -> Nat]
  <2> HIDE DEF r, x, a
  <2> QED BY <1>1, <1>2 DEF TypeOK
<1>4. r + x + (IF orders[o].online THEN RefundExpired(o) ELSE 0) = orders[o].credit
  BY <1>1
<1>5. TypeOK' /\ LotStates' /\ LotOwners' /\ OrdersReconcile'
  <2> HIDE DEF r, x
  <2> QED BY <1>1, <1>2, <1>3, <1>4, RevokeOrderInv
<1>6. DriftBoundedByRefunds'
  <2> SUFFICES ASSUME NEW b \in Account
               PROVE  /\ 0 <= AvailableLots(b)' - Larger(balance'[b], 0)
                      /\ AvailableLots(b)' - Larger(balance'[b], 0) <= unbacked'[b]
    BY DEF DriftBoundedByRefunds
  <2>1. /\ AvailableLots(b)' = AvailableLots(b) - RemainingTotal(S, b)
        /\ RemainingTotal(S, b) <= AvailableLots(b)
    BY <1>1, TakeOutRows, TakeOutAvailable
  <2>2. AvailableLots(b) \in Nat /\ RemainingTotal(S, b) \in Nat /\ balance[b] \in Int /\ unbacked[b] \in Nat
    BY RemainingNat DEF AvailableLots, TypeOK
  <2>3. RemainingTotal(S, b) = IF b = a THEN r ELSE 0
    BY OrderRemaining DEF RefundAvailable
  <2>4. /\ 0 <= AvailableLots(b) - Larger(balance[b], 0)
        /\ AvailableLots(b) - Larger(balance[b], 0) <= unbacked[b]
    BY DEF DriftBoundedByRefunds
  <2>5. /\ balance'[b] = IF b = a THEN balance[b] - (r + x) ELSE balance[b]
        /\ unbacked'[b] = IF b = a THEN unbacked[b] + x ELSE unbacked[b]
    <3> HIDE DEF r, x, a
    <3> QED BY <1>1, <1>2 DEF TypeOK
  <2> HIDE DEF r, x, a
  <2> QED BY <1>2, <2>1, <2>2, <2>3, <2>4, <2>5 DEF Larger
<1> QED BY <1>5, <1>6

-----------------------------------------------------------------------------
(* Every step of the ledger keeps the invariant.                           *)
LEMMA NextInv == LedgerInv /\ [Next]_vars => LedgerInv'
<1> SUFFICES ASSUME LedgerInv, [Next]_vars PROVE LedgerInv'
  OBVIOUS
<1>0. Amount \subseteq Nat \ {0} /\ Horizon \in Nat
  BY LedgerAssumption
<1>1. ASSUME NEW a \in Account, NEW m \in Amount, Charge(a, m) PROVE LedgerInv'
  BY <1>0, <1>1, DebitInv DEF Charge
<1>2. ASSUME NEW a \in Account, NEW m \in Amount, ChargeIfFunded(a, m) PROVE LedgerInv'
  BY <1>0, <1>2, DebitInv DEF ChargeIfFunded
<1>3. ASSUME NEW a \in Account, NEW m \in Amount, RefundUsage(a, m) PROVE LedgerInv'
  BY <1>0, <1>3, GrantInv DEF RefundUsage, Permanent
<1>4. ASSUME NEW o \in Order, NEW a \in Account, NEW m \in Amount, NEW e \in 0 .. Horizon,
             NEW online \in BOOLEAN, GrantBalance(o, a, m, e, online)
      PROVE  LedgerInv'
  <2>1. m \in Nat \ {0} /\ e \in Nat
    BY <1>0
  <2> QED BY <1>4, <2>1, GrantInv DEF GrantBalance
<1>5. ASSUME NEW o \in Order, ReverseOrder(o) PROVE LedgerInv'
  BY <1>5, ReverseOrderInv
<1>6. ASSUME NEW o \in Order, ReverseGrantForRefund(o) PROVE LedgerInv'
  BY <1>6, RefundInv
<1>7. ASSUME ExpireDueLots PROVE LedgerInv'
  <2>1. PICK time \in 0 .. now : \E S \in SUBSET DueBy(time) : ExpireLots(S)
    BY <1>7 DEF ExpireDueLots
  <2>2. PICK S \in SUBSET DueBy(time) : ExpireLots(S)
    BY <2>1
  <2> QED BY <2>2, ExpireInv DEF DueBy
<1>8. ASSUME Tick \/ UNCHANGED vars PROVE LedgerInv'
  <2>1. UNCHANGED <<balance, nlots, lots, orders, unbacked>> /\ now' \in Nat
    BY <1>8 DEF Tick, vars, LedgerInv, TypeOK
  <2> QED BY <2>1, ZenonT(60) DEF LedgerInv, TypeOK, LotStates, LotOwners, OrdersReconcile, DriftBoundedByRefunds,
             Lots, Remaining, OrderLots, ActiveLots, GrantedByLots, RefundExpired,
             AvailableLots, RemainingTotal, RemainingIn
<1> QED BY <1>1, <1>2, <1>3, <1>4, <1>5, <1>6, <1>7, <1>8 DEF Next

(* The ledger's inductive invariant holds in every reachable state.        *)
THEOREM LedgerInvariant == Spec => []LedgerInv
BY InitInv, NextInv, PTL DEF Spec

(* Every row keeps its type: in particular the amount an operator's        *)
(* reversal records as lost is never negative.                             *)
THEOREM LedgerTypeCorrect == Spec => []TypeOK
<1>1. LedgerInv => TypeOK
  BY DEF LedgerInv
<1> QED BY <1>1, LedgerInvariant, PTL

(* Charges, expiry, reversal and refund never use a lot beyond its grant,  *)
(* and leave expired and revoked lots with the snapshot they must carry.   *)
THEOREM LotsStaySound == Spec => []LotStates
<1>1. LedgerInv => LotStates
  BY DEF LedgerInv
<1> QED BY <1>1, LedgerInvariant, PTL

(* The open lots back the spendable balance, and exceed it by no more than *)
(* payment refunds have debited without attributing it to a lot.           *)
THEOREM DriftIsBounded == Spec => []DriftBoundedByRefunds
<1>1. LedgerInv => DriftBoundedByRefunds
  BY DEF LedgerInv
<1> QED BY <1>1, LedgerInvariant, PTL

(* Recharge orders and the lots they created reconcile in every state.     *)
THEOREM OrdersStayReconciled == Spec => []OrdersReconcile
<1>1. LedgerInv => OrdersReconcile
  BY DEF LedgerInv
<1> QED BY <1>1, LedgerInvariant, PTL


(* Taking open lots out of their accounts leaves an account without refund *)
(* debits at least what it had of debt.                                    *)
LEMMA TakeOutKeepsFunds ==
  ASSUME LedgerInv, NEW S, S \subseteq ActiveLots, NEW a \in Account, unbacked[a] = 0,
         balance' = [b \in Account |-> balance[b] - RemainingTotal(S, b)]
  PROVE  balance'[a] >= Smaller(balance[a], 0)
<1> DEFINE r == RemainingTotal(S, a)
           v == AvailableLots(a)
<1>1. TypeOK /\ DriftBoundedByRefunds
  BY DEF LedgerInv
<1>2. r \in Nat /\ v \in Nat /\ balance[a] \in Int
  BY <1>1, RemainingNat DEF TypeOK, AvailableLots
<1>3. r <= v
  BY <1>1, RemainingSubset DEF AvailableLots
<1>4. v = Larger(balance[a], 0)
  <2>1. 0 <= v - Larger(balance[a], 0) /\ v - Larger(balance[a], 0) <= 0
    BY <1>1 DEF DriftBoundedByRefunds
  <2> HIDE DEF v
  <2> QED BY <1>2, <2>1 DEF Larger
<1>5. balance'[a] = balance[a] - r
  OBVIOUS
<1> HIDE DEF r, v
<1> QED BY <1>2, <1>3, <1>4, <1>5 DEF Larger, Smaller

(* The expiry job and an operator's reversal take only money that is still *)
(* there: they push no account into debt, or deeper, that no payment       *)
(* refund has debited beyond its lots.                                     *)
THEOREM TakeBacksNeverIndebt == Spec => TakeBackNeverIndebts
<1>1. ASSUME LedgerInv PROVE TakeBackStep
  <2>1. ASSUME ExpireDueLots, NEW a \in Account, unbacked[a] = 0
        PROVE  balance'[a] >= Smaller(balance[a], 0)
    <3>0. PICK time \in 0 .. now : \E S \in SUBSET DueBy(time) : ExpireLots(S)
      BY <2>1 DEF ExpireDueLots
    <3>1. PICK S \in SUBSET DueBy(time) : ExpireLots(S)
      BY <3>0
    <3>2. /\ S \subseteq ActiveLots
          /\ balance' = [b \in Account |-> balance[b] - RemainingTotal(S, b)]
      BY <3>1 DEF ExpireLots, DueBy
    <3> QED BY <1>1, <2>1, <3>2, TakeOutKeepsFunds
  <2>2. ASSUME NEW o \in Order, ReverseOrder(o), NEW a \in Account, unbacked[a] = 0
        PROVE  balance'[a] >= Smaller(balance[a], 0)
    <3> DEFINE S == OrderLots(o) \cap ActiveLots
    <3>1. /\ S \subseteq ActiveLots
          /\ balance' = [b \in Account |-> balance[b] - RemainingTotal(S, b)]
      BY <2>2 DEF ReverseOrder
    <3> HIDE DEF S
    <3> QED BY <1>1, <2>2, <3>1, TakeOutKeepsFunds
  <2> QED BY <2>1, <2>2 DEF TakeBackStep
<1>2. LedgerInv => [TakeBackStep]_vars
  BY <1>1
<1> QED BY <1>2, LedgerInvariant, PTL DEF Spec, TakeBackNeverIndebts


-----------------------------------------------------------------------------
(* The attribution of a charge is what the loop of consumeLots computes.   *)

(* The order in which lots are used is strict and total.                   *)
LEMMA ConsumptionOrder ==
  ASSUME TypeOK
  PROVE  /\ \A i \in Lots : ~ ConsumedBefore(i, i)
         /\ \A i, j \in Lots : i # j => ConsumedBefore(i, j) \/ ConsumedBefore(j, i)
         /\ \A i, j, k \in Lots : ConsumedBefore(i, j) /\ ConsumedBefore(j, k) => ConsumedBefore(i, k)
<1>1. \A i \in Lots : i \in Int /\ lots[i].expires \in Nat
  BY DEF TypeOK, LotRow, Lots
<1> QED BY <1>1 DEF ConsumedBefore, Permanent

(* A change of one row changes the sum by as much.                         *)
LEMMA SumToOneRow ==
  ASSUME NEW n \in Nat, NEW f, NEW g, NEW i \in 1 .. n,
         \A j \in 1 .. n : f[j] \in Int /\ g[j] \in Int /\ (j # i => g[j] = f[j])
  PROVE  SumTo(g, n) = SumTo(f, n) + (g[i] - f[i])
<1> DEFINE T == {m \in Nat : m <= n => SumTo(g, m) = SumTo(f, m) + (IF i <= m THEN g[i] - f[i] ELSE 0)}
<1>1. 0 \in T
  <2>1. SumTo(f, 0) = 0 /\ SumTo(g, 0) = 0
    BY SumToStep
  <2> QED BY <2>1
<1>2. ASSUME NEW m \in Nat, m \in T PROVE m + 1 \in T
  <2> SUFFICES ASSUME m + 1 <= n
               PROVE  SumTo(g, m+1) = SumTo(f, m+1) + (IF i <= m + 1 THEN g[i] - f[i] ELSE 0)
    OBVIOUS
  <2>1. \A j \in 1 .. (m+1) : f[j] \in Int /\ g[j] \in Int
    OBVIOUS
  <2>2. m + 1 \in Nat /\ m + 1 > 0 /\ (m + 1) - 1 = m /\ m + 1 \in 1 .. n
    OBVIOUS
  <2>3. /\ SumTo(f, m+1) = SumTo(f, m) + f[m+1]
        /\ SumTo(g, m+1) = SumTo(g, m) + g[m+1]
    BY <2>1, <2>2, SumToStep
  <2>4. SumTo(f, m) \in Int /\ SumTo(g, m) \in Int
    BY <2>1, SumToStep
  <2>5. SumTo(g, m) = SumTo(f, m) + (IF i <= m THEN g[i] - f[i] ELSE 0)
    BY <1>2
  <2>6. CASE i = m + 1
    BY <2>2, <2>3, <2>4, <2>5, <2>6
  <2>7. CASE i # m + 1
    <3>1. g[m+1] = f[m+1] /\ (i <= m + 1 <=> i <= m)
      BY <2>2, <2>7
    <3> QED BY <2>2, <2>3, <2>4, <2>5, <3>1
  <2> QED BY <2>6, <2>7
<1>3. Nat \subseteq T
  <2> HIDE DEF T
  <2> QED BY <1>1, <1>2, NatSetInduction
<1> QED BY <1>3

(* Terms that are pairwise ordered and have the same sum are the same.     *)
LEMMA SumToEqual ==
  ASSUME NEW n \in Nat, NEW f, NEW g,
         \A i \in 1 .. n : f[i] \in Int /\ g[i] \in Int /\ f[i] <= g[i],
         SumTo(f, n) = SumTo(g, n)
  PROVE  \A i \in 1 .. n : f[i] = g[i]
<1> SUFFICES ASSUME NEW i \in 1 .. n, f[i] # g[i] PROVE FALSE
  OBVIOUS
<1> DEFINE h == [j \in 1 .. n |-> IF j = i THEN g[i] ELSE f[j]]
<1>1. \A j \in 1 .. n : h[j] \in Int /\ (j # i => h[j] = f[j]) /\ h[j] <= g[j]
  OBVIOUS
<1>2. h[i] = g[i]
  OBVIOUS
<1> HIDE DEF h
<1>3. SumTo(h, n) = SumTo(f, n) + (h[i] - f[i])
  BY <1>1, SumToOneRow
<1>4. SumTo(h, n) <= SumTo(g, n)
  BY <1>1, SumToMonotone
<1>5. SumTo(f, n) \in Int /\ SumTo(h, n) \in Int
  BY <1>1, SumToStep
<1> QED BY <1>2, <1>3, <1>4, <1>5

(* Two attributions of one charge are the same: where one takes more from  *)
(* a lot and less from another, it leaves the lot that is first unfilled.  *)
LEMMA AttributionUnique ==
  ASSUME TypeOK, NEW a, NEW m \in Nat, NEW f \in [Lots -> 0 .. m], NEW g \in [Lots -> 0 .. m],
         Attribution(a, m, f), Attribution(a, m, g)
  PROVE  f = g
<1> DEFINE open == RemainingIn(ActiveLots, a)
<1>1. \A i \in Lots : f[i] \in Nat /\ g[i] \in Nat /\ open[i] \in Nat
  BY RemainingNat
<1>2. /\ \A i \in Lots : f[i] <= open[i] /\ g[i] <= open[i]
      /\ \A i, j \in Lots : ConsumedBefore(i, j) /\ f[j] > 0 => f[i] = open[i]
      /\ \A i, j \in Lots : ConsumedBefore(i, j) /\ g[j] > 0 => g[i] = open[i]
      /\ SumTo(f, nlots) = SumTo(g, nlots)
  BY DEF Attribution
<1> HIDE DEF open
<1>3. ASSUME NEW i \in Lots, NEW j \in Lots, f[i] > g[i], g[j] > f[j] PROVE FALSE
  <2>1. i # j /\ f[i] > 0 /\ g[j] > 0
    BY <1>1, <1>3
  <2>2. CASE ConsumedBefore(i, j)
    <3>1. g[i] = open[i] /\ f[i] <= open[i]
      BY <1>2, <2>1, <2>2
    <3> QED BY <1>1, <1>3, <3>1
  <2>3. CASE ConsumedBefore(j, i)
    <3>1. f[j] = open[j] /\ g[j] <= open[j]
      BY <1>2, <2>1, <2>3
    <3> QED BY <1>1, <1>3, <3>1
  <2> QED BY <2>1, <2>2, <2>3, ConsumptionOrder
<1>4. nlots \in Nat /\ Lots = 1 .. nlots
  BY DEF TypeOK, Lots
<1>5. \/ \A i \in Lots : f[i] <= g[i]
      \/ \A i \in Lots : g[i] <= f[i]
  BY <1>1, <1>3
<1>6. \A i \in 1 .. nlots : f[i] = g[i]
  <2>1. CASE \A i \in Lots : f[i] <= g[i]
    <3>1. \A i \in 1 .. nlots : f[i] \in Int /\ g[i] \in Int /\ f[i] <= g[i]
      BY <1>1, <1>4, <2>1
    <3>2. SumTo(f, nlots) = SumTo(g, nlots)
      BY <1>2
    <3> QED BY ONLY <1>4, <3>1, <3>2, SumToEqual
  <2>2. CASE \A i \in Lots : g[i] <= f[i]
    <3>1. \A i \in 1 .. nlots : g[i] \in Int /\ f[i] \in Int /\ g[i] <= f[i]
      BY <1>1, <1>4, <2>2
    <3>2. SumTo(g, nlots) = SumTo(f, nlots)
      BY <1>2
    <3>3. \A i \in 1 .. nlots : g[i] = f[i]
      BY ONLY <1>4, <3>1, <3>2, SumToEqual
    <3> QED BY <3>3
  <2> QED BY <1>5, <2>1, <2>2
<1> QED BY <1>4, <1>6


\* The state of the loop of consumeLots, its start, and its round on row i.
LoopState(m) == [outstanding : 0 .. m, applied : [Lots -> 0 .. m]]

LoopStart(m) == [outstanding |-> m, applied |-> [i \in Lots |-> 0]]

LoopRound(s, i) ==
  LET taken == Smaller(s.outstanding, Remaining(i))
  IN  [outstanding |-> s.outstanding - taken, applied |-> [s.applied EXCEPT ![i] = taken]]

\* s lists the states of the loop over the rows q up to round n.
IsLoop(s, q, m, n) ==
  /\ s \in [0 .. n -> LoopState(m)]
  /\ s[0] = LoopStart(m)
  /\ \A k \in 1 .. n : s[k] = LoopRound(s[k-1], q[k])

LEMMA LotRemainingNat ==
  ASSUME TypeOK, LotStates
  PROVE  \A i \in Lots : Remaining(i) \in Nat
<1> SUFFICES ASSUME NEW i \in Lots PROVE Remaining(i) \in Nat
  OBVIOUS
<1> QED BY DEF TypeOK, LotStates, LotRow, Remaining

(* One round takes min(outstanding, remaining) from its row, nothing from  *)
(* the others.                                                             *)
LEMMA LoopRoundFacts ==
  ASSUME TypeOK, LotStates, NEW m \in Nat, NEW s \in LoopState(m), NEW i \in Lots
  PROVE  /\ LoopRound(s, i) \in LoopState(m)
         /\ LoopRound(s, i).applied[i] = Smaller(s.outstanding, Remaining(i))
         /\ LoopRound(s, i).outstanding = s.outstanding - Smaller(s.outstanding, Remaining(i))
         /\ \A j \in Lots : j # i => LoopRound(s, i).applied[j] = s.applied[j]
<1> DEFINE taken == Smaller(s.outstanding, Remaining(i))
<1>1. Remaining(i) \in Nat
  BY DEF TypeOK, LotStates, LotRow, Remaining
<1>2. s.outstanding \in 0 .. m /\ s.applied \in [Lots -> 0 .. m]
  BY DEF LoopState
<1>3. taken \in 0 .. m /\ s.outstanding - taken \in 0 .. m
  BY <1>1, <1>2 DEF Smaller
<1>4. LoopRound(s, i) = [outstanding |-> s.outstanding - taken, applied |-> [s.applied EXCEPT ![i] = taken]]
  BY DEF LoopRound
<1> HIDE DEF taken
<1>5. [s.applied EXCEPT ![i] = taken] \in [Lots -> 0 .. m]
  BY <1>2, <1>3
<1>6. LoopRound(s, i) \in LoopState(m)
  BY <1>3, <1>4, <1>5 DEF LoopState
<1>7. LoopRound(s, i).applied[i] = taken /\ LoopRound(s, i).outstanding = s.outstanding - taken
  BY <1>2, <1>4
<1>8. \A j \in Lots : j # i => LoopRound(s, i).applied[j] = s.applied[j]
  BY <1>2, <1>4
<1> QED BY <1>6, <1>7, <1>8 DEF taken

(* The loop over any rows runs to its end ...                              *)
LEMMA LoopExists ==
  ASSUME TypeOK, LotStates, NEW m \in Nat, NEW n \in Nat, NEW q \in [1 .. n -> Lots]
  PROVE  \E s : IsLoop(s, q, m, n)
<1> DEFINE T == {k \in Nat : k <= n => \E s : IsLoop(s, q, m, k)}
<1>1. 0 \in T
  <2> DEFINE z == [k \in 0 .. 0 |-> LoopStart(m)]
  <2>1. LoopStart(m) \in LoopState(m)
    BY DEF LoopStart, LoopState
  <2>2. IsLoop(z, q, m, 0)
    BY <2>1 DEF IsLoop
  <2> QED BY <2>2
<1>2. ASSUME NEW k \in Nat, k \in T PROVE k + 1 \in T
  <2> SUFFICES ASSUME k + 1 <= n PROVE \E s : IsLoop(s, q, m, k + 1)
    OBVIOUS
  <2>1. PICK s : IsLoop(s, q, m, k)
    BY <1>2
  <2> DEFINE r == LoopRound(s[k], q[k+1])
             t == [l \in 0 .. (k+1) |-> IF l = k + 1 THEN r ELSE s[l]]
  <2>2. IsLoop(t, q, m, k + 1)
    <3>1. /\ s \in [0 .. k -> LoopState(m)] /\ s[0] = LoopStart(m)
          /\ \A l \in 1 .. k : s[l] = LoopRound(s[l-1], q[l])
      BY <2>1 DEF IsLoop
    <3>2. q[k+1] \in Lots /\ s[k] \in LoopState(m)
      BY <3>1
    <3>3. r \in LoopState(m)
      BY <3>2, LoopRoundFacts
    <3> HIDE DEF r
    <3>4. t \in [0 .. (k+1) -> LoopState(m)]
      BY <3>1, <3>3
    <3>5. t[0] = LoopStart(m)
      BY <3>1
    <3>6. ASSUME NEW l \in 1 .. (k+1) PROVE t[l] = LoopRound(t[l-1], q[l])
      <4>1. CASE l = k + 1
        <5>1. t[l] = r /\ t[l-1] = s[k] /\ q[l] = q[k+1]
          BY <4>1
        <5> HIDE DEF t
        <5> QED BY <5>1 DEF r
      <4>2. CASE l # k + 1
        <5>1. l \in 1 .. k /\ t[l] = s[l] /\ t[l-1] = s[l-1]
          BY <4>2
        <5> HIDE DEF t
        <5> QED BY <3>1, <5>1
      <4> QED BY <4>1, <4>2
    <3> QED BY <3>4, <3>5, <3>6 DEF IsLoop
  <2> QED BY <2>2
<1>3. Nat \subseteq T
  <2> HIDE DEF T
  <2> QED BY <1>1, <1>2, NatSetInduction
<1> QED BY <1>3

(* ... and consumeLots is that loop.                                       *)
LEMMA ConsumeLotsIsLoop ==
  ASSUME TypeOK, LotStates, NEW m \in Nat, NEW n \in Nat, NEW q \in [1 .. n -> Lots]
  PROVE  IsLoop(consumeLots(q, m), q, m, n)
<1> DEFINE F(s) == [k \in {0} \cup DOMAIN q |->
                      IF k = 0 THEN LoopStart(m) ELSE LoopRound(s[k-1], q[k])]
           p == consumeLots(q, m)
<1>0. {0} \cup DOMAIN q = 0 .. n
  OBVIOUS
<1>1. \E s : s = F(s)
  <2>1. PICK s : IsLoop(s, q, m, n)
    BY LoopExists
  <2>2. \A k \in 0 .. n : s[k] = F(s)[k]
    BY <1>0, <2>1 DEF IsLoop
  <2>3. s = F(s)
    BY <1>0, <2>1, <2>2 DEF IsLoop
  <2> QED BY <2>3
<1>2. p = CHOOSE s : s = F(s)
  BY DEF consumeLots, LoopStart, LoopRound
<1>3. p = F(p)
  <2> HIDE DEF F, p
  <2> QED BY <1>1, <1>2
<1>4. p[0] = LoopStart(m) /\ \A k \in 1 .. n : p[k] = LoopRound(p[k-1], q[k])
  <2> HIDE DEF p
  <2>1. \A k \in 0 .. n : p[k] = IF k = 0 THEN LoopStart(m) ELSE LoopRound(p[k-1], q[k])
    BY <1>0, <1>3
  <2> QED BY <2>1
<1>5. \A k \in 0 .. n : p[k] \in LoopState(m)
  <2> HIDE DEF p
  <2> DEFINE T == {k \in Nat : k <= n => p[k] \in LoopState(m)}
  <2>1. 0 \in T
    BY <1>4 DEF LoopStart, LoopState
  <2>2. ASSUME NEW k \in Nat, k \in T PROVE k + 1 \in T
    <3> SUFFICES ASSUME k + 1 <= n PROVE p[k+1] \in LoopState(m)
      OBVIOUS
    <3>1. k + 1 \in 1 .. n /\ (k + 1) - 1 = k /\ q[k+1] \in Lots /\ p[k] \in LoopState(m)
      BY <2>2
    <3>2. p[k+1] = LoopRound(p[k], q[k+1])
      BY <1>4, <3>1
    <3> QED BY <3>1, <3>2, LoopRoundFacts
  <2>3. Nat \subseteq T
    <3> HIDE DEF T
    <3> QED BY <2>1, <2>2, NatSetInduction
  <2> QED BY <2>3
<1>6. p \in [0 .. n -> LoopState(m)]
  <2> HIDE DEF p
  <2> QED BY <1>0, <1>3, <1>5
<1> QED BY <1>4, <1>6 DEF IsLoop


\* What round k of the loop over q leaves: the rows so far hold their takings
\* and no other does, an amount still outstanding has emptied them, a row that
\* gave anything has the ones before it emptied, and nothing is lost.
LoopInv(s, q, m, k) ==
  /\ \A l \in 1 .. k : s.applied[q[l]] <= Remaining(q[l])
  /\ \A i \in Lots : (\A l \in 1 .. k : q[l] # i) => s.applied[i] = 0
  /\ s.outstanding > 0 => \A l \in 1 .. k : s.applied[q[l]] = Remaining(q[l])
  /\ \A l, h \in 1 .. k : l < h /\ s.applied[q[h]] > 0 => s.applied[q[l]] = Remaining(q[l])
  /\ SumTo(s.applied, nlots) = m - s.outstanding

LEMMA LoopStartInv ==
  ASSUME TypeOK, NEW m \in Nat, NEW q
  PROVE  LoopInv(LoopStart(m), q, m, 0)
<1> DEFINE z == [i \in Lots |-> 0]
<1>1. LoopStart(m).outstanding = m /\ LoopStart(m).applied = z
  BY DEF LoopStart
<1>2. nlots \in Nat /\ \A i \in 1 .. nlots : z[i] = 0
  BY DEF TypeOK, Lots
<1>3. \A i \in Lots : z[i] = 0
  OBVIOUS
<1> HIDE DEF z
<1>4. SumTo(z, nlots) = 0
  <2>1. \A i \in 1 .. nlots : z[i] \in Nat /\ z[i] = 0
    BY <1>2
  <2> QED BY <1>2, <2>1, SumToNat
<1> QED BY <1>1, <1>3, <1>4 DEF LoopInv

(* A round on a row the loop has not seen keeps the invariant.             *)
LEMMA LoopRoundInv ==
  ASSUME TypeOK, LotStates, NEW m \in Nat, NEW n \in Nat, NEW q \in [1 .. n -> Lots],
         \A k, l \in 1 .. n : k # l => q[k] # q[l],
         NEW k \in Nat, k + 1 <= n, NEW s \in LoopState(m), LoopInv(s, q, m, k)
  PROVE  LoopInv(LoopRound(s, q[k+1]), q, m, k + 1)
<1>0. PICK i \in Lots : i = q[k+1]
  OBVIOUS
<1>1. PICK r \in LoopState(m) : r = LoopRound(s, i)
  BY LoopRoundFacts
<1>2. /\ r.applied[i] = Smaller(s.outstanding, Remaining(i))
      /\ r.outstanding = s.outstanding - Smaller(s.outstanding, Remaining(i))
      /\ \A j \in Lots : j # i => r.applied[j] = s.applied[j]
  BY <1>1, LoopRoundFacts
<1>3. \A j \in Lots : Remaining(j) \in Nat
  BY LotRemainingNat
<1>4. /\ s.outstanding \in Nat /\ s.applied \in [Lots -> 0 .. m]
      /\ r.outstanding \in Nat /\ r.applied \in [Lots -> 0 .. m]
  BY DEF LoopState
<1>5. /\ \A l \in 1 .. k : s.applied[q[l]] <= Remaining(q[l])
      /\ \A j \in Lots : (\A l \in 1 .. k : q[l] # j) => s.applied[j] = 0
      /\ s.outstanding > 0 => \A l \in 1 .. k : s.applied[q[l]] = Remaining(q[l])
      /\ \A l, h \in 1 .. k : l < h /\ s.applied[q[h]] > 0 => s.applied[q[l]] = Remaining(q[l])
      /\ SumTo(s.applied, nlots) = m - s.outstanding
  BY DEF LoopInv
<1>6. /\ \A l \in 1 .. k : q[l] \in Lots /\ q[l] # i
      /\ \A l \in 1 .. (k+1) : l = k + 1 \/ l \in 1 .. k
      /\ k + 1 \in 1 .. (k+1)
  BY <1>0
<1>7. s.applied[i] = 0
  BY <1>5, <1>6
<1>8. \A l \in 1 .. k : r.applied[q[l]] = s.applied[q[l]]
  BY <1>2, <1>6
<1>9. ASSUME NEW l \in 1 .. (k+1) PROVE r.applied[q[l]] <= Remaining(q[l])
  <2>1. CASE l = k + 1
    BY <1>0, <1>2, <1>3, <1>4, <2>1 DEF Smaller
  <2>2. CASE l \in 1 .. k
    BY <1>5, <1>8, <2>2
  <2> QED BY <1>6, <2>1, <2>2
<1>10. ASSUME NEW j \in Lots, \A l \in 1 .. (k+1) : q[l] # j PROVE r.applied[j] = 0
  <2>1. j # i /\ \A l \in 1 .. k : q[l] # j
    BY <1>0, <1>6, <1>10
  <2> QED BY <1>2, <1>5, <2>1
<1>11. ASSUME r.outstanding > 0, NEW l \in 1 .. (k+1) PROVE r.applied[q[l]] = Remaining(q[l])
  <2>1. s.outstanding > 0 /\ Smaller(s.outstanding, Remaining(i)) = Remaining(i)
    BY <1>2, <1>3, <1>4, <1>11 DEF Smaller
  <2>2. CASE l = k + 1
    BY <1>0, <1>2, <2>1, <2>2
  <2>3. CASE l \in 1 .. k
    BY <1>5, <1>8, <2>1, <2>3
  <2> QED BY <1>6, <2>2, <2>3
<1>12. ASSUME NEW l \in 1 .. (k+1), NEW h \in 1 .. (k+1), l < h, r.applied[q[h]] > 0
       PROVE  r.applied[q[l]] = Remaining(q[l])
  <2>1. l \in 1 .. k
    BY <1>12
  <2>2. CASE h = k + 1
    <3>1. s.outstanding > 0
      BY <1>0, <1>2, <1>3, <1>4, <1>12, <2>2 DEF Smaller
    <3> QED BY <1>5, <1>8, <2>1, <3>1
  <2>3. CASE h \in 1 .. k
    BY <1>5, <1>8, <1>12, <2>1, <2>3
  <2> QED BY <1>6, <2>2, <2>3
<1>13. SumTo(r.applied, nlots) = m - r.outstanding
  <2>1. PICK f, g : f = s.applied /\ g = r.applied
    OBVIOUS
  <2>2. nlots \in Nat /\ Lots = 1 .. nlots
    BY DEF TypeOK, Lots
  <2>3. \A j \in Lots : f[j] \in Int /\ g[j] \in Int /\ (j # i => g[j] = f[j])
    BY <1>2, <1>4, <2>1
  <2>4. SumTo(g, nlots) = SumTo(f, nlots) + (g[i] - f[i])
    <3>1. i \in 1 .. nlots /\ \A j \in 1 .. nlots : f[j] \in Int /\ g[j] \in Int /\ (j # i => g[j] = f[j])
      BY <2>2, <2>3
    <3> QED BY ONLY <2>2, <3>1, SumToOneRow
  <2>5. g[i] = s.outstanding - r.outstanding /\ f[i] = 0
    BY <1>2, <1>3, <1>4, <1>7, <2>1 DEF Smaller
  <2>6. SumTo(f, nlots) = m - s.outstanding
    BY <1>5, <2>1
  <2>7. SumTo(g, nlots) = (m - s.outstanding) + ((s.outstanding - r.outstanding) - 0)
    BY <2>4, <2>5, <2>6
  <2>8. (m - s.outstanding) + ((s.outstanding - r.outstanding) - 0) = m - r.outstanding
    BY <1>4
  <2> QED BY <2>1, <2>7, <2>8
<1>14. LoopInv(r, q, m, k + 1)
  BY <1>9, <1>10, <1>11, <1>12, <1>13 DEF LoopInv
<1> QED BY <1>0, <1>1, <1>14

(* So the loop ends in it.                                                 *)
LEMMA LoopEndInv ==
  ASSUME TypeOK, LotStates, NEW m \in Nat, NEW n \in Nat, NEW q \in [1 .. n -> Lots],
         \A k, l \in 1 .. n : k # l => q[k] # q[l],
         NEW s, IsLoop(s, q, m, n)
  PROVE  LoopInv(s[n], q, m, n)
<1> DEFINE T == {k \in Nat : k <= n => LoopInv(s[k], q, m, k)}
<1>1. 0 \in T
  <2>1. s[0] = LoopStart(m)
    BY DEF IsLoop
  <2> QED BY <2>1, LoopStartInv
<1>2. ASSUME NEW k \in Nat, k \in T PROVE k + 1 \in T
  <2> SUFFICES ASSUME k + 1 <= n PROVE LoopInv(s[k+1], q, m, k + 1)
    OBVIOUS
  <2>1. k + 1 \in 1 .. n /\ (k + 1) - 1 = k /\ k \in 0 .. n /\ LoopInv(s[k], q, m, k)
    BY <1>2
  <2>2. s[k] \in LoopState(m) /\ s[k+1] = LoopRound(s[k], q[k+1])
    BY <2>1 DEF IsLoop
  <2>3. LoopInv(LoopRound(s[k], q[k+1]), q, m, k + 1)
    BY <2>1, <2>2, LoopRoundInv
  <2> QED BY <2>2, <2>3
<1>3. Nat \subseteq T
  <2> HIDE DEF T
  <2> QED BY <1>1, <1>2, NatSetInduction
<1>4. n \in T /\ n <= n
  BY <1>3
<1> QED BY <1>4


(* A walk visits every open lot of the account, and each once.             *)
LEMMA OpenLotsFinite ==
  ASSUME TypeOK, NEW a
  PROVE  OpenLots(a) \subseteq Lots /\ IsFiniteSet(OpenLots(a)) /\ Cardinality(OpenLots(a)) \in Nat
<1>1. OpenLots(a) \subseteq Lots
  BY DEF OpenLots, ActiveLots
<1>2. IsFiniteSet(Lots)
  <2>1. 1 \in Int /\ nlots \in Int
    BY DEF TypeOK
  <2> QED BY <2>1, FS_Interval DEF Lots
<1>3. IsFiniteSet(OpenLots(a))
  BY <1>1, <1>2, FS_Subset
<1> QED BY <1>1, <1>3, FS_CardinalityType

LEMMA WalkVisits ==
  ASSUME TypeOK, NEW a, NEW q \in Walks(a), NEW n, n = Cardinality(OpenLots(a))
  PROVE  /\ n \in Nat
         /\ q \in [1 .. n -> OpenLots(a)]
         /\ \A k, l \in 1 .. n : k < l => ConsumedBefore(q[k], q[l])
         /\ \A k, l \in 1 .. n : k # l => q[k] # q[l]
         /\ \A i \in OpenLots(a) : \E k \in 1 .. n : q[k] = i
<1>1. OpenLots(a) \subseteq Lots /\ IsFiniteSet(OpenLots(a)) /\ n \in Nat
  BY OpenLotsFinite
<1>2. q \in [1 .. n -> OpenLots(a)] /\ \A k, l \in 1 .. n : k < l => ConsumedBefore(q[k], q[l])
  BY DEF Walks
<1>3. \A k, l \in 1 .. n : k # l => q[k] # q[l]
  <2> SUFFICES ASSUME NEW k \in 1 .. n, NEW l \in 1 .. n, k # l, q[k] = q[l] PROVE FALSE
    OBVIOUS
  <2>1. k < l \/ l < k
    BY <1>1
  <2>2. q[k] \in Lots /\ ConsumedBefore(q[k], q[k])
    BY <1>1, <1>2, <2>1
  <2> QED BY <2>2, ConsumptionOrder
<1>4. Cardinality(1 .. n) = Cardinality(OpenLots(a))
  <2>1. 1 \in Int /\ n \in Int
    BY <1>1
  <2>2. Cardinality(1 .. n) = IF 1 > n THEN 0 ELSE n - 1 + 1
    BY <2>1, FS_Interval
  <2> QED BY <1>1, <2>2
<1>5. q \in Injection(1 .. n, OpenLots(a))
  BY <1>2, <1>3 DEF Injection, IsInjective
<1>6. q \in Surjection(1 .. n, OpenLots(a))
  BY <1>1, <1>4, <1>5, FS_Injection
<1>7. \A i \in OpenLots(a) : \E k \in 1 .. n : q[k] = i
  BY <1>6 DEF Surjection
<1> QED BY <1>1, <1>2, <1>3, <1>7

(* The rank of a lot among the open ones orders them, so a walk exists.    *)
LEMMA WalkExists ==
  ASSUME TypeOK, NEW a
  PROVE  Walks(a) # {}
<1>0. PICK S : S = OpenLots(a)
  OBVIOUS
<1>1. PICK n \in Nat : n = Cardinality(S)
  BY <1>0, OpenLotsFinite
<1>2. S \subseteq Lots /\ IsFiniteSet(S)
  BY <1>0, OpenLotsFinite
<1> DEFINE Before(i) == {j \in S : ConsumedBefore(j, i)}
           rank == [i \in S |-> Cardinality(Before(i)) + 1]
<1>3. \A i \in S : i \notin Before(i)
  BY <1>2, ConsumptionOrder
<1>4. \A i \in S : IsFiniteSet(Before(i)) /\ Cardinality(Before(i)) \in Nat /\ Cardinality(Before(i)) < n
  <2> TAKE i \in S
  <2>1. Before(i) \in SUBSET S /\ Before(i) # S
    BY <1>3
  <2> HIDE DEF Before
  <2>2. IsFiniteSet(Before(i)) /\ Cardinality(Before(i)) <= n /\ Cardinality(Before(i)) # n
    BY <1>1, <1>2, <2>1, FS_Subset
  <2>3. Cardinality(Before(i)) \in Nat
    BY <2>2, FS_CardinalityType
  <2> QED BY <2>2, <2>3
<1>5. ASSUME NEW i \in S, NEW j \in S, ConsumedBefore(i, j) PROVE rank[i] < rank[j]
  <2>1. Before(i) \subseteq Before(j)
    BY <1>2, <1>5, ConsumptionOrder
  <2>2. i \in Before(j) /\ i \notin Before(i)
    BY <1>3, <1>5
  <2>3. rank[i] = Cardinality(Before(i)) + 1 /\ rank[j] = Cardinality(Before(j)) + 1
    OBVIOUS
  <2> HIDE DEF Before, rank
  <2>4. Before(i) \in SUBSET Before(j) /\ Before(i) # Before(j)
    BY <2>1, <2>2
  <2>5. Cardinality(Before(i)) <= Cardinality(Before(j)) /\ Cardinality(Before(i)) # Cardinality(Before(j))
    BY <1>4, <2>4, FS_Subset
  <2> QED BY <1>4, <2>3, <2>5
<1>6. rank \in [S -> 1 .. n]
  <2>1. \A i \in S : Cardinality(Before(i)) + 1 \in 1 .. n
    <3> HIDE DEF Before
    <3> QED BY <1>4
  <2> HIDE DEF Before
  <2> QED BY <2>1
<1> HIDE DEF Before, rank
<1>7. \A i, j \in S : i # j => rank[i] # rank[j]
  <2> SUFFICES ASSUME NEW i \in S, NEW j \in S, i # j PROVE rank[i] # rank[j]
    OBVIOUS
  <2>1. ConsumedBefore(i, j) \/ ConsumedBefore(j, i)
    BY <1>2, ConsumptionOrder
  <2>2. rank[i] \in Int /\ rank[j] \in Int
    BY <1>6
  <2> QED BY <1>5, <2>1, <2>2
<1>8. \A k \in 1 .. n : \E i \in S : rank[i] = k
  <2>1. IsFiniteSet(1 .. n) /\ Cardinality(1 .. n) = n
    <3>1. 1 \in Int /\ n \in Int
      OBVIOUS
    <3>2. IsFiniteSet(1 .. n) /\ Cardinality(1 .. n) = IF 1 > n THEN 0 ELSE n - 1 + 1
      BY <3>1, FS_Interval
    <3> QED BY <3>2
  <2>2. rank \in Injection(S, 1 .. n)
    BY <1>6, <1>7 DEF Injection, IsInjective
  <2>3. rank \in Surjection(S, 1 .. n)
    BY <1>1, <2>1, <2>2, FS_Injection
  <2> QED BY <2>3 DEF Surjection
<1> DEFINE q == [k \in 1 .. n |-> CHOOSE i \in S : rank[i] = k]
<1>9. \A k \in 1 .. n : q[k] \in S /\ rank[q[k]] = k
  BY <1>8
<1>10. q \in [1 .. n -> S]
  BY <1>9
<1>11. ASSUME NEW k \in 1 .. n, NEW l \in 1 .. n, k < l PROVE ConsumedBefore(q[k], q[l])
  <2>1. q[k] \in S /\ q[l] \in S /\ rank[q[k]] = k /\ rank[q[l]] = l
    BY <1>9
  <2> HIDE DEF q
  <2>2. q[k] # q[l]
    BY <1>11, <2>1
  <2>3. ConsumedBefore(q[k], q[l]) \/ ConsumedBefore(q[l], q[k])
    BY <1>2, <2>1, <2>2, ConsumptionOrder
  <2>4. CASE ConsumedBefore(q[l], q[k])
    <3>1. l < k
      BY <1>5, <2>1, <2>4
    <3> QED BY <1>11, <3>1
  <2> QED BY <2>3, <2>4
<1>12. q \in Walks(a)
  <2>1. DOMAIN q = 1 .. n
    OBVIOUS
  <2> HIDE DEF q
  <2> QED BY <1>0, <1>1, <1>10, <1>11, <2>1 DEF Walks
<1> QED BY <1>12


(* Where the loop over a walk ends, the charge is attributed: soonest      *)
(* expiry first, and to no lot what exceeds all of them.                   *)
LEMMA LoopAttributes ==
  ASSUME TypeOK, LotStates, NEW a, NEW m \in Nat, NEW q \in Walks(a), NEW n, n = Cardinality(OpenLots(a))
  PROVE  /\ consumeLots(q, m)[n].applied \in [Lots -> 0 .. m]
         /\ Attribution(a, m, consumeLots(q, m)[n].applied)
<1>1. /\ n \in Nat
      /\ q \in [1 .. n -> OpenLots(a)]
      /\ \A k, l \in 1 .. n : k < l => ConsumedBefore(q[k], q[l])
      /\ \A k, l \in 1 .. n : k # l => q[k] # q[l]
      /\ \A i \in OpenLots(a) : \E k \in 1 .. n : q[k] = i
  BY WalkVisits
<1>2. OpenLots(a) \subseteq Lots
  BY OpenLotsFinite
<1>3. q \in [1 .. n -> Lots]
  BY <1>1, <1>2
<1>4. IsLoop(consumeLots(q, m), q, m, n)
  BY <1>1, <1>3, ConsumeLotsIsLoop
<1>5. PICK s : s = consumeLots(q, m)[n]
  OBVIOUS
<1>6. s \in LoopState(m) /\ LoopInv(s, q, m, n)
  <2>1. n \in 0 .. n
    BY <1>1
  <2>2. s \in LoopState(m)
    BY <1>4, <1>5, <2>1 DEF IsLoop
  <2> QED BY <1>1, <1>3, <1>4, <1>5, <2>2, LoopEndInv
<1>7. PICK f \in [Lots -> 0 .. m] : f = s.applied
  BY <1>6 DEF LoopState
<1>8. PICK left \in Nat : left = s.outstanding
  BY <1>6 DEF LoopState
<1>9. /\ \A l \in 1 .. n : f[q[l]] <= Remaining(q[l])
      /\ \A i \in Lots : (\A l \in 1 .. n : q[l] # i) => f[i] = 0
      /\ left > 0 => \A l \in 1 .. n : f[q[l]] = Remaining(q[l])
      /\ \A l, h \in 1 .. n : l < h /\ f[q[h]] > 0 => f[q[l]] = Remaining(q[l])
      /\ SumTo(f, nlots) = m - left
  BY <1>6, <1>7, <1>8 DEF LoopInv
<1>10. PICK open : open = RemainingIn(ActiveLots, a)
  OBVIOUS
<1>11. \A i \in Lots : /\ open[i] \in Nat
                       /\ i \in OpenLots(a) => open[i] = Remaining(i)
                       /\ i \notin OpenLots(a) => open[i] = 0
  <2> TAKE i \in Lots
  <2>1. Remaining(i) \in Nat
    BY LotRemainingNat
  <2>2. open[i] = IF i \in ActiveLots /\ lots[i].account = a THEN Larger(Remaining(i), 0) ELSE 0
    BY <1>10 DEF RemainingIn
  <2>3. i \in OpenLots(a) <=> i \in ActiveLots /\ lots[i].account = a /\ Remaining(i) > 0
    BY DEF OpenLots
  <2> HIDE DEF Remaining
  <2> QED BY <2>1, <2>2, <2>3 DEF Larger
<1>12. \A i \in Lots : i \notin OpenLots(a) => f[i] = 0
  BY <1>1, <1>9
<1>13. ASSUME NEW i \in Lots PROVE f[i] <= open[i] /\ (left > 0 => f[i] = open[i])
  <2>1. CASE i \in OpenLots(a)
    <3>1. PICK k \in 1 .. n : q[k] = i
      BY <1>1, <2>1
    <3> QED BY <1>9, <1>11, <2>1, <3>1
  <2>2. CASE i \notin OpenLots(a)
    BY <1>11, <1>12, <2>2
  <2> QED BY <2>1, <2>2
<1>14. ASSUME NEW i \in Lots, NEW j \in Lots, ConsumedBefore(i, j), f[j] > 0 PROVE f[i] = open[i]
  <2>1. j \in OpenLots(a)
    BY <1>12, <1>14
  <2>2. CASE i \notin OpenLots(a)
    BY <1>11, <1>12, <2>2
  <2>3. CASE i \in OpenLots(a)
    <3>1. PICK k \in 1 .. n : q[k] = i
      BY <1>1, <2>3
    <3>2. PICK l \in 1 .. n : q[l] = j
      BY <1>1, <2>1
    <3>3. ~ (l < k)
      <4> SUFFICES ASSUME l < k PROVE FALSE
        OBVIOUS
      <4>1. ConsumedBefore(j, i)
        BY <1>1, <3>1, <3>2
      <4>2. ConsumedBefore(i, i)
        BY <1>14, <4>1, ConsumptionOrder
      <4> QED BY <4>2, ConsumptionOrder
    <3>4. l # k
      <4> SUFFICES ASSUME l = k PROVE FALSE
        OBVIOUS
      <4>1. ConsumedBefore(i, i)
        BY <1>14, <3>1, <3>2
      <4> QED BY <4>1, ConsumptionOrder
    <3>5. k < l
      BY <1>1, <3>3, <3>4
    <3> QED BY <1>9, <1>11, <1>14, <2>3, <3>1, <3>2, <3>5
  <2> QED BY <2>2, <2>3
<1>15. SumTo(f, nlots) = Smaller(m, AvailableLots(a))
  <2>1. nlots \in Nat /\ Lots = 1 .. nlots /\ AvailableLots(a) = SumTo(open, nlots)
    BY <1>10 DEF TypeOK, Lots, AvailableLots, RemainingTotal
  <2>2. \A i \in 1 .. nlots : f[i] \in Int /\ open[i] \in Int /\ f[i] <= open[i]
    BY <1>11, <1>13, <2>1
  <2>3. SumTo(f, nlots) <= SumTo(open, nlots)
    BY ONLY <2>1, <2>2, SumToMonotone
  <2>4. SumTo(open, nlots) \in Int
    BY ONLY <2>1, <2>2, SumToStep
  <2>5. CASE left = 0
    BY <1>9, <2>1, <2>3, <2>4, <2>5 DEF Smaller
  <2>6. CASE left > 0
    <3>1. \A i \in 1 .. nlots : f[i] \in Int /\ f[i] = open[i]
      BY <1>13, <2>1, <2>2, <2>6
    <3>2. SumTo(f, nlots) = SumTo(open, nlots)
      BY ONLY <2>1, <3>1, SumToCong
    <3> QED BY <1>9, <2>1, <2>4, <2>6, <3>2 DEF Smaller
  <2> QED BY <2>5, <2>6
<1>16. Attribution(a, m, f)
  BY <1>10, <1>13, <1>14, <1>15 DEF Attribution
<1> QED BY <1>5, <1>7, <1>16

(* What a charge attributes to the lots is what the loop of consumeLots    *)
(* computes: its rows can always be walked soonest expiry first, and for   *)
(* every amount the attribution of the model exists, is unique and is the  *)
(* one the loop's last round leaves.                                       *)
THEOREM ChargesFollowTheLoop == Spec => []AttributionIsTheLoop
<1>1. ASSUME LedgerInv PROVE AttributionIsTheLoop
  <2>1. TypeOK /\ LotStates
    BY <1>1 DEF LedgerInv
  <2> SUFFICES ASSUME NEW a \in Account, NEW m \in Amount
               PROVE  /\ Walks(a) # {}
                      /\ \A q \in Walks(a) :
                           {applied \in [Lots -> 0 .. m] : Attribution(a, m, applied)}
                             = {consumeLots(q, m)[Cardinality(OpenLots(a))].applied}
    BY DEF AttributionIsTheLoop
  <2>2. m \in Nat
    BY LedgerAssumption
  <2>3. ASSUME NEW q \in Walks(a)
        PROVE  {applied \in [Lots -> 0 .. m] : Attribution(a, m, applied)}
                 = {consumeLots(q, m)[Cardinality(OpenLots(a))].applied}
    <3>1. PICK f : f = consumeLots(q, m)[Cardinality(OpenLots(a))].applied
      OBVIOUS
    <3>2. f \in [Lots -> 0 .. m] /\ Attribution(a, m, f)
      BY <2>1, <2>2, <3>1, LoopAttributes
    <3>3. \A g \in [Lots -> 0 .. m] : Attribution(a, m, g) => g = f
      BY <2>1, <2>2, <3>2, AttributionUnique
    <3>4. {applied \in [Lots -> 0 .. m] : Attribution(a, m, applied)} = {f}
      BY <3>2, <3>3
    <3> QED BY <3>1, <3>4
  <2> QED BY <2>1, <2>3, WalkExists
<1>2. LedgerInv => AttributionIsTheLoop
  BY <1>1
<1> QED BY <1>2, LedgerInvariant, PTL
=============================================================================
