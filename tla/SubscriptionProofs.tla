------------------------- MODULE SubscriptionProofs -------------------------
(***************************************************************************)
(* Subscription purchases for any users, plans and orders and any number   *)
(* of callers, janitors and gates: the safety properties of Subscription.  *)
(***************************************************************************)
EXTENDS Subscription, TLAPS, FiniteSetTheorems, WellFoundedInduction

\* A job that is busy has an order, and goes to open the subscription only
\* after the charge of that order has been recorded.
JobsAreKnown ==
  \A j \in Job : jobs[j].pc # "idle" =>
    /\ jobs[j].order \in Order
    /\ jobs[j].pc = "finalize" => orders[jobs[j].order].debited

\* The counters of a plan are its open and its paid orders, within the limit
\* it has and within the one that an administrator is about to set.
Ordered(p) == {o \in Order : planOf[o] = p}

CountersAreExact ==
  \A p \in Plan :
    /\ plans[p].reserved = Cardinality(Open \cap Ordered(p))
    /\ plans[p].sold = Cardinality(Paid \cap Ordered(p))
    /\ \A n \in {plans[p].limit, plans[p].edit} :
         n > 0 => plans[p].sold + plans[p].reserved <= n

\* An open order takes the place in the queue that it will have once it is
\* paid.
Mine(u, p) == {o \in Of(u) : planOf[o] = p}

Waiting(u)   == (LiveIn(subs) \cup Open) \cap Of(u)
Queued(u, p) == {o \in Mine(u, p) : o \in Open \/ subs[o].status = "pending"}

PlacesAreLimited ==
  \A u \in User :
    /\ Cardinality(Waiting(u)) <= 1 + MaxQueue
    /\ \A p \in Plan : Cardinality(Queued(u, p)) <= 1

\* What its buyer had bought of the plan before an order: all that is paid
\* while the order is open, and no more after it has been paid itself.  The
\* order stays within the policy it was accepted under.
Earlier(o) ==
  {p \in Paid \cap Mine(buyer[o], planOf[o]) :
     p # o /\ (o \in Open \/ subs[p].seq <= subs[o].seq)}

PoliciesHold ==
  \A o \in Open \cup Paid : WithinPolicy(orders[o].policy, Earlier(o), orders[o].at)

SeqsAreCounted ==
  \A o \in Paid : subs[o].seq <= Cardinality(Paid)

SubscriptionInv ==
  /\ TypeOK
  /\ JobsAreKnown
  /\ PaidOrdersAreServed
  /\ CountersAreExact
  /\ PlacesAreLimited
  /\ PoliciesHold
  /\ SeqsAreCounted

-----------------------------------------------------------------------------
(* The queue of a user. *)

Less == {ss \in Nat \X Nat : ss[1] < ss[2]}

LEMMA LessIsWellFounded == IsWellFoundedOn(Less, Nat)
  BY NatLessThanWellFounded DEF OpToRel, Less

\* A non-empty set has an element of the least, and one of the greatest
\* number, where the numbers are bounded.
LEMMA LeastExists ==
  ASSUME NEW A, A # {}, NEW f, \A o \in A : f[o] \in Nat
  PROVE  \E o \in A : \A p \in A : f[o] <= f[p]
<1> DEFINE N == {f[o] : o \in A}
<1>1. N \subseteq Nat /\ N # {}
  OBVIOUS
<1>2. PICK n \in N : \A m \in N : ~ (<<m, n>> \in Less)
  <2> HIDE DEF N
  <2> QED BY <1>1, WFMin, LessIsWellFounded
<1>3. PICK o \in A : n = f[o]
  OBVIOUS
<1>4. ASSUME NEW p \in A PROVE f[o] <= f[p]
  <2>1. ~ (<<f[p], f[o]>> \in Less)
    BY <1>2, <1>3
  <2> QED BY <2>1 DEF Less
<1> QED BY <1>4

LEMMA GreatestExists ==
  ASSUME NEW A, A # {}, NEW f, NEW n \in Nat, \A o \in A : f[o] \in 0 .. n
  PROVE  \E o \in A : \A p \in A : f[p] <= f[o]
<1> DEFINE g == [o \in A |-> n - f[o]]
<1>1. \A o \in A : g[o] \in Nat /\ g[o] = n - f[o]
  OBVIOUS
<1> HIDE DEF g
<1>2. PICK o \in A : \A p \in A : g[o] <= g[p]
  BY <1>1, LeastExists
<1>3. ASSUME NEW p \in A PROVE f[p] <= f[o]
  BY <1>1, <1>2
<1> QED BY <1>3

LEMMA OrderCount == Cardinality(Order) \in Nat
  BY SubscriptionAssumption, FS_CardinalityType

\* What classifyLiveSubscriptions finds is an order of the user, if anything.
LEMMA QueueFacts ==
  ASSUME NEW s \in [Order -> SubRow], NEW u \in User
  PROVE  /\ LastActive(s, u) \in Order \cup {NoOrder}
         /\ FirstPending(s, u) \in Order \cup {NoOrder}
         /\ LastActive(s, u) \in Order => s[LastActive(s, u)].status = "active"
         /\ FirstPending(s, u) \in Order => s[FirstPending(s, u)].status = "pending"
<1> DEFINE A == {o \in Of(u) : s[o].status = "active"}
           P == {o \in Of(u) : s[o].status = "pending"}
           f == [o \in Order |-> s[o].seq]
<1>1. \A o \in Order : f[o] \in 0 .. Cardinality(Order) /\ f[o] \in Nat
  BY OrderCount DEF SubRow
<1>2. A \subseteq Order /\ P \subseteq Order
  BY DEF Of
<1>3. A # {} => LastActive(s, u) \in A
  <2> SUFFICES ASSUME A # {} PROVE LastActive(s, u) \in A
    OBVIOUS
  <2>1. \E o \in A : \A p \in A : f[p] <= f[o]
    <3> HIDE DEF A, f
    <3> QED BY <1>1, <1>2, OrderCount, GreatestExists
  <2>2. \E o \in A : \A p \in A : s[p].seq <= s[o].seq
    BY <1>2, <2>1
  <2> QED BY <2>2 DEF LastActive
<1>4. P # {} => FirstPending(s, u) \in P
  <2> SUFFICES ASSUME P # {} PROVE FirstPending(s, u) \in P
    OBVIOUS
  <2>1. \E o \in P : \A p \in P : f[o] <= f[p]
    <3> HIDE DEF P, f
    <3> QED BY <1>1, <1>2, LeastExists
  <2>2. \E o \in P : \A p \in P : s[o].seq <= s[p].seq
    BY <1>2, <2>1
  <2> QED BY <2>2 DEF FirstPending
<1>5. A = {} => LastActive(s, u) = NoOrder
  BY DEF LastActive
<1>6. P = {} => FirstPending(s, u) = NoOrder
  BY DEF FirstPending
<1> QED BY <1>2, <1>3, <1>4, <1>5, <1>6, SubscriptionAssumption

\* How a subscription may have moved on: from the queue to use to its end.
Later(x, y) ==
  /\ y.seq = x.seq
  /\ y.status = "none" <=> x.status = "none"
  /\ y.status = "pending" => x.status = "pending"
  /\ x.status = "active" => y.status \in {"active", "expired"}
  /\ x.status = "expired" => y = x

AllLater(s, r) == \A o \in Order : Later(s[o], r[o])

LEMMA LaterFacts ==
  /\ \A x : Later(x, x)
  /\ \A x, y, z : Later(x, y) /\ Later(y, z) => Later(x, z)
  /\ \A x, y \in SubRow : Later(x, y) /\ y.status \in {"pending", "active"}
                            => x.status \in {"pending", "active"}
<1>1. \A x : Later(x, x)
  BY DEF Later
<1>2. ASSUME NEW x, NEW y, NEW z, Later(x, y), Later(y, z) PROVE Later(x, z)
  BY <1>2 DEF Later
<1>3. ASSUME NEW x \in SubRow, NEW y \in SubRow, Later(x, y), y.status \in {"pending", "active"}
      PROVE  x.status \in {"pending", "active"}
  BY <1>3 DEF Later, SubRow
<1> QED BY <1>1, <1>2, <1>3

\* A row with another status.
LEMMA SubStatus ==
  ASSUME NEW x \in SubRow, NEW st \in {"none", "pending", "active", "expired"}
  PROVE  /\ [x EXCEPT !.status = st] \in SubRow
         /\ [x EXCEPT !.status = st].status = st
         /\ [x EXCEPT !.status = st].seq = x.seq
  BY SMT DEF SubRow

\* Expiry and activation move rows on ...
LEMMA ExpireFacts ==
  ASSUME NEW s \in [Order -> SubRow], NEW o \in Order \cup {NoOrder}
  PROVE  Expire(s, o) \in [Order -> SubRow] /\ AllLater(s, Expire(s, o))
<1>1. CASE Expire(s, o) = s
  BY <1>1, LaterFacts DEF AllLater
<1>2. CASE o \in Order /\ s[o].status = "active" /\ Expire(s, o) = [s EXCEPT ![o].status = "expired"]
  <2> DEFINE x == [s[o] EXCEPT !.status = "expired"]
  <2>1. x \in SubRow /\ x.status = "expired" /\ x.seq = s[o].seq
    BY <1>2, SubStatus
  <2>2. Expire(s, o) = [s EXCEPT ![o] = x]
    BY <1>2
  <2> HIDE DEF x
  <2>3. Later(s[o], x)
    BY <1>2, <2>1 DEF Later
  <2> QED BY <1>2, <2>1, <2>2, <2>3, LaterFacts DEF AllLater
<1> QED BY <1>1, <1>2 DEF Expire

LEMMA ActivateFacts ==
  ASSUME NEW s \in [Order -> SubRow], NEW o \in Order \cup {NoOrder}
  PROVE  Activate(s, o) \in [Order -> SubRow] /\ AllLater(s, Activate(s, o))
<1>1. CASE Activate(s, o) = s
  BY <1>1, LaterFacts DEF AllLater
<1>2. CASE o \in Order /\ s[o].status = "pending" /\ Activate(s, o) = [s EXCEPT ![o].status = "active"]
  <2> DEFINE x == [s[o] EXCEPT !.status = "active"]
  <2>1. x \in SubRow /\ x.status = "active" /\ x.seq = s[o].seq
    BY <1>2, SubStatus
  <2>2. Activate(s, o) = [s EXCEPT ![o] = x]
    BY <1>2
  <2> HIDE DEF x
  <2>3. Later(s[o], x)
    BY <1>2, <2>1 DEF Later
  <2> QED BY <1>2, <2>1, <2>2, <2>3, LaterFacts DEF AllLater
<1> QED BY <1>1, <1>2 DEF Activate

\* ... and so does advanceLiveSubscriptions.
LEMMA AdvanceFacts ==
  ASSUME TypeOK, NEW u \in User
  PROVE  AdvanceLive(u) \in [Order -> SubRow] /\ AllLater(subs, AdvanceLive(u))
<1> DEFINE e == Expire(subs, LastActive(subs, u))
           f == FirstPending(subs, u)
<1>1. subs \in [Order -> SubRow]
  BY DEF TypeOK
<1>2. LastActive(subs, u) \in Order \cup {NoOrder} /\ f \in Order \cup {NoOrder}
  BY <1>1, QueueFacts
<1>3. e \in [Order -> SubRow] /\ AllLater(subs, e)
  BY <1>1, <1>2, ExpireFacts
<1>4. AdvanceLive(u) = e \/ AdvanceLive(u) = Activate(e, f)
  BY DEF AdvanceLive
<1> HIDE DEF e, f
<1>5. Activate(e, f) \in [Order -> SubRow] /\ AllLater(e, Activate(e, f))
  BY <1>2, <1>3, ActivateFacts
<1>6. AllLater(subs, Activate(e, f))
  BY <1>3, <1>5, LaterFacts DEF AllLater
<1> QED BY <1>3, <1>4, <1>5, <1>6

-----------------------------------------------------------------------------
(* Counting orders. *)

LEMMA Counts ==
  ASSUME NEW S \in SUBSET Order
  PROVE  /\ IsFiniteSet(S) /\ Cardinality(S) \in Nat
         /\ \A T \in SUBSET S : Cardinality(T) <= Cardinality(S)
<1>1. IsFiniteSet(S)
  BY SubscriptionAssumption, FS_Subset
<1> QED BY <1>1, FS_CardinalityType, FS_Subset

LEMMA CountOneMore ==
  ASSUME NEW S \in SUBSET Order, NEW o \in Order
  PROVE  /\ o \notin S => Cardinality(S \cup {o}) = Cardinality(S) + 1
         /\ Cardinality(S \cup {o}) <= Cardinality(S) + 1
         /\ o \in S => Cardinality(S \ {o}) = Cardinality(S) - 1
         /\ o \in S => Cardinality(S) >= 1
<1>1. IsFiniteSet(S) /\ Cardinality(S) \in Nat
  BY Counts
<1>2. Cardinality(S \cup {o}) = IF o \in S THEN Cardinality(S) ELSE Cardinality(S) + 1
  BY <1>1, FS_AddElement
<1>3. Cardinality(S \ {o}) = IF o \in S THEN Cardinality(S) - 1 ELSE Cardinality(S)
  BY <1>1, FS_RemoveElement
<1>4. o \in S => Cardinality(S) >= 1
  <2>1. Cardinality(S \ {o}) \in Nat
    BY Counts
  <2> QED BY <1>1, <1>3, <2>1
<1> QED BY <1>1, <1>2, <1>3, <1>4

LEMMA CountUnion ==
  ASSUME NEW S \in SUBSET Order, NEW T \in SUBSET Order
  PROVE  Cardinality(S \cup T) <= Cardinality(S) + Cardinality(T)
<1>1. /\ IsFiniteSet(S) /\ IsFiniteSet(T) /\ Cardinality(S) \in Nat /\ Cardinality(T) \in Nat
      /\ Cardinality(S \cap T) \in Nat
  BY Counts
<1>2. Cardinality(S \cup T) = Cardinality(S) + Cardinality(T) - Cardinality(S \cap T)
  BY <1>1, FS_Union
<1> QED BY <1>1, <1>2

-----------------------------------------------------------------------------
(* What a step that reserves nothing and decides nothing keeps. *)

SameOrder(o) ==
  /\ orders'[o].status \in {"created", "deducting"} <=> orders[o].status \in {"created", "deducting"}
  /\ orders'[o].status = "paid" <=> orders[o].status = "paid"
  /\ orders[o].status = "failed" => orders'[o].status = "failed"
  /\ orders[o].debited => orders'[o].debited
  /\ orders'[o].at = orders[o].at /\ orders'[o].policy = orders[o].policy

ChargedRight(o) == debits'[o] = One(orders'[o].debited)

SamePlan(p) ==
  /\ plans'[p].reserved = plans[p].reserved /\ plans'[p].sold = plans[p].sold
  /\ \A n \in {plans'[p].limit, plans'[p].edit} : n > 0 => plans[p].sold + plans[p].reserved <= n

QuietStep ==
  /\ TypeOK' /\ JobsAreKnown'
  /\ \A o \in Order : SameOrder(o) /\ ChargedRight(o)
  /\ AllLater(subs, subs')
  /\ \A p \in Plan : SamePlan(p)

LEMMA QuietServes ==
  ASSUME SubscriptionInv, QuietStep
  PROVE  PaidOrdersAreServed'
<1> SUFFICES ASSUME NEW o \in Order
             PROVE  /\ subs'[o].status # "none" <=> orders'[o].status = "paid"
                    /\ orders'[o].status = "paid" => orders'[o].debited
                    /\ debits'[o] = One(orders'[o].debited)
  BY DEF PaidOrdersAreServed, Paid
<1>1. /\ SameOrder(o) /\ ChargedRight(o) /\ Later(subs[o], subs'[o])
  BY DEF QuietStep, AllLater
<1>2. /\ subs[o].status # "none" <=> orders[o].status = "paid"
      /\ orders[o].status = "paid" => orders[o].debited
  BY DEF SubscriptionInv, PaidOrdersAreServed, Paid
<1>3. subs'[o].status # "none" <=> orders'[o].status = "paid"
  BY <1>1, <1>2, Zenon DEF SameOrder, Later
<1>4. orders'[o].status = "paid" => orders'[o].debited
  BY <1>1, <1>2, Zenon DEF SameOrder
<1> QED BY <1>1, <1>3, <1>4 DEF ChargedRight

LEMMA QuietSets ==
  ASSUME SubscriptionInv, QuietStep
  PROVE  Open' = Open /\ Paid' = Paid
  BY DEF QuietStep, SameOrder, Open, Paid

LEMMA QuietCounts ==
  ASSUME SubscriptionInv, QuietStep
  PROVE  CountersAreExact'
<1> SUFFICES ASSUME NEW p \in Plan
             PROVE  /\ plans'[p].reserved = Cardinality(Open' \cap Ordered(p))
                    /\ plans'[p].sold = Cardinality(Paid' \cap Ordered(p))
                    /\ \A n \in {plans'[p].limit, plans'[p].edit} :
                         n > 0 => plans'[p].sold + plans'[p].reserved <= n
  BY DEF CountersAreExact, Ordered
<1>1. SamePlan(p)
  BY DEF QuietStep
<1> QED BY <1>1, QuietSets DEF SamePlan, SubscriptionInv, CountersAreExact

\* The places of a user are subsets of the orders.
LEMMA PlacesAreOrders ==
  ASSUME NEW u, NEW p
  PROVE  /\ Waiting(u) \subseteq Order /\ Queued(u, p) \subseteq Order
         /\ Waiting(u)' \subseteq Order /\ Queued(u, p)' \subseteq Order
  BY DEF Waiting, Queued, Mine, Of

LEMMA FewerOrders ==
  ASSUME NEW S \in SUBSET Order, NEW T \in SUBSET Order, NEW n \in Nat,
         T \subseteq S, Cardinality(S) <= n
  PROVE  Cardinality(T) <= n
  BY Counts

\* A step after which a user holds no place that was not the user's before.
LEMMA FewerPlaces ==
  ASSUME SubscriptionInv,
         \A u \in User : /\ Waiting(u)' \subseteq Waiting(u)
                         /\ \A p \in Plan : Queued(u, p)' \subseteq Queued(u, p)
  PROVE  PlacesAreLimited'
<1>1. \A S \in SUBSET Order, T \in SUBSET Order, n \in Nat :
        T \subseteq S /\ Cardinality(S) <= n => Cardinality(T) <= n
  BY FewerOrders
<1>2. 1 + MaxQueue \in Nat /\ 1 \in Nat
  BY SubscriptionAssumption
<1>3. ASSUME NEW u \in User PROVE Cardinality(Waiting(u)') <= 1 + MaxQueue
  <2>1. Cardinality(Waiting(u)) <= 1 + MaxQueue
    BY DEF SubscriptionInv, PlacesAreLimited
  <2>2. Waiting(u) \in SUBSET Order /\ Waiting(u)' \in SUBSET Order
    BY PlacesAreOrders
  <2> QED BY <1>1, <1>2, <2>1, <2>2
<1>4. ASSUME NEW u \in User, NEW p \in Plan PROVE Cardinality(Queued(u, p)') <= 1
  <2>1. Cardinality(Queued(u, p)) <= 1
    BY DEF SubscriptionInv, PlacesAreLimited
  <2>2. Queued(u, p) \in SUBSET Order /\ Queued(u, p)' \in SUBSET Order
    BY PlacesAreOrders
  <2> QED BY <1>1, <1>2, <2>1, <2>2
<1> QED BY <1>3, <1>4 DEF PlacesAreLimited

\* A policy that allowed more purchases allows fewer.
LEMMA PolicyAllowsFewer ==
  ASSUME NEW y \in Policies, NEW t, NEW B \in SUBSET Order, NEW C \in SUBSET B,
         \A p \in C : orders'[p].at = orders[p].at,
         WithinPolicy(y, B, t)
  PROVE  WithinPolicy(y, C, t)'
<1> DEFINE R == {p \in B : InPeriod(y, orders[p].at, t)}
           Q == {p \in C : InPeriod(y, orders'[p].at, t)}
<1>1. R \in SUBSET Order /\ C \in SUBSET Order /\ Q \in SUBSET Order
  OBVIOUS
<1>2. Q \subseteq R
  OBVIOUS
<1>3. Cardinality(C) <= Cardinality(B) /\ Cardinality(Q) <= Cardinality(R)
  <2> HIDE DEF R, Q
  <2> QED BY <1>1, <1>2, Counts
<1>4. /\ Cardinality(C) \in Nat /\ Cardinality(B) \in Nat
      /\ Cardinality(Q) \in Nat /\ Cardinality(R) \in Nat
  <2> HIDE DEF R, Q
  <2> QED BY <1>1, Counts
<1>5. /\ y.lifetime # 0 => Cardinality(B) < y.lifetime
      /\ y.kind # "none" => Cardinality(R) < y.max
  BY DEF WithinPolicy
<1>6. y.lifetime \in Nat /\ y.max \in Nat
  BY SubscriptionAssumption DEF Policy
<1> HIDE DEF R, Q
<1>7. /\ y.lifetime # 0 => Cardinality(C) < y.lifetime
      /\ y.kind # "none" => Cardinality(Q) < y.max
  BY <1>3, <1>4, <1>5, <1>6
<1> QED BY <1>7 DEF WithinPolicy, Q

\* An order that keeps its columns and has no more before it stays within its
\* policy.
LEMMA PolicyKept ==
  ASSUME SubscriptionInv, NEW o \in Open \cup Paid, Earlier(o)' \subseteq Earlier(o),
         \A q \in Open \cup Paid : orders'[q].at = orders[q].at /\ orders'[q].policy = orders[q].policy
  PROVE  WithinPolicy(orders[o].policy, Earlier(o), orders[o].at)'
<1>1. PICK y : y = orders[o].policy
  OBVIOUS
<1>2. PICK t : t = orders[o].at
  OBVIOUS
<1>3. PICK B : B = Earlier(o)
  OBVIOUS
<1>4. PICK C : C = Earlier(o)'
  OBVIOUS
<1>5. y \in Policies
  BY <1>1 DEF SubscriptionInv, TypeOK, OrderRow, Open, Paid
<1>6. B \in SUBSET Order /\ C \in SUBSET B /\ \A p \in C : p \in Paid
  BY <1>3, <1>4 DEF Earlier, Paid
<1>7. WithinPolicy(y, B, t)
  BY <1>1, <1>2, <1>3 DEF SubscriptionInv, PoliciesHold
<1>8. WithinPolicy(y, C, t)'
  BY <1>5, <1>6, <1>7, PolicyAllowsFewer
<1>9. orders'[o].policy = y /\ orders'[o].at = t
  BY <1>1, <1>2
<1> QED BY <1>4, <1>8, <1>9 DEF WithinPolicy

\* What moves on leaves the queue and does not enter it.
LEMMA LiveShrinks ==
  ASSUME SubscriptionInv, TypeOK', NEW o \in Order, Later(subs[o], subs'[o])
  PROVE  /\ subs'[o].status \in {"pending", "active"} => subs[o].status \in {"pending", "active"}
         /\ subs'[o].status = "pending" => subs[o].status = "pending"
<1>1. subs[o] \in SubRow /\ subs'[o] \in SubRow
  BY DEF SubscriptionInv, TypeOK
<1>2. subs'[o].status \in {"pending", "active"} => subs[o].status \in {"pending", "active"}
  BY <1>1, LaterFacts
<1> QED BY <1>2 DEF Later

LEMMA QuietLimits ==
  ASSUME SubscriptionInv, QuietStep
  PROVE  PlacesAreLimited'
<1>1. \A o \in Order :
        /\ subs'[o].status \in {"pending", "active"} => subs[o].status \in {"pending", "active"}
        /\ subs'[o].status = "pending" => subs[o].status = "pending"
  BY LiveShrinks DEF QuietStep, AllLater
<1>2. LiveIn(subs)' \subseteq LiveIn(subs)
  BY <1>1 DEF LiveIn
<1>3. ASSUME NEW u \in User PROVE Waiting(u)' \subseteq Waiting(u)
  BY <1>2, QuietSets DEF Waiting, Of
<1>4. ASSUME NEW u \in User, NEW p \in Plan PROVE Queued(u, p)' \subseteq Queued(u, p)
  BY <1>1, QuietSets DEF Queued, Mine, Of
<1> QED BY <1>3, <1>4, FewerPlaces

LEMMA QuietPolicies ==
  ASSUME SubscriptionInv, QuietStep
  PROVE  PoliciesHold' /\ SeqsAreCounted'
<1>1. Open' = Open /\ Paid' = Paid
  BY QuietSets
<1>2. \A o \in Order : subs'[o].seq = subs[o].seq
  BY DEF QuietStep, AllLater, Later
<1>3. \A q \in Open \cup Paid : orders'[q].at = orders[q].at /\ orders'[q].policy = orders[q].policy
  BY DEF QuietStep, SameOrder, Open, Paid
<1>4. ASSUME NEW o \in Open \cup Paid
      PROVE  WithinPolicy(orders[o].policy, Earlier(o), orders[o].at)'
  <2>1. Earlier(o)' \subseteq Earlier(o)
    BY <1>1, <1>2 DEF Earlier, Mine, Of, Open, Paid
  <2> QED BY <1>3, <2>1, PolicyKept
<1>5. SeqsAreCounted'
  BY <1>1, <1>2 DEF SeqsAreCounted, SubscriptionInv, Paid
<1> QED BY <1>1, <1>4, <1>5 DEF PoliciesHold

LEMMA QuietKeeps ==
  ASSUME SubscriptionInv, QuietStep
  PROVE  SubscriptionInv'
  BY QuietServes, QuietCounts, QuietLimits, QuietPolicies DEF SubscriptionInv, QuietStep

-----------------------------------------------------------------------------
(* What a step that decides an open order keeps: MarkOrderFailed gives its *)
(* place back, FinalizeOrder turns it into a subscription.                 *)

DecideStep(o, status) ==
  /\ TypeOK' /\ JobsAreKnown'
  /\ o \in Open /\ orders'[o].status = status /\ status \in {"paid", "failed"}
  /\ orders'[o].debited = orders[o].debited
  /\ orders'[o].at = orders[o].at /\ orders'[o].policy = orders[o].policy
  /\ status = "paid" => orders[o].debited
  /\ \A q \in Order : q # o => orders'[q] = orders[q] /\ subs'[q] = subs[q]
  /\ debits' = debits
  /\ IF status = "paid"
     THEN subs'[o].status \in {"pending", "active"} /\ subs'[o].seq = Cardinality(Paid) + 1
     ELSE subs'[o] = subs[o]
  /\ \A p \in Plan : /\ plans'[p].limit = plans[p].limit /\ plans'[p].edit = plans[p].edit
                     /\ p # planOf[o] => plans'[p] = plans[p]
  /\ plans'[planOf[o]].reserved = plans[planOf[o]].reserved - 1
  /\ plans'[planOf[o]].sold = plans[planOf[o]].sold + One(status = "paid")

LEMMA DecideSets ==
  ASSUME SubscriptionInv, NEW o \in Order, NEW status, DecideStep(o, status)
  PROVE  /\ Open' = Open \ {o} /\ o \in Open /\ o \notin Paid
         /\ Paid' = IF status = "paid" THEN Paid \cup {o} ELSE Paid
<1>1. Open' = Open \ {o} /\ o \in Open /\ o \notin Paid
  BY DEF DecideStep, Open, Paid
<1>2. Paid' = IF status = "paid" THEN Paid \cup {o} ELSE Paid
  BY DEF DecideStep, Open, Paid
<1> QED BY <1>1, <1>2

LEMMA DecideServes ==
  ASSUME SubscriptionInv, NEW o \in Order, NEW status, DecideStep(o, status)
  PROVE  PaidOrdersAreServed'
<1> SUFFICES ASSUME NEW q \in Order
             PROVE  /\ subs'[q].status # "none" <=> orders'[q].status = "paid"
                    /\ orders'[q].status = "paid" => orders'[q].debited
                    /\ debits'[q] = One(orders'[q].debited)
  BY DEF PaidOrdersAreServed, Paid
<1>1. /\ subs[q].status # "none" <=> orders[q].status = "paid"
      /\ orders[q].status = "paid" => orders[q].debited
      /\ debits[q] = One(orders[q].debited)
  BY DEF SubscriptionInv, PaidOrdersAreServed, Paid
<1>2. CASE q # o
  BY <1>1, <1>2 DEF DecideStep
<1>3. CASE q = o
  <2>1. debits'[q] = One(orders'[q].debited)
    BY <1>1, <1>3 DEF DecideStep
  <2>2. orders'[q].status = "paid" => orders'[q].debited
    BY <1>3, Zenon DEF DecideStep
  <2>3. subs'[q].status # "none" <=> orders'[q].status = "paid"
    <3>1. CASE status = "paid"
      BY <1>3, <3>1 DEF DecideStep
    <3>2. CASE status = "failed"
      BY <1>1, <1>3, <3>2 DEF DecideStep, Open
    <3> QED BY <3>1, <3>2 DEF DecideStep
  <2> QED BY <2>1, <2>2, <2>3
<1> QED BY <1>2, <1>3

LEMMA PlanNumbers ==
  ASSUME SubscriptionInv, NEW p \in Plan
  PROVE  /\ plans[p] \in PlanRow /\ plans[p].limit \in Nat /\ plans[p].edit \in Int
         /\ plans[p].reserved \in Nat /\ plans[p].sold \in Nat
<1>1. plans[p] \in PlanRow
  BY DEF SubscriptionInv, TypeOK
<1>2. /\ plans[p].limit \in SaleLimits /\ plans[p].edit \in SaleLimits \cup {NoEdit}
      /\ plans[p].reserved \in Nat /\ plans[p].sold \in Nat
  BY <1>1 DEF PlanRow
<1>3. \A n \in SaleLimits : n \in Nat /\ n \in Int
  BY SubscriptionAssumption
<1>4. NoEdit \in Int
  BY DEF NoEdit
<1> QED BY <1>1, <1>2, <1>3, <1>4

LEMMA DecideCounts ==
  ASSUME SubscriptionInv, NEW o \in Order, NEW status, DecideStep(o, status)
  PROVE  CountersAreExact'
<1> SUFFICES ASSUME NEW p \in Plan
             PROVE  /\ plans'[p].reserved = Cardinality(Open' \cap Ordered(p))
                    /\ plans'[p].sold = Cardinality(Paid' \cap Ordered(p))
                    /\ \A n \in {plans'[p].limit, plans'[p].edit} :
                         n > 0 => plans'[p].sold + plans'[p].reserved <= n
  BY DEF CountersAreExact, Ordered
<1>1. /\ plans[p].reserved = Cardinality(Open \cap Ordered(p))
      /\ plans[p].sold = Cardinality(Paid \cap Ordered(p))
      /\ \A n \in {plans[p].limit, plans[p].edit} : n > 0 => plans[p].sold + plans[p].reserved <= n
      /\ plans'[p].limit = plans[p].limit /\ plans'[p].edit = plans[p].edit
  BY DEF SubscriptionInv, CountersAreExact, DecideStep
<1>2. /\ Open' = Open \ {o} /\ o \in Open /\ o \notin Paid
      /\ Paid' = IF status = "paid" THEN Paid \cup {o} ELSE Paid
  BY DecideSets
<1>3. CASE p # planOf[o]
  <2>1. Open' \cap Ordered(p) = Open \cap Ordered(p) /\ Paid' \cap Ordered(p) = Paid \cap Ordered(p)
    BY <1>2, <1>3 DEF Ordered
  <2>2. plans'[p] = plans[p]
    BY <1>3 DEF DecideStep
  <2> QED BY <1>1, <2>1, <2>2
<1>4. CASE p = planOf[o]
  <2> DEFINE A == Open \cap Ordered(p)
             B == Paid \cap Ordered(p)
  <2>1. /\ Open' \cap Ordered(p) = A \ {o} /\ o \in A /\ o \notin B
        /\ Paid' \cap Ordered(p) = IF status = "paid" THEN B \cup {o} ELSE B
    BY <1>2, <1>4 DEF Ordered
  <2>2. A \in SUBSET Order /\ B \in SUBSET Order
    BY DEF Ordered
  <2>3. /\ Cardinality(A \ {o}) = Cardinality(A) - 1 /\ Cardinality(B \cup {o}) = Cardinality(B) + 1
        /\ Cardinality(A) \in Nat /\ Cardinality(B) \in Nat /\ Cardinality(A) >= 1
    <3> HIDE DEF A, B
    <3> QED BY <2>1, <2>2, CountOneMore, Counts
  <2>4. /\ plans'[p].reserved = plans[p].reserved - 1
        /\ plans'[p].sold = IF status = "paid" THEN plans[p].sold + 1 ELSE plans[p].sold
    BY <1>1, <1>4, <2>3 DEF DecideStep, One
  <2>5. plans'[p].sold + plans'[p].reserved <= plans[p].sold + plans[p].reserved
    BY <1>1, <2>3, <2>4
  <2>6. \A n \in {plans[p].limit, plans[p].edit} : n \in Int
    BY PlanNumbers
  <2>7. \A n \in {plans'[p].limit, plans'[p].edit} : n > 0 => plans'[p].sold + plans'[p].reserved <= n
    BY <1>1, <2>3, <2>4, <2>5, <2>6
  <2> QED BY <1>1, <2>1, <2>3, <2>4, <2>7
<1> QED BY <1>3, <1>4

LEMMA DecideLimits ==
  ASSUME SubscriptionInv, NEW o \in Order, NEW status, DecideStep(o, status)
  PROVE  PlacesAreLimited'
<1>1. Open' \subseteq Open /\ o \in Open
  BY DecideSets
<1>2. \A q \in Order : q # o => subs'[q] = subs[q]
  BY DEF DecideStep
<1>3. ASSUME NEW u \in User PROVE Waiting(u)' \subseteq Waiting(u)
  BY <1>1, <1>2 DEF Waiting, LiveIn, Of
<1>4. ASSUME NEW u \in User, NEW p \in Plan PROVE Queued(u, p)' \subseteq Queued(u, p)
  BY <1>1, <1>2 DEF Queued, Mine, Of
<1> QED BY <1>3, <1>4, FewerPlaces

\* A user has one open order of a plan.
LEMMA OneOpenOrder ==
  ASSUME SubscriptionInv, NEW o \in Open, NEW q \in Open,
         buyer[q] = buyer[o], planOf[q] = planOf[o]
  PROVE  q = o
<1> DEFINE u == buyer[o]
           p == planOf[o]
           Q == Queued(u, p)
<1>1. o \in Order /\ q \in Order
  BY DEF Open
<1>2. u \in User /\ p \in Plan
  BY <1>1, SubscriptionAssumption
<1>3. o \in Q /\ q \in Q /\ Q \in SUBSET Order /\ Cardinality(Q) <= 1
  BY <1>1, <1>2, PlacesAreOrders DEF Queued, Mine, Of, SubscriptionInv, PlacesAreLimited
<1> HIDE DEF Q
<1>4. SUFFICES ASSUME q # o PROVE FALSE
  OBVIOUS
<1>5. Q \ {o} \in SUBSET Order /\ q \in Q \ {o}
  BY <1>3, <1>4
<1>6. PICK P \in SUBSET Order : P = Q \ {o}
  BY <1>5
<1>7. Cardinality(P) >= 1
  BY <1>1, <1>5, <1>6, CountOneMore
<1>8. Cardinality(P) = Cardinality(Q) - 1
  BY <1>1, <1>3, <1>6, CountOneMore
<1>9. Cardinality(Q) \in Nat
  BY <1>3, Counts
<1> QED BY <1>3, <1>7, <1>8, <1>9

\* When an order is paid, it comes after every subscription there is, and no
\* open order of its buyer and plan is left that would have to count it.
LEMMA DecidePolicies ==
  ASSUME SubscriptionInv, NEW o \in Order, NEW status, DecideStep(o, status)
  PROVE  PoliciesHold' /\ SeqsAreCounted'
<1>1. /\ Open' = Open \ {o} /\ o \in Open /\ o \notin Paid
      /\ Paid' = IF status = "paid" THEN Paid \cup {o} ELSE Paid
  BY DecideSets
<1>2. /\ \A q \in Order : q # o => orders'[q] = orders[q] /\ subs'[q] = subs[q]
      /\ orders'[o].at = orders[o].at /\ orders'[o].policy = orders[o].policy
  BY DEF DecideStep
<1>3. \A q \in Open \cup Paid : orders'[q].at = orders[q].at /\ orders'[q].policy = orders[q].policy
  BY <1>2 DEF Open, Paid
<1>4. Paid \in SUBSET Order /\ Cardinality(Paid) \in Nat
  BY Counts DEF Paid
<1>5. \A q \in Paid : subs[q].seq <= Cardinality(Paid) /\ subs[q].seq \in Nat
  BY OrderCount DEF SubscriptionInv, SeqsAreCounted, TypeOK, SubRow, Paid
<1>6. status = "paid" => subs'[o].seq = Cardinality(Paid) + 1
  BY DEF DecideStep
<1>7. ASSUME NEW q \in (Open \cup Paid) \ {o} PROVE Earlier(q)' \subseteq Earlier(q)
  <2>1. q \in Order /\ subs'[q] = subs[q] /\ q # o
    BY <1>2 DEF Open, Paid
  <2>2. CASE q \in Open
    <3>1. o \notin Mine(buyer[q], planOf[q])
      BY <1>1, <2>1, <2>2, OneOpenOrder DEF Mine, Of
    <3> QED BY <1>1, <2>1, <2>2, <3>1 DEF Earlier
  <2>3. CASE q \in Paid
    <3>1. q \notin Open
      BY <2>3 DEF Open, Paid
    <3>2. status = "paid" => ~ (subs'[o].seq <= subs'[q].seq)
      BY <1>4, <1>5, <1>6, <2>1, <2>3
    <3>3. \A p \in Paid : p # o /\ subs'[p] = subs[p]
      BY <1>1, <1>2, <1>4
    <3>4. q \notin Open'
      BY <1>1, <3>1
    <3> QED BY <1>1, <2>1, <3>1, <3>2, <3>3, <3>4 DEF Earlier
  <2> QED BY <2>2, <2>3
<1>8. Earlier(o)' \subseteq Earlier(o)
  BY <1>1 DEF Earlier
<1>9. \A q \in Open \cup Paid : Earlier(q)' \subseteq Earlier(q)
  BY <1>7, <1>8
<1>10. \A q \in (Open \cup Paid)' : q \in Open \cup Paid
  BY <1>1
<1>11. PoliciesHold'
  <2> SUFFICES ASSUME NEW q \in (Open \cup Paid)'
               PROVE  WithinPolicy(orders[q].policy, Earlier(q), orders[q].at)'
    BY DEF PoliciesHold
  <2> QED BY <1>3, <1>9, <1>10, PolicyKept
<1>12. SeqsAreCounted'
  <2>1. CASE status = "paid"
    <3>1. Cardinality(Paid') = Cardinality(Paid) + 1
      BY <1>1, <1>4, <2>1, CountOneMore
    <3>2. ASSUME NEW q \in Paid' PROVE subs'[q].seq <= Cardinality(Paid')
      <4>1. CASE q = o
        BY <1>4, <1>6, <2>1, <3>1, <4>1
      <4>2. CASE q # o
        BY <1>1, <1>2, <1>4, <1>5, <2>1, <3>1, <4>2
      <4> QED BY <4>1, <4>2
    <3> QED BY <3>2 DEF SeqsAreCounted
  <2>2. CASE status # "paid"
    BY <1>1, <1>2, <1>4, <1>5, <2>2 DEF SeqsAreCounted
  <2> QED BY <2>1, <2>2
<1> QED BY <1>11, <1>12

LEMMA DecideKeeps ==
  ASSUME SubscriptionInv, NEW o \in Order, NEW status, DecideStep(o, status)
  PROVE  SubscriptionInv'
  BY DecideServes, DecideCounts, DecideLimits, DecidePolicies DEF SubscriptionInv, DecideStep

-----------------------------------------------------------------------------
(* The rows of the tables. *)

LEMMA OrderColumns ==
  ASSUME NEW x \in OrderRow
  PROVE  /\ \A st \in {"none", "created", "deducting", "paid", "failed"} :
              [x EXCEPT !.status = st] \in OrderRow
         /\ \A b \in BOOLEAN : [x EXCEPT !.debited = b] \in OrderRow
         /\ \A b \in BOOLEAN : [x EXCEPT !.stalled = b] \in OrderRow
         /\ \A t \in Nat : [x EXCEPT !.at = t] \in OrderRow
         /\ \A y \in Policies : [x EXCEPT !.policy = y] \in OrderRow
<1>1. \A st \in {"none", "created", "deducting", "paid", "failed"} :
        [x EXCEPT !.status = st] \in OrderRow
  BY SMT DEF OrderRow
<1>2. \A b \in BOOLEAN : [x EXCEPT !.debited = b] \in OrderRow
  BY SMT DEF OrderRow
<1>3. \A b \in BOOLEAN : [x EXCEPT !.stalled = b] \in OrderRow
  BY SMT DEF OrderRow
<1>4. \A t \in Nat : [x EXCEPT !.at = t] \in OrderRow
  BY SMT DEF OrderRow
<1>5. \A y \in Policies : [x EXCEPT !.policy = y] \in OrderRow
  BY SMT DEF OrderRow
<1> QED BY <1>1, <1>2, <1>3, <1>4, <1>5

\* The updates of an order: to another status, at its charge, when it is made,
\* and when time passes.
MovedTo(x, st)   == [x EXCEPT !.status = st, !.stalled = FALSE]
ChargedRow(x)    == [x EXCEPT !.debited = TRUE, !.stalled = FALSE]
MadeRow(x, t, y) == [x EXCEPT !.status = "created", !.at = t, !.policy = y]
StalledRow(x)    == [x EXCEPT !.stalled = TRUE]

LEMMA MovedFacts ==
  ASSUME NEW x \in OrderRow, NEW st \in {"deducting", "paid", "failed"}
  PROVE  /\ MovedTo(x, st) \in OrderRow /\ MovedTo(x, st).status = st
         /\ MovedTo(x, st).debited = x.debited
         /\ MovedTo(x, st).at = x.at /\ MovedTo(x, st).policy = x.policy
<1> DEFINE a == [x EXCEPT !.status = st]
<1>1. a \in OrderRow
  BY OrderColumns
<1>2. MovedTo(x, st) \in OrderRow
  <2>1. MovedTo(x, st) = [a EXCEPT !.stalled = FALSE]
    BY DEF MovedTo
  <2> HIDE DEF a
  <2> QED BY <1>1, <2>1, OrderColumns
<1>3. /\ MovedTo(x, st).status = st /\ MovedTo(x, st).debited = x.debited
      /\ MovedTo(x, st).at = x.at /\ MovedTo(x, st).policy = x.policy
  BY SMT DEF MovedTo, OrderRow
<1> QED BY <1>2, <1>3

LEMMA ChargedFacts ==
  ASSUME NEW x \in OrderRow
  PROVE  /\ ChargedRow(x) \in OrderRow /\ ChargedRow(x).status = x.status
         /\ ChargedRow(x).debited = TRUE
         /\ ChargedRow(x).at = x.at /\ ChargedRow(x).policy = x.policy
<1> DEFINE a == [x EXCEPT !.debited = TRUE]
<1>1. a \in OrderRow
  BY OrderColumns
<1>2. ChargedRow(x) \in OrderRow
  <2>1. ChargedRow(x) = [a EXCEPT !.stalled = FALSE]
    BY DEF ChargedRow
  <2> HIDE DEF a
  <2> QED BY <1>1, <2>1, OrderColumns
<1>3. /\ ChargedRow(x).status = x.status
      /\ ChargedRow(x).at = x.at /\ ChargedRow(x).policy = x.policy
  BY SMT DEF ChargedRow, OrderRow
<1>4. ChargedRow(x).debited = TRUE
  BY Zenon DEF ChargedRow, OrderRow
<1> QED BY <1>2, <1>3, <1>4

LEMMA MadeFacts ==
  ASSUME NEW x \in OrderRow, NEW t \in Nat, NEW y \in Policies
  PROVE  /\ MadeRow(x, t, y) \in OrderRow /\ MadeRow(x, t, y).status = "created"
         /\ MadeRow(x, t, y).debited = x.debited
         /\ MadeRow(x, t, y).at = t /\ MadeRow(x, t, y).policy = y
<1> DEFINE a == [x EXCEPT !.status = "created"]
           b == [a EXCEPT !.at = t]
<1>1. a \in OrderRow
  BY OrderColumns
<1>2. b \in OrderRow
  <2> HIDE DEF a
  <2> QED BY <1>1, OrderColumns
<1>3. MadeRow(x, t, y) \in OrderRow
  <2>1. MadeRow(x, t, y) = [b EXCEPT !.policy = y]
    BY DEF MadeRow
  <2> HIDE DEF b
  <2> QED BY <1>2, <2>1, OrderColumns
<1>4. /\ MadeRow(x, t, y).status = "created" /\ MadeRow(x, t, y).debited = x.debited
      /\ MadeRow(x, t, y).at = t /\ MadeRow(x, t, y).policy = y
  BY SMT DEF MadeRow, OrderRow
<1> QED BY <1>3, <1>4

LEMMA StalledFacts ==
  ASSUME NEW x \in OrderRow
  PROVE  /\ StalledRow(x) \in OrderRow /\ StalledRow(x).status = x.status
         /\ StalledRow(x).debited = x.debited
         /\ StalledRow(x).at = x.at /\ StalledRow(x).policy = x.policy
<1>1. StalledRow(x) \in OrderRow
  BY OrderColumns DEF StalledRow
<1>2. /\ StalledRow(x).status = x.status /\ StalledRow(x).debited = x.debited
      /\ StalledRow(x).at = x.at /\ StalledRow(x).policy = x.policy
  BY SMT DEF StalledRow, OrderRow
<1> QED BY <1>1, <1>2

\* The updates of a plan: its counters, the limit under edit, the limit.
LEMMA PlanColumns ==
  ASSUME NEW x \in PlanRow
  PROVE  /\ \A n \in Nat : [x EXCEPT !.reserved = n] \in PlanRow
         /\ \A n \in Nat : [x EXCEPT !.sold = n] \in PlanRow
         /\ \A n \in SaleLimits : [x EXCEPT !.limit = n] \in PlanRow
         /\ \A n \in SaleLimits \cup {NoEdit} : [x EXCEPT !.edit = n] \in PlanRow
         /\ \A y \in Policies : [x EXCEPT !.policy = y] \in PlanRow
<1>1. \A n \in Nat : [x EXCEPT !.reserved = n] \in PlanRow
  BY SMT DEF PlanRow
<1>2. \A n \in Nat : [x EXCEPT !.sold = n] \in PlanRow
  BY SMT DEF PlanRow
<1>3. \A n \in SaleLimits : [x EXCEPT !.limit = n] \in PlanRow
  BY SMT DEF PlanRow
<1>4. \A n \in SaleLimits \cup {NoEdit} : [x EXCEPT !.edit = n] \in PlanRow
  BY SMT DEF PlanRow
<1>5. \A y \in Policies : [x EXCEPT !.policy = y] \in PlanRow
  BY SMT DEF PlanRow
<1> QED BY <1>1, <1>2, <1>3, <1>4, <1>5

CountedRow(x, n, m) == [x EXCEPT !.reserved = n, !.sold = m]
ReservedRow(x, n)   == [x EXCEPT !.reserved = n]
EditedRow(x, n)     == [x EXCEPT !.edit = n]
LimitedRow(x, n, y) == [x EXCEPT !.limit = n, !.policy = y, !.edit = NoEdit]

LEMMA CountedFacts ==
  ASSUME NEW x \in PlanRow, NEW n \in Nat, NEW m \in Nat
  PROVE  /\ CountedRow(x, n, m) \in PlanRow
         /\ CountedRow(x, n, m).reserved = n /\ CountedRow(x, n, m).sold = m
         /\ CountedRow(x, n, m).limit = x.limit /\ CountedRow(x, n, m).edit = x.edit
         /\ ReservedRow(x, n) \in PlanRow
         /\ ReservedRow(x, n).reserved = n /\ ReservedRow(x, n).sold = x.sold
         /\ ReservedRow(x, n).limit = x.limit /\ ReservedRow(x, n).edit = x.edit
<1>1. ReservedRow(x, n) \in PlanRow
  BY PlanColumns DEF ReservedRow
<1>2. CountedRow(x, n, m) \in PlanRow
  <2>1. CountedRow(x, n, m) = [ReservedRow(x, n) EXCEPT !.sold = m]
    BY DEF CountedRow, ReservedRow
  <2> QED BY <1>1, <2>1, PlanColumns
<1>3. /\ CountedRow(x, n, m).reserved = n /\ CountedRow(x, n, m).sold = m
      /\ CountedRow(x, n, m).limit = x.limit /\ CountedRow(x, n, m).edit = x.edit
  BY SMT DEF CountedRow, PlanRow
<1>4. /\ ReservedRow(x, n).reserved = n /\ ReservedRow(x, n).sold = x.sold
      /\ ReservedRow(x, n).limit = x.limit /\ ReservedRow(x, n).edit = x.edit
  BY SMT DEF ReservedRow, PlanRow
<1> QED BY <1>1, <1>2, <1>3, <1>4

\* A place that is sold.
LEMMA SoldFacts ==
  ASSUME NEW x \in PlanRow, x.reserved - 1 \in Nat
  PROVE  LET y == CountedRow(x, x.reserved - 1, x.sold + 1)
         IN  /\ y \in PlanRow /\ y.reserved = x.reserved - 1 /\ y.sold = x.sold + 1
             /\ y.limit = x.limit /\ y.edit = x.edit
<1> DEFINE n == x.reserved - 1
           m == x.sold + 1
<1>1. n \in Nat /\ m \in Nat
  BY DEF PlanRow
<1> HIDE DEF n, m
<1>2. /\ CountedRow(x, n, m) \in PlanRow
      /\ CountedRow(x, n, m).reserved = n /\ CountedRow(x, n, m).sold = m
      /\ CountedRow(x, n, m).limit = x.limit /\ CountedRow(x, n, m).edit = x.edit
  BY <1>1, CountedFacts, ZenonT(60)
<1> QED BY <1>2 DEF n, m

LEMMA EditedFacts ==
  ASSUME NEW x \in PlanRow, NEW n \in SaleLimits \cup {NoEdit}
  PROVE  /\ EditedRow(x, n) \in PlanRow
         /\ EditedRow(x, n).reserved = x.reserved /\ EditedRow(x, n).sold = x.sold
         /\ EditedRow(x, n).limit = x.limit /\ EditedRow(x, n).edit = n
<1>1. EditedRow(x, n) \in PlanRow
  BY PlanColumns DEF EditedRow
<1>2. /\ EditedRow(x, n).reserved = x.reserved /\ EditedRow(x, n).sold = x.sold
      /\ EditedRow(x, n).limit = x.limit /\ EditedRow(x, n).edit = n
  BY SMT DEF EditedRow, PlanRow
<1> QED BY <1>1, <1>2

LEMMA LimitedFacts ==
  ASSUME NEW x \in PlanRow, NEW n \in SaleLimits, NEW y \in Policies
  PROVE  /\ LimitedRow(x, n, y) \in PlanRow
         /\ LimitedRow(x, n, y).reserved = x.reserved /\ LimitedRow(x, n, y).sold = x.sold
         /\ LimitedRow(x, n, y).limit = n /\ LimitedRow(x, n, y).edit = NoEdit
<1> DEFINE a == [x EXCEPT !.limit = n]
           b == [a EXCEPT !.policy = y]
<1>1. a \in PlanRow
  BY PlanColumns
<1>2. b \in PlanRow
  <2> HIDE DEF a
  <2> QED BY <1>1, PlanColumns
<1>3. LimitedRow(x, n, y) \in PlanRow
  <2>1. LimitedRow(x, n, y) = [b EXCEPT !.edit = NoEdit]
    BY DEF LimitedRow
  <2> HIDE DEF b
  <2> QED BY <1>2, <2>1, PlanColumns
<1>4. /\ LimitedRow(x, n, y).reserved = x.reserved /\ LimitedRow(x, n, y).sold = x.sold
      /\ LimitedRow(x, n, y).limit = n /\ LimitedRow(x, n, y).edit = NoEdit
  BY SMT DEF LimitedRow, PlanRow
<1> QED BY <1>3, <1>4

-----------------------------------------------------------------------------
(* Jobs. *)

ChargesStay == \A o \in Order : orders[o].debited => orders'[o].debited

LEMMA JobsLeft ==
  ASSUME SubscriptionInv, jobs' = jobs, ChargesStay
  PROVE  jobs' \in [Job -> JobRow] /\ JobsAreKnown'
<1>1. jobs' \in [Job -> JobRow]
  BY DEF SubscriptionInv, TypeOK
<1>2. ASSUME NEW j \in Job, jobs'[j].pc # "idle"
      PROVE  /\ jobs'[j].order \in Order
             /\ jobs'[j].pc = "finalize" => orders'[jobs'[j].order].debited
  BY <1>2, Zenon DEF SubscriptionInv, JobsAreKnown, ChargesStay
<1> QED BY <1>1, <1>2 DEF JobsAreKnown

LEMMA JobMoves ==
  ASSUME SubscriptionInv, NEW j \in Job, NEW x \in JobRow, jobs' = [jobs EXCEPT ![j] = x],
         ChargesStay,
         x.pc # "idle" => x.order \in Order,
         x.pc = "finalize" => orders'[x.order].debited
  PROVE  jobs' \in [Job -> JobRow] /\ JobsAreKnown'
<1>1. jobs \in [Job -> JobRow]
  BY DEF SubscriptionInv, TypeOK
<1>2. jobs'[j] = x /\ \A k \in Job : k # j => jobs'[k] = jobs[k]
  BY <1>1
<1>3. ASSUME NEW k \in Job, jobs'[k].pc # "idle"
      PROVE  /\ jobs'[k].order \in Order
             /\ jobs'[k].pc = "finalize" => orders'[jobs'[k].order].debited
  <2>1. CASE k = j
    BY <1>2, <1>3, <2>1, Zenon
  <2>2. CASE k # j
    BY <1>2, <1>3, <2>2, Zenon DEF SubscriptionInv, JobsAreKnown, ChargesStay
  <2> QED BY <2>1, <2>2
<1> QED BY <1>1, <1>3 DEF JobsAreKnown

LEMMA JobIdles ==
  ASSUME SubscriptionInv, NEW j \in Job, Finish(j), ChargesStay
  PROVE  jobs' \in [Job -> JobRow] /\ JobsAreKnown'
<1> DEFINE x == [pc |-> "idle", order |-> NoOrder]
<1>1. x \in JobRow /\ x.pc = "idle"
  BY DEF JobRow
<1>2. jobs' = [jobs EXCEPT ![j] = x]
  BY DEF Finish
<1> HIDE DEF x
<1> QED BY <1>1, <1>2, JobMoves

LEMMA BusyJob ==
  ASSUME SubscriptionInv, NEW j \in Job, jobs[j].pc # "idle"
  PROVE  /\ jobs[j] \in JobRow /\ jobs[j].order \in Order
         /\ orders[jobs[j].order] \in OrderRow
         /\ jobs[j].pc = "finalize" => orders[jobs[j].order].debited
  BY DEF SubscriptionInv, TypeOK, JobsAreKnown

LEMMA JobGoes ==
  ASSUME SubscriptionInv, NEW j \in Job, NEW pc \in {"debit", "fail", "finalize"}, Goto(j, pc),
         jobs[j].pc # "idle", ChargesStay,
         pc = "finalize" => orders'[jobs[j].order].debited
  PROVE  jobs' \in [Job -> JobRow] /\ JobsAreKnown'
<1> DEFINE x == [jobs[j] EXCEPT !.pc = pc]
<1>1. jobs[j] \in JobRow /\ jobs[j].order \in Order
  BY BusyJob
<1>2. x \in JobRow /\ x.pc = pc /\ x.order = jobs[j].order
  BY <1>1, SMT DEF JobRow
<1>3. jobs' = [jobs EXCEPT ![j] = x]
  BY DEF Goto
<1> HIDE DEF x
<1> QED BY <1>1, <1>2, <1>3, JobMoves

-----------------------------------------------------------------------------
(* The reservation. *)

\* What ReservePurchase writes: the order, with the time its transaction began
\* and the policy it was accepted under.
LEMMA ReserveFacts ==
  ASSUME SubscriptionInv, NEW c \in Caller, NEW o \in Order, Reserve(c, o)
  PROVE  /\ orders[o].status = "none" /\ orders'[o].status = "created"
         /\ orders'[o].debited = orders[o].debited
         /\ \A q \in Order : q # o => orders'[q] = orders[q]
         /\ orders' \in [Order -> OrderRow]
         /\ Open' = Open \cup {o} /\ Paid' = Paid /\ o \notin Open /\ o \notin Paid
         /\ Eligible(o, subs', orders'[o].policy, orders'[o].at)
<1> DEFINE y == plans[planOf[o]].policy
<1>1. orders \in [Order -> OrderRow] /\ begun \in [Order -> SUBSET Nat]
  BY DEF SubscriptionInv, TypeOK
<1>2. PICK t \in begun[o] :
        /\ Eligible(o, AdvanceLive(buyer[o]), y, t)
        /\ orders' = [orders EXCEPT ![o].status = "created", ![o].at = t, ![o].policy = y]
        /\ subs' = AdvanceLive(buyer[o])
  BY DEF Reserve
<1>3. t \in Nat /\ y \in Policies
  <2>1. plans[planOf[o]] \in PlanRow
    BY SubscriptionAssumption, PlanNumbers
  <2> QED BY <1>1, <2>1 DEF PlanRow
<1> HIDE DEF y
<1>4. orders' = [orders EXCEPT ![o] = MadeRow(orders[o], t, y)]
  BY <1>1, <1>2 DEF MadeRow
<1>5. PICK x : x = MadeRow(orders[o], t, y)
  OBVIOUS
<1>6. /\ x \in OrderRow /\ x.status = "created" /\ x.debited = orders[o].debited
      /\ x.at = t /\ x.policy = y
  BY <1>1, <1>3, <1>5, MadeFacts
<1>7. orders'[o] = x /\ \A q \in Order : q # o => orders'[q] = orders[q]
  BY <1>1, <1>4, <1>5
<1>8. orders' \in [Order -> OrderRow]
  BY <1>1, <1>4, <1>5, <1>6
<1>9. /\ orders[o].status = "none" /\ orders'[o].status = "created"
      /\ orders'[o].debited = orders[o].debited
  BY <1>6, <1>7 DEF Reserve
<1>10. Open' = Open \cup {o} /\ Paid' = Paid /\ o \notin Open /\ o \notin Paid
  BY <1>7, <1>9 DEF Open, Paid
<1>11. Eligible(o, subs', orders'[o].policy, orders'[o].at)
  <2>1. orders'[o].policy = y /\ orders'[o].at = t /\ subs' = AdvanceLive(buyer[o])
    BY <1>2, <1>6, <1>7
  <2> QED BY <1>2, <2>1, Zenon
<1> QED BY <1>7, <1>8, <1>9, <1>10, <1>11

LEMMA ReservePlans ==
  ASSUME SubscriptionInv, NEW c \in Caller, NEW o \in Order, Reserve(c, o)
  PROVE  /\ plans' \in [Plan -> PlanRow]
         /\ \A p \in Plan : p # planOf[o] => plans'[p] = plans[p]
         /\ plans'[planOf[o]].reserved = plans[planOf[o]].reserved + 1
         /\ plans'[planOf[o]].sold = plans[planOf[o]].sold
         /\ plans'[planOf[o]].limit = plans[planOf[o]].limit
         /\ plans'[planOf[o]].edit = NoEdit
<1> DEFINE p == planOf[o]
           x == ReservedRow(plans[p], plans[p].reserved + 1)
<1>1. p \in Plan /\ plans \in [Plan -> PlanRow]
  BY SubscriptionAssumption DEF SubscriptionInv, TypeOK
<1>2. plans[p] \in PlanRow /\ plans[p].reserved + 1 \in Nat /\ 0 \in Nat
  BY <1>1, PlanNumbers
<1>3. /\ x \in PlanRow /\ x.reserved = plans[p].reserved + 1 /\ x.sold = plans[p].sold
      /\ x.limit = plans[p].limit /\ x.edit = plans[p].edit
  <2> HIDE DEF p
  <2> QED BY <1>2, CountedFacts
<1>4. plans' = [plans EXCEPT ![p] = x] /\ plans[p].edit = NoEdit
  BY DEF Reserve, ReservedRow
<1> HIDE DEF x
<1>5. plans'[p] = x /\ \A q \in Plan : q # p => plans'[q] = plans[q]
  BY <1>1, <1>4
<1> QED BY <1>1, <1>3, <1>4, <1>5

LEMMA ReserveCounts ==
  ASSUME SubscriptionInv, NEW c \in Caller, NEW o \in Order, Reserve(c, o)
  PROVE  CountersAreExact'
<1> SUFFICES ASSUME NEW p \in Plan
             PROVE  /\ plans'[p].reserved = Cardinality(Open' \cap Ordered(p))
                    /\ plans'[p].sold = Cardinality(Paid' \cap Ordered(p))
                    /\ \A n \in {plans'[p].limit, plans'[p].edit} :
                         n > 0 => plans'[p].sold + plans'[p].reserved <= n
  BY DEF CountersAreExact, Ordered
<1>1. /\ plans[p].reserved = Cardinality(Open \cap Ordered(p))
      /\ plans[p].sold = Cardinality(Paid \cap Ordered(p))
      /\ \A n \in {plans[p].limit, plans[p].edit} : n > 0 => plans[p].sold + plans[p].reserved <= n
  BY DEF SubscriptionInv, CountersAreExact
<1>2. Open' = Open \cup {o} /\ Paid' = Paid /\ o \notin Open
  BY ReserveFacts
<1>3. CASE p # planOf[o]
  <2>1. Open' \cap Ordered(p) = Open \cap Ordered(p)
    BY <1>2, <1>3 DEF Ordered
  <2>2. plans'[p] = plans[p]
    BY <1>3, ReservePlans
  <2> QED BY <1>1, <1>2, <2>1, <2>2
<1>4. CASE p = planOf[o]
  <2> DEFINE A == Open \cap Ordered(p)
  <2>1. Open' \cap Ordered(p) = A \cup {o} /\ o \notin A /\ A \in SUBSET Order
    BY <1>2, <1>4 DEF Ordered
  <2>2. Cardinality(A \cup {o}) = Cardinality(A) + 1
    <3> HIDE DEF A
    <3> QED BY <2>1, CountOneMore
  <2>3. /\ plans'[p].reserved = plans[p].reserved + 1 /\ plans'[p].sold = plans[p].sold
        /\ plans'[p].limit = plans[p].limit /\ plans'[p].edit = NoEdit
    BY <1>4, ReservePlans
  <2>4. plans[p].limit = 0 \/ plans[p].sold + plans[p].reserved < plans[p].limit
    BY <1>4 DEF Reserve, InStock
  <2>5. \A n \in {plans'[p].limit, plans'[p].edit} : n > 0 => plans'[p].sold + plans'[p].reserved <= n
    BY <2>3, <2>4, PlanNumbers DEF NoEdit
  <2> QED BY <1>1, <1>2, <2>1, <2>2, <2>3, <2>5
<1> QED BY <1>3, <1>4

LEMMA ReserveSubs ==
  ASSUME SubscriptionInv, NEW c \in Caller, NEW o \in Order, Reserve(c, o)
  PROVE  /\ subs' \in [Order -> SubRow] /\ AllLater(subs, subs')
         /\ \A q \in Order : /\ subs'[q].status \in {"pending", "active"}
                                  => subs[q].status \in {"pending", "active"}
                             /\ subs'[q].status = "pending" => subs[q].status = "pending"
<1>1. subs' = AdvanceLive(buyer[o]) /\ buyer[o] \in User
  BY SubscriptionAssumption DEF Reserve
<1>2. subs' \in [Order -> SubRow] /\ AllLater(subs, subs')
  BY <1>1, AdvanceFacts DEF SubscriptionInv
<1>3. subs \in [Order -> SubRow]
  BY DEF SubscriptionInv, TypeOK
<1>4. ASSUME NEW q \in Order
      PROVE  /\ subs'[q].status \in {"pending", "active"} => subs[q].status \in {"pending", "active"}
             /\ subs'[q].status = "pending" => subs[q].status = "pending"
  <2>1. Later(subs[q], subs'[q]) /\ subs[q] \in SubRow /\ subs'[q] \in SubRow
    BY <1>2, <1>3 DEF AllLater
  <2>2. subs'[q].status = "pending" => subs[q].status = "pending"
    BY <2>1 DEF Later
  <2> QED BY <2>1, <2>2, LaterFacts
<1> QED BY <1>2, <1>4

\* The queue of the buyer, which ReservePurchase has checked with the queue
\* advanced and the open orders counted ...
LEMMA ReserveOwnPlaces ==
  ASSUME SubscriptionInv, NEW c \in Caller, NEW o \in Order, Reserve(c, o)
  PROVE  /\ Cardinality(Waiting(buyer[o])') <= 1 + MaxQueue
         /\ Cardinality(Queued(buyer[o], planOf[o])') <= 1
<1> DEFINE u == buyer[o]
           p == planOf[o]
           mine == {q \in Of(u) : planOf[q] = p}
           L == LiveIn(subs') \cap Of(u)
           O == Open \cap Of(u)
<1>1. /\ Open \cap mine = {}
      /\ \A q \in mine : subs'[q].status # "pending"
      /\ Cardinality(L) + Cardinality(O) < 1 + MaxQueue
  BY ReserveFacts DEF Eligible
<1>2. Open' = Open \cup {o}
  BY ReserveFacts
<1>3. L \in SUBSET Order /\ O \in SUBSET Order /\ (L \cup O) \in SUBSET Order
  BY DEF Of
<1>4. Waiting(u)' = (L \cup O) \cup {o}
  BY <1>2 DEF Waiting, LiveIn, Of
<1>5. Queued(u, p)' \subseteq {} \cup {o}
  BY <1>1, <1>2 DEF Queued, Mine, Of
<1>6. /\ Cardinality(L) \in Nat /\ Cardinality(O) \in Nat /\ Cardinality(L \cup O) \in Nat
  <2> HIDE DEF L, O
  <2> QED BY <1>3, Counts
<1>7. Cardinality(L \cup O) <= Cardinality(L) + Cardinality(O)
  <2> HIDE DEF L, O
  <2> QED BY <1>3, CountUnion
<1>8. /\ Cardinality((L \cup O) \cup {o}) <= Cardinality(L \cup O) + 1
      /\ Cardinality({} \cup {o}) <= Cardinality({}) + 1
  <2>1. {} \in SUBSET Order
    OBVIOUS
  <2> HIDE DEF L, O
  <2> QED BY <1>3, <2>1, CountOneMore
<1>9. Cardinality({}) = 0
  BY FS_EmptySet
<1>10. /\ (L \cup O) \cup {o} \in SUBSET Order /\ {} \cup {o} \in SUBSET Order
       /\ Cardinality((L \cup O) \cup {o}) \in Nat /\ Cardinality({} \cup {o}) \in Nat
  <2> HIDE DEF L, O
  <2>1. (L \cup O) \cup {o} \in SUBSET Order /\ {} \cup {o} \in SUBSET Order
    BY <1>3
  <2> QED BY <2>1, Counts
<1> HIDE DEF L, O
<1>11. Cardinality(Waiting(u)') <= 1 + MaxQueue
  BY <1>1, <1>4, <1>6, <1>7, <1>8, <1>10, SubscriptionAssumption
<1>12. Cardinality(Queued(u, p)') <= 1
  <2>1. Cardinality({} \cup {o}) <= 1
    BY <1>8, <1>9, <1>10
  <2>2. Queued(u, p)' \in SUBSET Order
    BY <1>5, <1>10
  <2> QED BY <1>5, <1>10, <2>1, <2>2, FewerOrders
<1> QED BY <1>11, <1>12

\* ... and those of everybody else, which do not see the new order.
LEMMA ReserveLimits ==
  ASSUME SubscriptionInv, NEW c \in Caller, NEW o \in Order, Reserve(c, o)
  PROVE  PlacesAreLimited'
<1>1. Open' = Open \cup {o}
  BY ReserveFacts
<1>2. \A q \in Order : /\ subs'[q].status \in {"pending", "active"}
                            => subs[q].status \in {"pending", "active"}
                       /\ subs'[q].status = "pending" => subs[q].status = "pending"
  BY ReserveSubs
<1>3. ASSUME NEW u \in User, u # buyer[o] PROVE Waiting(u)' \subseteq Waiting(u)
  BY <1>1, <1>2, <1>3 DEF Waiting, LiveIn, Of
<1>4. ASSUME NEW u \in User, NEW p \in Plan, ~ (u = buyer[o] /\ p = planOf[o])
      PROVE  Queued(u, p)' \subseteq Queued(u, p)
  <2>1. o \notin Mine(u, p)
    BY <1>4 DEF Mine, Of
  <2> QED BY <1>1, <1>2, <2>1 DEF Queued, Mine, Of
<1>5. 1 + MaxQueue \in Nat /\ 1 \in Nat
  BY SubscriptionAssumption
<1>6. ASSUME NEW u \in User PROVE Cardinality(Waiting(u)') <= 1 + MaxQueue
  <2>1. CASE u = buyer[o]
    BY <2>1, ReserveOwnPlaces
  <2>2. CASE u # buyer[o]
    <3>1. /\ Cardinality(Waiting(u)) <= 1 + MaxQueue
          /\ Waiting(u) \in SUBSET Order /\ Waiting(u)' \in SUBSET Order
      BY PlacesAreOrders DEF SubscriptionInv, PlacesAreLimited
    <3> QED BY <1>3, <1>5, <2>2, <3>1, FewerOrders
  <2> QED BY <2>1, <2>2
<1>7. ASSUME NEW u \in User, NEW p \in Plan PROVE Cardinality(Queued(u, p)') <= 1
  <2>1. CASE u = buyer[o] /\ p = planOf[o]
    BY <2>1, ReserveOwnPlaces
  <2>2. CASE ~ (u = buyer[o] /\ p = planOf[o])
    <3>1. /\ Cardinality(Queued(u, p)) <= 1
          /\ Queued(u, p) \in SUBSET Order /\ Queued(u, p)' \in SUBSET Order
      BY PlacesAreOrders DEF SubscriptionInv, PlacesAreLimited
    <3> QED BY <1>4, <1>5, <2>2, <3>1, FewerOrders
  <2> QED BY <2>1, <2>2
<1> QED BY <1>6, <1>7 DEF PlacesAreLimited

\* The policy, which the reservation has read under the plan's lock, counts
\* all that the buyer has paid for; nothing changes for the other orders.
LEMMA ReservePolicies ==
  ASSUME SubscriptionInv, NEW c \in Caller, NEW o \in Order, Reserve(c, o)
  PROVE  PoliciesHold' /\ SeqsAreCounted'
<1>1. /\ Open' = Open \cup {o} /\ Paid' = Paid /\ o \notin Open /\ o \notin Paid
      /\ \A q \in Order : q # o => orders'[q] = orders[q]
      /\ orders' \in [Order -> OrderRow]
      /\ Eligible(o, subs', orders'[o].policy, orders'[o].at)
  BY ReserveFacts
<1>2. \A q \in Order : subs'[q].seq = subs[q].seq
  BY ReserveSubs DEF AllLater, Later
<1>3. \A q \in Open \cup Paid : orders'[q].at = orders[q].at /\ orders'[q].policy = orders[q].policy
  BY <1>1 DEF Open, Paid
<1>4. ASSUME NEW q \in Open \cup Paid
      PROVE  WithinPolicy(orders[q].policy, Earlier(q), orders[q].at)'
  <2>1. Earlier(q)' \subseteq Earlier(q)
    BY <1>1, <1>2 DEF Earlier, Mine, Of, Open, Paid
  <2> QED BY <1>3, <2>1, PolicyKept
<1>5. WithinPolicy(orders[o].policy, Earlier(o), orders[o].at)'
  <2>1. PICK B : B = Paid \cap {p \in Of(buyer[o]) : planOf[p] = planOf[o]}
    OBVIOUS
  <2>2. PICK C : C = Earlier(o)'
    OBVIOUS
  <2>3. PICK y : y = orders'[o].policy
    OBVIOUS
  <2>4. PICK t : t = orders'[o].at
    OBVIOUS
  <2>5. WithinPolicy(y, B, t)
    BY <1>1, <2>1, <2>3, <2>4, Zenon DEF Eligible
  <2>6. y \in Policies
    BY <1>1, <2>3 DEF OrderRow
  <2>7. B \in SUBSET Order /\ C \in SUBSET B
    BY <1>1, <2>1, <2>2 DEF Earlier, Mine, Of
  <2>8. \A p \in C : orders'[p].at = orders[p].at
    BY <1>1, <1>3, <2>1, <2>7
  <2>9. WithinPolicy(y, C, t)'
    BY <2>5, <2>6, <2>7, <2>8, PolicyAllowsFewer
  <2> QED BY <2>2, <2>3, <2>4, <2>9 DEF WithinPolicy
<1>6. PoliciesHold'
  BY <1>1, <1>4, <1>5 DEF PoliciesHold
<1>7. SeqsAreCounted'
  BY <1>1, <1>2 DEF SeqsAreCounted, SubscriptionInv, Paid
<1> QED BY <1>6, <1>7

LEMMA ReserveKeeps ==
  ASSUME SubscriptionInv, NEW c \in Caller, NEW o \in Order, Reserve(c, o)
  PROVE  SubscriptionInv'
<1>1. /\ orders[o].status = "none" /\ orders'[o].status = "created"
      /\ orders'[o].debited = orders[o].debited
      /\ \A q \in Order : q # o => orders'[q] = orders[q]
      /\ orders' \in [Order -> OrderRow]
  BY ReserveFacts
<1>2. ChargesStay
  BY <1>1 DEF ChargesStay
<1>3. jobs' \in [Job -> JobRow] /\ JobsAreKnown'
  <2> DEFINE x == [pc |-> "reserved", order |-> o]
  <2>1. x \in JobRow /\ x.pc = "reserved" /\ x.order = o
    BY DEF JobRow
  <2>2. jobs' = [jobs EXCEPT ![c] = x] /\ c \in Job
    BY DEF Reserve, Job
  <2> HIDE DEF x
  <2> QED BY <1>2, <2>1, <2>2, JobMoves
<1>4. TypeOK'
  <2>1. now' = now /\ begun' = [begun EXCEPT ![o] = {}] /\ UNCHANGED <<balance, debits, gates>>
    BY DEF Reserve
  <2>2. now' \in Nat /\ begun' \in [Order -> SUBSET Nat]
    BY <2>1 DEF SubscriptionInv, TypeOK
  <2> QED BY <1>1, <1>3, <2>1, <2>2, ReserveSubs, ReservePlans DEF SubscriptionInv, TypeOK
<1>5. PaidOrdersAreServed'
  <2> SUFFICES ASSUME NEW q \in Order
               PROVE  /\ subs'[q].status # "none" <=> orders'[q].status = "paid"
                      /\ orders'[q].status = "paid" => orders'[q].debited
                      /\ debits'[q] = One(orders'[q].debited)
    BY DEF PaidOrdersAreServed, Paid
  <2>1. /\ subs[q].status # "none" <=> orders[q].status = "paid"
        /\ orders[q].status = "paid" => orders[q].debited
        /\ debits[q] = One(orders[q].debited)
    BY DEF SubscriptionInv, PaidOrdersAreServed, Paid
  <2>2. subs'[q].status = "none" <=> subs[q].status = "none"
    BY ReserveSubs DEF AllLater, Later
  <2>3. debits' = debits
    BY DEF Reserve
  <2>4. CASE q # o
    BY <1>1, <2>1, <2>2, <2>3, <2>4
  <2>5. CASE q = o
    BY <1>1, <2>1, <2>2, <2>3, <2>5
  <2> QED BY <2>4, <2>5
<1> QED BY <1>3, <1>4, <1>5, ReserveCounts, ReserveLimits, ReservePolicies DEF SubscriptionInv

-----------------------------------------------------------------------------
(* The other actions.  First, what each table that an action leaves alone  *)
(* contributes to a quiet step.                                            *)

OrdersQuiet == orders' \in [Order -> OrderRow] /\ debits' \in [Order -> 0 .. 1]
               /\ \A o \in Order : SameOrder(o) /\ ChargedRight(o)

SubsQuiet  == subs' \in [Order -> SubRow] /\ AllLater(subs, subs')
PlansQuiet == plans' \in [Plan -> PlanRow] /\ \A p \in Plan : SamePlan(p)

LEMMA OrdersLeft ==
  ASSUME SubscriptionInv, UNCHANGED <<orders, debits>>
  PROVE  OrdersQuiet /\ ChargesStay
<1>1. \A o \in Order : SameOrder(o) /\ ChargedRight(o)
  BY DEF SameOrder, ChargedRight, SubscriptionInv, PaidOrdersAreServed
<1> QED BY <1>1 DEF OrdersQuiet, ChargesStay, SubscriptionInv, TypeOK

LEMMA SubsLeft ==
  ASSUME SubscriptionInv, subs' = subs
  PROVE  SubsQuiet
  BY LaterFacts DEF SubsQuiet, AllLater, SubscriptionInv, TypeOK

LEMMA PlansLeft ==
  ASSUME SubscriptionInv, plans' = plans
  PROVE  PlansQuiet
  BY DEF PlansQuiet, SamePlan, SubscriptionInv, TypeOK, CountersAreExact

LEMMA QuietParts ==
  ASSUME SubscriptionInv, OrdersQuiet, SubsQuiet, PlansQuiet,
         balance' \in [User -> Nat], gates' \in [Gate -> GateRow],
         jobs' \in [Job -> JobRow], JobsAreKnown', UNCHANGED clock
  PROVE  QuietStep
<1>1. now' \in Nat /\ begun' \in [Order -> SUBSET Nat]
  BY DEF clock, SubscriptionInv, TypeOK
<1> QED BY <1>1 DEF OrdersQuiet, SubsQuiet, PlansQuiet, QuietStep, TypeOK

LEMMA OneOrderMoves ==
  ASSUME SubscriptionInv, NEW o \in Order, NEW x \in OrderRow, orders' = [orders EXCEPT ![o] = x],
         debits' = debits, x.debited = orders[o].debited, x.at = orders[o].at, x.policy = orders[o].policy,
         \/ x.status = orders[o].status
         \/ orders[o].status = "created" /\ x.status = "deducting"
  PROVE  OrdersQuiet /\ ChargesStay
<1>1. orders \in [Order -> OrderRow] /\ debits \in [Order -> 0 .. 1]
  BY DEF SubscriptionInv, TypeOK
<1>2. orders'[o] = x /\ \A q \in Order : q # o => orders'[q] = orders[q]
  BY <1>1
<1>3. \A q \in Order : debits[q] = One(orders[q].debited)
  BY DEF SubscriptionInv, PaidOrdersAreServed
<1>4. SameOrder(o)
  BY <1>2, Zenon DEF SameOrder
<1>5. ChargedRight(o)
  BY <1>2, <1>3 DEF ChargedRight
<1>6. ASSUME NEW q \in Order, q # o PROVE SameOrder(q) /\ ChargedRight(q)
  BY <1>2, <1>3, <1>6 DEF SameOrder, ChargedRight
<1>7. OrdersQuiet
  BY <1>1, <1>4, <1>5, <1>6 DEF OrdersQuiet
<1> QED BY <1>7 DEF OrdersQuiet, SameOrder, ChargesStay

LEMMA MarkOrderDeductingQuiet ==
  ASSUME SubscriptionInv, NEW j \in Job, MarkOrderDeducting(j)
  PROVE  QuietStep
<1> DEFINE o == jobs[j].order
           x == MovedTo(orders[o], "deducting")
<1>1. jobs[j].pc = "reserved" /\ o \in Order /\ orders[o] \in OrderRow
  BY BusyJob DEF MarkOrderDeducting
<1>2. OrdersQuiet /\ ChargesStay
  <2>1. CASE orders[o].status = "created"
    <3>1. x \in OrderRow /\ x.status = "deducting" /\ x.debited = orders[o].debited
          /\ x.at = orders[o].at /\ x.policy = orders[o].policy
      <4> HIDE DEF o
      <4> QED BY <1>1, MovedFacts
    <3>2. orders' = [orders EXCEPT ![o] = x]
      BY <1>1, <2>1 DEF MarkOrderDeducting, MovedTo, SubscriptionInv, TypeOK
    <3>3. debits' = debits
      BY DEF MarkOrderDeducting
    <3> HIDE DEF x, o
    <3> QED BY <1>1, <2>1, <3>1, <3>2, <3>3, OneOrderMoves
  <2>2. CASE orders[o].status # "created"
    BY <2>2, OrdersLeft DEF MarkOrderDeducting
  <2> QED BY <2>1, <2>2
<1>3. jobs' \in [Job -> JobRow] /\ JobsAreKnown'
  BY <1>1, <1>2, JobGoes DEF MarkOrderDeducting
<1> QED BY <1>2, <1>3, SubsLeft, PlansLeft, QuietParts DEF MarkOrderDeducting, SubscriptionInv, TypeOK

\* DebitStrict takes the price once: it finds the reference or sets it.
LEMMA ChargeQuiet ==
  ASSUME SubscriptionInv, NEW j, NEW o \in Order, Charge(j, o)
  PROVE  /\ OrdersQuiet /\ ChargesStay /\ orders'[o].debited
         /\ balance' \in [User -> Nat]
<1>1. CASE orders[o].debited /\ UNCHANGED <<orders, balance, debits>>
  <2>1. balance' \in [User -> Nat]
    BY <1>1 DEF SubscriptionInv, TypeOK
  <2> QED BY <1>1, <2>1, OrdersLeft DEF ChargesStay
<1>2. CASE /\ ~ orders[o].debited /\ o \in Open /\ balance[buyer[o]] > 0
           /\ orders' = [orders EXCEPT ![o].debited = TRUE, ![o].stalled = FALSE]
           /\ balance' = [balance EXCEPT ![buyer[o]] = @ - 1]
           /\ debits' = [debits EXCEPT ![o] = @ + 1]
  <2> DEFINE x == ChargedRow(orders[o])
  <2>1. orders \in [Order -> OrderRow] /\ debits \in [Order -> 0 .. 1] /\ balance \in [User -> Nat]
    BY DEF SubscriptionInv, TypeOK
  <2>2. orders' = [orders EXCEPT ![o] = x]
    BY <1>2, <2>1 DEF ChargedRow
  <2>3. /\ x \in OrderRow /\ x.status = orders[o].status /\ x.debited = TRUE
        /\ x.at = orders[o].at /\ x.policy = orders[o].policy
    BY <2>1, ChargedFacts
  <2> HIDE DEF x
  <2>4. orders'[o] = x /\ \A q \in Order : q # o => orders'[q] = orders[q]
    BY <2>1, <2>2
  <2>5. balance' \in [User -> Nat]
    <3>1. buyer[o] \in User
      BY SubscriptionAssumption
    <3>2. balance[buyer[o]] - 1 \in Nat
      BY <1>2, <2>1, <3>1
    <3> QED BY <1>2, <2>1, <3>2
  <2>6. \A q \in Order : debits[q] = One(orders[q].debited)
    BY DEF SubscriptionInv, PaidOrdersAreServed
  <2>7. debits[o] = 0
    BY <1>2, <2>6 DEF One
  <2>8. /\ debits'[o] = 1 /\ debits' \in [Order -> 0 .. 1]
        /\ \A q \in Order : q # o => debits'[q] = debits[q]
    BY <1>2, <2>1, <2>7
  <2>9. SameOrder(o)
    BY <2>3, <2>4, Zenon DEF SameOrder
  <2>10. ChargedRight(o)
    <3>1. orders'[o].debited
      BY <2>3, <2>4, Zenon
    <3> QED BY <2>8, <3>1 DEF ChargedRight, One
  <2>11. ASSUME NEW q \in Order, q # o PROVE SameOrder(q) /\ ChargedRight(q)
    BY <2>4, <2>6, <2>8, <2>11 DEF SameOrder, ChargedRight
  <2>12. OrdersQuiet
    BY <2>1, <2>2, <2>3, <2>8, <2>9, <2>10, <2>11 DEF OrdersQuiet
  <2>13. ChargesStay
    BY <2>12 DEF OrdersQuiet, SameOrder, ChargesStay
  <2>14. orders'[o].debited
    BY <2>3, <2>4, Zenon
  <2> QED BY <2>5, <2>12, <2>13, <2>14
<1> QED BY <1>1, <1>2 DEF Charge

LEMMA DebitQuiet ==
  ASSUME SubscriptionInv, NEW j \in Job, DebitStrict(j) \/ DebitUnanswered(j)
  PROVE  QuietStep
<1>1. jobs[j].pc = "debit" /\ jobs[j].order \in Order /\ Charge(j, jobs[j].order)
  BY BusyJob DEF DebitStrict, DebitUnanswered
<1>2. /\ OrdersQuiet /\ ChargesStay /\ orders'[jobs[j].order].debited
      /\ balance' \in [User -> Nat]
  BY <1>1, ChargeQuiet
<1>3. jobs' \in [Job -> JobRow] /\ JobsAreKnown'
  BY <1>1, <1>2, JobGoes, JobIdles DEF DebitStrict, DebitUnanswered
<1>4. UNCHANGED <<subs, plans, gates, clock>>
  BY DEF DebitStrict, DebitUnanswered
<1> QED BY <1>2, <1>3, <1>4, SubsLeft, PlansLeft, QuietParts DEF SubscriptionInv, TypeOK

LEMMA JobQuiet ==
  ASSUME SubscriptionInv, NEW j \in Job, DebitRefused(j) \/ Abandon(j)
  PROVE  QuietStep
<1>1. UNCHANGED <<orders, subs, plans, balance, debits, gates, clock>> /\ jobs[j].pc # "idle"
  BY DEF DebitRefused, Abandon
<1>2. OrdersQuiet /\ ChargesStay
  BY <1>1, OrdersLeft
<1>3. jobs' \in [Job -> JobRow] /\ JobsAreKnown'
  BY <1>1, <1>2, JobGoes, JobIdles DEF DebitRefused, Abandon
<1> QED BY <1>1, <1>2, <1>3, SubsLeft, PlansLeft, QuietParts DEF SubscriptionInv, TypeOK

LEMMA ReconcileQuiet ==
  ASSUME SubscriptionInv, NEW j \in Janitor, NEW o \in Order, Reconcile(j, o)
  PROVE  QuietStep
<1> DEFINE x == [pc |-> "debit", order |-> o]
<1>1. x \in JobRow /\ x.pc = "debit" /\ x.order = o
  BY DEF JobRow
<1>2. /\ jobs' = [jobs EXCEPT ![j] = x] /\ j \in Job
      /\ UNCHANGED <<orders, subs, plans, balance, debits, gates, clock>>
  BY DEF Reconcile, Job
<1> HIDE DEF x
<1>3. OrdersQuiet /\ ChargesStay
  BY <1>2, OrdersLeft
<1>4. jobs' \in [Job -> JobRow] /\ JobsAreKnown'
  BY <1>1, <1>2, <1>3, JobMoves
<1> QED BY <1>2, <1>3, <1>4, SubsLeft, PlansLeft, QuietParts DEF SubscriptionInv, TypeOK

\* Time and the balance.
LEMMA StallsQuiet ==
  ASSUME SubscriptionInv, NEW o \in Order, Stalls(o)
  PROVE  QuietStep
<1>1. orders[o] \in OrderRow
  BY DEF SubscriptionInv, TypeOK
<1>2. UNCHANGED <<subs, plans, balance, debits, jobs, gates, clock>>
  BY DEF Stalls
<1>3. OrdersQuiet /\ ChargesStay
  <2>1. orders' = [orders EXCEPT ![o] = StalledRow(orders[o])]
    BY DEF Stalls, StalledRow
  <2> QED BY <1>1, <1>2, <2>1, StalledFacts, OneOrderMoves
<1>4. jobs' \in [Job -> JobRow] /\ JobsAreKnown'
  BY <1>2, <1>3, JobsLeft
<1> QED BY <1>2, <1>3, <1>4, SubsLeft, PlansLeft, QuietParts DEF SubscriptionInv, TypeOK

\* A reservation that begins or is withdrawn, and the clock itself.
LEMMA ClockQuiet ==
  ASSUME SubscriptionInv, (\E o \in Order : Begin(o) \/ Withdraw(o)) \/ Tick
  PROVE  QuietStep
<1>1. UNCHANGED <<orders, subs, plans, balance, debits, jobs, gates>>
  BY DEF Begin, Withdraw, Tick
<1>2. now \in Nat /\ begun \in [Order -> SUBSET Nat]
  BY DEF SubscriptionInv, TypeOK
<1>3. now' \in Nat /\ begun' \in [Order -> SUBSET Nat]
  <2>1. ASSUME NEW o \in Order, Begin(o) PROVE now' \in Nat /\ begun' \in [Order -> SUBSET Nat]
    BY <1>2, <2>1 DEF Begin
  <2>2. ASSUME NEW o \in Order, Withdraw(o) PROVE now' \in Nat /\ begun' \in [Order -> SUBSET Nat]
    <3>1. PICK t \in begun[o] : begun' = [begun EXCEPT ![o] = @ \ {t}]
      BY <2>2 DEF Withdraw
    <3> QED BY <1>2, <2>2, <3>1 DEF Withdraw
  <2>3. CASE Tick
    BY <1>2, <2>3 DEF Tick
  <2> QED BY <2>1, <2>2, <2>3
<1>4. OrdersQuiet /\ ChargesStay
  BY <1>1, OrdersLeft
<1>5. jobs' \in [Job -> JobRow] /\ JobsAreKnown'
  BY <1>1, <1>4, JobsLeft
<1>6. balance' \in [User -> Nat] /\ gates' \in [Gate -> GateRow]
  BY <1>1 DEF SubscriptionInv, TypeOK
<1>7. SubsQuiet /\ PlansQuiet
  BY <1>1, SubsLeft, PlansLeft
<1> QED BY <1>3, <1>4, <1>5, <1>6, <1>7 DEF OrdersQuiet, SubsQuiet, PlansQuiet, QuietStep, TypeOK

LEMMA BalanceQuiet ==
  ASSUME SubscriptionInv, NEW u \in User, BalanceChanges(u)
  PROVE  QuietStep
<1>1. UNCHANGED <<orders, subs, plans, debits, jobs, gates, clock>>
  BY DEF BalanceChanges
<1>2. balance' \in [User -> Nat]
  BY SubscriptionAssumption DEF BalanceChanges, SubscriptionInv, TypeOK
<1>3. OrdersQuiet /\ ChargesStay
  BY <1>1, OrdersLeft
<1>4. jobs' \in [Job -> JobRow] /\ JobsAreKnown'
  BY <1>1, <1>3, JobsLeft
<1> QED BY <1>1, <1>2, <1>3, <1>4, SubsLeft, PlansLeft, QuietParts DEF SubscriptionInv, TypeOK

\* Only subscriptions and gates change.
LEMMA SubsMove ==
  ASSUME SubscriptionInv, UNCHANGED <<orders, plans, balance, debits, jobs, clock>>,
         SubsQuiet, gates' \in [Gate -> GateRow]
  PROVE  QuietStep
<1>1. OrdersQuiet /\ ChargesStay
  BY OrdersLeft
<1>2. jobs' \in [Job -> JobRow] /\ JobsAreKnown'
  BY <1>1, JobsLeft
<1>3. balance' \in [User -> Nat]
  BY DEF SubscriptionInv, TypeOK
<1> QED BY <1>1, <1>2, <1>3, PlansLeft, QuietParts

LEMMA StorefrontQuiet ==
  ASSUME SubscriptionInv, NEW u \in User, Storefront(u)
  PROVE  QuietStep
<1>1. SubsQuiet
  BY AdvanceFacts DEF Storefront, SubsQuiet, SubscriptionInv
<1>2. gates' \in [Gate -> GateRow] /\ UNCHANGED <<orders, plans, balance, debits, jobs, clock>>
  BY DEF Storefront, SubscriptionInv, TypeOK
<1> QED BY <1>1, <1>2, SubsMove

LEMMA ExpireDueQuiet ==
  ASSUME SubscriptionInv, ExpireDue
  PROVE  QuietStep
<1>1. subs \in [Order -> SubRow] /\ subs' = [o \in Order |-> Expire(subs, o)[o]]
  BY DEF ExpireDue, SubscriptionInv, TypeOK
<1>2. \A o \in Order : Expire(subs, o)[o] \in SubRow /\ Later(subs[o], Expire(subs, o)[o])
  BY <1>1, ExpireFacts DEF AllLater
<1>3. SubsQuiet
  BY <1>1, <1>2 DEF SubsQuiet, AllLater
<1>4. gates' \in [Gate -> GateRow] /\ UNCHANGED <<orders, plans, balance, debits, jobs, clock>>
  BY DEF ExpireDue, SubscriptionInv, TypeOK
<1> QED BY <1>3, <1>4, SubsMove

LEMMA FallsDueQuiet ==
  ASSUME SubscriptionInv, NEW o \in Order, FallsDue(o)
  PROVE  QuietStep
<1> DEFINE x == [subs[o] EXCEPT !.due = TRUE]
<1>1. subs \in [Order -> SubRow]
  BY DEF SubscriptionInv, TypeOK
<1>2. x \in SubRow /\ x.status = subs[o].status /\ x.seq = subs[o].seq
  <2>1. subs[o] \in SubRow
    BY <1>1
  <2>2. \A y \in SubRow, b \in BOOLEAN : [y EXCEPT !.due = b] \in SubRow
    BY SMT DEF SubRow
  <2>3. x.status = subs[o].status /\ x.seq = subs[o].seq
    BY <2>1, SMT DEF SubRow
  <2> QED BY <2>1, <2>2, <2>3
<1>3. subs' = [subs EXCEPT ![o] = x] /\ subs[o].status = "active"
  BY DEF FallsDue
<1> HIDE DEF x
<1>4. Later(subs[o], x)
  BY <1>2, <1>3 DEF Later
<1>5. SubsQuiet
  BY <1>1, <1>2, <1>3, <1>4, LaterFacts DEF SubsQuiet, AllLater
<1>6. gates' \in [Gate -> GateRow] /\ UNCHANGED <<orders, plans, balance, debits, jobs, clock>>
  BY DEF FallsDue, SubscriptionInv, TypeOK
<1> QED BY <1>5, <1>6, SubsMove

\* The gates.
LEMMA IdleGateType == IdleGate \in GateRow
<1>1. (CHOOSE u \in User : TRUE) \in User
  BY SubscriptionAssumption
<1> QED BY <1>1 DEF IdleGate, GateRow

LEMMA GateMoves ==
  ASSUME SubscriptionInv, NEW g \in Gate, NEW u \in User, NEW active,
         NEW pending \in Order \cup {NoOrder}, AfterRead(g, u, active, pending)
  PROVE  gates' \in [Gate -> GateRow]
<1> DEFINE x == [pc |-> "activate", user |-> u, active |-> NoOrder, pending |-> pending]
           y == IF active = NoOrder /\ pending # NoOrder THEN x ELSE IdleGate
<1>1. x \in GateRow
  BY DEF GateRow
<1>2. y \in GateRow
  BY <1>1, IdleGateType
<1>3. gates' = [gates EXCEPT ![g] = y]
  BY DEF AfterRead
<1> HIDE DEF y
<1> QED BY <1>2, <1>3 DEF SubscriptionInv, TypeOK

LEMMA ResolveQuiet ==
  ASSUME SubscriptionInv, NEW g \in Gate, NEW u \in User, ResolveActive(g, u)
  PROVE  QuietStep
<1> DEFINE active == LastActive(subs, u)
           pending == FirstPending(subs, u)
           x == [pc |-> "expire", user |-> u, active |-> active, pending |-> pending]
<1>1. active \in Order \cup {NoOrder} /\ pending \in Order \cup {NoOrder}
  BY QueueFacts DEF SubscriptionInv, TypeOK
<1>2. UNCHANGED <<orders, subs, plans, balance, debits, jobs, clock>>
  BY DEF ResolveActive
<1>3. gates' \in [Gate -> GateRow]
  <2>1. CASE gates' = [gates EXCEPT ![g] = x]
    <3>1. x \in GateRow
      <4> HIDE DEF active, pending
      <4> QED BY <1>1 DEF GateRow
    <3> HIDE DEF x
    <3> QED BY <2>1, <3>1 DEF SubscriptionInv, TypeOK
  <2>2. CASE AfterRead(g, u, active, pending)
    <3> HIDE DEF active, pending
    <3> QED BY <1>1, <2>2, GateMoves
  <2> QED BY <2>1, <2>2 DEF ResolveActive
<1> QED BY <1>2, <1>3, SubsLeft, SubsMove

LEMMA GateExpiresQuiet ==
  ASSUME SubscriptionInv, NEW g \in Gate, GateExpires(g)
  PROVE  QuietStep
<1> DEFINE row == gates[g]
           s == Expire(subs, row.active)
<1>1. row \in GateRow
  BY DEF SubscriptionInv, TypeOK
<1>2. /\ row.user \in User /\ row.active \in Order \cup {NoOrder}
      /\ row.pending \in Order \cup {NoOrder}
  BY <1>1 DEF GateRow
<1>3. s \in [Order -> SubRow] /\ AllLater(subs, s) /\ subs' = s
  BY <1>2, ExpireFacts DEF GateExpires, SubscriptionInv, TypeOK
<1>4. SubsQuiet
  BY <1>3 DEF SubsQuiet
<1>5. gates' \in [Gate -> GateRow]
  <2>1. CASE AfterRead(g, row.user, NoOrder, row.pending)
    BY <1>2, <2>1, GateMoves
  <2>2. CASE AfterRead(g, row.user, LastActive(s, row.user), FirstPending(s, row.user))
    <3>1. FirstPending(s, row.user) \in Order \cup {NoOrder}
      <4> HIDE DEF s, row
      <4> QED BY <1>2, <1>3, QueueFacts
    <3> HIDE DEF s, row
    <3> QED BY <1>2, <2>2, <3>1, GateMoves
  <2> QED BY <2>1, <2>2 DEF GateExpires
<1>6. UNCHANGED <<orders, plans, balance, debits, jobs, clock>>
  BY DEF GateExpires
<1> QED BY <1>4, <1>5, <1>6, SubsMove

LEMMA GateActivatesQuiet ==
  ASSUME SubscriptionInv, NEW g \in Gate, GateActivates(g)
  PROVE  QuietStep
<1>1. gates[g] \in GateRow
  BY DEF SubscriptionInv, TypeOK
<1>2. gates[g].pending \in Order \cup {NoOrder}
  BY <1>1 DEF GateRow
<1>3. SubsQuiet
  BY <1>2, ActivateFacts DEF GateActivates, SubsQuiet, SubscriptionInv, TypeOK
<1>4. gates' \in [Gate -> GateRow]
  BY IdleGateType DEF GateActivates, SubscriptionInv, TypeOK
<1>5. UNCHANGED <<orders, plans, balance, debits, jobs, clock>>
  BY DEF GateActivates
<1> QED BY <1>3, <1>4, <1>5, SubsMove

\* The administrator's edit, checked under the plan's lock and then written.
LEMMA OnePlanMoves ==
  ASSUME SubscriptionInv, NEW p \in Plan, NEW x \in PlanRow, plans' = [plans EXCEPT ![p] = x],
         x.reserved = plans[p].reserved, x.sold = plans[p].sold,
         \A n \in {x.limit, x.edit} : n > 0 => plans[p].sold + plans[p].reserved <= n,
         UNCHANGED <<orders, subs, balance, debits, jobs, gates, clock>>
  PROVE  QuietStep
<1>1. plans \in [Plan -> PlanRow]
  BY DEF SubscriptionInv, TypeOK
<1>2. plans'[p] = x /\ \A q \in Plan : q # p => plans'[q] = plans[q]
  BY <1>1
<1>3. SamePlan(p)
  BY <1>2 DEF SamePlan
<1>4. ASSUME NEW q \in Plan, q # p PROVE SamePlan(q)
  BY <1>2, <1>4 DEF SamePlan, SubscriptionInv, CountersAreExact
<1>5. PlansQuiet
  BY <1>1, <1>3, <1>4 DEF PlansQuiet
<1>6. OrdersQuiet /\ ChargesStay
  BY OrdersLeft
<1>7. jobs' \in [Job -> JobRow] /\ JobsAreKnown'
  BY <1>6, JobsLeft
<1> QED BY <1>5, <1>6, <1>7, SubsLeft, QuietParts DEF SubscriptionInv, TypeOK

LEMMA EditPlanQuiet ==
  ASSUME SubscriptionInv, NEW p \in Plan, NEW limit \in SaleLimits, EditPlan(p, limit)
  PROVE  QuietStep
<1> DEFINE x == EditedRow(plans[p], limit)
<1>1. plans[p] \in PlanRow
  BY PlanNumbers
<1>2. /\ x \in PlanRow /\ x.reserved = plans[p].reserved /\ x.sold = plans[p].sold
      /\ x.limit = plans[p].limit /\ x.edit = limit
  BY <1>1, EditedFacts
<1>3. plans' = [plans EXCEPT ![p] = x]
  BY DEF EditPlan, EditedRow
<1>4. limit > 0 => plans[p].sold + plans[p].reserved <= limit
  BY SubscriptionAssumption DEF EditPlan
<1>5. plans[p].limit > 0 => plans[p].sold + plans[p].reserved <= plans[p].limit
  BY DEF SubscriptionInv, CountersAreExact
<1> HIDE DEF x
<1>6. \A n \in {x.limit, x.edit} : n > 0 => plans[p].sold + plans[p].reserved <= n
  BY <1>2, <1>4, <1>5
<1>7. UNCHANGED <<orders, subs, balance, debits, jobs, gates, clock>>
  BY DEF EditPlan
<1> QED BY <1>2, <1>3, <1>6, <1>7, OnePlanMoves

LEMMA UpdatePlanQuiet ==
  ASSUME SubscriptionInv, NEW p \in Plan, UpdatePlan(p)
  PROVE  QuietStep
<1>1. plans[p] \in PlanRow /\ plans \in [Plan -> PlanRow]
  BY PlanNumbers DEF SubscriptionInv, TypeOK
<1>2. PICK n \in SaleLimits : n = plans[p].edit
  BY <1>1 DEF UpdatePlan, PlanRow
<1>3. /\ n > 0 => plans[p].sold + plans[p].reserved <= n
      /\ plans[p].limit > 0 => plans[p].sold + plans[p].reserved <= plans[p].limit
  BY <1>2 DEF SubscriptionInv, CountersAreExact
<1>4. ~ (NoEdit > 0) /\ NoEdit \in SaleLimits \cup {NoEdit}
  BY DEF NoEdit
<1>5. UNCHANGED <<orders, subs, balance, debits, jobs, gates, clock>>
  BY DEF UpdatePlan
<1>6. ASSUME NEW y \in Policies,
             plans' = [plans EXCEPT ![p].limit = plans[p].edit, ![p].policy = y, ![p].edit = NoEdit]
      PROVE  QuietStep
  <2>1. PICK x : x = LimitedRow(plans[p], n, y)
    OBVIOUS
  <2>2. /\ x \in PlanRow /\ x.reserved = plans[p].reserved /\ x.sold = plans[p].sold
        /\ x.limit = n /\ x.edit = NoEdit
    BY <1>1, <2>1, LimitedFacts
  <2>3. plans' = [plans EXCEPT ![p] = x]
    BY <1>1, <1>2, <1>6, <2>1 DEF LimitedRow
  <2> QED BY <1>3, <1>4, <1>5, <2>2, <2>3, OnePlanMoves
<1>7. CASE plans' = [plans EXCEPT ![p].edit = NoEdit]
  <2>1. PICK x : x = EditedRow(plans[p], NoEdit)
    OBVIOUS
  <2>2. /\ x \in PlanRow /\ x.reserved = plans[p].reserved /\ x.sold = plans[p].sold
        /\ x.limit = plans[p].limit /\ x.edit = NoEdit
    BY <1>1, <1>4, <2>1, EditedFacts
  <2>3. plans' = [plans EXCEPT ![p] = x]
    BY <1>7, <2>1 DEF EditedRow
  <2> QED BY <1>3, <1>4, <1>5, <2>2, <2>3, OnePlanMoves
<1> QED BY <1>6, <1>7 DEF UpdatePlan

-----------------------------------------------------------------------------
(* The two decisions. *)

\* An open order has a place in the inventory, so that giving it back does
\* not take the counter below zero.
LEMMA OpenOrderHoldsAPlace ==
  ASSUME SubscriptionInv, NEW o \in Open
  PROVE  /\ planOf[o] \in Plan /\ plans[planOf[o]] \in PlanRow
         /\ plans[planOf[o]].reserved - 1 \in Nat /\ plans[planOf[o]].sold \in Nat
<1> DEFINE p == planOf[o]
           A == Open \cap Ordered(p)
<1>1. o \in Order /\ p \in Plan
  BY SubscriptionAssumption DEF Open
<1>2. A \in SUBSET Order /\ o \in A
  BY <1>1 DEF Ordered
<1>3. plans[p].reserved = Cardinality(A)
  BY <1>1 DEF SubscriptionInv, CountersAreExact
<1> HIDE DEF A
<1>4. Cardinality(A) >= 1
  BY <1>1, <1>2, CountOneMore
<1>5. plans[p] \in PlanRow /\ plans[p].reserved \in Nat /\ plans[p].sold \in Nat
  BY <1>1, PlanNumbers
<1> HIDE DEF p
<1>6. plans[p].reserved - 1 \in Nat
  BY <1>3, <1>4, <1>5
<1> QED BY <1>1, <1>5, <1>6 DEF p

LEMMA DecisionMoves ==
  ASSUME SubscriptionInv, NEW o \in Order, NEW st \in {"paid", "failed"},
         orders' = [orders EXCEPT ![o] = MovedTo(orders[o], st)]
  PROVE  /\ orders' \in [Order -> OrderRow] /\ ChargesStay
         /\ orders'[o].status = st
         /\ orders'[o].debited = orders[o].debited
         /\ orders'[o].at = orders[o].at /\ orders'[o].policy = orders[o].policy
         /\ \A q \in Order : q # o => orders'[q] = orders[q]
<1> DEFINE x == MovedTo(orders[o], st)
<1>1. orders \in [Order -> OrderRow]
  BY DEF SubscriptionInv, TypeOK
<1>2. /\ x \in OrderRow /\ x.status = st
      /\ x.debited = orders[o].debited /\ x.at = orders[o].at /\ x.policy = orders[o].policy
  BY <1>1, MovedFacts
<1> HIDE DEF x
<1>3. orders'[o] = x /\ \A q \in Order : q # o => orders'[q] = orders[q]
  BY <1>1 DEF x
<1>4. orders' \in [Order -> OrderRow]
  BY <1>1, <1>2 DEF x
<1>5. ChargesStay
  BY <1>2, <1>3 DEF ChargesStay
<1> QED BY <1>2, <1>3, <1>4, <1>5

\* The counters of the order's plan and of the others.
LEMMA DecisionCounts ==
  ASSUME SubscriptionInv, NEW p \in Plan, NEW x \in PlanRow, plans' = [plans EXCEPT ![p] = x],
         x.limit = plans[p].limit, x.edit = plans[p].edit
  PROVE  /\ plans' \in [Plan -> PlanRow] /\ plans'[p] = x
         /\ \A q \in Plan : /\ plans'[q].limit = plans[q].limit /\ plans'[q].edit = plans[q].edit
                            /\ q # p => plans'[q] = plans[q]
<1>1. plans \in [Plan -> PlanRow]
  BY DEF SubscriptionInv, TypeOK
<1>2. plans'[p] = x /\ \A q \in Plan : q # p => plans'[q] = plans[q]
  BY <1>1
<1> QED BY <1>1, <1>2

LEMMA MarkOrderFailedSteps ==
  ASSUME SubscriptionInv, NEW j \in Job, MarkOrderFailed(j)
  PROVE  QuietStep \/ \E o \in Order : DecideStep(o, "failed")
<1> DEFINE o == jobs[j].order
           p == planOf[o]
           x == ReservedRow(plans[p], plans[p].reserved - 1)
<1>1. o \in Order /\ Finish(j) /\ UNCHANGED <<subs, balance, debits, gates, clock>>
  BY BusyJob DEF MarkOrderFailed
<1>2. CASE /\ o \in Open
           /\ orders' = [orders EXCEPT ![o].status = "failed", ![o].stalled = FALSE]
           /\ plans' = ReleasePlanInventory(p)
  <2>1. orders' = [orders EXCEPT ![o] = MovedTo(orders[o], "failed")]
    BY <1>1, <1>2 DEF MovedTo, SubscriptionInv, TypeOK
  <2>2. plans' = [plans EXCEPT ![p] = x]
    BY <1>2 DEF ReleasePlanInventory, ReservedRow
  <2> HIDE DEF o
  <2>3. /\ p \in Plan /\ plans[p] \in PlanRow
        /\ plans[p].reserved - 1 \in Nat /\ plans[p].sold \in Nat
    BY <1>2, OpenOrderHoldsAPlace
  <2>4. /\ x \in PlanRow /\ x.reserved = plans[p].reserved - 1 /\ x.sold = plans[p].sold
        /\ x.limit = plans[p].limit /\ x.edit = plans[p].edit
    <3> HIDE DEF p
    <3> QED BY <2>3, CountedFacts
  <2> HIDE DEF x
  <2>5. /\ orders' \in [Order -> OrderRow] /\ ChargesStay
        /\ orders'[o].status = "failed"
        /\ orders'[o].debited = orders[o].debited
        /\ orders'[o].at = orders[o].at /\ orders'[o].policy = orders[o].policy
        /\ \A q \in Order : q # o => orders'[q] = orders[q]
    BY <1>1, <2>1, DecisionMoves
  <2>6. /\ plans' \in [Plan -> PlanRow] /\ plans'[p] = x
        /\ \A q \in Plan : /\ plans'[q].limit = plans[q].limit /\ plans'[q].edit = plans[q].edit
                           /\ q # p => plans'[q] = plans[q]
    BY <2>2, <2>3, <2>4, DecisionCounts
  <2>7. jobs' \in [Job -> JobRow] /\ JobsAreKnown'
    BY <1>1, <2>5, JobIdles
  <2>8. TypeOK'
    BY <1>1, <2>5, <2>6, <2>7 DEF clock, SubscriptionInv, TypeOK
  <2>9. plans'[p].sold = plans[p].sold + One("failed" = "paid")
    BY <2>3, <2>4, <2>6 DEF One
  <2>10. plans'[p].reserved = plans[p].reserved - 1
    BY <2>4, <2>6
  <2>11. DecideStep(o, "failed")
    BY <1>1, <1>2, <2>5, <2>6, <2>7, <2>8, <2>9, <2>10 DEF DecideStep
  <2> QED BY <1>1, <2>11
<1>3. CASE o \notin Open /\ UNCHANGED <<orders, plans>>
  <2>1. OrdersQuiet /\ ChargesStay
    BY <1>1, <1>3, OrdersLeft
  <2>2. jobs' \in [Job -> JobRow] /\ JobsAreKnown'
    BY <1>1, <2>1, JobIdles
  <2> QED BY <1>1, <1>3, <2>1, <2>2, SubsLeft, PlansLeft, QuietParts DEF SubscriptionInv, TypeOK
<1> QED BY <1>2, <1>3 DEF MarkOrderFailed

\* The number of the next subscription is within the number of the orders.
LEMMA NextSeq ==
  ASSUME SubscriptionInv, NEW o \in Open
  PROVE  Cardinality({q \in Order : subs[q].status # "none"}) + 1 \in 0 .. Cardinality(Order)
<1> DEFINE A == {q \in Order : subs[q].status # "none"}
<1>1. o \in Order /\ orders[o].status # "paid"
  BY DEF Open
<1>2. o \notin A /\ A \in SUBSET Order /\ (A \cup {o}) \in SUBSET Order
  BY <1>1 DEF SubscriptionInv, PaidOrdersAreServed, Paid
<1> HIDE DEF A
<1>3. Cardinality(A \cup {o}) = Cardinality(A) + 1
  BY <1>1, <1>2, CountOneMore
<1>4. Cardinality(A) \in Nat /\ Cardinality(A \cup {o}) <= Cardinality(Order)
  BY <1>2, Counts
<1> QED BY <1>3, <1>4, OrderCount DEF A

LEMMA FinalizeOrderSteps ==
  ASSUME SubscriptionInv, NEW j \in Job, FinalizeOrder(j)
  PROVE  QuietStep \/ \E o \in Order : DecideStep(o, "paid")
<1> DEFINE o == jobs[j].order
           p == planOf[o]
           x == CountedRow(plans[p], plans[p].reserved - 1, plans[p].sold + 1)
           opened == {q \in Order : subs[q].status # "none"}
           y == [status |-> IF LastActive(subs, buyer[o]) = NoOrder THEN "active" ELSE "pending",
                 seq |-> Cardinality(opened) + 1, due |-> FALSE]
<1>1. o \in Order /\ orders[o].debited /\ Finish(j) /\ UNCHANGED <<balance, debits, gates, clock>>
  BY BusyJob DEF FinalizeOrder
<1>2. CASE /\ o \in Open
           /\ subs' = [subs EXCEPT ![o] = y]
           /\ orders' = [orders EXCEPT ![o].status = "paid", ![o].stalled = FALSE]
           /\ plans' = [plans EXCEPT ![p].reserved = @ - 1, ![p].sold = @ + 1]
  <2>1. orders' = [orders EXCEPT ![o] = MovedTo(orders[o], "paid")]
    BY <1>1, <1>2 DEF MovedTo, SubscriptionInv, TypeOK
  <2>2. /\ p \in Plan /\ plans[p] \in PlanRow
        /\ plans[p].reserved - 1 \in Nat /\ plans[p].sold \in Nat
    <3> HIDE DEF o
    <3> QED BY <1>2, OpenOrderHoldsAPlace
  <2>3. plans' = [plans EXCEPT ![p] = x]
    BY <1>2, <2>2 DEF CountedRow, SubscriptionInv, TypeOK
  <2>4. y \in SubRow /\ y.status \in {"pending", "active"} /\ y.seq = Cardinality(opened) + 1
    <3>1. Cardinality(opened) + 1 \in 0 .. Cardinality(Order)
      <4> HIDE DEF o
      <4> QED BY <1>2, NextSeq
    <3> HIDE DEF opened
    <3> QED BY <3>1 DEF SubRow
  <2> HIDE DEF o, y
  <2>15. opened = Paid
    BY DEF SubscriptionInv, PaidOrdersAreServed, Paid
  <2> HIDE DEF opened
  <2>5. /\ x \in PlanRow /\ x.reserved = plans[p].reserved - 1 /\ x.sold = plans[p].sold + 1
        /\ x.limit = plans[p].limit /\ x.edit = plans[p].edit
    <3> HIDE DEF p
    <3> QED BY <2>2, SoldFacts
  <2> HIDE DEF x
  <2>6. /\ orders' \in [Order -> OrderRow] /\ ChargesStay
        /\ orders'[o].status = "paid"
        /\ orders'[o].debited = orders[o].debited
        /\ orders'[o].at = orders[o].at /\ orders'[o].policy = orders[o].policy
        /\ \A q \in Order : q # o => orders'[q] = orders[q]
    BY <1>1, <2>1, DecisionMoves
  <2>7. /\ plans' \in [Plan -> PlanRow] /\ plans'[p] = x
        /\ \A q \in Plan : /\ plans'[q].limit = plans[q].limit /\ plans'[q].edit = plans[q].edit
                           /\ q # p => plans'[q] = plans[q]
    BY <2>2, <2>3, <2>5, DecisionCounts
  <2>8. jobs' \in [Job -> JobRow] /\ JobsAreKnown'
    BY <1>1, <2>6, JobIdles
  <2>9. /\ subs' \in [Order -> SubRow] /\ subs'[o] = y
        /\ \A q \in Order : q # o => subs'[q] = subs[q]
    BY <1>1, <1>2, <2>4 DEF SubscriptionInv, TypeOK
  <2>10. TypeOK'
    BY <1>1, <2>6, <2>7, <2>8, <2>9 DEF clock, SubscriptionInv, TypeOK
  <2>11. plans'[p].sold = plans[p].sold + One("paid" = "paid")
    BY <2>2, <2>5, <2>7 DEF One
  <2>12. plans'[p].reserved = plans[p].reserved - 1
    BY <2>5, <2>7
  <2>13. subs'[o].status \in {"pending", "active"} /\ subs'[o].seq = Cardinality(Paid) + 1
    BY <2>4, <2>9, <2>15
  <2>14. DecideStep(o, "paid")
    BY <1>1, <1>2, <2>6, <2>7, <2>8, <2>9, <2>10, <2>11, <2>12, <2>13 DEF DecideStep
  <2> QED BY <1>1, <2>14
<1>3. CASE o \notin Open /\ UNCHANGED <<orders, subs, plans>>
  <2>1. OrdersQuiet /\ ChargesStay
    BY <1>1, <1>3, OrdersLeft
  <2>2. jobs' \in [Job -> JobRow] /\ JobsAreKnown'
    BY <1>1, <2>1, JobIdles
  <2> QED BY <1>1, <1>3, <2>1, <2>2, SubsLeft, PlansLeft, QuietParts DEF SubscriptionInv, TypeOK
<1> QED BY <1>2, <1>3 DEF FinalizeOrder, OpensSubscription

-----------------------------------------------------------------------------
(* The invariant of the specification. *)

LEMMA SubscriptionInit == Init => SubscriptionInv
<1> SUFFICES ASSUME Init PROVE SubscriptionInv
  OBVIOUS
<1>1. /\ \A o \in Order : orders[o].status = "none" /\ orders[o].debited = FALSE
      /\ \A o \in Order : subs[o].status = "none" /\ debits[o] = 0
      /\ \A j \in Job : jobs[j].pc = "idle"
  BY DEF Init
<1>2. Open = {} /\ Paid = {} /\ LiveIn(subs) = {} /\ Cardinality({}) = 0
  BY <1>1, FS_EmptySet DEF Open, Paid, LiveIn
<1>3. TypeOK
  <2>1. orders \in [Order -> OrderRow]
    <3>1. (CHOOSE policy \in Policies : TRUE) \in Policies
      BY SubscriptionAssumption
    <3> QED BY <3>1 DEF Init, OrderRow
  <2>2. subs \in [Order -> SubRow]
    BY OrderCount DEF Init, SubRow
  <2>3. plans \in [Plan -> PlanRow]
    <3>1. \A n \in SaleLimits, policy \in Policies :
            [limit |-> n, policy |-> policy, reserved |-> 0, sold |-> 0, edit |-> NoEdit] \in PlanRow
      BY DEF PlanRow
    <3> QED BY <3>1 DEF Init
  <2>4. balance \in [User -> Nat] /\ debits \in [Order -> 0 .. 1]
    BY SubscriptionAssumption DEF Init
  <2>5. jobs \in [Job -> JobRow]
    BY DEF Init, JobRow
  <2>6. gates \in [Gate -> GateRow]
    BY IdleGateType DEF Init
  <2>7. now \in Nat /\ begun \in [Order -> SUBSET Nat]
    BY DEF Init
  <2> QED BY <2>1, <2>2, <2>3, <2>4, <2>5, <2>6, <2>7 DEF TypeOK
<1>4. JobsAreKnown
  BY <1>1 DEF JobsAreKnown
<1>5. PaidOrdersAreServed
  BY <1>1, <1>2 DEF PaidOrdersAreServed, One
<1>6. CountersAreExact
  <2> SUFFICES ASSUME NEW p \in Plan
               PROVE  /\ plans[p].reserved = 0 /\ plans[p].sold = 0
                      /\ \A n \in {plans[p].limit, plans[p].edit} :
                           n > 0 => plans[p].sold + plans[p].reserved <= n
    <3>1. \A p \in Plan : Open \cap Ordered(p) = {} /\ Paid \cap Ordered(p) = {}
      BY <1>2
    <3> QED BY <1>2, <3>1 DEF CountersAreExact
  <2>1. PICK n \in SaleLimits, policy \in Policies :
          plans[p] = [limit |-> n, policy |-> policy, reserved |-> 0, sold |-> 0, edit |-> NoEdit]
    BY DEF Init
  <2>2. n \in Nat /\ plans[p].limit = n /\ plans[p].edit = NoEdit
        /\ plans[p].reserved = 0 /\ plans[p].sold = 0
    BY <2>1, SubscriptionAssumption
  <2> QED BY <2>2 DEF NoEdit
<1>7. PlacesAreLimited
  <2>1. \A u \in User : Waiting(u) = {}
    BY <1>2 DEF Waiting
  <2>2. \A u \in User, p \in Plan : Queued(u, p) = {}
    BY <1>1, <1>2 DEF Queued, Mine, Of
  <2>3. 0 <= 1 + MaxQueue /\ 0 <= 1
    BY SubscriptionAssumption
  <2> QED BY <1>2, <2>1, <2>2, <2>3, Zenon DEF PlacesAreLimited
<1>8. PoliciesHold /\ SeqsAreCounted
  BY <1>2 DEF PoliciesHold, SeqsAreCounted
<1> QED BY <1>3, <1>4, <1>5, <1>6, <1>7, <1>8 DEF SubscriptionInv

\* Every action reserves a place, decides an order, or is quiet.
SubscriptionStep ==
  \/ QuietStep
  \/ \E o \in Order : DecideStep(o, "paid") \/ DecideStep(o, "failed")
  \/ \E c \in Caller, o \in Order : Reserve(c, o)

LEMMA SubscriptionSteps ==
  ASSUME SubscriptionInv, Next
  PROVE  SubscriptionStep
<1>1. ASSUME NEW j \in Job, PurchaseStep(j) PROVE SubscriptionStep
  BY <1>1, MarkOrderDeductingQuiet, DebitQuiet, JobQuiet, MarkOrderFailedSteps, FinalizeOrderSteps
     DEF PurchaseStep, SubscriptionStep
<1>2. ASSUME NEW j \in Janitor, NEW o \in Order, Reconcile(j, o) PROVE SubscriptionStep
  BY <1>2, ReconcileQuiet DEF SubscriptionStep
<1>3. ASSUME NEW g \in Gate, GateStep(g) PROVE SubscriptionStep
  BY <1>3, ResolveQuiet, GateExpiresQuiet, GateActivatesQuiet DEF GateStep, SubscriptionStep
<1>4. ASSUME NEW p \in Plan, PlanStep(p) PROVE SubscriptionStep
  BY <1>4, EditPlanQuiet, UpdatePlanQuiet DEF PlanStep, SubscriptionStep
<1>5. CASE Environment
  BY <1>5, StorefrontQuiet, BalanceQuiet, StallsQuiet, FallsDueQuiet, ClockQuiet
     DEF Environment, SubscriptionStep
<1>6. CASE ExpireDue
  BY <1>6, ExpireDueQuiet DEF SubscriptionStep
<1>7. CASE \E c \in Caller, o \in Order : Reserve(c, o)
  BY <1>7 DEF SubscriptionStep
<1>8. CASE \E o \in Order : Begin(o) \/ Withdraw(o)
  BY <1>8, ClockQuiet DEF SubscriptionStep
<1> QED BY <1>1, <1>2, <1>3, <1>4, <1>5, <1>6, <1>7, <1>8 DEF Next

LEMMA SubscriptionStutters ==
  ASSUME SubscriptionInv, UNCHANGED vars
  PROVE  QuietStep
<1>1. UNCHANGED <<orders, subs, plans, balance, debits, jobs, gates, clock>>
  BY DEF vars, clock
<1>2. OrdersQuiet /\ ChargesStay
  BY <1>1, OrdersLeft
<1>3. jobs' \in [Job -> JobRow] /\ JobsAreKnown'
  BY <1>1, <1>2, JobsLeft
<1> QED BY <1>1, <1>2, <1>3, SubsLeft, PlansLeft, QuietParts DEF SubscriptionInv, TypeOK

LEMMA SubscriptionInvariance == Spec => []SubscriptionInv
<1>1. ASSUME SubscriptionInv, [Next]_vars PROVE SubscriptionInv'
  <2>1. SubscriptionStep
    BY <1>1, SubscriptionSteps, SubscriptionStutters DEF SubscriptionStep
  <2> QED BY <1>1, <2>1, QuietKeeps, DecideKeeps, ReserveKeeps DEF SubscriptionStep
<1> QED BY <1>1, SubscriptionInit, PTL DEF Spec

-----------------------------------------------------------------------------
(* The theorems. *)

\* However purchases, replays by any number of janitors and lost answers of
\* the debit interleave, the tables keep their shapes: no counter of the
\* inventory goes below zero and DebitStrict charges no order twice.
THEOREM SubscriptionTypes == Spec => []TypeOK
<1>1. SubscriptionInv => TypeOK
  BY DEF SubscriptionInv
<1> QED BY <1>1, SubscriptionInvariance, PTL

\* FinalizeOrder opens a subscription for exactly the orders it marks paid, and
\* only after DebitStrict has recorded the one charge of the order.
THEOREM SubscriptionsAreOfPaidOrders == Spec => []PaidOrdersAreServed
<1>1. SubscriptionInv => PaidOrdersAreServed
  BY DEF SubscriptionInv
<1> QED BY <1>1, SubscriptionInvariance, PTL

LEMMA LimitsFollow ==
  ASSUME SubscriptionInv
  PROVE  PurchaseLimitsHold
<1>1. ASSUME NEW p \in Plan
      PROVE  /\ plans[p].reserved = Cardinality(Open \cap Ordered(p))
             /\ plans[p].sold = Cardinality(Paid \cap Ordered(p))
             /\ plans[p].limit # 0 => plans[p].sold + plans[p].reserved <= plans[p].limit
  <2>1. /\ plans[p].reserved = Cardinality(Open \cap Ordered(p))
        /\ plans[p].sold = Cardinality(Paid \cap Ordered(p))
        /\ plans[p].limit > 0 => plans[p].sold + plans[p].reserved <= plans[p].limit
    BY DEF SubscriptionInv, CountersAreExact
  <2>2. plans[p].limit \in Nat
    BY PlanNumbers
  <2> QED BY <2>1, <2>2
<1>2. ASSUME NEW u \in User PROVE Cardinality((LiveIn(subs) \cup Open) \cap Of(u)) <= 1 + MaxQueue
  BY DEF SubscriptionInv, PlacesAreLimited, Waiting
<1>3. ASSUME NEW u \in User, NEW p \in Plan
      PROVE  Cardinality({o \in Of(u) : planOf[o] = p /\ (o \in Open \/ subs[o].status = "pending")}) <= 1
  <2>1. Queued(u, p) = {o \in Of(u) : planOf[o] = p /\ (o \in Open \/ subs[o].status = "pending")}
    BY DEF Queued, Mine
  <2> QED BY <2>1 DEF SubscriptionInv, PlacesAreLimited
<1>4. ASSUME NEW o \in Paid
      PROVE  LET policy  == orders[o].policy
                 counted == {p \in BoughtBy(o) : InPeriod(policy, orders[p].at, orders[o].at)}
             IN  /\ policy.lifetime # 0 => Cardinality(BoughtBy(o)) <= policy.lifetime
                 /\ policy.kind # "none" => Cardinality(counted) <= policy.max
  <2> DEFINE y == orders[o].policy
             A == Earlier(o)
             R == {p \in A : InPeriod(y, orders[p].at, orders[o].at)}
             C == {p \in BoughtBy(o) : InPeriod(y, orders[p].at, orders[o].at)}
  <2>1. o \in Order /\ y \in Policies
    BY DEF SubscriptionInv, TypeOK, OrderRow, Paid
  <2>2. y.lifetime \in Nat /\ y.max \in Nat
    BY <2>1, SubscriptionAssumption DEF Policy
  <2>3. /\ y.lifetime # 0 => Cardinality(A) < y.lifetime
        /\ y.kind # "none" => Cardinality(R) < y.max
    BY DEF SubscriptionInv, PoliciesHold, WithinPolicy
  <2>4. BoughtBy(o) \subseteq A \cup {o} /\ C \subseteq R \cup {o}
    BY DEF BoughtBy, Earlier, Mine, Of
  <2>5. /\ A \in SUBSET Order /\ R \in SUBSET Order /\ A \cup {o} \in SUBSET Order
        /\ R \cup {o} \in SUBSET Order /\ C \in SUBSET Order /\ BoughtBy(o) \in SUBSET Order
    BY <2>1 DEF BoughtBy, Earlier, Paid
  <2> HIDE DEF A, R, C, y
  <2>6. /\ Cardinality(A \cup {o}) <= Cardinality(A) + 1 /\ Cardinality(R \cup {o}) <= Cardinality(R) + 1
        /\ Cardinality(A) \in Nat /\ Cardinality(R) \in Nat
    BY <2>1, <2>5, CountOneMore, Counts
  <2>7. /\ Cardinality(BoughtBy(o)) <= Cardinality(A \cup {o}) /\ Cardinality(C) <= Cardinality(R \cup {o})
        /\ Cardinality(BoughtBy(o)) \in Nat /\ Cardinality(A \cup {o}) \in Nat
        /\ Cardinality(C) \in Nat /\ Cardinality(R \cup {o}) \in Nat
    BY <2>4, <2>5, Counts
  <2>8. /\ y.lifetime # 0 => Cardinality(BoughtBy(o)) <= y.lifetime
        /\ y.kind # "none" => Cardinality(C) <= y.max
    BY <2>2, <2>3, <2>6, <2>7
  <2> QED BY <2>8 DEF y, C
<1> QED BY <1>1, <1>2, <1>3, <1>4 DEF PurchaseLimitsHold, Ordered

\* The checks of ReservePurchase under the user's lock hold to the end of the
\* purchase, which finishes in later transactions: the counters of a plan are
\* exactly its open and its paid orders and stay within the sale limit while
\* UpdatePlan changes it, nobody gets beyond the queue or queues a plan twice,
\* and every paid order was within the lifetime and period limit of the policy
\* that ReservePurchase read, at the now() of its BEGIN, however the policy is
\* edited and whatever overtakes it.
THEOREM SubscriptionLimits == Spec => []PurchaseLimitsHold
<1>1. SubscriptionInv => PurchaseLimitsHold
  BY LimitsFollow
<1> QED BY <1>1, SubscriptionInvariance, PTL

\* What a user has paid of a plan under one policy, in the period of a time.
InWindow(u, p, policy, time) ==
  {o \in Paid \cap Mine(u, p) : orders[o].policy = policy /\ InPeriod(policy, orders[o].at, time)}

\* The user's purchases of the plan were opened in the order they began in.
BegunInOrder(u, p) ==
  \A o, q \in Paid \cap Mine(u, p) : subs[o].seq <= subs[q].seq => orders[o].at <= orders[q].at

WindowsHold ==
  \A u \in User, p \in Plan, policy \in Policies, time \in Nat :
    \/ policy.kind = "calendar"
    \/ policy.kind = "rolling" /\ BegunInOrder(u, p)
    => Cardinality(InWindow(u, p, policy, time)) <= policy.max

\* The last purchase of a window counted all the others.
LEMMA LastCounts ==
  ASSUME SubscriptionInv, NEW u \in User, NEW p \in Plan, NEW policy \in Policies, NEW time \in Nat,
         policy.kind = "calendar" \/ (policy.kind = "rolling" /\ BegunInOrder(u, p)),
         NEW o \in InWindow(u, p, policy, time),
         \A q \in InWindow(u, p, policy, time) : subs[q].seq <= subs[o].seq
  PROVE  InWindow(u, p, policy, time)
           \subseteq {q \in BoughtBy(o) : InPeriod(policy, orders[q].at, orders[o].at)}
<1> SUFFICES ASSUME NEW q \in InWindow(u, p, policy, time)
             PROVE  q \in BoughtBy(o) /\ InPeriod(policy, orders[q].at, orders[o].at)
  OBVIOUS
<1>1. /\ o \in Paid \cap Mine(u, p) /\ InPeriod(policy, orders[o].at, time)
      /\ q \in Paid \cap Mine(u, p) /\ InPeriod(policy, orders[q].at, time)
  BY DEF InWindow
<1>2. orders[o].at \in Nat /\ orders[q].at \in Nat /\ policy.span \in Nat
  BY <1>1, SubscriptionAssumption DEF SubscriptionInv, TypeOK, OrderRow, Paid, Policy
<1>3. q \in BoughtBy(o)
  BY <1>1 DEF BoughtBy, Mine, Of
<1>4. CASE policy.kind = "calendar"
  BY <1>1, <1>3, <1>4 DEF InPeriod
<1>5. CASE policy.kind = "rolling" /\ BegunInOrder(u, p)
  <2>1. orders[q].at <= orders[o].at
    BY <1>1, <1>5 DEF BegunInOrder
  <2>2. time - policy.span < orders[q].at /\ orders[o].at <= time
    BY <1>1, <1>5 DEF InPeriod
  <2>3. orders[o].at - policy.span < orders[q].at
    BY <1>2, <2>2
  <2> QED BY <1>3, <1>5, <2>1, <2>3 DEF InPeriod
<1> QED BY <1>3, <1>4, <1>5

LEMMA WindowsFollow ==
  ASSUME SubscriptionInv
  PROVE  WindowsHold
<1> SUFFICES ASSUME NEW u \in User, NEW p \in Plan, NEW policy \in Policies, NEW time \in Nat,
                    policy.kind = "calendar" \/ (policy.kind = "rolling" /\ BegunInOrder(u, p))
             PROVE  Cardinality(InWindow(u, p, policy, time)) <= policy.max
  BY DEF WindowsHold
<1>1. PICK W : W = InWindow(u, p, policy, time)
  OBVIOUS
<1>2. W \in SUBSET Order /\ W \subseteq Paid /\ policy.max \in Nat
  BY <1>1, SubscriptionAssumption DEF InWindow, Paid, Policy
<1>3. CASE W = {}
  BY <1>1, <1>2, <1>3, FS_EmptySet
<1>4. CASE W # {}
  <2>1. PICK f : f = [q \in Order |-> subs[q].seq]
    OBVIOUS
  <2>2. \A q \in W : f[q] \in 0 .. Cardinality(Order) /\ f[q] = subs[q].seq
    BY <1>2, <2>1 DEF SubscriptionInv, TypeOK, SubRow
  <2>3. PICK o \in W : \A q \in W : f[q] <= f[o]
    BY <1>4, <2>2, OrderCount, GreatestExists
  <2>4. PICK C : C = {q \in BoughtBy(o) : InPeriod(policy, orders[q].at, orders[o].at)}
    OBVIOUS
  <2>5. W \subseteq C
    BY <1>1, <2>2, <2>3, <2>4, LastCounts
  <2>6. o \in Paid /\ orders[o].policy = policy
    BY <1>1 DEF InWindow
  <2>7. Cardinality(C) <= policy.max
    BY <2>4, <2>6, LimitsFollow DEF PurchaseLimitsHold
  <2>8. C \in SUBSET Order
    BY <2>4 DEF BoughtBy, Paid
  <2> QED BY <1>1, <1>2, <2>5, <2>7, <2>8, FewerOrders
<1> QED BY <1>3, <1>4

\* What EvaluatePurchaseEligibility gives the tenant: of the purchases a user
\* paid for under one policy no calendar period has more than the policy
\* allows, and no rolling window either as long as the user's purchases of the
\* plan were opened in the order they began in.  Without that hypothesis the
\* rolling window can be exceeded: now() is fixed at BEGIN, and a reservation
\* that waits for the user's lock does not count what began after it.
THEOREM SubscriptionWindows == Spec => []WindowsHold
<1>1. SubscriptionInv => WindowsHold
  BY WindowsFollow
<1> QED BY <1>1, SubscriptionInvariance, PTL

LEMMA DecisionsStand ==
  ASSUME SubscriptionInv, SubscriptionStep
  PROVE  DecisionStep
<1> SUFFICES ASSUME NEW o \in Order
             PROVE  /\ orders[o].status \in {"paid", "failed"} => orders'[o].status = orders[o].status
                    /\ subs[o].status = "expired" => subs'[o] = subs[o]
                    /\ subs[o].status = "active" => subs'[o].status \in {"active", "expired"}
                    /\ subs[o].status # "none" => subs'[o].seq = subs[o].seq
  BY DEF DecisionStep
<1>1. CASE QuietStep
  BY <1>1 DEF QuietStep, SameOrder, AllLater, Later
<1>2. ASSUME NEW q \in Order, NEW st, DecideStep(q, st)
      PROVE  /\ orders[o].status \in {"paid", "failed"} => orders'[o].status = orders[o].status
             /\ subs[o].status = "expired" => subs'[o] = subs[o]
             /\ subs[o].status = "active" => subs'[o].status \in {"active", "expired"}
             /\ subs[o].status # "none" => subs'[o].seq = subs[o].seq
  <2>1. CASE o # q
    BY <1>2, <2>1 DEF DecideStep
  <2>2. CASE o = q
    <3>1. orders[o].status \notin {"paid", "failed"} /\ subs[o].status = "none"
      BY <1>2, <2>2 DEF DecideStep, Open, SubscriptionInv, PaidOrdersAreServed, Paid
    <3> QED BY <3>1
  <2> QED BY <2>1, <2>2
<1>3. ASSUME NEW c \in Caller, NEW q \in Order, Reserve(c, q)
      PROVE  /\ orders[o].status \in {"paid", "failed"} => orders'[o].status = orders[o].status
             /\ subs[o].status = "expired" => subs'[o] = subs[o]
             /\ subs[o].status = "active" => subs'[o].status \in {"active", "expired"}
             /\ subs[o].status # "none" => subs'[o].seq = subs[o].seq
  <2>1. orders[o].status \in {"paid", "failed"} => orders'[o].status = orders[o].status
    BY <1>3, ReserveFacts
  <2>2. Later(subs[o], subs'[o])
    BY <1>3, ReserveSubs DEF AllLater
  <2> QED BY <2>1, <2>2 DEF Later
<1> QED BY <1>1, <1>2, <1>3 DEF SubscriptionStep

\* No late janitor, caller or gate takes a decision back: a paid or failed
\* order stays so, and ExpireSubscriptionIfDue and ActivateSubscription only
\* move a subscription from the queue to use to its end.
THEOREM SubscriptionDecisionsAreFinal == Spec => DecisionsAreFinal
<1>1. ASSUME SubscriptionInv, [Next]_vars PROVE [DecisionStep]_vars
  BY <1>1, SubscriptionSteps, DecisionsStand
<1> QED BY <1>1, SubscriptionInvariance, PTL DEF Spec, DecisionsAreFinal


-----------------------------------------------------------------------------
(* Where a charged order may fail. *)

\* What an advisory lock per order would give: no two purchases or replays
\* work on one order at the same time.
OneJobPerOrder ==
  \A j, k \in Job :
    j # k /\ jobs[j].pc # "idle" /\ jobs[k].pc # "idle" => jobs[j].order # jobs[k].order

\* A refusal that is about to be recorded is still true.
RefusalsAreFresh ==
  /\ \A j \in Job : jobs[j].pc = "fail" => debits[jobs[j].order] = 0
  /\ \A o \in Order : debits[o] # 0 => orders[o].status # "failed"

\* A step that refuses, charges and fails no order.
Harmless ==
  /\ debits' = debits
  /\ \A j \in Job : jobs'[j].pc = "fail" => jobs'[j] = jobs[j]
  /\ \A o \in Order : orders'[o].status = "failed" => orders[o].status = "failed"

LEMMA HarmlessStaysFresh ==
  ASSUME RefusalsAreFresh, Harmless
  PROVE  RefusalsAreFresh'
  BY DEF RefusalsAreFresh, Harmless

LEMMA JobAfter ==
  ASSUME SubscriptionInv, NEW j \in Job
  PROVE  /\ Finish(j) => /\ jobs'[j].pc = "idle"
                         /\ \A k \in Job : k # j => jobs'[k] = jobs[k]
         /\ \A pc : Goto(j, pc) => /\ jobs'[j].pc = pc /\ jobs'[j].order = jobs[j].order
                                   /\ \A k \in Job : k # j => jobs'[k] = jobs[k]
<1>1. jobs \in [Job -> JobRow]
  BY DEF SubscriptionInv, TypeOK
<1>2. jobs[j] \in JobRow
  BY <1>1
<1>3. ASSUME NEW pc, Goto(j, pc)
      PROVE  /\ jobs'[j].pc = pc /\ jobs'[j].order = jobs[j].order
             /\ \A k \in Job : k # j => jobs'[k] = jobs[k]
  BY <1>1, <1>2, <1>3 DEF Goto, JobRow
<1>4. ASSUME Finish(j)
      PROVE  jobs'[j].pc = "idle" /\ \A k \in Job : k # j => jobs'[k] = jobs[k]
  BY <1>1, <1>4 DEF Finish
<1> QED BY <1>3, <1>4

LEMMA OrdersAfter ==
  ASSUME SubscriptionInv, NEW o \in Order, NEW x, orders' = [orders EXCEPT ![o] = x]
  PROVE  orders'[o] = x /\ \A q \in Order : q # o => orders'[q] = orders[q]
  BY DEF SubscriptionInv, TypeOK

LEMMA HarmlessJobs ==
  ASSUME SubscriptionInv,
         \/ \E j \in Job : MarkOrderDeducting(j) \/ FinalizeOrder(j) \/ Abandon(j)
         \/ \E c \in Caller, o \in Order : Reserve(c, o)
         \/ \E j \in Janitor, o \in Order : Reconcile(j, o)
  PROVE  Harmless
<1>1. ASSUME NEW j \in Job, MarkOrderDeducting(j) PROVE Harmless
  <2>1. PICK o \in Order : o = jobs[j].order
    BY <1>1, BusyJob DEF MarkOrderDeducting
  <2>2. debits' = debits /\ Goto(j, "debit")
    BY <1>1 DEF MarkOrderDeducting
  <2>3. \A q \in Order : orders'[q].status = "failed" => orders[q].status = "failed"
    <3>1. CASE orders[o].status = "created"
      <4>1. orders[o] \in OrderRow
        BY DEF SubscriptionInv, TypeOK
      <4>2. orders' = [orders EXCEPT ![o] = MovedTo(orders[o], "deducting")]
        BY <1>1, <2>1, <3>1 DEF MarkOrderDeducting, MovedTo, SubscriptionInv, TypeOK
      <4> QED BY <4>1, <4>2, MovedFacts, OrdersAfter
    <3>2. CASE orders[o].status # "created"
      BY <1>1, <2>1, <3>2 DEF MarkOrderDeducting
    <3> QED BY <3>1, <3>2
  <2> QED BY <2>2, <2>3, JobAfter DEF Harmless
<1>2. ASSUME NEW j \in Job, FinalizeOrder(j) PROVE Harmless
  <2>1. PICK o \in Order : o = jobs[j].order
    BY <1>2, BusyJob DEF FinalizeOrder
  <2>2. debits' = debits /\ Finish(j)
    BY <1>2 DEF FinalizeOrder
  <2>3. \A q \in Order : orders'[q].status = "failed" => orders[q].status = "failed"
    <3>1. CASE orders' = [orders EXCEPT ![o].status = "paid", ![o].stalled = FALSE]
      <4>1. orders[o] \in OrderRow
        BY DEF SubscriptionInv, TypeOK
      <4>2. orders' = [orders EXCEPT ![o] = MovedTo(orders[o], "paid")]
        BY <3>1 DEF MovedTo, SubscriptionInv, TypeOK
      <4> QED BY <4>1, <4>2, MovedFacts, OrdersAfter
    <3>2. CASE orders' = orders
      BY <3>2
    <3> QED BY <1>2, <2>1, <3>1, <3>2 DEF FinalizeOrder
  <2> QED BY <2>2, <2>3, JobAfter DEF Harmless
<1>3. ASSUME NEW j \in Job, Abandon(j) PROVE Harmless
  BY <1>3, JobAfter DEF Abandon, Harmless
<1>4. ASSUME NEW c \in Caller, NEW o \in Order, Reserve(c, o) PROVE Harmless
  <2>1. /\ orders'[o].status = "created"
        /\ \A q \in Order : q # o => orders'[q] = orders[q]
    BY <1>4, ReserveFacts
  <2>2. debits' = debits /\ jobs' = [jobs EXCEPT ![c] = [pc |-> "reserved", order |-> o]]
    BY <1>4 DEF Reserve
  <2>3. c \in Job /\ jobs \in [Job -> JobRow]
    BY DEF Job, SubscriptionInv, TypeOK
  <2> QED BY <2>1, <2>2, <2>3 DEF Harmless
<1>5. ASSUME NEW j \in Janitor, NEW o \in Order, Reconcile(j, o) PROVE Harmless
  <2>1. j \in Job /\ jobs \in [Job -> JobRow]
    BY DEF Job, SubscriptionInv, TypeOK
  <2> QED BY <1>5, <2>1 DEF Reconcile, Harmless
<1> QED BY <1>1, <1>2, <1>3, <1>4, <1>5

LEMMA HarmlessRest ==
  ASSUME SubscriptionInv,
         \/ ExpireDue \/ \E g \in Gate : GateStep(g)
         \/ \E p \in Plan : PlanStep(p)
         \/ \E o \in Order : Begin(o) \/ Withdraw(o)
         \/ Environment \/ UNCHANGED vars
  PROVE  Harmless
<1>1. ASSUME NEW o \in Order, Stalls(o) PROVE Harmless
  <2>1. orders[o] \in OrderRow /\ debits' = debits /\ jobs' = jobs
    BY <1>1 DEF Stalls, SubscriptionInv, TypeOK
  <2>2. PICK x : x = StalledRow(orders[o])
    OBVIOUS
  <2>3. orders' = [orders EXCEPT ![o] = x] /\ x.status = orders[o].status
    BY <1>1, <2>1, <2>2, StalledFacts DEF Stalls, StalledRow
  <2>4. \A q \in Order : orders'[q].status = orders[q].status
    BY <2>3, OrdersAfter
  <2> QED BY <2>1, <2>4 DEF Harmless
<1>2. CASE UNCHANGED <<orders, debits, jobs>>
  BY <1>2 DEF Harmless
<1>3. UNCHANGED <<orders, debits, jobs>> \/ \E o \in Order : Stalls(o)
  BY DEF ExpireDue, GateStep, ResolveActive, GateExpires, GateActivates, PlanStep, EditPlan,
     UpdatePlan, Environment, Storefront, BalanceChanges, FallsDue, Tick, Begin, Withdraw, vars
<1> QED BY <1>1, <1>2, <1>3

\* The refusal of one job, and its record, concern an order no other job can
\* charge in between.
LEMMA AloneStaysFresh ==
  ASSUME SubscriptionInv, OneJobPerOrder, RefusalsAreFresh, NEW j \in Job,
         DebitStrict(j) \/ DebitUnanswered(j) \/ DebitRefused(j) \/ MarkOrderFailed(j)
  PROVE  RefusalsAreFresh'
<1>1. PICK o \in Order : o = jobs[j].order
  BY BusyJob DEF DebitStrict, DebitUnanswered, DebitRefused, MarkOrderFailed
<1>2. \A k \in Job : k # j /\ jobs[k].pc = "fail" => jobs[k].order \in Order /\ jobs[k].order # o
  <2> SUFFICES ASSUME NEW k \in Job, k # j, jobs[k].pc = "fail"
               PROVE  jobs[k].order \in Order /\ jobs[k].order # o
    OBVIOUS
  <2>1. jobs[j].pc # "idle"
    BY DEF DebitStrict, DebitUnanswered, DebitRefused, MarkOrderFailed
  <2> QED BY <1>1, <2>1, BusyJob DEF OneJobPerOrder
<1>3. orders[o] \in OrderRow /\ debits \in [Order -> 0 .. 1] /\ debits[o] = One(orders[o].debited)
  BY DEF SubscriptionInv, TypeOK, PaidOrdersAreServed
<1>4. ASSUME DebitStrict(j) \/ DebitUnanswered(j) PROVE RefusalsAreFresh'
  <2>1. /\ jobs'[j].pc \in {"finalize", "idle"}
        /\ \A k \in Job : k # j => jobs'[k] = jobs[k]
    BY <1>4, JobAfter DEF DebitStrict, DebitUnanswered
  <2>2. Charge(j, o)
    BY <1>1, <1>4 DEF DebitStrict, DebitUnanswered
  <2>3. CASE UNCHANGED <<orders, debits>>
    <3>1. Harmless
      BY <2>1, <2>3 DEF Harmless
    <3> QED BY <3>1, HarmlessStaysFresh
  <2>4. CASE /\ o \in Open
             /\ orders' = [orders EXCEPT ![o].debited = TRUE, ![o].stalled = FALSE]
             /\ debits' = [debits EXCEPT ![o] = @ + 1]
    <3>1. \A q \in Order : orders'[q].status = orders[q].status
      <4>1. orders' = [orders EXCEPT ![o] = ChargedRow(orders[o])]
        BY <2>4 DEF ChargedRow, SubscriptionInv, TypeOK
      <4>2. ChargedRow(orders[o]).status = orders[o].status
        BY <1>3, ChargedFacts, Zenon
      <4>3. PICK x : x = ChargedRow(orders[o])
        OBVIOUS
      <4> QED BY <4>1, <4>2, <4>3, OrdersAfter
    <3>2. \A q \in Order : q # o => debits'[q] = debits[q]
      BY <1>3, <2>4
    <3>3. orders[o].status # "failed"
      BY <2>4 DEF Open
    <3> QED BY <1>2, <2>1, <3>1, <3>2, <3>3 DEF RefusalsAreFresh
  <2> QED BY <2>2, <2>3, <2>4 DEF Charge
<1>5. ASSUME DebitRefused(j) PROVE RefusalsAreFresh'
  <2>1. ~ orders[o].debited /\ UNCHANGED <<orders, debits>>
    BY <1>1, <1>5 DEF DebitRefused
  <2>2. debits[o] = 0
    BY <1>3, <2>1 DEF One
  <2>3. /\ jobs'[j].pc = "fail" => jobs'[j].order = o
        /\ \A k \in Job : k # j => jobs'[k] = jobs[k]
    BY <1>1, <1>5, JobAfter DEF DebitRefused
  <2> QED BY <2>1, <2>2, <2>3 DEF RefusalsAreFresh
<1>6. ASSUME MarkOrderFailed(j) PROVE RefusalsAreFresh'
  <2>1. jobs[j].pc = "fail" /\ Finish(j) /\ debits' = debits
    BY <1>6 DEF MarkOrderFailed
  <2>2. jobs'[j].pc = "idle" /\ \A k \in Job : k # j => jobs'[k] = jobs[k]
    BY <2>1, JobAfter
  <2>3. debits[o] = 0
    BY <1>1, <2>1 DEF RefusalsAreFresh
  <2>4. \A q \in Order : q # o => orders'[q] = orders[q]
    <3>1. \/ orders' = orders
          \/ orders' = [orders EXCEPT ![o] = MovedTo(orders[o], "failed")]
      BY <1>1, <1>6 DEF MarkOrderFailed, MovedTo, SubscriptionInv, TypeOK
    <3> QED BY <3>1, OrdersAfter
  <2> QED BY <2>1, <2>2, <2>3, <2>4 DEF RefusalsAreFresh
<1> QED BY <1>4, <1>5, <1>6

\* DebitStrict and MarkOrderFailed are two transactions.  If no other purchase
\* or janitor works on the order between them, a charged order never ends as
\* failed: what the janitor's comment promises without a lock holds with one
\* per order.
THEOREM ChargedOrdersNeverFailAlone == Spec /\ []OneJobPerOrder => []ChargedOrdersNeverFail
<1>1. Init => RefusalsAreFresh
  BY DEF Init, RefusalsAreFresh
<1>2. ASSUME SubscriptionInv, OneJobPerOrder, RefusalsAreFresh, [Next]_vars PROVE RefusalsAreFresh'
  <2>1. CASE Harmless
    BY <1>2, <2>1, HarmlessStaysFresh
  <2>2. CASE \E j \in Job : DebitStrict(j) \/ DebitUnanswered(j) \/ DebitRefused(j) \/ MarkOrderFailed(j)
    BY <1>2, <2>2, AloneStaysFresh
  <2>3. ASSUME NEW j \in Job, PurchaseStep(j) PROVE RefusalsAreFresh'
    <3>1. CASE MarkOrderDeducting(j) \/ FinalizeOrder(j) \/ Abandon(j)
      BY <1>2, <2>1, <3>1, HarmlessJobs
    <3> QED BY <2>2, <2>3, <3>1 DEF PurchaseStep
  <2> QED BY <1>2, <2>1, <2>3, HarmlessJobs, HarmlessRest DEF Next
<1>3. SubscriptionInv /\ RefusalsAreFresh => ChargedOrdersNeverFail
  <2> SUFFICES ASSUME SubscriptionInv, RefusalsAreFresh, NEW o \in Order, orders[o].debited
               PROVE  orders[o].status # "failed"
    BY DEF ChargedOrdersNeverFail
  <2>1. debits[o] = One(orders[o].debited)
    BY DEF SubscriptionInv, PaidOrdersAreServed
  <2>2. debits[o] # 0
    BY <2>1 DEF One
  <2> QED BY <2>2 DEF RefusalsAreFresh
<1> QED BY <1>1, <1>2, <1>3, SubscriptionInvariance, PTL DEF Spec
=============================================================================
