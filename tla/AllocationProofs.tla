-------------------------- MODULE AllocationProofs --------------------------
(***************************************************************************)
(* Theorems about Allocation, for any trades, limits, least trade, cash,   *)
(* risk sizes and proceeds.                                                *)
(***************************************************************************)
EXTENDS Allocation, FiniteSetTheorems, TLAPS

USE TradeAssumption, LimitAssumption

-----------------------------------------------------------------------------
(* Sums: what the number of the cents of a set of trades is.               *)

CentsOf(f, S) == UNION {{t} \X (1..f[t]) : t \in S}

LEMMA OnePart ==
  ASSUME NEW x, NEW n \in Nat
  PROVE  IsFiniteSet({x} \X (1..n)) /\ Cardinality({x} \X (1..n)) = n
<1>. DEFINE A == {x}
            B == 1..n
<1>1. IsFiniteSet(A) /\ Cardinality(A) = 1
  BY FS_Singleton
<1>2. IsFiniteSet(B) /\ Cardinality(B) = n
  BY FS_Interval
<1>3. IsFiniteSet(A \X B) /\ Cardinality(A \X B) = Cardinality(A) * Cardinality(B)
  <2>. HIDE DEF A, B
  <2>. QED  BY <1>1, <1>2, FS_Product
<1>. QED  BY <1>1, <1>2, <1>3

LEMMA CentsAreFinite ==
  ASSUME NEW S \in SUBSET Trades, NEW f \in [Trades -> Nat]
  PROVE  IsFiniteSet(CentsOf(f, S)) /\ Cardinality(CentsOf(f, S)) \in Nat
<1>. DEFINE Part(t) == {t} \X (1..f[t])
            Parts == {Part(t) : t \in S}
<1>1. IsFiniteSet(S)
  BY FS_Subset
<1>2. IsFiniteSet(Parts)
  <2>. DEFINE g == [t \in S |-> Part(t)]
  <2>1. g \in Surjection(S, Parts)
    BY DEF Surjection
  <2>. HIDE DEF g, Parts
  <2>. QED  BY <1>1, <2>1, FS_Surjection
<1>3. ASSUME NEW P \in Parts PROVE IsFiniteSet(P)
  <2>1. PICK t \in S : P = Part(t)
    OBVIOUS
  <2>. QED  BY <2>1, OnePart
<1>4. IsFiniteSet(UNION Parts)
  <2>. HIDE DEF Parts
  <2>1. \A P \in Parts : IsFiniteSet(P)
    BY <1>3
  <2>. QED  BY <1>2, <2>1, FS_UNION
<1>. QED  BY <1>4, FS_CardinalityType DEF CentsOf

LEMMA CentsGrow ==
  ASSUME NEW S \in SUBSET Trades, NEW T \in SUBSET S, NEW f \in [Trades -> Nat]
  PROVE  Cardinality(CentsOf(f, T)) <= Cardinality(CentsOf(f, S))
<1>1. CentsOf(f, T) \in SUBSET CentsOf(f, S)
  BY DEF CentsOf
<1>. QED  BY <1>1, CentsAreFinite, FS_Subset

LEMMA Apart ==
  ASSUME NEW A, NEW B, IsFiniteSet(A), IsFiniteSet(B), A \cap B = {}
  PROVE  Cardinality(A \cup B) = Cardinality(A) + Cardinality(B)
<1>1. Cardinality(A \cup B) = Cardinality(A) + Cardinality(B) - Cardinality(A \cap B)
  BY FS_Union
<1>2. Cardinality(A \cap B) = 0
  BY FS_EmptySet
<1>3. Cardinality(A) \in Nat /\ Cardinality(B) \in Nat
  BY FS_CardinalityType
<1>. QED  BY <1>1, <1>2, <1>3

LEMMA CentsAdd ==
  ASSUME NEW S \in SUBSET Trades, NEW t \in Trades \ S, NEW f \in [Trades -> Nat]
  PROVE  Cardinality(CentsOf(f, S \cup {t})) = Cardinality(CentsOf(f, S)) + f[t]
<1>. DEFINE P == {t} \X (1..f[t])
            A == CentsOf(f, S)
<1>1. CentsOf(f, S \cup {t}) = A \cup P /\ A \cap P = {}
  BY DEF CentsOf
<1>2. IsFiniteSet(P) /\ Cardinality(P) = f[t]
  BY OnePart
<1>3. IsFiniteSet(A)
  BY CentsAreFinite
<1>4. Cardinality(A \cup P) = Cardinality(A) + Cardinality(P)
  <2>. HIDE DEF A, P
  <2>. QED  BY <1>1, <1>2, <1>3, Apart
<1>. HIDE DEF A, P
<1>5. Cardinality(CentsOf(f, S \cup {t})) = Cardinality(A) + f[t]
  BY <1>1, <1>2, <1>4
<1>. QED  BY <1>5 DEF A

LEMMA CentsSame ==
  ASSUME NEW S, NEW f, NEW g, \A t \in S : f[t] = g[t]
  PROVE  CentsOf(f, S) = CentsOf(g, S)
<1>1. \A x : x \in CentsOf(f, S) <=> \E t \in S : x \in {t} \X (1..f[t])
  BY DEF CentsOf
<1>2. \A x : x \in CentsOf(g, S) <=> \E t \in S : x \in {t} \X (1..g[t])
  BY DEF CentsOf
<1>3. \A t \in S : {t} \X (1..f[t]) = {t} \X (1..g[t])
  OBVIOUS
<1>4. \A x : x \in CentsOf(f, S) <=> x \in CentsOf(g, S)
  BY <1>1, <1>2, <1>3
<1>. HIDE DEF CentsOf
<1>. QED  BY <1>4

-----------------------------------------------------------------------------
(* Shares: a share leaves as much for each other slot.                     *)

LEMMA ShareLeavesRest ==
  ASSUME NEW n \in Nat, NEW d \in Nat \ {0}, NEW q \in Nearest(n, d), NEW m \in Nat,
         n >= d * m
  PROVE  n - q >= (d - 1) * m /\ n - m >= (d - 1) * m
<1>1. d * m \in Nat /\ (d - 1) * m = d * m - m
  OBVIOUS
<1>. DEFINE r == n - d * m
<1>2. r \in Nat
  BY <1>1
<1>3. q \in Nat /\ 2 * (q * d) <= 2 * n + d
  BY DEF Nearest
<1>4. q <= m + r
  <2>. SUFFICES ASSUME q >= m + r + 1 PROVE FALSE
    BY <1>2, <1>3
  <2>1. q - (m + r + 1) \in Nat /\ (q - (m + r + 1)) * d \in Nat
    BY <1>2, <1>3
  <2>2. (q - (m + r + 1)) * d = q * d - d * m - r * d - d
    BY <1>1, <1>2, <1>3
  <2>3. r * d >= r
    <3>1. r * (d - 1) \in Nat /\ r * (d - 1) = r * d - r
      BY <1>2
    <3>. QED  BY <3>1, <1>2
  <2>4. q * d \in Nat /\ r * d \in Nat
    BY <1>2, <1>3
  <2>. HIDE DEF r
  <2>5. q * d >= d * m + r * d + d
    BY <2>1, <2>2, <2>4, <1>1
  <2>6. n = d * m + r
    BY <1>1 DEF r
  <2>. QED  BY <2>3, <2>4, <2>5, <2>6, <1>1, <1>2, <1>3
<1>. QED  BY <1>1, <1>2, <1>3, <1>4

-----------------------------------------------------------------------------
(* Sizes: what the two ways to a size come to.                             *)

LEMMA RoundedDown ==
  ASSUME NEW n \in Nat, NEW d \in Nat \ {0}, NEW q \in Nearest(n, d)
  PROVE  q \in Nat /\ q <= n
  BY DEF Nearest

LEMMA SuggestedFits ==
  ASSUME NEW r \in Nat, NEW n \in Nat
  PROVE  Suggested(r, n) \in Nat /\ Suggested(r, n) <= n
  BY DEF Suggested, Lower

LEMMA SharedFits ==
  ASSUME NEW n \in Nat, NEW d \in Nat \ {0}, NEW q \in Nearest(n, d),
         NEW s \in Nat, s <= n
  PROVE  /\ Shared(s, q, n) \in Nat /\ Shared(s, q, n) <= n
         /\ n >= d * Minimum => n - Shared(s, q, n) >= (d - 1) * Minimum
<1>1. q \in Nat /\ q <= n
  BY RoundedDown
<1>2. Least \in Nat /\ (Minimum # 0 => Least = Minimum)
  BY DEF Least
<1>3. Shared(s, q, n) \in Nat /\ Shared(s, q, n) <= n
  BY <1>1, <1>2 DEF Shared, Lower
<1>4. ASSUME n >= d * Minimum PROVE n - Shared(s, q, n) >= (d - 1) * Minimum
  <2>1. CASE Minimum = 0
    <3>1. (d - 1) * Minimum = 0
      BY <2>1
    <3>. QED  BY <3>1, <1>3
  <2>2. CASE Minimum # 0
    <3>1. n - q >= (d - 1) * Minimum /\ n - Minimum >= (d - 1) * Minimum
      BY <1>4, ShareLeavesRest
    <3>2. Shared(s, q, n) <= q \/ Shared(s, q, n) <= Minimum
      BY <1>1, <1>2, <2>2 DEF Shared, Lower
    <3>3. (d - 1) * Minimum \in Nat
      OBVIOUS
    <3>. QED  BY <3>1, <3>2, <3>3, <1>1, <1>3
  <2>. QED  BY <2>1, <2>2
<1>. QED  BY <1>3, <1>4

\* The size of ComputeAllocatedCapital.
Even(q, n) == IF q \in 1..(Minimum - 1) /\ n >= Minimum THEN Minimum ELSE q

LEMMA EvenFits ==
  ASSUME NEW n \in Nat, NEW d \in Nat \ {0}, NEW q \in Nearest(n, d)
  PROVE  /\ Even(q, n) \in Nat /\ Even(q, n) <= n
         /\ n >= d * Minimum => n - Even(q, n) >= (d - 1) * Minimum
<1>1. q \in Nat /\ q <= n
  BY RoundedDown
<1>2. n >= d * Minimum => n - q >= (d - 1) * Minimum /\ n - Minimum >= (d - 1) * Minimum
  BY ShareLeavesRest
<1>. QED  BY <1>1, <1>2 DEF Even

LEMMA Counts ==
  ASSUME NEW S \in SUBSET Trades
  PROVE  IsFiniteSet(S) /\ Cardinality(S) \in Nat
  BY FS_Subset, FS_CardinalityType

LEMMA Totals ==
  ASSUME TypeOK, NEW S \in SUBSET Trades
  PROVE  Total(S) \in Nat /\ Total(S) = Cardinality(CentsOf(amount, S))
<1>1. Cents(S) = CentsOf(amount, S)
  BY DEF Cents, CentsOf
<1>2. Cardinality(CentsOf(amount, S)) \in Nat
  BY CentsAreFinite DEF TypeOK
<1>. QED  BY <1>1, <1>2 DEF Total

LEMMA Balance ==
  ASSUME TypeOK, NEW n \in Nat
  PROVE  /\ FreeOf(n) \in Nat /\ FreeOf(n) <= n
         /\ FreeOf(n) > 0 => FreeOf(n) = n - Total(Pending)
         /\ SlotsLeft \in Nat \ {0}
<1>1. Total(Pending) \in Nat
  BY Totals DEF Pending
<1>2. Cardinality(Active) \in Nat
  BY Counts DEF Active
<1>. QED  BY <1>1, <1>2 DEF FreeOf, SlotsLeft, Higher

-----------------------------------------------------------------------------
(* Type correctness.                                                       *)

LEMMA LeastIsPositive == Least \in Nat \ {0}
  BY DEF Least

LEMMA HalfFits ==
  ASSUME NEW n \in Nat, n > Least, NEW half \in Nearest(n, 2)
  PROVE  Higher(Least, half) \in Nat \ {0} /\ Higher(Least, half) <= n
  BY LeastIsPositive DEF Nearest, Higher

LEMMA TypeStep == TypeOK /\ [Next]_vars => TypeOK'
<1>. SUFFICES ASSUME TypeOK, [Next]_vars PROVE TypeOK'
  OBVIOUS
<1>1. ASSUME NEW c \in Categories, NEW S \in SUBSET Trades, StartEvaluation(c, S) PROVE TypeOK'
  BY <1>1 DEF StartEvaluation, TypeOK, Goto, Fault, Sizing, table
<1>2. ASSUME NEW t \in Trades, NextSignal(t) PROVE TypeOK'
  BY <1>2 DEF NextSignal, TypeOK, Goto, Sizing, table
<1>3. CASE Refuse
  BY <1>3 DEF Refuse, TypeOK, Goto, Forget, Sizing, table, MaxTries
<1>4. CASE Lookup
  BY <1>4 DEF Lookup, TypeOK, Goto, Fault, Sizing, table
<1>5. ASSUME NEW n \in Nat, NEW s \in Nat, NEW label \in {"project", "save"}, pc \in Sizing,
             Settle(n, s, label)
      PROVE  TypeOK'
  <2>1. SlotsLeft \in Nat \ {0}
    BY Balance
  <2>. QED  BY <1>5, <2>1 DEF Settle, TypeOK, Goto, Forget, Sizing, table, MaxTries
<1>6. ASSUME NEW r \in RiskSizes, RiskBasedAllocation(r) PROVE TypeOK'
  <2>. DEFINE n == FreeOf(free)
              s == Suggested(r, n)
  <2>1. n \in Nat /\ SlotsLeft \in Nat \ {0}
    BY Balance DEF TypeOK
  <2>2. s \in Nat /\ s <= n
    <3>. HIDE DEF n
    <3>. QED  BY <2>1, SuggestedFits
  <2>3. PICK q \in Nearest(n, SlotsLeft) :
          Settle(n, IF s = 0 THEN 0 ELSE Shared(s, q, n), "project")
    BY <1>6 DEF RiskBasedAllocation
  <2>4. pc \in Sizing
    BY <1>6 DEF RiskBasedAllocation, Sizing
  <2>. HIDE DEF n, s
  <2>5. Shared(s, q, n) \in Nat
    BY <2>1, <2>2, SharedFits
  <2>. QED  BY <2>1, <2>3, <2>4, <2>5, <1>5
<1>7. CASE ComputeAllocatedCapital
  <2>. DEFINE n == FreeOf(free)
  <2>1. n \in Nat /\ SlotsLeft \in Nat \ {0}
    BY Balance DEF TypeOK
  <2>2. PICK q \in Nearest(n, SlotsLeft) : Settle(n, Even(q, n), "save")
    BY <1>7 DEF ComputeAllocatedCapital, Even
  <2>3. pc \in Sizing
    BY <1>7 DEF ComputeAllocatedCapital, Sizing
  <2>. HIDE DEF n
  <2>4. Even(q, n) \in Nat
    BY <2>1, EvenFits
  <2>. QED  BY <2>1, <2>2, <2>3, <2>4, <1>5
<1>8. CASE Project
  <2>1. CASE Goto("save") /\ UNCHANGED <<trade, free, slots, size, tries>>
    BY <1>8, <2>1 DEF Project, TypeOK, Goto, Sizing, table
  <2>2. CASE size > Least /\ tries < MaxTries /\ UNCHANGED <<pc, trade, free, slots>>
             /\ (\E half \in Nearest(size, 2) : size' = Higher(Least, half))
             /\ tries' = tries + 1
    <3>1. size' \in Nat \ {0}
      BY <2>2, HalfFits DEF TypeOK
    <3>. QED  BY <1>8, <2>2, <3>1 DEF Project, TypeOK, Sizing, table, MaxTries
  <2>3. CASE Goto("signal") /\ Forget
    BY <1>8, <2>3 DEF Project, TypeOK, Goto, Forget, Sizing, table, MaxTries
  <2>. QED  BY <1>8, <2>1, <2>2, <2>3 DEF Project
<1>9. CASE SaveNewTrade
  BY <1>9 DEF SaveNewTrade, TypeOK, Goto, Forget, Sizing, MaxTries
<1>10. CASE EvaluationEnds
  BY <1>10 DEF EvaluationEnds, TypeOK, Goto, Forget, Sizing, table, MaxTries
<1>11. CASE StartSync \/ SyncEnds
  BY <1>11 DEF StartSync, SyncEnds, Pending, TypeOK, Goto, Sizing, table, evaluation
<1>12. ASSUME NEW t \in Trades, NEW s \in {status[t], "OPEN", "CANCELLED"}, Visit(t, s),
              account' \in [Trades -> {"none", "waiting", "held", "over"}], cash' \in Nat
       PROVE  TypeOK'
  BY <1>12 DEF Visit, TypeOK, Sizing, evaluation
<1>13. ASSUME NEW t \in Trades,
              SendOrder(t) \/ LeaveUnsent(t) \/ AwaitOrder(t) \/ FillOrRefuse(t)
       PROVE  TypeOK'
  <2>1. account' \in [Trades -> {"none", "waiting", "held", "over"}] /\ cash' \in Nat
    BY <1>13 DEF SendOrder, LeaveUnsent, AwaitOrder, FillOrRefuse, Adjust, TypeOK
  <2>2. \E s \in {status[t], "OPEN", "CANCELLED"} : Visit(t, s)
    BY <1>13 DEF SendOrder, LeaveUnsent, AwaitOrder, FillOrRefuse
  <2>. QED  BY <2>1, <2>2, <1>12
<1>14. ASSUME NEW t \in Trades, EndTrade(t) PROVE TypeOK'
  BY <1>14 DEF EndTrade, TypeOK, Sizing, evaluation
<1>15. ASSUME NEW t \in Trades, OrderEnds(t) \/ PositionCloses(t) PROVE TypeOK'
  <2>1. account' \in [Trades -> {"none", "waiting", "held", "over"}] /\ cash' \in Nat
    BY <1>15 DEF OrderEnds, PositionCloses, Adjust, TypeOK
  <2>. QED  BY <1>15, <2>1 DEF OrderEnds, PositionCloses, TypeOK, Sizing, evaluation, table
<1>16. CASE UNCHANGED vars
  BY <1>16 DEF vars, table, evaluation, TypeOK, Sizing
<1>. QED
  BY <1>1, <1>2, <1>3, <1>4, <1>6, <1>7, <1>8, <1>9, <1>10, <1>11, <1>13, <1>14, <1>15, <1>16
     DEF Next, Evaluate, Monitor

LEMMA TypeInit == Init => TypeOK
  BY DEF Init, TypeOK, Sizing, MaxTries

(* Statuses, amounts, the account, the cash and the evaluation's place stay
   in their ranges: the cash never falls below zero, and what reaches
   _save_new_trade has a size. *)
THEOREM TypeCorrect == Spec => []TypeOK
  BY TypeInit, TypeStep, PTL DEF Spec

-----------------------------------------------------------------------------
(* Slots.  A trade the monitor has read keeps its slot until it is reached, *)
(* whatever becomes of its row; and the evaluation, which has the lock to   *)
(* itself, looks at symbols whose slots were free and can only get freer.   *)

Claimed == Active \cup batch

SlotInv ==
  /\ \A c \in Categories : Cardinality(Claimed \cap Of(c)) <= MaxOpen(c)
  /\ pc # "sync" => batch = {}

Looking == {"lookup"} \cup Sizing

EvalInv ==
  /\ \A t \in signals : status[t] = "NONE"
  /\ signals # {} => pc \in {"signal"} \cup Looking
  /\ pc \in Looking =>
       /\ status[trade] = "NONE" /\ trade \notin signals
       /\ Cardinality(Active \cap Of(CategoryOf[trade])) < MaxOpen(CategoryOf[trade])

LEMMA MaxOpenType == ASSUME NEW c \in Categories PROVE MaxOpen(c) \in Nat
  BY DEF MaxOpen

LEMMA Fewer ==
  ASSUME NEW S \in SUBSET Trades, NEW T \in SUBSET S, NEW c
  PROVE  /\ Cardinality(T \cap Of(c)) <= Cardinality(S \cap Of(c))
         /\ Cardinality(T \cap Of(c)) \in Nat /\ Cardinality(S \cap Of(c)) \in Nat
<1>1. IsFiniteSet(S \cap Of(c)) /\ T \cap Of(c) \in SUBSET (S \cap Of(c))
  BY Counts
<1>. HIDE DEF Of
<1>. QED  BY <1>1, FS_Subset, FS_CardinalityType

\* Steps that claim nothing leave the slots as they are.
LEMMA NoClaim ==
  ASSUME TypeOK, SlotInv, Claimed' \subseteq Claimed, pc' # "sync" => batch' = {}
  PROVE  SlotInv'
<1>1. Claimed \in SUBSET Trades
  BY DEF Claimed, Active, TypeOK
<1>2. ASSUME NEW c \in Categories PROVE Cardinality(Claimed' \cap Of(c)) <= MaxOpen(c)
  <2>1. Cardinality(Claimed \cap Of(c)) <= MaxOpen(c)
    BY DEF SlotInv
  <2>2. /\ Cardinality(Claimed' \cap Of(c)) <= Cardinality(Claimed \cap Of(c))
        /\ Cardinality(Claimed' \cap Of(c)) \in Nat /\ Cardinality(Claimed \cap Of(c)) \in Nat
    BY <1>1, Fewer
  <2>. QED  BY <2>1, <2>2, MaxOpenType
<1>. QED  BY <1>2 DEF SlotInv, Of, MaxOpen

LEMMA SlotStep == TypeOK /\ EvalInv /\ SlotInv /\ [Next]_vars => SlotInv'
<1>. SUFFICES ASSUME TypeOK, EvalInv, SlotInv, [Next]_vars PROVE SlotInv'
  OBVIOUS
<1>1. ASSUME UNCHANGED <<status, batch>>, pc # "sync", pc' # "sync" PROVE SlotInv'
  BY <1>1, NoClaim DEF Claimed, Active, SlotInv
<1>2. ASSUME NEW c \in Categories, NEW S \in SUBSET Trades, StartEvaluation(c, S) PROVE SlotInv'
  BY <1>2, <1>1 DEF StartEvaluation, Goto, table
<1>3. ASSUME NEW t \in Trades, NextSignal(t) PROVE SlotInv'
  BY <1>3, <1>1 DEF NextSignal, Goto, table
<1>4. CASE Refuse \/ Lookup \/ Project \/ EvaluationEnds
  <2>1. UNCHANGED <<status, batch>> /\ pc # "sync"
    BY <1>4 DEF Refuse, Lookup, Project, EvaluationEnds, table, Sizing
  <2>2. pc' # "sync"
    BY <1>4 DEF Refuse, Lookup, Project, EvaluationEnds, Goto
  <2>. QED  BY <1>1, <2>1, <2>2
<1>5. CASE (\E r \in RiskSizes : RiskBasedAllocation(r)) \/ ComputeAllocatedCapital
  <2>1. UNCHANGED <<status, batch>> /\ pc # "sync" /\ pc' # "sync"
    BY <1>5 DEF RiskBasedAllocation, ComputeAllocatedCapital, Settle, Goto, table
  <2>. QED  BY <1>1, <2>1
<1>6. CASE SaveNewTrade
  <2>1. trade \in Trades /\ status[trade] = "NONE" /\ pc \in Looking
    BY <1>6 DEF SaveNewTrade, TypeOK, EvalInv, Looking, Sizing
  <2>2. batch = {} /\ batch' = {} /\ pc' # "sync"
    BY <1>6 DEF SaveNewTrade, SlotInv, Goto
  <2>3. Claimed = Active /\ Claimed' = Active \cup {trade} /\ trade \notin Active
    BY <1>6, <2>1, <2>2 DEF SaveNewTrade, Claimed, Active, TypeOK
  <2>4. Active \in SUBSET Trades
    BY DEF Active
  <2>5. ASSUME NEW c \in Categories PROVE Cardinality(Claimed' \cap Of(c)) <= MaxOpen(c)
    <3>1. Cardinality(Active \cap Of(c)) <= MaxOpen(c) /\ Cardinality(Active \cap Of(c)) \in Nat
      BY <2>3, <2>4, Fewer DEF SlotInv
    <3>2. CASE c # CategoryOf[trade]
      <4>1. Claimed' \cap Of(c) = Active \cap Of(c)
        BY <2>3, <3>2 DEF Of
      <4>. QED  BY <3>1, <4>1
    <3>3. CASE c = CategoryOf[trade]
      <4>. DEFINE A == Active \cap Of(c)
      <4>1. Claimed' \cap Of(c) = A \cup {trade} /\ trade \notin A
        BY <2>1, <2>3, <3>3 DEF Of
      <4>2. IsFiniteSet(A)
        BY <2>4, Counts
      <4>3. Cardinality(A) < MaxOpen(c)
        BY <2>1, <3>3 DEF EvalInv
      <4>. HIDE DEF A
      <4>4. Cardinality(A \cup {trade}) = Cardinality(A) + 1 /\ Cardinality(A) \in Nat
        BY <4>1, <4>2, FS_AddElement, FS_CardinalityType
      <4>. QED  BY <4>1, <4>3, <4>4, MaxOpenType
    <3>. QED  BY <3>2, <3>3
  <2>. QED  BY <2>2, <2>5 DEF SlotInv, Of, MaxOpen
<1>7. CASE StartSync \/ SyncEnds
  BY <1>7, NoClaim DEF StartSync, SyncEnds, Goto, Claimed, Active, Pending, table
<1>8. ASSUME NEW t \in Trades, NEW s \in {status[t], "OPEN", "CANCELLED"}, Visit(t, s)
      PROVE  SlotInv'
  <2>1. Claimed' \subseteq Claimed
    BY <1>8 DEF Visit, Claimed, Active, TypeOK
  <2>2. pc' = "sync"
    BY <1>8 DEF Visit
  <2>. QED  BY <2>1, <2>2, NoClaim
<1>9. ASSUME NEW t \in Trades,
             SendOrder(t) \/ LeaveUnsent(t) \/ AwaitOrder(t) \/ FillOrRefuse(t)
      PROVE  SlotInv'
  <2>1. \E s \in {status[t], "OPEN", "CANCELLED"} : Visit(t, s)
    BY <1>9 DEF SendOrder, LeaveUnsent, AwaitOrder, FillOrRefuse
  <2>. QED  BY <2>1, <1>8
<1>10. ASSUME NEW t \in Trades, EndTrade(t) PROVE SlotInv'
  <2>1. Claimed' \subseteq Claimed
    BY <1>10 DEF EndTrade, Claimed, Active, TypeOK
  <2>2. pc' # "sync" => batch' = {}
    BY <1>10 DEF EndTrade, SlotInv
  <2>. QED  BY <2>1, <2>2, NoClaim
<1>11. CASE (\E t \in Trades : OrderEnds(t) \/ PositionCloses(t)) \/ UNCHANGED vars
  <2>1. UNCHANGED <<status, batch, pc>>
    BY <1>11 DEF OrderEnds, PositionCloses, vars, table
  <2>. QED  BY <2>1, NoClaim DEF Claimed, Active, SlotInv
<1>. QED
  BY <1>2, <1>3, <1>4, <1>5, <1>6, <1>7, <1>9, <1>10, <1>11 DEF Next, Evaluate, Monitor

LEMMA EvalStep == TypeOK /\ EvalInv /\ SlotInv /\ [Next]_vars => EvalInv'
<1>. SUFFICES ASSUME TypeOK, EvalInv, SlotInv, [Next]_vars PROVE EvalInv'
  OBVIOUS
<1>1. ASSUME NEW c \in Categories, NEW S \in SUBSET Trades, StartEvaluation(c, S) PROVE EvalInv'
  BY <1>1 DEF StartEvaluation, EvalInv, Goto, Looking, Sizing, table
<1>2. ASSUME NEW t \in Trades, NextSignal(t) PROVE EvalInv'
  <2>1. CategoryOf[t] \in Categories
    OBVIOUS
  <2>2. Cardinality(Active \cap Of(CategoryOf[t])) < MaxOpen(CategoryOf[t])
    <3>1. Cardinality(Active \cap Of(CategoryOf[t])) \in Nat
      BY Fewer DEF Active
    <3>. QED  BY <1>2, <2>1, <3>1, MaxOpenType DEF NextSignal, Available, Higher
  <2>3. Active' = Active
    BY <1>2 DEF NextSignal, Active, table
  <2>. QED  BY <1>2, <2>2, <2>3 DEF NextSignal, EvalInv, Goto, Looking, Sizing, table, MaxOpen, Of
<1>3. ASSUME UNCHANGED <<status, signals>>, pc \in {"signal"} \cup Looking, pc' = "signal"
      PROVE  EvalInv'
  BY <1>3 DEF EvalInv, Looking, Sizing
<1>4. ASSUME UNCHANGED <<status, signals, trade>>, pc \in Looking, pc' \in Looking
      PROVE  EvalInv'
  BY <1>4 DEF EvalInv, Active, Of, MaxOpen
<1>5. CASE Refuse
  BY <1>5, <1>3 DEF Refuse, Goto, Looking, Sizing, table
<1>6. CASE Lookup
  BY <1>6, <1>4 DEF Lookup, Goto, Looking, Sizing, table
<1>7. ASSUME NEW n, NEW s, NEW label \in Sizing, pc \in Sizing, Settle(n, s, label)
      PROVE  EvalInv'
  <2>1. UNCHANGED <<status, signals>>
    BY <1>7 DEF Settle, table
  <2>2. CASE pc' = "signal"
    BY <1>7, <2>1, <2>2, <1>3 DEF Looking
  <2>3. CASE pc' = label /\ trade' = trade
    BY <1>7, <2>1, <2>3, <1>4 DEF Looking
  <2>. QED  BY <1>7, <2>2, <2>3 DEF Settle, Goto
<1>8. CASE (\E r \in RiskSizes : RiskBasedAllocation(r)) \/ ComputeAllocatedCapital
  <2>1. \E n \in {FreeOf(free)}, q \in Nearest(FreeOf(free), SlotsLeft), r \in RiskSizes \cup {0} :
           \/ Settle(n, IF Suggested(r, n) = 0 THEN 0 ELSE Shared(Suggested(r, n), q, n), "project")
           \/ Settle(n, Even(q, n), "save")
    BY <1>8 DEF RiskBasedAllocation, ComputeAllocatedCapital, Even
  <2>2. pc \in Sizing
    BY <1>8 DEF RiskBasedAllocation, ComputeAllocatedCapital, Sizing
  <2>3. "project" \in Sizing /\ "save" \in Sizing
    BY DEF Sizing
  <2>. QED  BY <2>1, <2>2, <2>3, <1>7
<1>9. CASE Project
  <2>1. pc \in Looking /\ UNCHANGED <<status, signals>>
    BY <1>9 DEF Project, Looking, Sizing, table
  <2>2. CASE pc' = "signal"
    BY <2>1, <2>2, <1>3
  <2>3. CASE trade' = trade /\ pc' \in {pc, "save"}
    BY <2>1, <2>3, <1>4 DEF Looking, Sizing
  <2>. QED  BY <1>9, <2>2, <2>3 DEF Project, Goto
<1>10. CASE SaveNewTrade
  <2>1. trade \in Trades /\ trade \notin signals /\ signals \subseteq Trades
    BY <1>10 DEF SaveNewTrade, TypeOK, EvalInv, Looking, Sizing
  <2>2. \A t \in signals : status'[t] = "NONE"
    BY <1>10, <2>1 DEF SaveNewTrade, EvalInv, TypeOK
  <2>. QED  BY <1>10, <2>2 DEF SaveNewTrade, EvalInv, Goto, Looking, Sizing
<1>11. CASE EvaluationEnds
  BY <1>11 DEF EvaluationEnds, EvalInv, Goto, Looking, Sizing
<1>12. CASE StartSync \/ SyncEnds
  BY <1>12 DEF StartSync, SyncEnds, EvalInv, Goto, Looking, Sizing, table, evaluation
<1>13. ASSUME NEW t \in Trades,
             SendOrder(t) \/ LeaveUnsent(t) \/ AwaitOrder(t) \/ FillOrRefuse(t)
      PROVE  EvalInv'
  <2>1. PICK s : Visit(t, s)
    BY <1>13 DEF SendOrder, LeaveUnsent, AwaitOrder, FillOrRefuse
  <2>. QED  BY <2>1 DEF Visit, EvalInv, Looking, Sizing, evaluation
<1>14. ASSUME NEW t \in Trades, EndTrade(t) PROVE EvalInv'
  <2>1. Active' \in SUBSET Active /\ Active \in SUBSET Trades
    BY <1>14 DEF EndTrade, Active, TypeOK
  <2>2. \A u \in Trades : status[u] = "NONE" => status'[u] = "NONE"
    BY <1>14 DEF EndTrade, TypeOK
  <2>3. UNCHANGED <<signals, trade, pc>>
    BY <1>14 DEF EndTrade, evaluation
  <2>4. ASSUME pc \in Looking
        PROVE  /\ status'[trade] = "NONE"
               /\ Cardinality(Active' \cap Of(CategoryOf[trade])) < MaxOpen(CategoryOf[trade])
    <3>1. trade \in Trades /\ CategoryOf[trade] \in Categories
      BY <2>4 DEF TypeOK, Looking
    <3>2. Cardinality(Active \cap Of(CategoryOf[trade])) < MaxOpen(CategoryOf[trade])
      BY <2>4 DEF EvalInv
    <3>3. /\ Cardinality(Active' \cap Of(CategoryOf[trade])) <= Cardinality(Active \cap Of(CategoryOf[trade]))
          /\ Cardinality(Active' \cap Of(CategoryOf[trade])) \in Nat
          /\ Cardinality(Active \cap Of(CategoryOf[trade])) \in Nat
      BY <2>1, Fewer
    <3>4. status'[trade] = "NONE"
      BY <2>2, <2>4, <3>1 DEF EvalInv
    <3>. QED  BY <3>1, <3>2, <3>3, <3>4, MaxOpenType
  <2>. QED  BY <2>2, <2>3, <2>4 DEF EvalInv, TypeOK, Of, MaxOpen
<1>15. CASE (\E t \in Trades : OrderEnds(t) \/ PositionCloses(t)) \/ UNCHANGED vars
  <2>1. UNCHANGED <<status, signals, trade, pc>>
    BY <1>15 DEF OrderEnds, PositionCloses, vars, table, evaluation
  <2>. QED  BY <2>1 DEF EvalInv, Active, Of, MaxOpen
<1>. QED
  BY <1>1, <1>2, <1>5, <1>6, <1>8, <1>9, <1>10, <1>11, <1>12, <1>13, <1>14, <1>15
     DEF Next, Evaluate, Monitor

LEMMA SlotInit == Init => SlotInv /\ EvalInv
<1>. SUFFICES ASSUME Init PROVE SlotInv /\ EvalInv
  OBVIOUS
<1>1. ASSUME NEW c \in Categories PROVE Cardinality(Claimed \cap Of(c)) <= MaxOpen(c)
  <2>1. Claimed \cap Of(c) = {}
    BY DEF Init, Claimed, Active
  <2>. QED  BY <2>1, FS_EmptySet, MaxOpenType
<1>. QED  BY <1>1 DEF Init, SlotInv, EvalInv, Looking, Sizing

LEMMA SlotsNow == TypeOK /\ SlotInv => SlotsRespected
<1>. SUFFICES ASSUME TypeOK, SlotInv, NEW c \in Categories
              PROVE  Cardinality(Active \cap Of(c)) <= MaxOpen(c)
  BY DEF SlotsRespected
<1>1. Claimed \in SUBSET Trades /\ Active \in SUBSET Claimed
  BY DEF Claimed, Active, TypeOK
<1>2. Cardinality(Claimed \cap Of(c)) <= MaxOpen(c)
  BY DEF SlotInv
<1>3. /\ Cardinality(Active \cap Of(c)) <= Cardinality(Claimed \cap Of(c))
      /\ Cardinality(Active \cap Of(c)) \in Nat /\ Cardinality(Claimed \cap Of(c)) \in Nat
  BY <1>1, Fewer
<1>. QED  BY <1>2, <1>3, MaxOpenType

(* _available_trade_slots: no category ever has more active trades than its
   limit, however many trades a batch opens, operators cancel and the monitor
   brings back. *)
THEOREM SlotsStayRespected == Spec => []SlotsRespected
<1>1. TypeOK /\ EvalInv /\ SlotInv /\ [Next]_vars => (TypeOK /\ EvalInv /\ SlotInv)'
  BY TypeStep, SlotStep, EvalStep
<1>2. Init => TypeOK /\ EvalInv /\ SlotInv
  BY TypeInit, SlotInit
<1>. QED  BY <1>1, <1>2, SlotsNow, PTL DEF Spec

-----------------------------------------------------------------------------
(* Money.  What the account has not heard of can be paid, the trades the    *)
(* monitor has read and not reached included; and while the evaluation      *)
(* works the cash can only grow and the commitments only shrink.            *)

Unpaid == {t \in Pending \cup batch : account[t] = "none"}

MoneyInv ==
  /\ Total(Unpaid) <= cash
  /\ pc \in {"size", "equal"} => free <= cash
  /\ pc \in {"project", "save"} =>
       /\ size <= free /\ free <= cash - Total(Pending)
       /\ free >= slots * Minimum => free - size >= (slots - 1) * Minimum

LEMMA LessLeaves ==
  ASSUME NEW n \in Nat, NEW s \in Nat, NEW z \in Nat, NEW r \in Nat, z <= s, n - s >= r
  PROVE  n - z >= r
  OBVIOUS

LEMMA SumGrows ==
  ASSUME NEW f \in [Trades -> Nat], NEW S \in SUBSET Trades, NEW T \in SUBSET S
  PROVE  /\ Cardinality(CentsOf(f, T)) <= Cardinality(CentsOf(f, S))
         /\ Cardinality(CentsOf(f, T)) \in Nat /\ Cardinality(CentsOf(f, S)) \in Nat
  BY CentsGrow, CentsAreFinite

\* Steps that leave the amounts alone and commit nothing.
LEMMA UnpaidShrinks ==
  ASSUME TypeOK, MoneyInv, TypeOK', UNCHANGED amount, Unpaid' \subseteq Unpaid, cash' >= cash
  PROVE  Total(Unpaid)' <= cash'
<1>1. Unpaid \in SUBSET Trades
  BY DEF Unpaid, Pending, TypeOK
<1>2. Total(Unpaid) = Cardinality(CentsOf(amount, Unpaid))
  BY <1>1, Totals
<1>3. Total(Unpaid)' = Cardinality(CentsOf(amount, Unpaid'))
  BY DEF Total, Cents, CentsOf
<1>4. /\ Cardinality(CentsOf(amount, Unpaid')) <= Cardinality(CentsOf(amount, Unpaid))
      /\ Cardinality(CentsOf(amount, Unpaid')) \in Nat
      /\ Cardinality(CentsOf(amount, Unpaid)) \in Nat
  BY <1>1, SumGrows DEF TypeOK
<1>5. Total(Unpaid) <= cash
  BY DEF MoneyInv
<1>. QED  BY <1>2, <1>3, <1>4, <1>5 DEF TypeOK

LEMMA PendingShrinks ==
  ASSUME TypeOK, UNCHANGED amount, Pending' \subseteq Pending
  PROVE  Total(Pending)' <= Total(Pending) /\ Total(Pending)' \in Nat /\ Total(Pending) \in Nat
<1>1. Pending \in SUBSET Trades
  BY DEF Pending
<1>2. Total(Pending) = Cardinality(CentsOf(amount, Pending))
  BY <1>1, Totals
<1>3. Total(Pending)' = Cardinality(CentsOf(amount, Pending'))
  BY DEF Total, Cents, CentsOf
<1>4. /\ Cardinality(CentsOf(amount, Pending')) <= Cardinality(CentsOf(amount, Pending))
      /\ Cardinality(CentsOf(amount, Pending')) \in Nat
      /\ Cardinality(CentsOf(amount, Pending)) \in Nat
  BY <1>1, SumGrows DEF TypeOK
<1>. QED  BY <1>2, <1>3, <1>4

\* Steps of the others while the evaluation keeps what it has come to.
LEMMA Undisturbed ==
  ASSUME TypeOK, MoneyInv, TypeOK', UNCHANGED <<amount, pc, free, slots, size>>,
         Unpaid' \subseteq Unpaid, Pending' \subseteq Pending, cash' >= cash
  PROVE  MoneyInv'
<1>1. Total(Unpaid)' <= cash'
  BY UnpaidShrinks
<1>2. Total(Pending)' <= Total(Pending) /\ Total(Pending)' \in Nat /\ Total(Pending) \in Nat
  BY PendingShrinks
<1>3. pc' \in {"size", "equal"} => free' <= cash'
  BY DEF MoneyInv, TypeOK
<1>4. pc' \in {"project", "save"} => size' <= free' /\ free' <= cash' - Total(Pending)'
  BY <1>2 DEF MoneyInv, TypeOK
<1>. QED  BY <1>1, <1>3, <1>4 DEF MoneyInv

\* Steps that leave the table, the account and the batch alone.
LEMMA Quiet ==
  ASSUME TypeOK, MoneyInv, TypeOK', UNCHANGED <<table, account, cash, batch>>
  PROVE  /\ Total(Unpaid)' <= cash' /\ Total(Pending)' = Total(Pending)
         /\ Total(Pending) \in Nat
<1>1. Unpaid' = Unpaid /\ Pending' = Pending /\ UNCHANGED <<amount, cash>>
  BY DEF Unpaid, Pending, table
<1>2. Total(Unpaid)' <= cash'
  BY <1>1, UnpaidShrinks DEF TypeOK
<1>3. Total(Pending)' = Total(Pending)
  BY <1>1 DEF Total, Cents
<1>4. Total(Pending) \in Nat
  BY Totals DEF Pending
<1>. QED  BY <1>2, <1>3, <1>4

LEMMA MoneyStep == TypeOK /\ EvalInv /\ SlotInv /\ MoneyInv /\ [Next]_vars => MoneyInv'
<1>. SUFFICES ASSUME TypeOK, EvalInv, SlotInv, MoneyInv, [Next]_vars PROVE MoneyInv'
  OBVIOUS
<1>t. TypeOK'
  BY TypeStep
<1>1. ASSUME UNCHANGED <<table, account, cash, batch>>,
             pc' \notin {"size", "equal", "project", "save"}
      PROVE  MoneyInv'
  BY <1>1, <1>t, Quiet DEF MoneyInv
<1>2. ASSUME NEW c \in Categories, NEW S \in SUBSET Trades, StartEvaluation(c, S) PROVE MoneyInv'
  BY <1>2, <1>1 DEF StartEvaluation, Goto
<1>3. ASSUME NEW t \in Trades, NextSignal(t) PROVE MoneyInv'
  BY <1>3, <1>1 DEF NextSignal, Goto
<1>4. CASE Refuse \/ EvaluationEnds
  BY <1>4, <1>1 DEF Refuse, EvaluationEnds, Goto
<1>5. CASE Lookup
  <2>1. Total(Unpaid)' <= cash'
    BY <1>5, <1>t, Quiet DEF Lookup
  <2>. QED  BY <1>5, <2>1 DEF Lookup, Goto, MoneyInv, TypeOK
<1>6. ASSUME NEW n \in Nat, NEW s \in Nat, NEW label \in {"project", "save"},
             n > 0 => n <= cash - Total(Pending), s <= n,
             n >= SlotsLeft * Minimum => n - s >= (SlotsLeft - 1) * Minimum,
             Settle(n, s, label)
      PROVE  MoneyInv'
  <2>1. UNCHANGED <<table, account, cash, batch>>
    BY <1>6 DEF Settle
  <2>2. Total(Unpaid)' <= cash' /\ Total(Pending)' = Total(Pending) /\ cash' = cash
    BY <1>t, <2>1, Quiet
  <2>3. CASE pc' = "signal"
    BY <2>1, <2>3, <1>1
  <2>4. CASE s > 0 /\ pc' = label /\ free' = n /\ slots' = SlotsLeft /\ size' = s
    <3>1. n > 0
      BY <1>6, <2>4
    <3>. QED  BY <1>6, <2>2, <2>4, <3>1 DEF MoneyInv
  <2>. QED  BY <1>6, <2>3, <2>4 DEF Settle, Goto
<1>7. ASSUME pc \in {"size", "equal"}
      PROVE  /\ FreeOf(free) \in Nat /\ SlotsLeft \in Nat \ {0}
             /\ FreeOf(free) > 0 => FreeOf(free) <= cash - Total(Pending)
  <2>1. free \in Nat /\ free <= cash /\ cash \in Nat
    BY <1>7 DEF MoneyInv, TypeOK
  <2>2. Total(Pending) \in Nat
    BY Totals DEF Pending
  <2>3. /\ FreeOf(free) \in Nat /\ SlotsLeft \in Nat \ {0}
        /\ FreeOf(free) > 0 => FreeOf(free) = free - Total(Pending)
    BY <2>1, Balance
  <2>. QED  BY <2>1, <2>2, <2>3
<1>8. ASSUME NEW r \in RiskSizes, RiskBasedAllocation(r) PROVE MoneyInv'
  <2>. DEFINE n == FreeOf(free)
              s == Suggested(r, n)
  <2>1. n \in Nat /\ SlotsLeft \in Nat \ {0} /\ (n > 0 => n <= cash - Total(Pending))
    BY <1>7, <1>8 DEF RiskBasedAllocation
  <2>2. s \in Nat /\ s <= n
    <3>. HIDE DEF n
    <3>. QED  BY <2>1, SuggestedFits
  <2>3. PICK q \in Nearest(n, SlotsLeft) :
          Settle(n, IF s = 0 THEN 0 ELSE Shared(s, q, n), "project")
    BY <1>8 DEF RiskBasedAllocation
  <2>. HIDE DEF n, s
  <2>4. /\ Shared(s, q, n) \in Nat /\ Shared(s, q, n) <= n
        /\ n >= SlotsLeft * Minimum => n - Shared(s, q, n) >= (SlotsLeft - 1) * Minimum
    BY <2>1, <2>2, SharedFits
  <2>5. CASE s # 0
    BY <1>6, <2>1, <2>3, <2>4, <2>5
  <2>6. CASE s = 0
    <3>1. pc' = "signal" /\ UNCHANGED <<table, account, cash, batch>>
      BY <2>3, <2>6 DEF Settle, Goto
    <3>. QED  BY <3>1, <1>1
  <2>. QED  BY <2>5, <2>6
<1>9. CASE ComputeAllocatedCapital
  <2>. DEFINE n == FreeOf(free)
  <2>1. n \in Nat /\ SlotsLeft \in Nat \ {0} /\ (n > 0 => n <= cash - Total(Pending))
    BY <1>7, <1>9 DEF ComputeAllocatedCapital
  <2>2. PICK q \in Nearest(n, SlotsLeft) : Settle(n, Even(q, n), "save")
    BY <1>9 DEF ComputeAllocatedCapital, Even
  <2>. HIDE DEF n
  <2>3. /\ Even(q, n) \in Nat /\ Even(q, n) <= n
        /\ n >= SlotsLeft * Minimum => n - Even(q, n) >= (SlotsLeft - 1) * Minimum
    BY <2>1, EvenFits
  <2>. QED  BY <1>6, <2>1, <2>2, <2>3
<1>10. CASE Project
  <2>1. UNCHANGED <<table, account, cash, batch>> /\ pc = "project"
    BY <1>10 DEF Project
  <2>2. Total(Unpaid)' <= cash' /\ Total(Pending)' = Total(Pending) /\ cash' = cash
    BY <1>t, <2>1, Quiet
  <2>3. CASE pc' = "signal"
    BY <2>1, <2>3, <1>1
  <2>4. CASE pc' \in {"project", "save"} /\ UNCHANGED <<free, slots>>
             /\ size' \in Nat /\ size' <= size
    <3>1. size' <= free' /\ free' <= cash' - Total(Pending)'
      BY <2>1, <2>2, <2>4 DEF MoneyInv, TypeOK
    <3>2. ASSUME free' >= slots' * Minimum PROVE free' - size' >= (slots' - 1) * Minimum
      <4>1. free - size >= (slots - 1) * Minimum
        BY <3>2, <2>1, <2>4 DEF MoneyInv
      <4>2. (slots - 1) * Minimum \in Nat /\ free \in Nat /\ size \in Nat
        BY DEF TypeOK
      <4>3. size' \in Nat /\ size' <= size
        BY <2>4
      <4>4. free - size' >= (slots - 1) * Minimum
        BY <4>1, <4>2, <4>3, LessLeaves
      <4>5. slots' = slots /\ free' = free
        BY <2>4
      <4>. QED  BY <4>4, <4>5
    <3>3. pc' \notin {"size", "equal"}
      BY <2>4
    <3>. QED  BY <2>2, <3>1, <3>2, <3>3, Zenon DEF MoneyInv
  <2>5. CASE Goto("save") /\ UNCHANGED <<trade, free, slots, size, tries>>
    BY <2>4, <2>5 DEF Goto, TypeOK
  <2>6. CASE size > Least /\ UNCHANGED <<pc, trade, free, slots>>
             /\ \E half \in Nearest(size, 2) : size' = Higher(Least, half)
    <3>1. size' \in Nat /\ size' <= size
      BY <2>6, HalfFits DEF TypeOK
    <3>. QED  BY <2>1, <2>4, <2>6, <3>1
  <2>. QED  BY <1>10, <2>3, <2>5, <2>6 DEF Project, Goto
<1>11. CASE SaveNewTrade
  <2>1. /\ pc = "save" /\ trade \in Trades /\ status[trade] = "NONE" /\ batch = {} /\ batch' = {}
        /\ pc' = "signal" /\ cash' = cash /\ account' = account
    BY <1>11 DEF SaveNewTrade, TypeOK, EvalInv, SlotInv, Looking, Sizing, Goto
  <2>2. /\ status' = [status EXCEPT ![trade] = "PENDING"]
        /\ amount' = [amount EXCEPT ![trade] = size]
    BY <1>11 DEF SaveNewTrade
  <2>3. trade \notin Pending /\ Unpaid' \subseteq Pending \cup {trade}
    BY <2>1, <2>2 DEF Unpaid, Pending, TypeOK
  <2>4. Cardinality(CentsOf(amount', Pending \cup {trade})) = Total(Pending) + size
    <3>1. CentsOf(amount', Pending) = CentsOf(amount, Pending)
      <4>1. \A t \in Pending : amount'[t] = amount[t]
        BY <2>1, <2>2, <2>3 DEF Pending, TypeOK
      <4>. QED  BY <4>1, CentsSame
    <3>2. amount' \in [Trades -> Nat] /\ amount'[trade] = size
      BY <2>1, <2>2, <1>t DEF TypeOK
    <3>3. Pending \in SUBSET Trades /\ trade \in Trades \ Pending
      BY <2>1, <2>3 DEF Pending
    <3>4. Cardinality(CentsOf(amount', Pending \cup {trade}))
            = Cardinality(CentsOf(amount', Pending)) + amount'[trade]
      BY <3>2, <3>3, CentsAdd
    <3>5. Total(Pending) = Cardinality(CentsOf(amount, Pending))
      BY <3>3, Totals
    <3>. QED  BY <3>1, <3>2, <3>4, <3>5
  <2>5. Total(Unpaid)' = Cardinality(CentsOf(amount', Unpaid'))
    BY DEF Total, Cents, CentsOf
  <2>6. /\ Cardinality(CentsOf(amount', Unpaid')) <= Cardinality(CentsOf(amount', Pending \cup {trade}))
        /\ Cardinality(CentsOf(amount', Unpaid')) \in Nat
        /\ Cardinality(CentsOf(amount', Pending \cup {trade})) \in Nat
    <3>1. Pending \cup {trade} \in SUBSET Trades
      BY <2>1 DEF Pending
    <3>2. amount' \in [Trades -> Nat]
      BY <1>t DEF TypeOK
    <3>. QED  BY <2>3, <3>1, <3>2, SumGrows
  <2>7. size <= free /\ free <= cash - Total(Pending)
    BY <2>1 DEF MoneyInv
  <2>8. Total(Pending) \in Nat
    BY Totals DEF Pending
  <2>9. Total(Unpaid)' <= cash'
    BY <2>1, <2>4, <2>5, <2>6, <2>7, <2>8 DEF TypeOK
  <2>. QED  BY <2>1, <2>9 DEF MoneyInv
<1>12. CASE StartSync
  <2>1. UNCHANGED <<status, amount, cash, account>> /\ pc' = "sync" /\ batch' = Pending
    BY <1>12 DEF StartSync, Goto, table
  <2>2. Unpaid' \subseteq Unpaid
    BY <2>1 DEF Unpaid, Pending
  <2>3. Total(Unpaid)' <= cash'
    BY <2>1, <2>2, <1>t, UnpaidShrinks DEF TypeOK
  <2>. QED  BY <2>1, <2>3 DEF MoneyInv
<1>13. CASE SyncEnds
  BY <1>13, <1>1 DEF SyncEnds, Goto
<1>14. ASSUME NEW t \in Trades, NEW s \in {status[t], "OPEN", "CANCELLED"}, Visit(t, s)
       PROVE  /\ pc = "sync" /\ t \in batch /\ batch' = batch \ {t} /\ amount' = amount /\ pc' = pc
              /\ Pending' \subseteq Pending /\ UNCHANGED evaluation
  BY <1>14 DEF Visit, Pending, TypeOK
<1>15. ASSUME NEW t \in Trades, SendOrder(t) PROVE MoneyInv'
  <2>1. PICK s \in {status[t], "OPEN", "CANCELLED"} : Visit(t, s)
    BY <1>15 DEF SendOrder
  <2>2. /\ account[t] = "none" /\ amount[t] <= cash
        /\ account' = [account EXCEPT ![t] = "waiting"] /\ cash' = cash - amount[t]
    BY <1>15 DEF SendOrder, Adjust
  <2>3. /\ pc = "sync" /\ t \in batch /\ batch' = batch \ {t} /\ amount' = amount /\ pc' = pc
        /\ Pending' \subseteq Pending
    BY <2>1, <1>14
  <2>4. Unpaid' \subseteq Unpaid \ {t} /\ t \in Unpaid
    BY <2>2, <2>3 DEF Unpaid, TypeOK
  <2>. DEFINE U == Unpaid \ {t}
  <2>5. U \in SUBSET Trades /\ t \in Trades \ U /\ U \cup {t} = Unpaid
    BY <2>4 DEF Unpaid, Pending, TypeOK
  <2>. HIDE DEF U
  <2>6. Cardinality(CentsOf(amount, U \cup {t})) = Cardinality(CentsOf(amount, U)) + amount[t]
    BY <2>5, CentsAdd DEF TypeOK
  <2>7. Total(Unpaid) = Cardinality(CentsOf(amount, U \cup {t}))
    BY <2>5, Totals
  <2>8. Total(Unpaid)' = Cardinality(CentsOf(amount, Unpaid'))
    BY <2>3 DEF Total, Cents, CentsOf
  <2>9. /\ Cardinality(CentsOf(amount, Unpaid')) <= Cardinality(CentsOf(amount, U))
        /\ Cardinality(CentsOf(amount, Unpaid')) \in Nat /\ Cardinality(CentsOf(amount, U)) \in Nat
    <3>1. Unpaid' \in SUBSET U
      BY <2>4 DEF U
    <3>. QED  BY <2>5, <3>1, SumGrows DEF TypeOK
  <2>10. Total(Unpaid) <= cash
    BY DEF MoneyInv
  <2>11. Total(Unpaid)' <= cash'
    BY <2>2, <2>6, <2>7, <2>8, <2>9, <2>10 DEF TypeOK
  <2>. QED  BY <2>3, <2>11 DEF MoneyInv
<1>16. ASSUME NEW t \in Trades, LeaveUnsent(t) \/ AwaitOrder(t) \/ FillOrRefuse(t)
       PROVE  MoneyInv'
  <2>1. PICK s \in {status[t], "OPEN", "CANCELLED"} : Visit(t, s)
    BY <1>16 DEF LeaveUnsent, AwaitOrder, FillOrRefuse
  <2>2. /\ batch' \subseteq batch /\ UNCHANGED <<amount, pc, free, slots, size>>
        /\ Pending' \subseteq Pending
    BY <2>1, <1>14 DEF evaluation
  <2>3. cash' >= cash /\ \A u \in Trades : account'[u] = "none" => account[u] = "none"
    BY <1>16 DEF LeaveUnsent, AwaitOrder, FillOrRefuse, Adjust, TypeOK
  <2>4. Unpaid' \subseteq Unpaid
    BY <2>2, <2>3 DEF Unpaid, Pending, TypeOK
  <2>. QED  BY <2>2, <2>3, <2>4, <1>t, Undisturbed
<1>17. ASSUME NEW t \in Trades, EndTrade(t) \/ OrderEnds(t) \/ PositionCloses(t) PROVE MoneyInv'
  <2>1. UNCHANGED <<amount, pc, batch, free, slots, size>>
    BY <1>17 DEF EndTrade, OrderEnds, PositionCloses, table, evaluation
  <2>2. Pending' \subseteq Pending
    BY <1>17 DEF EndTrade, OrderEnds, PositionCloses, table, Pending, TypeOK
  <2>3. cash' >= cash /\ \A u \in Trades : account'[u] = "none" => account[u] = "none"
    BY <1>17 DEF EndTrade, OrderEnds, PositionCloses, Adjust, TypeOK
  <2>4. Unpaid' \subseteq Unpaid
    BY <2>1, <2>2, <2>3 DEF Unpaid, Pending, TypeOK
  <2>. QED  BY <2>1, <2>2, <2>3, <2>4, <1>t, Undisturbed
<1>18. CASE UNCHANGED vars
  <2>1. UNCHANGED <<amount, pc, free, slots, size, cash>> /\ Unpaid' = Unpaid /\ Pending' = Pending
    BY <1>18 DEF vars, table, evaluation, Unpaid, Pending
  <2>. QED  BY <2>1, <1>t, Undisturbed DEF TypeOK
<1>. QED
  BY <1>2, <1>3, <1>4, <1>5, <1>8, <1>9, <1>10, <1>11, <1>12, <1>13, <1>15, <1>16, <1>17, <1>18
     DEF Next, Evaluate, Monitor

LEMMA MoneyInit == Init => MoneyInv
<1>. SUFFICES ASSUME Init PROVE MoneyInv
  OBVIOUS
<1>1. Cents(Unpaid) = {}
  BY DEF Init, Unpaid, Pending, Cents
<1>2. Total(Unpaid) = 0
  BY <1>1, FS_EmptySet DEF Total
<1>. QED  BY <1>2 DEF Init, MoneyInv

IInv == TypeOK /\ SlotInv /\ EvalInv /\ MoneyInv

LEMMA Invariance == Spec => []IInv
<1>1. Init => IInv
  BY TypeInit, SlotInit, MoneyInit DEF IInv
<1>2. IInv /\ [Next]_vars => IInv'
  BY TypeStep, SlotStep, EvalStep, MoneyStep DEF IInv
<1>. QED  BY <1>1, <1>2, PTL DEF Spec

LEMMA FundedNow == IInv => Funded
<1>. SUFFICES ASSUME IInv PROVE Total(Unsent) <= cash
  BY DEF Funded
<1>1. Unpaid \in SUBSET Trades /\ Unsent \in SUBSET Unpaid
  BY DEF IInv, TypeOK, Unpaid, Unsent, Pending
<1>2. /\ Total(Unpaid) = Cardinality(CentsOf(amount, Unpaid))
      /\ Total(Unsent) = Cardinality(CentsOf(amount, Unsent))
  BY <1>1, Totals DEF IInv
<1>3. /\ Cardinality(CentsOf(amount, Unsent)) <= Cardinality(CentsOf(amount, Unpaid))
      /\ Cardinality(CentsOf(amount, Unsent)) \in Nat /\ Cardinality(CentsOf(amount, Unpaid)) \in Nat
  BY <1>1, SumGrows DEF IInv, TypeOK
<1>. QED  BY <1>2, <1>3 DEF IInv, MoneyInv, TypeOK

LEMMA OthersNow == IInv => OthersFunded
<1>. SUFFICES ASSUME IInv, pc \in {"project", "save"}, free >= slots * Minimum
              PROVE  cash - Total(Pending) - size >= (slots - 1) * Minimum
  BY DEF OthersFunded
<1>1. free <= cash - Total(Pending) /\ free - size >= (slots - 1) * Minimum
  BY DEF IInv, MoneyInv
<1>2. Total(Pending) \in Nat
  BY Totals DEF IInv, Pending
<1>3. (slots - 1) * Minimum \in Nat /\ free \in Nat /\ size \in Nat /\ cash \in Nat
  BY DEF IInv, TypeOK
<1>. QED  BY <1>1, <1>2, <1>3

(* _pending_allocated_capital: whatever a batch opens, the account fills and
   operators end, the trades the account has not heard of can all be paid. *)
THEOREM BatchesAreFunded == Spec => []Funded
  BY Invariance, FundedNow, PTL

(* _uniform_cash_share and the halving: where the cash was enough for the least
   trade in every slot when a trade was sized, it is enough for the others with
   that trade paid, until it is saved. *)
THEOREM OthersStayFunded == Spec => []OthersFunded
  BY Invariance, OthersNow, PTL
=============================================================================
