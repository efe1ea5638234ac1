----------------------------- MODULE PlaceTheorems -----------------------------
(***************************************************************************)
(* The models find their way in a log by the greatest or the least place   *)
(* with some property.  These facts say that there is one.                 *)
(***************************************************************************)
EXTENDS Integers, FiniteSetsExt, SequenceTheorems, FiniteSetTheorems, WellFoundedInduction, TLAPS

------------------------------------------------------------------------------
(* Greatest and least elements, found as minimal subsets. *)

\* Max of a non-empty set of places is its greatest element.
LEMMA Greatest ==
  ASSUME NEW N \in Nat, NEW S \in SUBSET (1 .. N), S # {}
  PROVE  Max(S) \in S /\ \A k \in S : Max(S) >= k
<1> DEFINE Above == {k .. N : k \in S}
<1>1. IsFiniteSet(1 .. N)
  BY FS_Interval
<1>2. IsWellFoundedOn(StrictSubsetOrdering(1 .. N), FiniteSubsetsOf(1 .. N))
  BY FS_StrictSubsetOrderingWellFounded
<1>3. Above \subseteq FiniteSubsetsOf(1 .. N)
  <2> SUFFICES ASSUME NEW k \in S PROVE k .. N \in FiniteSubsetsOf(1 .. N)
    OBVIOUS
  <2>1. k .. N \subseteq 1 .. N
    OBVIOUS
  <2> QED
    BY <1>1, <2>1, FS_Subset DEF FiniteSubsetsOf
<1>4. Above # {}
  OBVIOUS
<1>5. PICK A \in Above : \A B \in Above : <<B, A>> \notin StrictSubsetOrdering(1 .. N)
  <2> HIDE DEF Above
  <2> QED
    BY <1>2, <1>3, <1>4, WFMin
<1>6. PICK k \in S : A = k .. N
  OBVIOUS
<1>7. \A j \in S : k >= j
  <2> SUFFICES ASSUME NEW j \in S, k < j PROVE FALSE
    OBVIOUS
  <2>1. <<j .. N, k .. N>> \in StrictSubsetOrdering(1 .. N)
    BY DEF StrictSubsetOrdering
  <2> QED
    BY <1>5, <1>6, <2>1
<1> QED
  BY <1>7 DEF Max

\* Min of one is its least.
LEMMA Least ==
  ASSUME NEW N \in Nat, NEW S \in SUBSET (1 .. N), S # {}
  PROVE  Min(S) \in S /\ \A k \in S : Min(S) <= k
<1> DEFINE T == {N + 1 - k : k \in S}
<1>1. T \subseteq 1 .. N
  <2> SUFFICES ASSUME NEW k \in S PROVE N + 1 - k \in 1 .. N
    OBVIOUS
  <2>1. k \in 1 .. N
    OBVIOUS
  <2> QED
    BY <2>1
<1>2. T # {}
  OBVIOUS
<1>3. Max(T) \in T /\ \A k \in T : Max(T) >= k
  <2> HIDE DEF T
  <2> QED
    BY <1>1, <1>2, Greatest
<1>4. PICK m \in S : Max(T) = N + 1 - m
  BY <1>3
<1>5. \A k \in S : m <= k
  <2> SUFFICES ASSUME NEW k \in S PROVE m <= k
    OBVIOUS
  <2>1. N + 1 - k \in T
    OBVIOUS
  <2>2. N + 1 - m >= N + 1 - k
    BY <1>3, <1>4, <2>1
  <2>3. k \in 1 .. N /\ m \in 1 .. N
    OBVIOUS
  <2> HIDE DEF T
  <2> QED
    BY <2>2, <2>3
<1> QED
  BY <1>5 DEF Min

\* The greatest element is the one that no other exceeds.
LEMMA GreatestIs ==
  ASSUME NEW S \in SUBSET Nat, NEW m \in S, \A k \in S : k <= m
  PROVE  Max(S) = m
<1>1. Max(S) \in S /\ \A k \in S : Max(S) >= k
  <2>1. \A k \in S : m >= k
    OBVIOUS
  <2> QED
    BY <2>1 DEF Max
<1>2. Max(S) \in Nat /\ m \in Nat /\ Max(S) <= m /\ Max(S) >= m
  BY <1>1
<1> QED
  BY <1>2

\* Places from 0 on: 0 stands for none.
LEMMA GreatestOrNone ==
  ASSUME NEW N \in Nat, NEW S \in SUBSET (1 .. N)
  PROVE  /\ S = {} => Max({0} \cup S) = 0
         /\ S # {} => Max({0} \cup S) \in S
         /\ Max({0} \cup S) \in 0 .. N
         /\ \A k \in S : k <= Max({0} \cup S)
<1> DEFINE T == {0} \cup S
<1>1. T \in SUBSET Nat /\ 0 \in T
  OBVIOUS
<1> SUFFICES /\ S = {} => Max(T) = 0
             /\ S # {} => Max(T) \in S
             /\ Max(T) \in 0 .. N
             /\ \A k \in S : k <= Max(T)
  OBVIOUS
<1>2. CASE S = {}
  <2>1. \A k \in T : k <= 0
    BY <1>2
  <2>2. Max(T) = 0
    <3> HIDE DEF T
    <3> QED
      BY <1>1, <2>1, GreatestIs
  <2> HIDE DEF T
  <2> QED
    BY <1>2, <2>2
<1>3. CASE S # {}
  <2>1. Max(S) \in S /\ \A k \in S : Max(S) >= k
    BY <1>3, Greatest
  <2>2. Max(S) \in 1 .. N /\ \A k \in S : k <= Max(S)
    <3>1. Max(S) \in 1 .. N /\ \A k \in S : k \in 1 .. N
      BY <2>1
    <3> QED
      BY <2>1, <3>1
  <2>3. Max(S) \in T /\ \A k \in T : k <= Max(S)
    BY <2>1, <2>2
  <2>4. Max(T) = Max(S)
    <3> HIDE DEF T
    <3> QED
      BY <1>1, <2>3, GreatestIs
  <2> HIDE DEF T
  <2> QED
    BY <1>3, <2>1, <2>2, <2>4
<1> QED
  BY <1>2, <1>3

\* Any set of numbers that is not empty has a least one.
LEMMA LeastNumber ==
  ASSUME NEW S \in SUBSET Nat, S # {}
  PROVE  Min(S) \in S /\ \A k \in S : Min(S) <= k
<1>1. PICK top \in S : TRUE
  OBVIOUS
<1> DEFINE T == {n \in 1 .. top + 1 : n - 1 \in S}
<1>2. top \in Nat /\ T \in SUBSET (1 .. top + 1) /\ top + 1 \in T
  OBVIOUS
<1>3. Min(T) \in T /\ \A k \in T : Min(T) <= k
  <2> HIDE DEF T
  <2> QED
    BY <1>2, Least
<1> DEFINE least == Min(T) - 1
<1>4. least \in S /\ Min(T) \in 1 .. top + 1
  BY <1>3
<1>5. \A k \in S : least <= k
  <2> SUFFICES ASSUME NEW k \in S PROVE least <= k
    OBVIOUS
  <2>1. CASE k <= top
    <3>1. k + 1 \in T
      BY <1>2, <2>1
    <3>2. Min(T) <= k + 1
      BY <1>3, <3>1
    <3> HIDE DEF T
    <3> QED
      BY <1>4, <3>2
  <2>2. CASE ~(k <= top)
    <3> HIDE DEF T
    <3> QED
      BY <1>2, <1>4, <2>2
  <2> QED
    BY <2>1, <2>2
<1> HIDE DEF least
<1> QED
  BY <1>4, <1>5 DEF Min
==============================================================================
