---------------------------- MODULE NumberLemmas ----------------------------
(***************************************************************************)
(* The least and the greatest of a set of numbers, and induction over the  *)
(* natural numbers in a form without an operator for a parameter: a set    *)
(* that holds 0, and the successor of each of its members, holds them all. *)
(***************************************************************************)
EXTENDS Integers, FiniteSetTheorems, TLAPS

(* Of the intervals up to the members of the set one is minimal, as strict *)
(* inclusion of finite sets is well-founded.                               *)
LEMMA Least ==
    ASSUME NEW T \in SUBSET Nat, T # {}
    PROVE  \E x \in T : \A y \in T : x <= y
<1> DEFINE U == {1..x : x \in T}
           R == StrictSubsetOrdering(Nat)
<1>1. U \subseteq FiniteSubsetsOf(Nat) /\ U # {}
  <2>1. \A x \in T : IsFiniteSet(1..x) /\ 1..x \subseteq Nat
    BY FS_Interval
  <2>2. QED
    BY <2>1 DEF FiniteSubsetsOf
<1>2. PICK u \in U : \A v \in U : ~(<<v, u>> \in R)
  <2> HIDE DEF U, R
  <2>1. IsWellFoundedOn(R, FiniteSubsetsOf(Nat))
    BY FS_StrictSubsetOrderingWellFounded DEF R
  <2>2. QED
    BY <1>1, <2>1, WFMin
<1>3. PICK x \in T : u = 1..x
  OBVIOUS
<1>4. ASSUME NEW y \in T, y < x PROVE FALSE
  <2>1. 1..y \subseteq 1..x /\ x \in 1..x /\ x \notin 1..y
    BY <1>4
  <2>2. <<1..y, u>> \in R
    BY <1>3, <2>1 DEF StrictSubsetOrdering
  <2>3. QED
    BY <1>2, <2>2
<1>5. QED
  BY <1>4

LEMMA Induction ==
    ASSUME NEW S, 0 \in S, \A n \in Nat : n \in S => n + 1 \in S
    PROVE  Nat \subseteq S
<1> DEFINE T == {n \in Nat : n \notin S}
<1>1. SUFFICES ASSUME T # {} PROVE FALSE
  OBVIOUS
<1>2. PICK x \in T : \A y \in T : x <= y
  <2> HIDE DEF T
  <2>1. T \in SUBSET Nat
    BY DEF T
  <2>2. QED
    BY <1>1, <2>1, Least
<1>3. x \in Nat /\ x # 0 /\ x \notin S
  OBVIOUS
<1>4. x - 1 \in Nat /\ x - 1 \notin T
  BY <1>2, <1>3
<1>5. QED
  BY <1>3, <1>4

LEMMA Greatest ==
    ASSUME NEW T \in SUBSET Int, T # {}, NEW b \in Int, \A x \in T : x <= b
    PROVE  \E x \in T : \A y \in T : y <= x
<1> DEFINE D == {b - x : x \in T}
<1>1. D \in SUBSET Nat /\ D # {}
  <2>1. \A x \in T : x \in Int /\ b - x \in Nat
    OBVIOUS
  <2>2. QED
    BY <2>1
<1>2. PICK d \in D : \A e \in D : d <= e
  <2> HIDE DEF D
  <2>1. QED
    BY <1>1, Least
<1>3. PICK x \in T : d = b - x
  OBVIOUS
<1>4. ASSUME NEW y \in T PROVE y <= x
  <2>1. b - x <= b - y /\ y \in Int /\ x \in Int
    BY <1>2, <1>3
  <2>2. QED
    BY <2>1
<1>5. QED
  BY <1>4

(* Every non-empty finite set of integers has a greatest member.           *)
LEMMA GreatestOfFinite ==
    ASSUME NEW T \in SUBSET Int, T # {}, IsFiniteSet(T)
    PROVE  \E x \in T : \A y \in T : y <= x
<1> DEFINE Bounded(n) == \A U \in SUBSET Int : IsFiniteSet(U) /\ Cardinality(U) = n
                             => \E b \in Int : \A x \in U : x <= b
           S == {n \in Nat : Bounded(n)}
<1>1. 0 \in S
  <2>1. ASSUME NEW U \in SUBSET Int, IsFiniteSet(U), Cardinality(U) = 0 PROVE U = {}
    BY <2>1, FS_EmptySet
  <2>2. QED
    BY <2>1
<1>2. ASSUME NEW n \in Nat, n \in S PROVE n + 1 \in S
  <2> SUFFICES ASSUME NEW U \in SUBSET Int, IsFiniteSet(U), Cardinality(U) = n + 1
               PROVE  \E b \in Int : \A x \in U : x <= b
    OBVIOUS
  <2>0. U # {}
    BY FS_EmptySet
  <2>1. PICK y \in U : TRUE
    BY <2>0
  <2>2. IsFiniteSet(U \ {y}) /\ Cardinality(U \ {y}) = n
    <3>1. Cardinality(U \ {y}) = Cardinality(U) - 1
      BY <2>1, FS_RemoveElement
    <3>2. QED
      BY <2>1, <3>1, FS_RemoveElement
  <2>3. PICK b \in Int : \A x \in U \ {y} : x <= b
    BY <1>2, <2>2
  <2>4. CASE y <= b
    BY <2>3, <2>4
  <2>5. CASE ~(y <= b)
    <3>1. \A x \in U : x <= y
      BY <2>3, <2>5
    <3>2. QED
      BY <3>1
  <2>6. QED
    BY <2>4, <2>5
<1>3. Nat \subseteq S
  <2> HIDE DEF S
  <2>1. QED
    BY <1>1, <1>2, Induction
<1>4. PICK b \in Int : \A x \in T : x <= b
  <2>1. Cardinality(T) \in Nat
    BY FS_CardinalityType
  <2>2. QED
    BY <1>3, <2>1
<1>5. QED
  BY <1>4, Greatest
=============================================================================
