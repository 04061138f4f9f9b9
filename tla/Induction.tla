----------------------------- MODULE Induction -----------------------------
(***************************************************************************)
(* Induction over the natural numbers, stated for sets of numbers, and the *)
(* least and greatest elements that the operators of the model choose.     *)
(***************************************************************************)
EXTENDS FiniteSetTheorems, TLAPS

\* A nonempty set of natural numbers has a least element.
LEMMA LeastNat ==
  ASSUME NEW S \in SUBSET Nat, S # {}
  PROVE  \E m \in S : \A k \in S : m <= k
  <1> DEFINE R == StrictSubsetOrdering(Nat)
             F == FiniteSubsetsOf(Nat)
             T == {1 .. n : n \in S}
  <1>1. IsWellFoundedOn(R, F)
    BY FS_StrictSubsetOrderingWellFounded
  <1>2. T \subseteq F
    <2> SUFFICES ASSUME NEW n \in S PROVE 1 .. n \in F
      OBVIOUS
    <2>1. IsFiniteSet(1 .. n)
      BY FS_Interval
    <2>2. QED BY <2>1 DEF FiniteSubsetsOf
  <1>3. T # {}
    OBVIOUS
  <1> HIDE DEF R, F, T
  <1>4. PICK x \in T : \A y \in T : ~ (<<y, x>> \in R)
    BY <1>1, <1>2, <1>3, WFMin
  <1>5. PICK m \in S : x = 1 .. m
    BY DEF T
  <1>6. ASSUME NEW k \in S, k < m PROVE FALSE
    <2>1. 1 .. k \in T
      BY DEF T
    <2>2. /\ 1 .. k \in SUBSET Nat /\ 1 .. m \in SUBSET Nat
          /\ 1 .. k \subseteq 1 .. m
      BY <1>6
    <2>3. m \in 1 .. m /\ m \notin 1 .. k
      BY <1>6
    <2>4. <<1 .. k, 1 .. m>> \in R
      BY <2>2, <2>3 DEF R, StrictSubsetOrdering
    <2>5. QED BY <1>4, <1>5, <2>1, <2>4
  <1>7. QED BY <1>6

\* A set that holds 0, and with every number the next one, holds them all.
LEMMA NatSetInduction ==
  ASSUME NEW S, 0 \in S, \A n \in Nat : n \in S => n + 1 \in S
  PROVE  \A n \in Nat : n \in S
  <1> SUFFICES ASSUME Nat \ S # {} PROVE FALSE
    OBVIOUS
  <1>1. PICK m \in Nat \ S : \A k \in Nat \ S : m <= k
    <2> DEFINE U == Nat \ S
    <2>1. U \in SUBSET Nat /\ U # {}
      OBVIOUS
    <2> HIDE DEF U
    <2>2. \E m \in U : \A k \in U : m <= k
      BY <2>1, LeastNat
    <2>3. QED BY <2>2 DEF U
  <1>2. m - 1 \in Nat /\ m - 1 \in S
    BY <1>1
  <1>3. QED BY <1>1, <1>2

\* A nonempty set of numbers up to n has a greatest element.
LEMMA GreatestNat ==
  ASSUME NEW n \in Nat, NEW S \in SUBSET (0 .. n), S # {}
  PROVE  \E m \in S : \A k \in S : k <= m
  <1> DEFINE T == {n - k : k \in S}
  <1>0. \A k \in S : k \in 0 .. n /\ n - k \in Nat
    OBVIOUS
  <1>1. T \subseteq Nat /\ T # {}
    BY <1>0
  <1> HIDE DEF T
  <1>2. PICK d \in T : \A k \in T : d <= k
    BY <1>1, LeastNat
  <1>3. PICK m \in S : d = n - m
    BY DEF T
  <1>4. ASSUME NEW k \in S
        PROVE  k <= m
    <2>1. n - k \in T
      BY DEF T
    <2>2. QED BY <1>0, <1>2, <1>3, <2>1
  <1>5. QED BY <1>4

=============================================================================
