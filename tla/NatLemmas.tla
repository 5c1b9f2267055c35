------------------------------- MODULE NatLemmas -------------------------------
(***************************************************************************)
(* Facts about the natural numbers that the other proofs need: a least and *)
(* a greatest element, and induction. The library states induction for an  *)
(* operator, which the provers cannot instantiate; for the set of the      *)
(* numbers a property holds of, it is a first-order statement, and follows *)
(* from the least counterexample.                                          *)
(***************************************************************************)
EXTENDS Integers, FiniteSetsExt, WellFoundedInduction, TLAPS

\* A nonempty set of naturals has its minimum.
LEMMA MinLemma ==
    ASSUME NEW S \in SUBSET Nat, S # {}
    PROVE  Min(S) \in S /\ \A y \in S : Min(S) <= y
<1> DEFINE Less == {p \in Nat \X Nat : p[1] < p[2]}
<1>1. IsWellFoundedOn(Less, Nat)
    BY NatLessThanWellFounded DEF OpToRel
<1>2. PICK x \in S : \A y \in S : <<y, x>> \notin Less
    <2> HIDE DEF Less
    <2> QED
        BY <1>1, WFMin
<1>3. \A y \in S : x <= y
    <2> TAKE y \in S
    <2>1. x \in Nat /\ y \in Nat /\ ~(y < x)
        BY <1>2
    <2> QED
        BY <2>1
<1> QED
    BY <1>2, <1>3 DEF Min

\* Induction: the set of numbers that have a property.
LEMMA SetInduction ==
    ASSUME NEW S, 0 \in S, \A n \in Nat : n \in S => n + 1 \in S
    PROVE  Nat \subseteq S
<1> SUFFICES ASSUME Nat \ S # {} PROVE FALSE
    OBVIOUS
<1> DEFINE m == Min(Nat \ S)
<1>1. m \in Nat /\ m \notin S /\ \A y \in Nat \ S : m <= y
    BY MinLemma
<1> HIDE DEF m
<1>2. m - 1 \in Nat
    BY <1>1
<1>3. m - 1 \in S
    BY <1>1, <1>2
<1> QED
    BY <1>1, <1>2, <1>3

\* A nonempty set of numbers up to n has its maximum.
LEMMA MaxLemma ==
    ASSUME NEW n \in Nat, NEW S \in SUBSET (0 .. n), S # {}
    PROVE  Max(S) \in S /\ \A y \in S : y <= Max(S)
<1> DEFINE T == {n - y : y \in S}
<1>1. T \in SUBSET Nat /\ T # {}
    <2>1. \A y \in S : n - y \in Nat
        OBVIOUS
    <2> QED
        BY <2>1
<1> HIDE DEF T
<1>2. Min(T) \in T /\ \A z \in T : Min(T) <= z
    BY <1>1, MinLemma
<1>3. PICK x \in S : Min(T) = n - x
    BY <1>2 DEF T
<1>4. \A y \in S : y <= x
    <2> TAKE y \in S
    <2>1. n - y \in T
        BY DEF T
    <2> QED
        BY <1>2, <1>3, <2>1
<1> QED
    BY <1>3, <1>4 DEF Max

\* Without its maximum, a set of numbers up to n + 1 is one of numbers up to n.
LEMMA RemoveMax ==
    ASSUME NEW n \in Nat, NEW S \in SUBSET (1 .. n + 1), S # {}
    PROVE  Max(S) \in S /\ S \ {Max(S)} \in SUBSET (1 .. n)
<1>1. n + 1 \in Nat /\ S \in SUBSET (0 .. n + 1)
    OBVIOUS
<1>2. Max(S) \in S /\ \A y \in S : y <= Max(S)
    BY <1>1, MaxLemma
<1>3. ASSUME NEW x \in S \ {Max(S)} PROVE x \in 1 .. n
    <2>1. x \in 1 .. n + 1 /\ Max(S) \in 1 .. n + 1 /\ x <= Max(S) /\ x # Max(S)
        BY <1>2
    <2> QED
        BY <2>1
<1> QED
    BY <1>2, <1>3

\* The greatest number of 1 .. n is n.
LEMMA MaxOfInterval ==
    ASSUME NEW n \in Nat \ {0}
    PROVE  Max(1 .. n) = n
<1>1. n \in 1 .. n /\ 1 .. n \in SUBSET (0 .. n)
    OBVIOUS
<1>2. Max(1 .. n) \in 1 .. n /\ n <= Max(1 .. n)
    BY <1>1, MaxLemma
<1> QED
    BY <1>2
=============================================================================
