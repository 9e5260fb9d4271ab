-------------------------- MODULE LeastAndGreatest ---------------------------
(***************************************************************************)
(* The least and the greatest element of a set of natural numbers.         *)
(***************************************************************************)
EXTENDS Integers, FiniteSetsExt, WellFoundedInduction, TLAPS

LEMMA LeastExists ==
  ASSUME NEW T, T \subseteq Nat, T # {}
  PROVE  \E x \in T : \A y \in T : x <= y
  <1>1. PICK x \in T : \A y \in T : ~(<<y, x>> \in OpToRel(<, Nat))
    BY NatLessThanWellFounded, WFMin
  <1>2. ASSUME NEW y \in T
        PROVE  x <= y
    <2>1. x \in Nat /\ y \in Nat
      OBVIOUS
    <2>2. y < x => <<y, x>> \in OpToRel(<, Nat)
      BY <2>1, Zenon DEF OpToRel
    <2>3. ~(y < x)
      BY <1>1, <2>2, Zenon
    <2> QED
      BY ONLY <2>1, <2>3
  <1> QED
    BY <1>2

LEMMA MinIsLeast ==
  ASSUME NEW T, T \subseteq Nat, T # {}
  PROVE  Min(T) \in T /\ Min(T) \in Nat /\ \A y \in T : Min(T) <= y
  BY LeastExists DEF Min

LEMMA MinValue ==
  ASSUME NEW T, T \subseteq Nat, NEW m \in T, \A y \in T : m <= y
  PROVE  Min(T) = m
  <1>1. Min(T) \in Nat /\ Min(T) <= m /\ m <= Min(T) /\ m \in Nat
    BY MinIsLeast
  <1> QED
    BY <1>1

LEMMA MinOfMore ==
  ASSUME NEW T, T \subseteq Nat, T # {}, NEW m \in Nat
  PROVE  Min(T \cup {m}) = IF m <= Min(T) THEN m ELSE Min(T)
  <1>1. Min(T) \in T /\ Min(T) \in Nat /\ \A y \in T : Min(T) <= y
    BY MinIsLeast
  <1>2. CASE m <= Min(T)
    <2>1. \A y \in T \cup {m} : m <= y
      BY <1>1, <1>2
    <2> QED
      BY <1>2, <2>1, MinValue
  <1>3. CASE ~(m <= Min(T))
    <2>1. \A y \in T \cup {m} : Min(T) <= y
      BY <1>1, <1>3
    <2> QED
      BY <1>1, <1>3, <2>1, MinValue
  <1> QED
    BY <1>2, <1>3

LEMMA GreatestExists ==
  ASSUME NEW T, T \subseteq Nat, T # {}, NEW n \in Nat, \A y \in T : y <= n
  PROVE  \E x \in T : \A y \in T : x >= y
  <1> DEFINE U == {u \in Nat : \A y \in T : y <= u}
  <1>1. U \subseteq Nat /\ U # {}
    OBVIOUS
  <1>2. PICK u \in U : \A v \in U : u <= v
    <2> HIDE DEF U
    <2> QED
      BY <1>1, LeastExists
  <1>3. u \in Nat /\ \A y \in T : y <= u
    OBVIOUS
  <1>4. u \in T
    <2> SUFFICES ASSUME u \notin T PROVE FALSE
      OBVIOUS
    <2>1. \A y \in T : y <= u - 1
      BY <1>3
    <2>2. PICK y \in T : y <= u - 1 /\ y \in Nat
      BY <2>1
    <2>3. u - 1 \in Nat /\ ~(u <= u - 1)
      BY <1>3, <2>2
    <2>4. u - 1 \in U
      BY <2>1, <2>3
    <2> QED
      BY <1>2, <2>3, <2>4
  <1> QED
    BY <1>3, <1>4

LEMMA MaxIsGreatest ==
  ASSUME NEW T, T \subseteq Nat, T # {}, NEW n \in Nat, \A y \in T : y <= n
  PROVE  Max(T) \in T /\ Max(T) \in Nat /\ \A y \in T : Max(T) >= y
  BY GreatestExists DEF Max

LEMMA MaxOfIntegers ==
  ASSUME NEW T, T \subseteq Int, T # {}, NEW n \in Int, \A y \in T : y <= n
  PROVE  Max(T) \in T /\ \A y \in T : Max(T) >= y
  <1> DEFINE U == {n - y : y \in T}
  <1>1. U \subseteq Nat /\ U # {}
    <2>1. ASSUME NEW y \in T PROVE n - y \in Nat
      OBVIOUS
    <2> QED
      BY <2>1
  <1>2. PICK u \in U : \A v \in U : u <= v
    <2> HIDE DEF U
    <2> QED
      BY <1>1, LeastExists
  <1>3. PICK x \in T : u = n - x
    OBVIOUS
  <1>4. ASSUME NEW y \in T PROVE x >= y
    <2>1. n - y \in U
      OBVIOUS
    <2>2. n - x <= n - y /\ x \in Int /\ y \in Int
      BY <1>2, <1>3, <2>1
    <2> QED
      BY <2>2
  <1> QED
    BY <1>4 DEF Max

LEMMA MaxOfTwo ==
  ASSUME NEW x \in Int
  PROVE  Max({1, x}) = IF x >= 1 THEN x ELSE 1
  <1>1. PICK m \in {1, x} : \A y \in {1, x} : m >= y
    <2>1. CASE x >= 1
      BY <2>1
    <2>2. CASE ~(x >= 1)
      BY <2>2
    <2> QED
      BY <2>1, <2>2
  <1>2. /\ Max({1, x}) \in {1, x}
        /\ \A y \in {1, x} : Max({1, x}) >= y
    BY <1>1 DEF Max
  <1> QED
    BY <1>2
=============================================================================
