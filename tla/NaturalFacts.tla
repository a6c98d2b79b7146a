----------------------------- MODULE NaturalFacts -----------------------------
(***************************************************************************)
(* Least and greatest elements of sets of natural numbers.  The induction  *)
(* theorems of the library take an operator as a parameter, which the      *)
(* provers cannot instantiate; the well-foundedness of < takes a set, and  *)
(* a proof by a least counterexample does what induction would.            *)
(***************************************************************************)
EXTENDS Naturals, Sequences, FiniteSetTheorems, WellFoundedInduction, TLAPS

\* A set of natural numbers that is not empty has a least element.
LEMMA LeastNat ==
    ASSUME NEW T, T \subseteq Nat, T # {}
    PROVE  \E m \in T : \A k \in T : m <= k
<1>1. PICK R : R = OpToRel(<, Nat)
  OBVIOUS
<1>2. IsWellFoundedOn(R, Nat)
  BY <1>1, NatLessThanWellFounded
<1>3. \A x, y \in Nat : <<x, y>> \in R <=> x < y
  BY <1>1 DEF OpToRel
<1>4. PICK m \in T : \A k \in T : ~(<<k, m>> \in R)
  BY <1>2, WFMin
<1>5. \A k \in T : ~(k < m)
  BY <1>3, <1>4
<1>6. \A k \in T : m <= k
  BY <1>5
<1> QED BY <1>6

\* A bounded one has a greatest.
LEMMA GreatestBelow ==
    ASSUME NEW T, T \subseteq Nat, T # {}, NEW b \in Nat, \A k \in T : k <= b
    PROVE  \E m \in T : \A k \in T : k <= m
<1> DEFINE B == {u \in Nat : \A k \in T : k <= u}
<1>1. b \in B
  OBVIOUS
<1>2. PICK m \in B : \A u \in B : m <= u
  BY <1>1, LeastNat
<1>3. \A k \in T : k <= m
  OBVIOUS
<1>4. CASE m \in T
  BY <1>3, <1>4
<1>5. CASE m \notin T
  <2>1. \A k \in T : k < m
    BY <1>3, <1>5
  <2>0. PICK t \in T : TRUE
    OBVIOUS
  <2>2. m # 0
    BY <2>0, <2>1
  <2>3. m - 1 \in Nat /\ \A k \in T : k <= m - 1
    BY <2>1, <2>2
  <2>4. m - 1 \in B
    BY <2>3
  <2> QED BY <1>2, <2>4
<1> QED BY <1>4, <1>5

\* And so has a finite one.
LEMMA GreatestNat ==
    ASSUME NEW T, T \subseteq Nat, T # {}, IsFiniteSet(T)
    PROVE  \E m \in T : \A k \in T : k <= m
<1>1. PICK n \in Nat : \E f : f \in Bijection(1 .. n, T)
  BY FS_NatBijection DEF ExistsBijection
<1>a. PICK f : f \in Bijection(1 .. n, T)
  BY <1>1
<1>2. /\ \A k \in 1 .. n : f[k] \in T
      /\ \A t \in T : \E k \in 1 .. n : f[k] = t
  BY <1>a DEF Bijection, Injection, Surjection
<1>3. n # 0
  <2>1. PICK t \in T : TRUE
    OBVIOUS
  <2>2. \E k \in 1 .. n : f[k] = t
    BY <1>2, <2>1
  <2> QED BY <2>2
<1>4. \A k \in 1 .. n : f[k] \in Nat
  BY <1>2
<1> DEFINE Good(k) == \E m \in 1 .. k : \A j \in 1 .. k : f[j] <= f[m]
<1> DEFINE Bad == {k \in 1 .. n : ~Good(k)}
<1>5. ASSUME NEW k \in 1 .. n, \A j \in Bad : k <= j
      PROVE  Good(k)
  <2>1. CASE k = 1
    <3>1. f[1] \in Nat
      BY <1>4, <2>1
    <3>2. \A j \in 1 .. 1 : f[j] <= f[1]
      BY <3>1
    <3> QED BY <2>1, <3>2
  <2>2. CASE k # 1
    <3>1. k - 1 \in 1 .. n /\ k \in Nat /\ k - 1 \in Nat /\ ~(k <= k - 1)
      BY <2>2
    <3>2. k - 1 \notin Bad
      BY <1>5, <3>1
    <3>3. Good(k - 1)
      BY <3>1, <3>2
    <3>4. PICK m \in 1 .. (k - 1) : \A j \in 1 .. (k - 1) : f[j] <= f[m]
      BY <3>3
    <3> HIDE DEF Bad, Good
    <3>5. m \in 1 .. n /\ m \in 1 .. k
      BY <3>1, <3>4
    <3>6. f[m] \in Nat /\ f[k] \in Nat
      BY <1>4, <3>5
    <3>7. \A j \in 1 .. k : j \in 1 .. (k - 1) \/ j = k
      BY <3>1
    <3>8. CASE f[k] <= f[m]
      <4>1. \A j \in 1 .. k : f[j] <= f[m]
        BY <3>4, <3>7, <3>8
      <4> QED BY <3>5, <4>1 DEF Good
    <3>9. CASE ~(f[k] <= f[m])
      <4>1. \A j \in 1 .. k : f[j] <= f[k]
        <5> SUFFICES ASSUME NEW j \in 1 .. k PROVE f[j] <= f[k]
          OBVIOUS
        <5>1. CASE j = k
          BY <3>6, <5>1
        <5>2. CASE j \in 1 .. (k - 1)
          <6>1. f[j] \in Nat /\ f[j] <= f[m]
            BY <1>4, <3>1, <3>4, <5>2
          <6> QED BY <3>6, <3>9, <6>1
        <5> QED BY <3>7, <5>1, <5>2
      <4>2. k \in 1 .. k
        BY <3>1
      <4> QED BY <4>1, <4>2 DEF Good
    <3> QED BY <3>8, <3>9
  <2> QED BY <2>1, <2>2
<1>6. Bad = {}
  <2> SUFFICES ASSUME Bad # {} PROVE FALSE
    OBVIOUS
  <2>1. Bad \subseteq Nat
    OBVIOUS
  <2>2. PICK k \in Bad : \A j \in Bad : k <= j
    BY <2>1, LeastNat
  <2> QED BY <1>5, <2>2
<1>7. PICK m \in 1 .. n : \A j \in 1 .. n : f[j] <= f[m]
  <2>1. n \in 1 .. n
    BY <1>3
  <2> QED BY <1>6, <2>1
<1> QED BY <1>2, <1>7
===============================================================================
