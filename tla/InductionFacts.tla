---------------------------- MODULE InductionFacts ----------------------------
(***************************************************************************)
(* Facts about numbers that the proofs about several components use: least *)
(* members, induction stated for a set of numbers, and division.           *)
(***************************************************************************)
EXTENDS Integers, FiniteSetsExt, WellFoundedInduction, TLAPS

\* The time each prover has for a leaf that names none.
USE SMTT(30), ZenonT(30)

LessThan == OpToRel(<, Nat)

\* Min picks the least member: the first slot or offset that a scan of the
\* task table finds, or the first line the interrupt controller offers.
LEMMA MinIsLeast ==
  ASSUME NEW S \in SUBSET Nat, S # {}
  PROVE  Min(S) \in S /\ \A y \in S : Min(S) <= y
<1>1. IsWellFoundedOn(LessThan, Nat)
  BY ZenonT(30), NatLessThanWellFounded DEF LessThan
<1>2. PICK x \in S : \A y \in S : ~ (<<y, x>> \in LessThan)
  BY <1>1, WFMin, ZenonT(30)
<1>3. \A y \in S : y < x => <<y, x>> \in LessThan
  BY DEF LessThan, OpToRel
<1>4. \A y \in S : ~(y < x)
  BY ZenonT(30), <1>2, <1>3
<1>5. \A y \in S : x <= y
  BY <1>4
<1>6. \E z \in S : \A y \in S : z <= y
  BY ZenonT(30), <1>5
<1> QED BY ZenonT(30), <1>6 DEF Min

\* A set that contains 0, and with each number below B the next one, contains
\* the numbers up to B.
LEMMA UpToInduction ==
  ASSUME NEW B \in Nat, NEW S, 0 \in S, \A n \in 0 .. B - 1 : n \in S => n + 1 \in S
  PROVE  0 .. B \subseteq S
<1> DEFINE C == {n \in 0 .. B : n \notin S}
<1> SUFFICES ASSUME C # {} PROVE FALSE
  OBVIOUS
<1>1. C \in SUBSET Nat
  OBVIOUS
<1>2. PICK m \in C : \A y \in C : m <= y
  BY ZenonT(30), <1>1, MinIsLeast
<1>3. m \in 0 .. B /\ m \notin S /\ m # 0
  BY <1>2
<1>4. m - 1 \in 0 .. B - 1 /\ m - 1 \in 0 .. B /\ ~(m <= m - 1)
  BY <1>3
<1>5. m - 1 \in S
  BY <1>2, <1>4
<1>6. (m - 1) + 1 \in S
  BY <1>4, <1>5
<1> QED BY <1>3, <1>6

-----------------------------------------------------------------------------
(* Division                                                                *)

\* The quotient of a division.
LEMMA Quotient ==
  ASSUME NEW a \in Nat, NEW d \in Nat \ {0}
  PROVE  a \div d \in Nat /\ (a \div d) * d <= a /\ a < (a \div d) * d + d
OBVIOUS

\* Multiples of d are in the order of their factors.
LEMMA Between ==
  ASSUME NEW q \in Nat, NEW k \in Nat, NEW d \in Nat \ {0}, q * d < k * d + d
  PROVE  q <= k
<1>1. SUFFICES ASSUME q > k PROVE FALSE
  OBVIOUS
<1>2. PICK m \in Nat : q = k + 1 + m
  <2>1. q - k - 1 \in Nat /\ q = k + 1 + (q - k - 1)
    BY <1>1
  <2> QED BY <2>1
<1>3. q * d = k * d + d + m * d
  BY <1>2
<1>4. m * d \in Nat /\ k * d \in Nat
  OBVIOUS
<1> QED BY <1>3, <1>4

\* A quotient is known from the multiples around the dividend.
LEMMA QuotientIs ==
  ASSUME NEW a \in Nat, NEW d \in Nat \ {0}, NEW q \in Nat, q * d <= a, a < q * d + d
  PROVE  a \div d = q
<1>1. PICK k \in Nat : k = a \div d
  BY Quotient
<1>2. k * d <= a /\ a < k * d + d /\ k * d \in Nat /\ q * d \in Nat
  BY <1>1, Quotient
<1>3. q * d < k * d + d /\ k * d < q * d + d
  BY <1>2
<1>4. q <= k /\ k <= q
  BY <1>3, Between
<1> QED BY <1>1, <1>4

\* A quotient is below q if the dividend is below q times the divisor.
LEMMA QuotientBelow ==
  ASSUME NEW a \in Nat, NEW d \in Nat \ {0}, NEW q \in Nat
  PROVE  a \div d < q <=> a < q * d
<1>1. PICK k \in Nat : k = a \div d
  BY Quotient
<1>2. k * d <= a /\ a < k * d + d /\ k * d \in Nat /\ q * d \in Nat
  BY <1>1, Quotient
<1>3. ASSUME k < q PROVE a < q * d
  <2>1. ~(q <= k)
    BY <1>3
  <2>2. ~(q * d < k * d + d)
    BY <2>1, Between
  <2> QED BY <1>2, <2>2
<1>4. ASSUME a < q * d PROVE k < q
  <2>1. k * d < q * d
    BY <1>2, <1>4
  <2>2. k # q
    BY <2>1, <1>2
  <2>3. k * d < q * d + d
    BY <2>1, <1>2
  <2>4. k <= q
    BY <2>3, Between
  <2> QED BY <2>2, <2>4
<1> QED BY <1>1, <1>3, <1>4
=============================================================================
