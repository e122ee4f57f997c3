--------------------------- MODULE NaturalLemmas ---------------------------
(***************************************************************************)
(* Facts about natural numbers that the proofs share: the least-number     *)
(* principle, induction over a set of numbers, and that a sequence of n    *)
(* different numbers out of 1..n holds them all.                           *)
(***************************************************************************)
EXTENDS Integers, FunctionTheorems, FiniteSetTheorems, WellFoundedInduction, TLAPS

\* The order of the natural numbers, from the library's well-founded orders.
LEMMA NatOrderWellFounded ==
  IsWellFoundedOn({ss \in Nat \X Nat : ss[1] < ss[2]}, Nat)
BY NatLessThanWellFounded DEF OpToRel

\* A non-empty set of natural numbers has a least element.
LEMMA LeastNatural ==
  ASSUME NEW S \in SUBSET Nat, S # {}
  PROVE  \E x \in S : \A y \in S : x <= y
<1> DEFINE R == {ss \in Nat \X Nat : ss[1] < ss[2]}
<1>1. PICK x \in S : \A y \in S : ~ (<<y, x>> \in R)
  BY NatOrderWellFounded, WFMin
<1>2. ASSUME NEW y \in S PROVE x <= y
  <2>1. <<y, x>> \in Nat \X Nat /\ ~ (<<y, x>>[1] < <<y, x>>[2])
    BY <1>1
  <2>2. QED
    BY <2>1
<1>3. QED
  BY <1>2

\* Induction up to N, the induction hypothesis being membership of S.
LEMMA UpToByInduction ==
  ASSUME NEW N \in Nat, NEW S, 0 \in S,
         \A n \in 0..(N - 1) : n \in S => n + 1 \in S
  PROVE  \A n \in 0..N : n \in S
<1> DEFINE Out == {n \in 0..N : n \notin S}
<1>1. SUFFICES ASSUME Out # {} PROVE FALSE
  OBVIOUS
<1>2. PICK x \in Out : \A y \in Out : x <= y
  <2>1. Out \in SUBSET Nat
    OBVIOUS
  <2>2. QED
    BY <1>1, <2>1, LeastNatural, Zenon
<1>3. x # 0 /\ x - 1 \in 0..(N - 1) /\ x - 1 \notin Out
  BY <1>2
<1>4. QED
  BY <1>3

\* A sequence of n different numbers out of 1..n holds them all.
LEMMA OrderHoldsAll ==
  ASSUME NEW n \in Nat, NEW s \in [1..n -> 1..n],
         \A i, j \in 1..n : s[i] = s[j] => i = j
  PROVE  \A k \in 1..n : \E i \in 1..n : s[i] = k
<1>1. IsFiniteSet(1..n)
  BY FS_Interval
<1>2. s \in Injection(1..n, 1..n)
  BY Fun_IsInj
<1>3. s \in Surjection(1..n, 1..n)
  BY <1>1, <1>2, FS_Injection, Zenon
<1>4. QED
  BY <1>3 DEF Surjection
=============================================================================
