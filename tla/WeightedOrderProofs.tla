------------------------- MODULE WeightedOrderProofs -------------------------
(***************************************************************************)
(* Proofs about WeightedOrder, for pools of any size and any weights: that *)
(* no member is lost or drawn twice, that every one is drawn in the end,   *)
(* and that each round draws a member in proportion to its weight.         *)
(***************************************************************************)
EXTENDS WeightedOrder, NaturalLemmas, SequenceTheorems, TLAPS

Members == 1..Len(weights)

Types ==
  /\ weights \in Seq(Int) /\ Len(weights) \in Nat
  /\ remaining \in Seq(Members) /\ Len(remaining) \in Nat
  /\ order \in Seq(Members) /\ Len(order) \in Nat

\* Drawn and remaining members are different ones, and as many as there are.
Split ==
  /\ Len(order) + Len(remaining) = Len(weights)
  /\ \A i, j \in 1..Len(remaining) : remaining[i] = remaining[j] => i = j
  /\ \A i, j \in 1..Len(order) : order[i] = order[j] => i = j
  /\ \A i \in 1..Len(order) : \A j \in 1..Len(remaining) : order[i] # remaining[j]

IInv == Types /\ Split

-----------------------------------------------------------------------------
(* The sums of the weights.                                                *)

\* The weight of the remaining member at place i.
W(i) == normWeight(remaining[i])

LEMMA WeightIsPositive ==
  ASSUME Types, NEW i \in 1..Len(remaining)
  PROVE  W(i) \in Nat /\ W(i) > 0
<1>1. remaining[i] \in Members
  BY ElementOfSeq DEF Types
<1>2. weights[remaining[i]] \in Int
  BY <1>1, ElementOfSeq DEF Types, Members
<1>3. QED
  BY <1>2 DEF W, normWeight

Next1(sum, i) == IF i = 0 THEN 0 ELSE sum[i - 1] + W(i)

Summed(n, sum) == sum = [i \in 0..n |-> Next1(sum, i)]

LEMMA SumExists ==
  ASSUME Types
  PROVE  \A n \in 0..Len(remaining) : \E sum : Summed(n, sum)
<1> DEFINE S == {n \in 0..Len(remaining) : \E sum : Summed(n, sum)}
<1>1. Len(remaining) \in Nat
  BY DEF Types
<1>2. 0 \in S
  <2> DEFINE none == [i \in 0..0 |-> 0]
  <2>1. Summed(0, none)
    BY DEF Summed, Next1
  <2>2. QED
    BY <1>1, <2>1
<1>3. ASSUME NEW n \in 0..(Len(remaining) - 1), n \in S
      PROVE  n + 1 \in S
  <2>1. PICK sum : Summed(n, sum)
    BY <1>3
  <2> DEFINE more == [i \in 0..(n + 1) |-> Next1(sum, i)]
  <2>2. \A i \in 0..n : more[i] = sum[i]
    <3>1. \A i \in 0..n : sum[i] = Next1(sum, i)
      BY <2>1 DEF Summed
    <3>2. QED
      BY <1>1, <3>1
  <2>3. ASSUME NEW i \in 0..(n + 1)
        PROVE  Next1(sum, i) = Next1(more, i)
    <3>1. i # 0 => i - 1 \in 0..n
      BY <1>1
    <3>2. QED
      BY <2>2, <3>1, Zenon DEF Next1
  <2> HIDE DEF more
  <2>4. Summed(n + 1, more)
    BY <2>3, Zenon DEF Summed, more
  <2>5. QED
    BY <1>1, <2>4
<1>4. \A n \in 0..Len(remaining) : n \in S
  BY <1>1, <1>2, <1>3, UpToByInduction
<1>5. QED
  BY <1>4

\* The sums begin with zero, and each adds the weight of one member.
LEMMA UpToSteps ==
  ASSUME Types
  PROVE  /\ UpTo[0] = 0
         /\ \A i \in 1..Len(remaining) : UpTo[i] = UpTo[i - 1] + W(i)
<1>1. Len(remaining) \in Nat
  BY DEF Types
<1>2. \E sum : Summed(Len(remaining), sum)
  BY <1>1, SumExists
<1> DEFINE loop == CHOOSE sum : Summed(Len(remaining), sum)
<1>3. Summed(Len(remaining), loop)
  BY <1>2
<1>4. UpTo = loop
  BY DEF UpTo, Summed, Next1, W
<1> HIDE DEF loop
<1>5. \A i \in 0..Len(remaining) : loop[i] = Next1(loop, i)
  BY <1>3 DEF Summed
<1>6. loop[0] = 0
  BY <1>1, <1>5 DEF Next1
<1>7. ASSUME NEW i \in 1..Len(remaining) PROVE loop[i] = loop[i - 1] + W(i)
  <2>1. i \in 0..Len(remaining) /\ i # 0
    BY <1>1
  <2>2. QED
    BY <1>5, <2>1, Zenon DEF Next1
<1>8. QED
  BY <1>4, <1>6, <1>7

LEMMA UpToNat ==
  ASSUME Types
  PROVE  \A i \in 0..Len(remaining) : UpTo[i] \in Nat
<1> DEFINE S == {i \in 0..Len(remaining) : UpTo[i] \in Nat}
<1>1. Len(remaining) \in Nat
  BY DEF Types
<1>2. 0 \in S
  BY <1>1, UpToSteps
<1>3. ASSUME NEW n \in 0..(Len(remaining) - 1), n \in S
      PROVE  n + 1 \in S
  <2>1. n + 1 \in 1..Len(remaining) /\ (n + 1) - 1 = n
    BY <1>1
  <2>2. UpTo[n + 1] = UpTo[n] + W(n + 1)
    BY <2>1, UpToSteps
  <2>3. QED
    BY <1>1, <1>3, <2>1, <2>2, WeightIsPositive
<1>4. \A i \in 0..Len(remaining) : i \in S
  BY <1>1, <1>2, <1>3, UpToByInduction
<1>5. QED
  BY <1>4

\* The sums grow from place to place.
LEMMA UpToGrows ==
  ASSUME Types, NEW i \in 0..Len(remaining)
  PROVE  \A j \in 0..Len(remaining) : i < j => UpTo[i] < UpTo[j]
<1> DEFINE S == {j \in 0..Len(remaining) : i < j => UpTo[i] < UpTo[j]}
<1>1. Len(remaining) \in Nat
  BY DEF Types
<1>2. 0 \in S
  BY <1>1
<1>3. ASSUME NEW n \in 0..(Len(remaining) - 1), n \in S
      PROVE  n + 1 \in S
  <2>1. /\ n + 1 \in 1..Len(remaining) /\ (n + 1) - 1 = n
        /\ n \in 0..Len(remaining) /\ n + 1 \in 0..Len(remaining)
    BY <1>1
  <2>2. UpTo[n + 1] = UpTo[n] + W(n + 1)
    BY <2>1, UpToSteps
  <2>3. W(n + 1) \in Nat /\ W(n + 1) > 0
    BY <2>1, WeightIsPositive
  <2>4. UpTo[i] \in Nat /\ UpTo[n] \in Nat /\ UpTo[n + 1] \in Nat
    BY <2>1, UpToNat
  <2>5. UpTo[n] < UpTo[n + 1]
    BY <2>2, <2>3, <2>4
  <2>6. i < n => UpTo[i] < UpTo[n]
    BY <1>3
  <2>7. i < n + 1 => i < n \/ i = n
    BY <1>1
  <2>8. i < n + 1 => UpTo[i] < UpTo[n + 1]
    BY <2>4, <2>5, <2>6, <2>7
  <2>9. QED
    BY <2>1, <2>8
<1>4. \A j \in 0..Len(remaining) : j \in S
  BY <1>1, <1>2, <1>3, UpToByInduction
<1>5. QED
  BY <1>4

-----------------------------------------------------------------------------
(* The walk.                                                               *)

\* The walk ends at the first place whose sum exceeds the number drawn.
LEMMA PickIsFirst ==
  ASSUME Types, NEW r \in 0..(Total - 1)
  PROVE  /\ Pick(r) \in 1..Len(remaining)
         /\ UpTo[Pick(r)] > r
         /\ \A j \in 1..(Pick(r) - 1) : UpTo[j] <= r
<1>1. Len(remaining) \in Nat /\ r \in Nat /\ r < Total /\ Total \in Nat
  <2>1. Len(remaining) \in Nat /\ Len(remaining) \in 0..Len(remaining)
    BY DEF Types
  <2>2. Total \in Nat
    BY <2>1, UpToNat DEF Total
  <2>3. QED
    BY <2>1, <2>2
<1> DEFINE S == {i \in 1..Len(remaining) : UpTo[i] > r}
<1>2. Len(remaining) \in S
  <2>1. UpTo[Len(remaining)] > r
    BY <1>1 DEF Total
  <2>2. Len(remaining) # 0
    BY <1>1, <2>1, UpToSteps
  <2>3. QED
    BY <1>1, <2>1, <2>2
<1>3. PICK i \in S : \A j \in S : i <= j
  <2>1. S \in SUBSET Nat /\ S # {}
    BY <1>1, <1>2
  <2>2. QED
    BY <2>1, LeastNatural, Zenon
<1>4. i \in 1..Len(remaining) /\ UpTo[i] > r
  BY <1>3
<1>5. \A j \in 1..(i - 1) : UpTo[j] <= r
  <2> SUFFICES ASSUME NEW j \in 1..(i - 1) PROVE UpTo[j] <= r
    OBVIOUS
  <2>1. j \in 0..Len(remaining) /\ j \in 1..Len(remaining) /\ j < i
    BY <1>1, <1>4
  <2>2. j \notin S
    BY <1>3, <1>4, <2>1
  <2>3. UpTo[j] \in Nat
    BY <2>1, UpToNat
  <2>4. QED
    BY <1>1, <2>1, <2>2, <2>3
<1> DEFINE First(p) == UpTo[p] > r /\ \A j \in 1..(p - 1) : UpTo[j] <= r
<1>6. Pick(r) = CHOOSE p \in 1..Len(remaining) : First(p)
  BY <1>4 DEF Pick
<1>7. \E p \in 1..Len(remaining) : First(p)
  BY <1>4, <1>5
<1> HIDE DEF First
<1>8. Pick(r) \in 1..Len(remaining) /\ First(Pick(r))
  BY <1>6, <1>7, Zenon
<1>9. QED
  BY <1>8 DEF First

\* A member's numbers are those from the sum before it up to its own.
LEMMA OwnedNumbers ==
  ASSUME Types, NEW i \in 1..Len(remaining)
  PROVE  {r \in 0..(Total - 1) : Pick(r) = i} = UpTo[i - 1]..(UpTo[i] - 1)
<1>1. /\ Len(remaining) \in Nat
      /\ i \in 0..Len(remaining) /\ i - 1 \in 0..Len(remaining)
      /\ Len(remaining) \in 0..Len(remaining)
  BY DEF Types
<1>2. UpTo[i] \in Nat /\ UpTo[i - 1] \in Nat /\ Total \in Nat
  BY <1>1, UpToNat DEF Total
<1>3. UpTo[i] <= Total
  <2>1. i = Len(remaining) \/ i < Len(remaining)
    BY <1>1
  <2>2. i < Len(remaining) => UpTo[i] < UpTo[Len(remaining)]
    BY <1>1, UpToGrows
  <2>3. QED
    BY <1>2, <2>1, <2>2 DEF Total
<1>4. ASSUME NEW r \in 0..(Total - 1), Pick(r) = i
      PROVE  r \in UpTo[i - 1]..(UpTo[i] - 1)
  <2>1. UpTo[i] > r /\ \A j \in 1..(i - 1) : UpTo[j] <= r
    BY <1>4, PickIsFirst
  <2>2. UpTo[i - 1] <= r
    <3>1. CASE i = 1
      BY <1>2, <3>1, UpToSteps
    <3>2. CASE i # 1
      <4>1. i - 1 \in 1..(i - 1)
        BY <1>1, <3>2
      <4>2. QED
        BY <2>1, <4>1
    <3>3. QED
      BY <3>1, <3>2
  <2>3. QED
    BY <1>2, <2>1, <2>2
<1>5. ASSUME NEW r \in UpTo[i - 1]..(UpTo[i] - 1)
      PROVE  r \in 0..(Total - 1) /\ Pick(r) = i
  <2>1. r \in 0..(Total - 1) /\ UpTo[i - 1] <= r /\ r < UpTo[i]
    BY <1>2, <1>3
  <2>2. PICK p \in 1..Len(remaining) : p = Pick(r)
    BY <2>1, PickIsFirst
  <2>3. UpTo[p] > r /\ \A j \in 1..(p - 1) : UpTo[j] <= r
    BY <2>1, <2>2, PickIsFirst
  <2>4. p \in 0..Len(remaining) /\ UpTo[p] \in Nat
    BY <1>1, UpToNat
  <2>5. ~ (i < p)
    <3>1. i < p => i \in 1..(p - 1)
      BY <1>1
    <3>2. QED
      BY <1>2, <2>1, <2>3, <3>1
  <2>6. ~ (p < i)
    <3>1. SUFFICES ASSUME p < i PROVE FALSE
      OBVIOUS
    <3>2. p = i - 1 \/ p < i - 1
      BY <1>1, <3>1
    <3>3. p < i - 1 => UpTo[p] < UpTo[i - 1]
      BY <1>1, <2>4, UpToGrows
    <3>4. UpTo[p] <= UpTo[i - 1]
      BY <1>2, <2>4, <3>2, <3>3
    <3>5. QED
      BY <1>2, <2>1, <2>3, <2>4, <3>4
  <2>7. p = i
    BY <1>1, <2>5, <2>6
  <2>8. QED
    BY <2>1, <2>2, <2>7
<1>6. QED
  BY <1>4, <1>5

LEMMA DrawIsFair == Types => FairDraw
<1> SUFFICES ASSUME Types, NEW i \in 1..Len(remaining)
             PROVE  Cardinality({r \in 0..(Total - 1) : Pick(r) = i}) = W(i)
  BY DEF FairDraw, W
<1>1. i \in 0..Len(remaining) /\ i - 1 \in 0..Len(remaining)
  BY DEF Types
<1>2. UpTo[i] \in Nat /\ UpTo[i - 1] \in Nat
  BY <1>1, UpToNat
<1>3. UpTo[i] = UpTo[i - 1] + W(i) /\ W(i) \in Nat /\ W(i) > 0
  BY UpToSteps, WeightIsPositive
<1> DEFINE a == UpTo[i - 1]
           b == UpTo[i] - 1
<1>4. a \in Int /\ b \in Int /\ ~ (a > b) /\ b - a + 1 = W(i)
  BY <1>2, <1>3
<1> HIDE DEF a, b
<1>5. Cardinality(a..b) = W(i)
  BY <1>4, FS_Interval
<1>6. QED
  BY <1>5, OwnedNumbers DEF a, b

-----------------------------------------------------------------------------
(* The inductive invariant.                                                *)

LEMMA InitInv == Init => IInv
<1> SUFFICES ASSUME Init PROVE IInv
  OBVIOUS
<1>1. weights \in Seq(Int) /\ Len(weights) \in Nat
  BY PoolsAssumption, LenProperties DEF Init
<1>2. /\ remaining \in Seq(Members) /\ Len(remaining) = Len(weights)
      /\ \A i \in 1..Len(weights) : remaining[i] = i
  BY <1>1 DEF Init, Members
<1>3. order = << >> /\ order \in Seq(Members) /\ Len(order) = 0
  BY EmptySeq DEF Init
<1>4. Types
  BY <1>1, <1>2, <1>3 DEF Types
<1>5. Split
  BY <1>1, <1>2, <1>3 DEF Split
<1>6. QED
  BY <1>4, <1>5 DEF IInv

\* What remains when the member at place p is cut out.
LEMMA WithoutProperties ==
  ASSUME Types, NEW p \in 1..Len(remaining)
  PROVE  /\ Without(p) \in Seq(Members)
         /\ Len(Without(p)) = Len(remaining) - 1
         /\ \A k \in 1..(Len(remaining) - 1) :
              Without(p)[k] = IF k < p THEN remaining[k] ELSE remaining[k + 1]
<1> DEFINE n == Len(remaining)
           a == SubSeq(remaining, 1, p - 1)
           b == SubSeq(remaining, p + 1, n)
<1>1. n \in Nat /\ p \in 1..n
  BY DEF Types
<1>2. \A i \in 1..n : remaining[i] \in Members
  BY ElementOfSeq DEF Types
<1> HIDE DEF n
<1>3. /\ a \in Seq(Members) /\ Len(a) = p - 1
      /\ \A i \in 1..(p - 1) : a[i] = remaining[i]
  <2>1. \A i \in 1..(p - 1) : remaining[i] \in Members
    BY <1>1, <1>2
  <2>2. /\ a \in Seq(Members)
        /\ Len(a) = IF 1 <= p - 1 THEN (p - 1) - 1 + 1 ELSE 0
        /\ \A i \in 1..((p - 1) - 1 + 1) : a[i] = remaining[1 + i - 1]
    BY <1>1, <2>1, SubSeqProperties
  <2>3. QED
    BY <1>1, <2>2
<1>4. /\ b \in Seq(Members) /\ Len(b) = n - p
      /\ \A i \in 1..(n - p) : b[i] = remaining[p + i]
  <2>1. \A i \in (p + 1)..n : remaining[i] \in Members
    BY <1>1, <1>2
  <2>2. /\ b \in Seq(Members)
        /\ Len(b) = IF p + 1 <= n THEN n - (p + 1) + 1 ELSE 0
        /\ \A i \in 1..(n - (p + 1) + 1) : b[i] = remaining[(p + 1) + i - 1]
    BY <1>1, <2>1, SubSeqProperties
  <2>3. Len(b) = n - p
    BY <1>1, <2>2
  <2>4. ASSUME NEW i \in 1..(n - p) PROVE b[i] = remaining[p + i]
    <3>1. i \in 1..(n - (p + 1) + 1) /\ (p + 1) + i - 1 = p + i
      BY <1>1
    <3>2. QED
      BY <2>2, <3>1
  <2>5. QED
    BY <2>2, <2>3, <2>4
<1>5. Without(p) = a \o b
  BY DEF Without, n
<1> HIDE DEF a, b
<1>6. /\ a \o b \in Seq(Members) /\ Len(a \o b) = Len(a) + Len(b)
      /\ \A k \in 1..(Len(a) + Len(b)) :
           (a \o b)[k] = IF k <= Len(a) THEN a[k] ELSE b[k - Len(a)]
  BY <1>3, <1>4, ConcatProperties
<1>7. Len(a) + Len(b) = n - 1
  BY <1>1, <1>3, <1>4
<1>8. ASSUME NEW k \in 1..(n - 1)
      PROVE  (a \o b)[k] = IF k < p THEN remaining[k] ELSE remaining[k + 1]
  <2>1. CASE k < p
    <3>1. k \in 1..(p - 1) /\ k <= Len(a) /\ k \in 1..(Len(a) + Len(b))
      BY <1>1, <1>3, <1>7, <2>1
    <3>2. QED
      BY <1>3, <1>6, <2>1, <3>1
  <2>2. CASE ~ (k < p)
    <3>1. /\ ~ (k <= Len(a)) /\ k \in 1..(Len(a) + Len(b))
          /\ k - Len(a) \in 1..(n - p) /\ p + (k - Len(a)) = k + 1
      BY <1>1, <1>3, <1>7, <2>2
    <3>2. (a \o b)[k] = b[k - Len(a)]
      BY <1>6, <3>1
    <3>3. QED
      BY <1>4, <2>2, <3>1, <3>2
  <2>3. QED
    BY <2>1, <2>2
<1>9. QED
  BY <1>5, <1>6, <1>7, <1>8 DEF n

LEMMA DrawInv ==
  ASSUME IInv, NEW r \in 0..(Total - 1), Draw(r)
  PROVE  IInv'
<1>1. Types /\ Split
  BY DEF IInv
<1>2. PICK p \in 1..Len(remaining) : p = Pick(r)
  BY <1>1, PickIsFirst
<1>3. /\ weights' = weights
      /\ order' = Append(order, remaining[p]) /\ remaining' = Without(p)
  BY <1>2 DEF Draw
<1>4. Members' = Members
  BY <1>3 DEF Members
<1>5. Len(remaining) \in Nat /\ Len(order) \in Nat /\ remaining[p] \in Members
  BY <1>1, ElementOfSeq DEF Types
<1>6. /\ remaining' \in Seq(Members)
      /\ Len(remaining') = Len(remaining) - 1
      /\ \A k \in 1..(Len(remaining) - 1) :
           remaining'[k] = IF k < p THEN remaining[k] ELSE remaining[k + 1]
  BY <1>1, <1>3, WithoutProperties
<1>7. /\ order' \in Seq(Members) /\ Len(order') = Len(order) + 1
      /\ \A k \in 1..Len(order) : order'[k] = order[k]
      /\ order'[Len(order) + 1] = remaining[p]
  BY <1>1, <1>3, <1>5, AppendProperties DEF Types
<1>8. Types'
  BY <1>1, <1>3, <1>4, <1>5, <1>6, <1>7 DEF Types
<1> DEFINE at(k) == IF k < p THEN k ELSE k + 1
<1>9. ASSUME NEW k \in 1..(Len(remaining) - 1)
      PROVE  /\ at(k) \in 1..Len(remaining) /\ at(k) # p
             /\ remaining'[k] = remaining[at(k)]
  BY <1>5, <1>6
<1>10. \A i, j \in 1..(Len(remaining) - 1) : at(i) = at(j) => i = j
  BY <1>5
<1> HIDE DEF at
<1>11. \A i, j \in 1..Len(remaining') : remaining'[i] = remaining'[j] => i = j
  <2> SUFFICES ASSUME NEW i \in 1..(Len(remaining) - 1),
                      NEW j \in 1..(Len(remaining) - 1),
                      remaining'[i] = remaining'[j]
               PROVE  i = j
    BY <1>6
  <2>1. remaining[at(i)] = remaining[at(j)]
    BY <1>9
  <2>2. at(i) = at(j)
    BY <1>1, <1>9, <2>1 DEF Split
  <2>3. QED
    BY <1>10, <2>2
<1>12. \A k \in 1..Len(order') : k \in 1..Len(order) \/ k = Len(order) + 1
  BY <1>5, <1>7
<1>13. \A i, j \in 1..Len(order') : order'[i] = order'[j] => i = j
  <2> SUFFICES ASSUME NEW i \in 1..Len(order'), NEW j \in 1..Len(order'),
                      order'[i] = order'[j]
               PROVE  i = j
    OBVIOUS
  <2>1. \A k \in 1..Len(order) : order'[k] # remaining[p]
    BY <1>1, <1>2, <1>7 DEF Split
  <2>2. CASE i \in 1..Len(order) /\ j \in 1..Len(order)
    <3>1. order[i] = order[j]
      BY <1>7, <2>2
    <3>2. QED
      BY <1>1, <2>2, <3>1 DEF Split
  <2>3. CASE i = Len(order) + 1 \/ j = Len(order) + 1
    BY <1>7, <1>12, <2>1, <2>3
  <2>4. QED
    BY <1>12, <2>2, <2>3
<1>14. \A i \in 1..Len(order') : \A j \in 1..Len(remaining') :
         order'[i] # remaining'[j]
  <2> SUFFICES ASSUME NEW i \in 1..Len(order'), NEW j \in 1..(Len(remaining) - 1)
               PROVE  order'[i] # remaining'[j]
    BY <1>6
  <2>1. at(j) \in 1..Len(remaining) /\ at(j) # p /\ remaining'[j] = remaining[at(j)]
    BY <1>9
  <2>2. CASE i \in 1..Len(order)
    BY <1>1, <1>7, <2>1, <2>2 DEF Split
  <2>3. CASE i = Len(order) + 1
    BY <1>1, <1>2, <1>7, <2>1, <2>3 DEF Split
  <2>4. QED
    BY <1>12, <2>2, <2>3
<1>15. Len(order') + Len(remaining') = Len(weights')
  <2>1. Len(order) + Len(remaining) = Len(weights) /\ Len(weights') = Len(weights)
    BY <1>1, <1>3 DEF Split
  <2>2. Len(order') = Len(order) + 1 /\ Len(remaining') = Len(remaining) - 1
    BY <1>6, <1>7
  <2>3. QED
    BY <1>5, <2>1, <2>2
<1>16. Split'
  BY <1>11, <1>13, <1>14, <1>15 DEF Split
<1>17. QED
  BY <1>8, <1>16 DEF IInv

LEMMA StepInv == IInv /\ [Next]_vars => IInv'
<1> SUFFICES ASSUME IInv, [Next]_vars PROVE IInv'
  OBVIOUS
<1>1. ASSUME NEW r \in 0..(Total - 1), Draw(r) PROVE IInv'
  BY <1>1, DrawInv
<1>2. CASE Done \/ UNCHANGED vars
  BY <1>2 DEF Done, vars, IInv, Types, Members, Split
<1>3. QED
  BY <1>1, <1>2 DEF Next

THEOREM Invariance == Spec => []IInv
BY InitInv, StepInv, PTL DEF Spec

\* What is drawn and what remains are together every member of the pool, once.
THEOREM NoneLostOrDrawnTwice == Spec => []Partition
<1>1. IInv => Partition
  <2> SUFFICES ASSUME IInv PROVE Partition
    OBVIOUS
  <2> DEFINE all == order \o remaining
  <2>1. Types /\ Split
    BY DEF IInv
  <2>2. /\ Len(all) = Len(order) + Len(remaining)
        /\ \A i \in 1..(Len(order) + Len(remaining)) :
             all[i] = IF i <= Len(order) THEN order[i] ELSE remaining[i - Len(order)]
    BY <2>1, ConcatProperties DEF Types
  <2>3. Len(order) \in Nat /\ Len(remaining) \in Nat
    BY <2>1 DEF Types
  <2> HIDE DEF all
  <2>4. ASSUME NEW i \in 1..Len(all)
        PROVE  \/ i \in 1..Len(order) /\ all[i] = order[i]
               \/ /\ i - Len(order) \in 1..Len(remaining)
                  /\ all[i] = remaining[i - Len(order)]
    BY <2>2, <2>3
  <2>5. ASSUME NEW i \in 1..Len(all), NEW j \in 1..Len(all), all[i] = all[j]
        PROVE  i = j
    <3>1. CASE i \in 1..Len(order) /\ all[i] = order[i]
      BY <2>1, <2>4, <2>5, <3>1 DEF Split
    <3>2. CASE /\ i - Len(order) \in 1..Len(remaining)
               /\ all[i] = remaining[i - Len(order)]
      <4>1. /\ j - Len(order) \in 1..Len(remaining)
            /\ all[j] = remaining[j - Len(order)]
        BY <2>1, <2>4, <2>5, <3>2 DEF Split
      <4>2. i - Len(order) = j - Len(order)
        BY <2>1, <2>5, <3>2, <4>1 DEF Split
      <4>3. QED
        BY <2>2, <2>3, <4>2
    <3>3. QED
      BY <2>4, <3>1, <3>2
  <2>6. Len(all) = Len(weights)
    BY <2>1, <2>2 DEF Split
  <2>7. QED
    BY <2>5, <2>6 DEF Partition, all
<1>2. QED
  BY <1>1, Invariance, PTL

\* Each round draws a member in proportion to its weight: of the numbers it may
\* draw each member owns exactly as many as its weight.
THEOREM DrawnFairly == Spec => []FairDraw
<1>1. IInv => FairDraw
  BY DrawIsFair DEF IInv
<1>2. QED
  BY <1>1, Invariance, PTL

\* When no member remains the order holds every one, once: it is one of the
\* orders in which the failover walks the pool.
EveryMemberDrawn ==
  remaining = << >> =>
    /\ order \in [Members -> Members]
    /\ \A i, j \in Members : order[i] = order[j] => i = j
    /\ \A m \in Members : \E i \in Members : order[i] = m

THEOREM OrderIsComplete == Spec => []EveryMemberDrawn
<1>1. IInv => EveryMemberDrawn
  <2> SUFFICES ASSUME IInv, remaining = << >>
               PROVE  /\ order \in [Members -> Members]
                      /\ \A i, j \in Members : order[i] = order[j] => i = j
                      /\ \A m \in Members : \E i \in Members : order[i] = m
    BY DEF EveryMemberDrawn
  <2>1. Types /\ Split
    BY DEF IInv
  <2>2. Len(order) = Len(weights) /\ Len(weights) \in Nat
    BY <2>1 DEF Types, Split
  <2>3. order \in [1..Len(weights) -> 1..Len(weights)]
    BY <2>1, <2>2, LenProperties DEF Types, Members
  <2>4. \A i, j \in 1..Len(weights) : order[i] = order[j] => i = j
    BY <2>1, <2>2 DEF Split
  <2>5. QED
    <3>1. \A m \in 1..Len(weights) : \E i \in 1..Len(weights) : order[i] = m
      BY <2>2, <2>3, <2>4, OrderHoldsAll
    <3>2. QED
      BY <2>3, <2>4, <3>1 DEF Members
<1>2. QED
  BY <1>1, Invariance, PTL
=============================================================================
