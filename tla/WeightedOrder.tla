--------------------------- MODULE WeightedOrder ---------------------------
(***************************************************************************)
(* pool.order (pool.go): the members of the key pool in weighted random    *)
(* order.  Each round draws a number below the weights that remain and     *)
(* walks the remaining members, subtracting, until the number is used up.  *)
(* The whole loop runs under the pool's lock; a round is a step here.      *)
(***************************************************************************)
EXTENDS Integers, Sequences, FiniteSets

CONSTANT Pools  \* pools: the configured weights of the members

ASSUME PoolsAssumption == Pools \subseteq Seq(Int)

VARIABLES
  weights,    \* the members' weights, as configured
  remaining,  \* members not yet drawn
  order       \* members drawn

vars == <<weights, remaining, order>>

normWeight(m) == IF weights[m] <= 0 THEN 1 ELSE weights[m]

\* The weights of the first i remaining members, summed.
UpTo ==
  LET sum[i \in 0..Len(remaining)] ==
        IF i = 0 THEN 0 ELSE sum[i - 1] + normWeight(remaining[i])
  IN  sum

Total == UpTo[Len(remaining)]

\* Mutant of Pick: the walk stops as the number reaches zero.
PickAtZero(r) ==
  IF \E i \in 1..Len(remaining) : UpTo[i] >= r
  THEN CHOOSE i \in 1..Len(remaining) :
         UpTo[i] >= r /\ \A j \in 1..(i - 1) : UpTo[j] < r
  ELSE 1

\* The place at which the number drawn is used up, or the first.
Pick(r) ==
  IF \E i \in 1..Len(remaining) : UpTo[i] > r
  THEN CHOOSE i \in 1..Len(remaining) :
         UpTo[i] > r /\ \A j \in 1..(i - 1) : UpTo[j] <= r
  ELSE 1

\* Mutant of Without: one member too many is cut out.
WithoutTwo(i) == SubSeq(remaining, 1, i - 1) \o SubSeq(remaining, i + 2, Len(remaining))

Without(i) == SubSeq(remaining, 1, i - 1) \o SubSeq(remaining, i + 1, Len(remaining))

Init ==
  /\ weights \in Pools
  /\ remaining = [i \in 1..Len(weights) |-> i]
  /\ order = << >>

Draw(r) ==
  /\ order' = Append(order, remaining[Pick(r)])
  /\ remaining' = Without(Pick(r))
  /\ UNCHANGED weights

Done == remaining = << >> /\ UNCHANGED vars

Next ==
  \/ remaining # << >> /\ \E r \in 0..(Total - 1) : Draw(r)
  \/ Done

Spec == Init /\ [][Next]_vars

-----------------------------------------------------------------------------
(* Properties.                                                             *)

\* No member is drawn twice or lost: what is drawn and what remains are
\* together every member once (pool.go:80).
Partition ==
  LET all == order \o remaining
  IN  /\ Len(all) = Len(weights)
      /\ \A i, j \in 1..Len(all) : all[i] = all[j] => i = j

\* Of the numbers that may be drawn each remaining member owns as many as its
\* weight (pool.go:98-106), a member with no positive weight one.
FairDraw ==
  \A i \in 1..Len(remaining) :
    Cardinality({r \in 0..(Total - 1) : Pick(r) = i}) = normWeight(remaining[i])
=============================================================================
