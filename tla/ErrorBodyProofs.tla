--------------------------- MODULE ErrorBodyProofs ---------------------------
(***************************************************************************)
(* Proofs about ErrorBody, for every cap and every script of an upstream:  *)
(* that the body of a refusal is the beginning of what the upstream sent,  *)
(* never beyond its cap, and complete when the reading was not given up.   *)
(***************************************************************************)
EXTENDS ErrorBody, NaturalLemmas, SequenceTheorems, TLAPS

\* The first n bytes, and the k bytes after the first m.
UpTo(n) == [b \in 1..n |-> b]

From(m, k) == [b \in 1..k |-> m + b]

Chunks == [payload : Seq(Nat), err : BOOLEAN]

\* None of the first k items fails; they all say there is more.
NoneFails(k) == \A i \in 1..k : ~Failed(script[i])

GoesOn(k) == \A i \in 1..k : script[i].says = "more"

\* The item k is the last that is read.
EndsAt(k) == k > 0 /\ GoesOn(k - 1) /\ script[k].says \in Endings

\* The number of bytes in Offered.
Due ==
  IF source = "none" THEN 0
  ELSE IF source = "host" /\ LastItem > 0 /\ Failed(script[LastItem])
  THEN Before[LastItem - 1]
  ELSE Before[LastItem]

ScriptOK == script \in Scripts /\ Len(script) \in Nat

Types ==
  /\ ScriptOK
  /\ source \in {"host", "batch", "proxy", "none"}
  /\ at \in 0..Len(script)
  /\ live \in BOOLEAN
  /\ reader \in {"top", "read", "send", "last", "done"}
  /\ chan \in Seq(Chunks) /\ Len(chan) \in Nat
  /\ stream \in {"none", "open", "over", "closed"}
  /\ held \in Seq(Nat) /\ Len(held) \in Nat
  /\ body \in Seq(Nat) /\ Len(body) \in Nat
  /\ why \in {"reading", "closed", "error", "cap", "cancelled"}

\* The body is the first bytes of what is offered, within the cap.
BodyShape ==
  /\ body = UpTo(Len(body))
  /\ Len(body) <= Cap /\ Len(body) <= Due

\* The reader of the host's stream has met a failure; the bytes it passed on.
Met == at > 0 /\ Failed(script[at])

Passed == IF Met THEN Before[at - 1] ELSE Before[at]

\* What the reader of the host's stream knows at each place, and what the
\* channel holds of the bytes it passed on.
HostShape ==
  source = "host" =>
    /\ held = << >> /\ Len(chan) <= 1
    /\ reader \in {"top", "read", "send"} => GoesOn(at)
    /\ reader = "last" => EndsAt(at)
    /\ reader = "done" => EndsAt(at) \/ (GoesOn(at) /\ ~live)
    /\ reader \notin {"send", "last"} => chan = << >>
    /\ why = "reading" => Len(body) <= Passed
    /\ why = "reading" /\ chan = << >> => Len(body) = Passed
    /\ why = "reading" /\ chan # << >> =>
         chan[1] = Chunk(From(Len(body), Passed - Len(body)), Met)

\* The chunk a batch has for the item k.
ChunkOf(k) == Chunk(Bytes(k, k), Failed(script[k]))

\* The channel holds the items that were not taken.
BatchShape ==
  source = "batch" =>
    /\ held = << >> /\ at = 0 /\ reader = "done"
    /\ Len(chan) <= Len(script)
    /\ \A i \in 1..Len(chan) : chan[i] = ChunkOf((Len(script) - Len(chan)) + i)
    /\ why = "reading" => /\ Len(body) = Before[Len(script) - Len(chan)]
                   /\ NoneFails(Len(script) - Len(chan))

\* The proxied body is held whole before it is handed on in one piece.
ProxyShape ==
  source = "proxy" =>
    /\ reader \in {"read", "done"} /\ Len(chan) <= 1
    /\ held = UpTo(Before[at])
    /\ reader = "read" => GoesOn(at) /\ chan = << >> /\ Len(body) = 0 /\ why = "reading"
    /\ reader = "done" => EndsAt(at) \/ (GoesOn(at) /\ ~live)
    /\ reader = "done" /\ why = "reading" /\ chan = << >> => Len(body) = Len(held)
    /\ reader = "done" /\ why = "reading" /\ chan # << >> =>
         Len(body) = 0 /\ chan[1] = Chunk(held, FALSE)

NoneShape ==
  source = "none" =>
    held = << >> /\ at = 0 /\ reader = "done" /\ chan = << >> /\ Len(body) = 0

\* What each way out says of the body.
Outcome ==
  /\ why \in {"closed", "error"} /\ live => Len(body) = Due
  /\ why = "cap" => Len(body) = Cap
  /\ why = "cancelled" => ~live

IInv ==
  /\ Types /\ BodyShape /\ Outcome
  /\ HostShape /\ BatchShape /\ ProxyShape /\ NoneShape

-----------------------------------------------------------------------------
(* The bytes of the items.                                                 *)

\* What the items of a script may be.
LEMMA ItemTypes ==
  ASSUME ScriptOK, NEW i \in 1..Len(script)
  PROVE  /\ script[i].n \in Nat
         /\ script[i].says \in {"more"} \cup Endings
         /\ i < Len(script) => script[i].says # "done"
<1> DEFINE Items == [n : Nat, says : {"more"} \cup Endings]
<1>1. script \in Seq(Items)
  BY ErrorBodyAssumption DEF ScriptOK
<1>2. script[i] \in Items
  <2> HIDE DEF Items
  <2>1. QED
    BY <1>1, ElementOfSeq
<1>3. script[i].n \in Nat /\ script[i].says \in {"more"} \cup Endings
  BY <1>2
<1>4. i < Len(script) => i \in 1..(Len(script) - 1)
  <2>1. Len(script) \in Nat
    BY DEF ScriptOK
  <2>2. QED
    BY <2>1
<1>5. \A s \in Scripts : \A k \in 1..(Len(s) - 1) : s[k].says # "done"
  BY ErrorBodyAssumption
<1>6. \A k \in 1..(Len(script) - 1) : script[k].says # "done"
  BY <1>5, Zenon DEF ScriptOK
<1>7. QED
  BY <1>3, <1>4, <1>6, Zenon

\* The step of the recursion by which Before is defined.
Step(sum, k) == IF k = 0 THEN 0 ELSE sum[k - 1] + script[k].n

Summed(n, sum) == sum = [k \in 0..n |-> Step(sum, k)]

LEMMA SumExists ==
  ASSUME ScriptOK
  PROVE  \A n \in 0..Len(script) : \E sum : Summed(n, sum)
<1> DEFINE S == {n \in 0..Len(script) : \E sum : Summed(n, sum)}
<1>1. Len(script) \in Nat
  BY DEF ScriptOK
<1>2. 0 \in S
  <2> DEFINE none == [k \in 0..0 |-> 0]
  <2>1. Summed(0, none)
    BY DEF Summed, Step
  <2>2. QED
    BY <1>1, <2>1
<1>3. ASSUME NEW n \in 0..(Len(script) - 1), n \in S
      PROVE  n + 1 \in S
  <2>1. PICK sum : Summed(n, sum)
    BY <1>3
  <2> DEFINE more == [k \in 0..(n + 1) |-> Step(sum, k)]
  <2>2. \A k \in 0..n : more[k] = sum[k]
    <3>1. \A k \in 0..n : sum[k] = Step(sum, k)
      BY <2>1 DEF Summed
    <3>2. QED
      BY <1>1, <3>1
  <2>3. ASSUME NEW k \in 0..(n + 1)
        PROVE  Step(sum, k) = Step(more, k)
    <3>1. k # 0 => k - 1 \in 0..n
      BY <1>1
    <3>2. QED
      BY <2>2, <3>1, Zenon DEF Step
  <2> HIDE DEF more
  <2>4. Summed(n + 1, more)
    BY <2>3, Zenon DEF Summed, more
  <2>5. QED
    BY <1>1, <2>4
<1>4. \A n \in 0..Len(script) : n \in S
  BY <1>1, <1>2, <1>3, UpToByInduction
<1>5. QED
  BY <1>4

\* Before counts from zero, and each item adds its bytes.
LEMMA BeforeSteps ==
  ASSUME ScriptOK
  PROVE  /\ Before[0] = 0
         /\ \A k \in 1..Len(script) : Before[k] = Before[k - 1] + script[k].n
<1>1. Len(script) \in Nat
  BY DEF ScriptOK
<1>2. \E sum : Summed(Len(script), sum)
  BY <1>1, SumExists
<1> DEFINE loop == CHOOSE sum : Summed(Len(script), sum)
<1>3. Summed(Len(script), loop)
  BY <1>2
<1>4. Before = loop
  BY DEF Before, Summed, Step
<1> HIDE DEF loop
<1>5. \A k \in 0..Len(script) : loop[k] = Step(loop, k)
  BY <1>3 DEF Summed
<1>6. loop[0] = 0
  BY <1>1, <1>5 DEF Step
<1>7. ASSUME NEW k \in 1..Len(script) PROVE loop[k] = loop[k - 1] + script[k].n
  <2>1. k \in 0..Len(script) /\ k # 0
    BY <1>1
  <2>2. QED
    BY <1>5, <2>1, Zenon DEF Step
<1>8. QED
  BY <1>4, <1>6, <1>7

LEMMA BeforeNat ==
  ASSUME ScriptOK
  PROVE  \A k \in 0..Len(script) : Before[k] \in Nat
<1> DEFINE S == {k \in 0..Len(script) : Before[k] \in Nat}
<1>1. Len(script) \in Nat
  BY DEF ScriptOK
<1>2. 0 \in S
  BY <1>1, BeforeSteps
<1>3. ASSUME NEW n \in 0..(Len(script) - 1), n \in S
      PROVE  n + 1 \in S
  <2>1. n + 1 \in 1..Len(script) /\ (n + 1) - 1 = n
    BY <1>1
  <2>2. Before[n + 1] = Before[n] + script[n + 1].n
    BY <2>1, BeforeSteps
  <2>3. script[n + 1].n \in Nat
    BY <2>1, ItemTypes
  <2>4. QED
    BY <1>1, <1>3, <2>1, <2>2, <2>3
<1>4. \A k \in 0..Len(script) : k \in S
  BY <1>1, <1>2, <1>3, UpToByInduction
<1>5. QED
  BY <1>4

\* More items never bring fewer bytes.
LEMMA BeforeGrows ==
  ASSUME ScriptOK, NEW i \in 0..Len(script), NEW j \in 0..Len(script), i <= j
  PROVE  Before[i] <= Before[j]
<1> DEFINE S == {k \in 0..Len(script) : i <= k => Before[i] <= Before[k]}
<1>1. Len(script) \in Nat
  BY DEF ScriptOK
<1>2. 0 \in S
  BY <1>1, BeforeNat
<1>3. ASSUME NEW n \in 0..(Len(script) - 1), n \in S
      PROVE  n + 1 \in S
  <2>1. n + 1 \in 1..Len(script) /\ (n + 1) - 1 = n
    BY <1>1
  <2>2. Before[n + 1] = Before[n] + script[n + 1].n
    BY <2>1, BeforeSteps
  <2>3. script[n + 1].n \in Nat
    BY <2>1, ItemTypes
  <2>4. Before[i] \in Nat /\ Before[n] \in Nat /\ Before[n + 1] \in Nat
    BY <1>1, <2>1, BeforeNat
  <2>5. CASE i <= n
    <3>1. Before[i] <= Before[n]
      BY <1>3, <2>5
    <3>2. Before[i] <= Before[n + 1]
      BY <2>2, <2>3, <2>4, <3>1
    <3>3. QED
      BY <1>1, <2>1, <3>2
  <2>6. CASE i = n + 1
    BY <1>1, <2>1, <2>4, <2>6
  <2>7. CASE i > n + 1
    BY <1>1, <2>1, <2>7
  <2>8. QED
    BY <1>1, <2>5, <2>6, <2>7
<1>4. \A k \in 0..Len(script) : k \in S
  BY <1>1, <1>2, <1>3, UpToByInduction
<1>5. QED
  BY <1>4

-----------------------------------------------------------------------------
(* The last item that is read, and how much is due.                        *)

LEMMA LastItemIs ==
  ASSUME ScriptOK
  PROVE  /\ LastItem \in 0..Len(script)
         /\ NoneFails(LastItem - 1)
         /\ LastItem < Len(script) => LastItem > 0 /\ Failed(script[LastItem])
<1> DEFINE Failing == {i \in 1..Len(script) : Failed(script[i])}
<1>1. Len(script) \in Nat
  BY DEF ScriptOK
<1>2. CASE Failing = {}
  <2>1. LastItem = Len(script)
    BY <1>2 DEF LastItem
  <2>2. \A i \in 1..Len(script) : ~Failed(script[i])
    BY <1>2
  <2>3. NoneFails(Len(script) - 1)
    BY <1>1, <2>2 DEF NoneFails
  <2>4. QED
    BY <1>1, <2>1, <2>3
<1>3. CASE Failing # {}
  <2>1. Failing \in SUBSET Nat
    BY <1>1
  <2>2. \E x \in Failing : \A y \in Failing : x <= y
    BY <1>3, <2>1, LeastNatural, Zenon
  <2>3. LastItem = Min(Failing)
    BY <1>3 DEF LastItem
  <2> HIDE DEF Failing
  <2>4. LastItem \in Failing /\ \A y \in Failing : LastItem <= y
    BY <2>2, <2>3 DEF Min
  <2>5. LastItem \in 1..Len(script) /\ Failed(script[LastItem])
    BY <2>4, Zenon DEF Failing
  <2>6. ASSUME NEW i \in 1..(LastItem - 1) PROVE ~Failed(script[i])
    <3>1. i \in 1..Len(script) /\ ~(LastItem <= i)
      BY <1>1, <2>5
    <3>2. QED
      BY <2>4, <3>1, Zenon DEF Failing
  <2>7. NoneFails(LastItem - 1)
    BY <2>6, Zenon DEF NoneFails
  <2>8. QED
    BY <1>1, <2>5, <2>7
<1>4. QED
  BY <1>2, <1>3

\* An item behind no failure is not behind the last.
LEMMA BeforeLast ==
  ASSUME ScriptOK, NEW k \in 0..Len(script), NoneFails(k - 1)
  PROVE  k <= LastItem
<1>1. Len(script) \in Nat
  BY DEF ScriptOK
<1>2. LastItem \in 0..Len(script)
  BY LastItemIs
<1>3. SUFFICES ASSUME LastItem < k PROVE FALSE
  BY <1>1, <1>2
<1>4. LastItem < Len(script)
  BY <1>1, <1>2, <1>3
<1>5. LastItem > 0 /\ Failed(script[LastItem])
  BY <1>4, LastItemIs
<1>6. LastItem \in 1..(k - 1)
  BY <1>1, <1>2, <1>3, <1>5
<1>7. QED
  BY <1>5, <1>6, Zenon DEF NoneFails

\* The first item that fails is the last.
LEMMA FirstFailure ==
  ASSUME ScriptOK, NEW k \in 1..Len(script), NoneFails(k - 1), Failed(script[k])
  PROVE  LastItem = k
<1>1. Len(script) \in Nat
  BY DEF ScriptOK
<1>2. LastItem \in 0..Len(script) /\ NoneFails(LastItem - 1)
  BY LastItemIs
<1>3. k <= LastItem
  BY <1>1, BeforeLast
<1>4. SUFFICES ASSUME k < LastItem PROVE FALSE
  BY <1>1, <1>2, <1>3
<1>5. k \in 1..(LastItem - 1)
  BY <1>1, <1>2, <1>4
<1>6. QED
  BY <1>2, <1>5, Zenon DEF NoneFails

\* What goes on does not fail; what ends without failing is the last.
LEMMA GoingOn ==
  ASSUME ScriptOK, NEW k \in 0..Len(script)
  PROVE  /\ GoesOn(k) => NoneFails(k) /\ NoneFails(k - 1)
         /\ EndsAt(k) => NoneFails(k - 1) /\ LastItem = k
<1>1. Len(script) \in Nat
  BY DEF ScriptOK
<1>2. GoesOn(k) => NoneFails(k) /\ NoneFails(k - 1)
  <2>1. SUFFICES ASSUME GoesOn(k) PROVE NoneFails(k) /\ NoneFails(k - 1)
    OBVIOUS
  <2>2. ASSUME NEW i \in 1..k PROVE ~Failed(script[i])
    <3>1. script[i].says = "more"
      BY <2>1 DEF GoesOn
    <3>2. QED
      BY <3>1 DEF Failed
  <2>3. NoneFails(k)
    BY <2>2, Zenon DEF NoneFails
  <2>4. ASSUME NEW i \in 1..(k - 1) PROVE ~Failed(script[i])
    <3>1. i \in 1..k
      BY <1>1
    <3>2. QED
      BY <2>2, <3>1, Zenon
  <2>5. QED
    BY <2>3, <2>4, Zenon DEF NoneFails
<1>3. EndsAt(k) => NoneFails(k - 1) /\ LastItem = k
  <2>1. SUFFICES ASSUME EndsAt(k) PROVE NoneFails(k - 1) /\ LastItem = k
    OBVIOUS
  <2>2. k \in 1..Len(script) /\ GoesOn(k - 1) /\ script[k].says \in Endings
    BY <1>1, <2>1 DEF EndsAt
  <2>3. ASSUME NEW i \in 1..(k - 1) PROVE ~Failed(script[i])
    <3>1. script[i].says = "more"
      BY <2>2 DEF GoesOn
    <3>2. QED
      BY <3>1 DEF Failed
  <2>4. NoneFails(k - 1)
    BY <2>3, Zenon DEF NoneFails
  <2>5. CASE Failed(script[k])
    BY <2>2, <2>4, <2>5, FirstFailure
  <2>6. CASE ~Failed(script[k])
    <3>1. script[k].says = "done"
      BY <2>2, <2>6 DEF Failed, Endings
    <3>2. k = Len(script)
      BY <1>1, <2>2, <3>1, ItemTypes
    <3>3. k <= LastItem /\ LastItem \in 0..Len(script)
      BY <2>4, BeforeLast, LastItemIs
    <3>4. QED
      BY <1>1, <2>4, <3>2, <3>3
  <2>7. QED
    BY <2>4, <2>5, <2>6
<1>4. QED
  BY <1>2, <1>3

\* What is due of a body that keeps the bytes that come with a failure.
LEMMA DueWhole ==
  ASSUME ScriptOK, source \in {"batch", "proxy"}, NEW k \in 0..Len(script), NoneFails(k - 1)
  PROVE  /\ Before[k] <= Due
         /\ LastItem = k => Before[k] = Due
<1>1. Due = Before[LastItem]
  BY DEF Due
<1>2. k <= LastItem /\ LastItem \in 0..Len(script)
  BY BeforeLast, LastItemIs
<1>3. QED
  BY <1>1, <1>2, BeforeGrows, BeforeNat

\* What is due of the host's stream, which drops them.
LEMMA DueDropped ==
  ASSUME ScriptOK, source = "host", NEW k \in 0..Len(script), NoneFails(k - 1)
  PROVE  /\ k > 0 /\ Failed(script[k]) => Before[k - 1] = Due
         /\ ~(k > 0 /\ Failed(script[k])) => Before[k] <= Due
         /\ LastItem = k /\ ~(k > 0 /\ Failed(script[k])) => Before[k] = Due
<1>1. Len(script) \in Nat
  BY DEF ScriptOK
<1>2. k <= LastItem /\ LastItem \in 0..Len(script)
  BY BeforeLast, LastItemIs
<1>3. ASSUME k > 0, Failed(script[k])
      PROVE  Before[k - 1] = Due
  <2>1. k \in 1..Len(script)
    BY <1>1, <1>3
  <2>2. LastItem = k
    BY <1>3, <2>1, FirstFailure
  <2>3. QED
    BY <1>3, <2>2 DEF Due
<1>4. ASSUME ~(k > 0 /\ Failed(script[k]))
      PROVE  Before[k] <= Due /\ (LastItem = k => Before[k] = Due)
  <2>1. CASE LastItem > 0 /\ Failed(script[LastItem])
    <3>1. Due = Before[LastItem - 1] /\ LastItem # k
      BY <1>4, <2>1 DEF Due
    <3>2. LastItem - 1 \in 0..Len(script) /\ k <= LastItem - 1
      BY <1>1, <1>2, <2>1, <3>1
    <3>3. QED
      BY <3>1, <3>2, BeforeGrows
  <2>2. CASE ~(LastItem > 0 /\ Failed(script[LastItem]))
    <3>1. Due = Before[LastItem]
      BY <2>2 DEF Due
    <3>2. Before[k] <= Before[LastItem]
      BY <1>2, BeforeGrows
    <3>3. QED
      BY <3>1, <3>2
  <2>3. QED
    BY <2>1, <2>2
<1>5. QED
  BY <1>3, <1>4

LEMMA DueNat ==
  ASSUME ScriptOK
  PROVE  Due \in Nat
<1>1. LastItem \in 0..Len(script) /\ Len(script) \in Nat
  BY LastItemIs DEF ScriptOK
<1>2. LastItem > 0 => LastItem - 1 \in 0..Len(script)
  BY <1>1
<1>3. QED
  BY <1>1, <1>2, BeforeNat DEF Due

-----------------------------------------------------------------------------
(* Runs of bytes.                                                          *)

LEMMA RunIsSeq ==
  ASSUME NEW m \in Nat, NEW k \in Nat
  PROVE  /\ From(m, k) \in Seq(Nat) /\ Len(From(m, k)) = k
         /\ UpTo(k) \in Seq(Nat) /\ Len(UpTo(k)) = k
         /\ UpTo(0) = << >> /\ From(m, 0) = << >>
BY DEF From, UpTo

\* The bytes of one item, or of all up to one.
LEMMA BytesAre ==
  ASSUME ScriptOK, NEW k \in 1..Len(script)
  PROVE  /\ Bytes(k, k) = From(Before[k - 1], script[k].n)
         /\ Bytes(k, k) \in Seq(Nat) /\ Len(Bytes(k, k)) = script[k].n
<1>1. Len(script) \in Nat
  BY DEF ScriptOK
<1>2. k - 1 \in 0..Len(script)
  BY <1>1
<1>3. Before[k - 1] \in Nat /\ script[k].n \in Nat
  BY <1>2, BeforeNat, ItemTypes
<1>4. Before[k] - Before[k - 1] = script[k].n
  BY <1>3, BeforeSteps
<1>5. Bytes(k, k) = From(Before[k - 1], script[k].n)
  BY <1>4 DEF Bytes, From
<1>6. /\ From(Before[k - 1], script[k].n) \in Seq(Nat)
      /\ Len(From(Before[k - 1], script[k].n)) = script[k].n
  BY <1>3, RunIsSeq, Zenon
<1>7. QED
  BY <1>5, <1>6, Zenon

LEMMA FirstBytes ==
  ASSUME ScriptOK, NEW k \in 0..Len(script)
  PROVE  Bytes(1, k) = UpTo(Before[k])
<1>1. Before[1 - 1] = 0 /\ Before[k] \in Nat
  BY BeforeSteps, BeforeNat
<1>2. Before[k] - Before[1 - 1] = Before[k]
  BY <1>1
<1>3. Bytes(1, k) = [b \in 1..Before[k] |-> 0 + b]
  BY <1>1, <1>2 DEF Bytes
<1>4. QED
  BY <1>3 DEF UpTo

\* The first m bytes and the next k are the first m + k.
LEMMA RunsJoin ==
  ASSUME NEW m \in Nat, NEW k \in Nat
  PROVE  UpTo(m) \o From(m, k) = UpTo(m + k)
BY DEF UpTo, From

\* The beginning of a run is a run.
LEMMA RunCut ==
  ASSUME NEW m \in Nat, NEW k \in Nat, NEW c \in 0..k
  PROVE  SubSeq(From(m, k), 1, c) = From(m, c)
BY DEF From

LEMMA OfferedIsDue ==
  ASSUME ScriptOK
  PROVE  Offered = UpTo(Due) /\ Len(Offered) = Due
<1>1. LastItem \in 0..Len(script) /\ Len(script) \in Nat
  BY LastItemIs DEF ScriptOK
<1>2. LastItem > 0 => LastItem - 1 \in 0..Len(script)
  BY <1>1
<1>3. UpTo(0) = << >>
  BY RunIsSeq
<1>4. Offered = UpTo(Due)
  BY <1>1, <1>2, <1>3, FirstBytes DEF Offered, Due
<1>5. QED
  BY <1>4, DueNat, RunIsSeq

-----------------------------------------------------------------------------
(* The invariant.                                                          *)

LEMMA InitInv == Init => IInv
<1> SUFFICES ASSUME Init PROVE IInv
  OBVIOUS
<1>1. ScriptOK
  <2>1. script \in Seq([n : Nat, says : {"more"} \cup Endings])
    BY ErrorBodyAssumption, Zenon DEF Init
  <2>2. QED
    BY <2>1, LenProperties DEF Init, ScriptOK
<1>2. /\ at = 0 /\ Len(body) = 0 /\ body = << >> /\ held = << >> /\ why = "reading" /\ live = TRUE
      /\ source \in {"host", "batch", "proxy", "none"}
  BY DEF Init
<1>3. Before[0] = 0 /\ UpTo(0) = << >> /\ Due \in Nat /\ Cap \in Nat
  BY <1>1, BeforeSteps, RunIsSeq, DueNat, ErrorBodyAssumption
<1>4. source # "batch" => chan = << >>
  BY DEF Init
<1>5. ASSUME source = "batch"
      PROVE  /\ chan \in Seq(Chunks) /\ Len(chan) = Len(script)
             /\ \A i \in 1..Len(script) : chan[i] = ChunkOf(i)
  <2>1. chan = [i \in 1..Len(script) |-> ChunkOf(i)]
    BY <1>5 DEF Init, ChunkOf
  <2>2. ASSUME NEW i \in 1..Len(script)
        PROVE  ChunkOf(i) \in Chunks
    <3>1. Bytes(i, i) \in Seq(Nat)
      BY <1>1, BytesAre
    <3>2. Failed(script[i]) \in BOOLEAN
      BY DEF Failed
    <3>3. QED
      BY <3>1, <3>2 DEF Chunk, Chunks, ChunkOf
  <2> HIDE DEF Chunks
  <2>3. Len(script) \in Nat
    BY <1>1 DEF ScriptOK
  <2>4. chan \in [1..Len(script) -> Chunks]
    BY <2>1, <2>2, Zenon
  <2>5. chan \in Seq(Chunks) /\ Len(chan) = Len(script)
    BY <2>1, <2>3, <2>4
  <2>6. QED
    BY <2>1, <2>5, Zenon
<1>6. Types
  <2>1. chan \in Seq(Chunks) /\ Len(chan) \in Nat
    <3>1. CASE source = "batch"
      BY <1>1, <1>5, <3>1, Zenon DEF ScriptOK
    <3>2. CASE source # "batch"
      BY <1>4, <3>2, EmptySeq
    <3>3. QED
      BY <3>1, <3>2
  <2>2. reader \in {"top", "read", "send", "last", "done"} /\ stream \in {"none", "open", "over", "closed"}
    BY DEF Init
  <2>3. held \in Seq(Nat) /\ Len(held) \in Nat /\ body \in Seq(Nat) /\ Len(body) \in Nat
    BY <1>2
  <2>4. at \in 0..Len(script)
    BY <1>1, <1>2 DEF ScriptOK
  <2>5. QED
    BY <1>1, <1>2, <2>1, <2>2, <2>3, <2>4 DEF Types
<1>7. BodyShape /\ Outcome
  BY <1>2, <1>3 DEF BodyShape, Outcome
<1>8. HostShape
  <2>1. SUFFICES ASSUME source = "host" PROVE HostShape
    BY DEF HostShape
  <2>2. reader = "top" /\ chan = << >> /\ Len(chan) = 0
    BY <1>4, <2>1 DEF Init
  <2>3. GoesOn(at)
    BY <1>2 DEF GoesOn
  <2>4. Passed = 0
    BY <1>2, <1>3 DEF Passed, Met
  <2>5. QED
    BY <1>2, <2>2, <2>3, <2>4 DEF HostShape
<1>9. BatchShape
  <2>1. SUFFICES ASSUME source = "batch" PROVE BatchShape
    BY DEF BatchShape
  <2>2. Len(chan) = Len(script) /\ Len(script) \in Nat /\ reader = "done"
    BY <1>1, <1>5, <2>1 DEF Init, ScriptOK
  <2>3. Len(script) - Len(chan) = 0
    BY <2>2
  <2>4. ASSUME NEW i \in 1..Len(chan)
        PROVE  chan[i] = ChunkOf((Len(script) - Len(chan)) + i)
    <3>1. (Len(script) - Len(chan)) + i = i
      BY <2>2
    <3>2. QED
      BY <1>5, <2>1, <2>2, <3>1, Zenon
  <2>5. NoneFails(0)
    BY DEF NoneFails
  <2>6. QED
    BY <1>2, <1>3, <2>2, <2>3, <2>4, <2>5 DEF BatchShape
<1>10. ProxyShape
  <2>1. SUFFICES ASSUME source = "proxy" PROVE ProxyShape
    BY DEF ProxyShape
  <2>2. reader = "read" /\ chan = << >> /\ Len(chan) = 0
    BY <1>4, <2>1 DEF Init
  <2>3. GoesOn(at)
    BY <1>2 DEF GoesOn
  <2>4. QED
    BY <1>2, <1>3, <2>2, <2>3 DEF ProxyShape
<1>11. NoneShape
  BY <1>2, <1>4 DEF NoneShape, Init
<1>12. QED
  BY <1>6, <1>7, <1>8, <1>9, <1>10, <1>11 DEF IInv

\* The script does not change, and with it what it brings.
LEMMA SameScript ==
  ASSUME UNCHANGED <<source, script>>
  PROVE  /\ Before' = Before /\ Due' = Due /\ ScriptOK' = ScriptOK
         /\ \A k : GoesOn(k)' = GoesOn(k) /\ EndsAt(k)' = EndsAt(k)
         /\ \A k : NoneFails(k)' = NoneFails(k) /\ ChunkOf(k)' = ChunkOf(k)
<1>1. Before' = Before
  BY DEF Before
<1>2. LastItem' = LastItem
  BY DEF LastItem
<1>3. Due' = Due
  BY <1>1, <1>2 DEF Due
<1>4. QED
  BY <1>1, <1>3 DEF ScriptOK, GoesOn, EndsAt, NoneFails, Bytes, ChunkOf

\* A step of the reader leaves the body as it is.
LEMMA BodyKept ==
  ASSUME IInv, UNCHANGED <<source, script, body, why>>, live' \in BOOLEAN, live' => live
  PROVE  BodyShape' /\ Outcome'
<1>1. Due' = Due
  BY SameScript
<1>2. QED
  BY <1>1 DEF IInv, BodyShape, Outcome

LEMMA CancelInv == ASSUME IInv, Cancel PROVE IInv'
<1>1. UNCHANGED <<source, script, at, reader, chan, stream, held, body, why>> /\ live' = FALSE
  BY DEF Cancel
<1>2. BodyShape' /\ Outcome'
  BY <1>1, BodyKept
<1>3. Types'
  BY <1>1 DEF IInv, Types, ScriptOK
<1>4. /\ Before' = Before /\ GoesOn(at)' = GoesOn(at) /\ EndsAt(at)' = EndsAt(at)
      /\ Passed' = Passed /\ Met' = Met
  BY <1>1, SameScript DEF Passed, Met, GoesOn, EndsAt
<1>5. HostShape' /\ ProxyShape'
  BY <1>1, <1>4 DEF IInv, HostShape, ProxyShape
<1>6. BatchShape' /\ NoneShape'
  <2>1. \A k : NoneFails(k)' = NoneFails(k) /\ ChunkOf(k)' = ChunkOf(k)
    BY <1>1, SameScript, Zenon
  <2>2. BatchShape'
    BY <1>1, <1>4, <2>1 DEF IInv, BatchShape
  <2>3. NoneShape'
    BY <1>1 DEF IInv, NoneShape
  <2>4. QED
    BY <2>2, <2>3
<1>7. QED
  BY <1>2, <1>3, <1>5, <1>6 DEF IInv

\* Only the host's stream has a reader at these places.
LEMMA HostReads ==
  ASSUME IInv, reader \in {"top", "send", "last"}
  PROVE  source = "host"
BY DEF IInv, Types, BatchShape, ProxyShape, NoneShape

LEMMA OneElement ==
  ASSUME NEW S, NEW c \in S
  PROVE  <<c>> \in Seq(S) /\ Len(<<c>>) = 1 /\ <<c>>[1] = c /\ <<c>> # << >>
OBVIOUS

\* What has to be shown of the types after a read.
LEMMA TypesStep ==
  ASSUME Types, UNCHANGED <<source, script, live, body, why>>, at' \in 0..Len(script),
         reader' \in {"top", "read", "send", "last", "done"}, chan' \in Seq(Chunks),
         stream' \in {"none", "open", "over", "closed"}, held' \in Seq(Nat)
  PROVE  Types'
<1>1. Len(chan') \in Nat /\ Len(held') \in Nat
  BY LenProperties, Zenon
<1>2. QED
  BY <1>1 DEF Types, ScriptOK

\* A step of the host's reader touches no other source.
LEMMA HostStep ==
  ASSUME IInv, source = "host", UNCHANGED <<source, script, body, why, held, live>>,
         Types', HostShape'
  PROVE  IInv'
<1>1. BodyShape' /\ Outcome'
  BY BodyKept DEF IInv, Types
<1>2. BatchShape' /\ ProxyShape' /\ NoneShape'
  BY DEF BatchShape, ProxyShape, NoneShape
<1>3. QED
  BY <1>1, <1>2 DEF IInv

LEMMA ReaderTopInv == ASSUME IInv, ReaderTop PROVE IInv'
<1>1. /\ UNCHANGED <<source, script, at, live, chan, held, body, why>>
      /\ reader = "top" /\ reader' \in {"read", "done"} /\ (reader' = "done" => ~live)
      /\ stream' \in {"none", "open", "over", "closed"}
  BY DEF ReaderTop, IInv, Types
<1>2. source = "host"
  BY <1>1, HostReads
<1>3. Types'
  BY <1>1 DEF IInv, Types, ScriptOK
<1>4. /\ GoesOn(at)' = GoesOn(at) /\ Passed' = Passed /\ Met' = Met
  BY <1>1, SameScript DEF Passed, Met, GoesOn
<1>5. HostShape'
  <2>1. HostShape
    BY DEF IInv
  <2>2. QED
    BY <1>1, <1>2, <1>4, <2>1 DEF HostShape
<1>6. QED
  BY <1>1, <1>2, <1>3, <1>5, HostStep

LEMMA SentInv == ASSUME IInv, Sent PROVE IInv'
<1>1. /\ UNCHANGED <<source, script, at, live, chan, stream, held, body, why>>
      /\ reader \in {"send", "last"} /\ chan = << >>
      /\ reader' = IF reader = "send" THEN "top" ELSE "done"
  BY DEF Sent
<1>2. source = "host"
  BY <1>1, HostReads
<1>3. Types'
  BY <1>1 DEF IInv, Types, ScriptOK
<1>4. /\ GoesOn(at)' = GoesOn(at) /\ EndsAt(at)' = EndsAt(at) /\ Passed' = Passed
  BY <1>1, SameScript DEF Passed, Met, GoesOn, EndsAt
<1>5. HostShape'
  <2>1. HostShape
    BY DEF IInv
  <2>2. QED
    BY <1>1, <1>2, <1>4, <2>1 DEF HostShape
<1>6. QED
  BY <1>1, <1>2, <1>3, <1>5, HostStep

\* The item at the script's place, and what reading it makes of what is known.
LEMMA NextItem ==
  ASSUME Types, at < Len(script), GoesOn(at)
  PROVE  /\ at + 1 \in 1..Len(script) /\ at + 1 \in 0..Len(script) /\ (at + 1) - 1 = at
         /\ Item.n \in Nat /\ Item.says \in {"more"} \cup Endings
         /\ Before[at] \in Nat /\ Before[at + 1] = Before[at] + Item.n
         /\ Bytes(at + 1, at + 1) = From(Before[at], Item.n)
         /\ Bytes(at + 1, at + 1) \in Seq(Nat) /\ Len(Bytes(at + 1, at + 1)) = Item.n
         /\ Item.says = "more" => GoesOn(at + 1)
         /\ Item.says # "more" => EndsAt(at + 1)
<1>1. ScriptOK /\ Len(script) \in Nat /\ at \in 0..Len(script)
  BY DEF Types, ScriptOK
<1>2. at + 1 \in 1..Len(script) /\ at + 1 \in 0..Len(script) /\ (at + 1) - 1 = at
  BY <1>1
<1>3. Item.n \in Nat /\ Item.says \in {"more"} \cup Endings
  BY <1>1, <1>2, ItemTypes DEF Item
<1>4. Before[at] \in Nat /\ Before[at + 1] = Before[at] + Item.n
  <2>1. Before[at + 1] = Before[(at + 1) - 1] + script[at + 1].n
    BY <1>1, <1>2, BeforeSteps
  <2>2. QED
    BY <1>1, <1>2, <2>1, BeforeNat DEF Item
<1>5. /\ Bytes(at + 1, at + 1) = From(Before[at], Item.n)
      /\ Bytes(at + 1, at + 1) \in Seq(Nat) /\ Len(Bytes(at + 1, at + 1)) = Item.n
  <2>1. /\ Bytes(at + 1, at + 1) = From(Before[(at + 1) - 1], script[at + 1].n)
        /\ Bytes(at + 1, at + 1) \in Seq(Nat)
        /\ Len(Bytes(at + 1, at + 1)) = script[at + 1].n
    BY <1>1, <1>2, BytesAre, Zenon
  <2>2. QED
    BY <1>2, <2>1, Zenon DEF Item
<1>6. Item.says = "more" => GoesOn(at + 1)
  <2>1. \A i \in 1..(at + 1) : i \in 1..at \/ i = at + 1
    BY <1>1
  <2>2. QED
    BY <2>1, Zenon DEF GoesOn, Item
<1>7. Item.says # "more" => EndsAt(at + 1)
  <2>1. at + 1 > 0
    BY <1>1
  <2>2. QED
    BY <1>2, <1>3, <2>1 DEF EndsAt, Item
<1>8. QED
  BY <1>2, <1>3, <1>4, <1>5, <1>6, <1>7

LEMMA ReadHostInv == ASSUME IInv, ReadHost PROVE IInv'
<1>1. /\ UNCHANGED <<source, script, live, held, body, why>>
      /\ source = "host" /\ reader = "read" /\ at < Len(script) /\ at' = at + 1
      /\ Types /\ HostShape
  BY DEF ReadHost, IInv
<1>2. GoesOn(at) /\ chan = << >> /\ held = << >>
  BY <1>1 DEF HostShape
<1>3. /\ at + 1 \in 1..Len(script) /\ at + 1 \in 0..Len(script) /\ (at + 1) - 1 = at
      /\ Item.n \in Nat /\ Item.says \in {"more"} \cup Endings
      /\ Before[at] \in Nat /\ Before[at + 1] = Before[at] + Item.n
      /\ Bytes(at + 1, at + 1) = From(Before[at], Item.n)
      /\ Bytes(at + 1, at + 1) \in Seq(Nat)
      /\ Item.says = "more" => GoesOn(at + 1)
      /\ Item.says # "more" => EndsAt(at + 1)
  BY <1>1, <1>2, NextItem, Zenon
<1>4. /\ \A k : GoesOn(k)' = GoesOn(k) /\ EndsAt(k)' = EndsAt(k)
      /\ Before' = Before
  BY <1>1, SameScript, Zenon
<1>5. stream' \in {"none", "open", "over", "closed"}
  BY DEF ReadHost, StreamAfter
<1>6. /\ Met' = Failed(Item)
      /\ Passed' = IF Failed(Item) THEN Before[at] ELSE Before[at + 1]
  <2>1. at + 1 > 0
    BY <1>3
  <2>2. Met' = Failed(Item)
    BY <1>1, <2>1 DEF Met, Item, Failed
  <2>3. QED
    BY <1>1, <1>3, <1>4, <2>2 DEF Passed
<1>7. why = "reading" => Len(body) = Before[at]
  <2>1. ~Met
    <3>1. at > 0 => at \in 1..at
      <4>1. at \in 0..Len(script) /\ Len(script) \in Nat
        BY <1>1, Zenon DEF Types, ScriptOK
      <4>2. QED
        BY <4>1
    <3>2. at > 0 => script[at].says = "more"
      BY <1>2, <3>1 DEF GoesOn
    <3>3. QED
      BY <3>2 DEF Met, Failed
  <2>2. QED
    BY <1>1, <1>2, <2>1 DEF HostShape, Passed
<1>8. CASE Failed(Item)
  <2>1. reader' = "last" /\ chan' = <<Chunk(<< >>, TRUE)>>
    BY <1>8 DEF ReadHost
  <2>2. Chunk(<< >>, TRUE) \in Chunks
    BY DEF Chunk, Chunks
  <2>3. /\ chan' \in Seq(Chunks) /\ Len(chan') = 1 /\ chan'[1] = Chunk(<< >>, TRUE)
        /\ chan' # << >>
    BY <2>1, <2>2, OneElement, Zenon
  <2>4. Types'
    <3>1. reader' \in {"top", "read", "send", "last", "done"} /\ held' \in Seq(Nat)
      BY <1>1, <2>1 DEF Types
    <3>2. QED
      BY <1>1, <1>3, <1>5, <2>3, <3>1, TypesStep, Zenon
  <2>5. EndsAt(at)'
    BY <1>1, <1>3, <1>8 DEF Failed, EndsAt, GoesOn
  <2>6. why' = "reading" => Len(body') = Passed' /\ From(Len(body'), Passed' - Len(body')) = << >>
    <3>1. SUFFICES ASSUME why' = "reading"
                   PROVE  Len(body') = Passed' /\ From(Len(body'), Passed' - Len(body')) = << >>
      OBVIOUS
    <3>2. Len(body') = Before[at] /\ Passed' = Before[at]
      BY <1>1, <1>6, <1>7, <1>8, <3>1
    <3>3. Passed' - Len(body') = 0
      BY <1>3, <3>2
    <3>4. QED
      BY <1>3, <3>2, <3>3, RunIsSeq
  <2>7. HostShape'
    <3>1. Met' = TRUE
      BY <1>6, <1>8, Zenon
    <3>2. why' = "reading" => chan'[1] = Chunk(From(Len(body'), Passed' - Len(body')), Met')
      BY <2>3, <2>6, <3>1, Zenon
    <3>3. Len(chan') <= 1 /\ chan' # << >> /\ reader' = "last" /\ held' = << >>
      BY <1>1, <1>2, <2>1, <2>3
    <3>4. why' = "reading" => Len(body') <= Passed'
      <4>1. Len(body') \in Nat
        BY <2>4, Zenon DEF Types
      <4>2. QED
        BY <2>6, <4>1
    <3>5. /\ reader' \in {"top", "read", "send"} => GoesOn(at)'
          /\ reader' = "done" => (EndsAt(at) \/ (GoesOn(at) /\ ~live))'
          /\ reader' \notin {"send", "last"} => chan' = << >>
      BY <3>3
    <3>6. QED
      BY <2>5, <3>2, <3>3, <3>4, <3>5, Zenon DEF HostShape
  <2>8. QED
    BY <1>1, <2>4, <2>7, HostStep DEF IInv
<1>9. CASE ~Failed(Item) /\ Item.n = 0
  <2>1. chan' = << >> /\ reader' = IF Item.says = "done" THEN "done" ELSE "top"
    BY <1>2, <1>9 DEF ReadHost
  <2>2. Types'
    <3>1. /\ reader' \in {"top", "read", "send", "last", "done"} /\ held' \in Seq(Nat)
          /\ chan' \in Seq(Chunks)
      BY <1>1, <1>2, <2>1 DEF Types
    <3>2. QED
      BY <1>1, <1>3, <1>5, <3>1, TypesStep, Zenon
  <2>3. Item.says = "done" => EndsAt(at)'
    BY <1>1, <1>3, <1>4 DEF EndsAt, GoesOn
  <2>4. Item.says # "done" => GoesOn(at)'
    BY <1>1, <1>3, <1>4, <1>9 DEF GoesOn, Failed, Endings
  <2>5. why' = "reading" => Len(body') = Passed'
    BY <1>1, <1>3, <1>6, <1>7, <1>9
  <2>6. Len(chan') = 0 /\ Len(body') \in Nat
    BY <2>1, <2>2 DEF Types
  <2>7. HostShape'
    BY <1>1, <1>2, <2>1, <2>3, <2>4, <2>5, <2>6 DEF HostShape
  <2>8. QED
    BY <1>1, <2>2, <2>7, HostStep DEF IInv
<1>10. CASE ~Failed(Item) /\ Item.n # 0
  <2>1. /\ reader' = IF Item.says = "done" THEN "last" ELSE "send"
        /\ chan' = <<Chunk(Bytes(at + 1, at + 1), FALSE)>>
    BY <1>10 DEF ReadHost
  <2>2. Chunk(Bytes(at + 1, at + 1), FALSE) \in Chunks
    BY <1>3 DEF Chunk, Chunks
  <2>3. /\ chan' \in Seq(Chunks) /\ Len(chan') = 1
        /\ chan'[1] = Chunk(From(Before[at], Item.n), FALSE) /\ chan' # << >>
    BY <1>3, <2>1, <2>2, OneElement, Zenon
  <2>4. Types'
    <3>1. reader' \in {"top", "read", "send", "last", "done"} /\ held' \in Seq(Nat)
      BY <1>1, <2>1 DEF Types
    <3>2. QED
      BY <1>1, <1>3, <1>5, <2>3, <3>1, TypesStep, Zenon
  <2>5. Item.says = "done" => EndsAt(at)'
    BY <1>1, <1>3, <1>4 DEF EndsAt, GoesOn
  <2>6. Item.says # "done" => GoesOn(at)'
    BY <1>1, <1>3, <1>4, <1>10 DEF GoesOn, Failed, Endings
  <2>7. why' = "reading" => Len(body') = Before[at] /\ Passed' - Len(body') = Item.n /\ Len(body') <= Passed'
    BY <1>1, <1>3, <1>6, <1>7, <1>10
  <2>8. HostShape'
    <3>1. ~Met'
      BY <1>6, <1>10
    <3>2. Met' = FALSE
      BY <3>1 DEF Met
    <3>3. why' = "reading" => chan'[1] = Chunk(From(Len(body'), Passed' - Len(body')), Met')
      BY <2>3, <2>7, <3>2, Zenon
    <3>4. Len(chan') <= 1 /\ chan' # << >> /\ held' = << >>
      BY <1>1, <1>2, <2>3
    <3>5. reader' = "last" \/ reader' = "send"
      BY <2>1
    <3>6. /\ reader' \in {"top", "read", "send"} => GoesOn(at)'
          /\ reader' = "last" => EndsAt(at)'
      BY <2>1, <2>5, <2>6
    <3>7. /\ reader' = "done" => (EndsAt(at) \/ (GoesOn(at) /\ ~live))'
          /\ reader' \notin {"send", "last"} => chan' = << >>
      BY <3>5
    <3>8. QED
      BY <2>7, <3>3, <3>4, <3>6, <3>7, Zenon DEF HostShape
  <2>9. QED
    BY <1>1, <2>4, <2>8, HostStep DEF IInv
<1>11. QED
  BY <1>8, <1>9, <1>10

\* The proxied body is read, and handed on when it is over.
LEMMA ProxyReading ==
  ASSUME IInv, source = "proxy", reader = "read"
  PROVE  /\ Types /\ ScriptOK /\ Len(script) \in Nat /\ at \in 0..Len(script)
         /\ held = UpTo(Before[at]) /\ Before[at] \in Nat /\ GoesOn(at)
         /\ chan = << >> /\ Len(chan) = 0 /\ Len(body) = 0 /\ why = "reading"
<1>1. Types /\ ScriptOK /\ ProxyShape
  BY DEF IInv, Types
<1>2. Len(script) \in Nat /\ at \in 0..Len(script)
  BY <1>1, Zenon DEF Types, ScriptOK
<1>3. /\ held = UpTo(Before[at]) /\ GoesOn(at)
      /\ chan = << >> /\ Len(body) = 0 /\ why = "reading"
  BY <1>1, Zenon DEF ProxyShape
<1>4. Before[at] \in Nat
  BY <1>1, <1>2, BeforeNat
<1>5. QED
  BY <1>1, <1>2, <1>3, <1>4

LEMMA ProxyStep ==
  ASSUME IInv, source = "proxy", UNCHANGED <<source, script, body, why, live>>,
         Types', ProxyShape'
  PROVE  IInv'
<1>1. BodyShape' /\ Outcome'
  BY BodyKept DEF IInv, Types
<1>2. BatchShape' /\ HostShape' /\ NoneShape'
  BY DEF BatchShape, HostShape, NoneShape
<1>3. QED
  BY <1>1, <1>2 DEF IInv

\* What Fill makes of the bytes held.
LEMMA Filled ==
  ASSUME NEW bytes \in Seq(Nat), Fill(bytes)
  PROVE  /\ reader' = "done" /\ chan' \in Seq(Chunks) /\ Len(chan') <= 1
         /\ chan' = << >> => bytes = << >>
         /\ chan' # << >> => chan'[1] = Chunk(bytes, FALSE)
<1>1. Chunk(bytes, FALSE) \in Chunks
  BY DEF Chunk, Chunks
<1>2. CASE bytes = << >>
  BY <1>2, EmptySeq DEF Fill
<1>3. CASE bytes # << >>
  <2>1. reader' = "done" /\ chan' = <<Chunk(bytes, FALSE)>>
    BY <1>3 DEF Fill
  <2>2. /\ chan' \in Seq(Chunks) /\ Len(chan') = 1 /\ chan'[1] = Chunk(bytes, FALSE)
        /\ chan' # << >>
    BY <1>1, <2>1, OneElement, Zenon
  <2>3. \A n : n = 1 => n <= 1
    OBVIOUS
  <2>4. QED
    BY <2>1, <2>2, <2>3, Zenon
<1>4. QED
  BY <1>2, <1>3, Zenon

LEMMA ReadProxyInv == ASSUME IInv, ReadProxy PROVE IInv'
<1>1. /\ UNCHANGED <<source, script, live, stream, body, why>>
      /\ source = "proxy" /\ reader = "read" /\ at < Len(script) /\ at' = at + 1
      /\ held' = held \o Bytes(at + 1, at + 1)
  BY DEF ReadProxy
<1>2. /\ Types /\ ScriptOK /\ Len(script) \in Nat /\ at \in 0..Len(script)
      /\ held = UpTo(Before[at]) /\ Before[at] \in Nat /\ GoesOn(at)
      /\ chan = << >> /\ Len(chan) = 0 /\ Len(body) = 0 /\ why = "reading"
  BY <1>1, ProxyReading, Zenon
<1>3. /\ at + 1 \in 0..Len(script) /\ Item.n \in Nat
      /\ Before[at + 1] = Before[at] + Item.n
      /\ Bytes(at + 1, at + 1) = From(Before[at], Item.n)
      /\ Item.says = "more" => GoesOn(at + 1)
      /\ Item.says # "more" => EndsAt(at + 1)
  BY <1>1, <1>2, NextItem, Zenon
<1>4. Before[at + 1] \in Nat
  BY <1>2, <1>3
<1>5. held' = UpTo(Before[at + 1]) /\ held' \in Seq(Nat) /\ Len(held') = Before[at + 1]
  <2>1. held' = UpTo(Before[at] + Item.n)
    BY <1>1, <1>2, <1>3, RunsJoin, Zenon
  <2>2. held' = UpTo(Before[at + 1])
    BY <1>3, <2>1, Zenon
  <2>3. UpTo(Before[at + 1]) \in Seq(Nat) /\ Len(UpTo(Before[at + 1])) = Before[at + 1]
    BY <1>4, RunIsSeq, Zenon
  <2>4. QED
    BY <2>2, <2>3, Zenon
<1>6. /\ held' = UpTo(Before[at])'
      /\ Item.says = "more" => GoesOn(at)'
      /\ Item.says # "more" => EndsAt(at)'
  <2>1. Before' = Before /\ \A k : GoesOn(k)' = GoesOn(k) /\ EndsAt(k)' = EndsAt(k)
    BY <1>1, SameScript, Zenon
  <2>2. QED
    BY <1>1, <1>3, <1>5, <2>1 DEF UpTo, GoesOn, EndsAt
<1>7. stream' \in {"none", "open", "over", "closed"} /\ at' \in 0..Len(script)
  BY <1>1, <1>2, <1>3 DEF Types
<1>8. CASE Item.says = "more"
  <2>1. reader' = "read" /\ chan' = << >>
    BY <1>1, <1>2, <1>8 DEF ReadProxy
  <2>2. chan' \in Seq(Chunks) /\ Len(chan') = 0 /\ reader' \in {"top", "read", "send", "last", "done"}
    BY <2>1, EmptySeq
  <2>3. Types'
    BY <1>1, <1>2, <1>5, <1>7, <2>2, TypesStep, Zenon
  <2>4. ProxyShape'
    BY <1>1, <1>2, <1>6, <1>8, <2>1, <2>2 DEF ProxyShape
  <2>5. QED
    BY <1>1, <2>3, <2>4, ProxyStep
<1>9. CASE Item.says # "more"
  <2>1. /\ reader' = "done" /\ chan' \in Seq(Chunks) /\ Len(chan') <= 1
        /\ chan' = << >> => held' = << >>
        /\ chan' # << >> => chan'[1] = Chunk(held', FALSE)
    <3>1. Fill(held')
      BY <1>9 DEF ReadProxy
    <3>2. QED
      BY <1>5, <3>1, Filled, Zenon
  <2>2. reader' \in {"top", "read", "send", "last", "done"}
    BY <2>1
  <2>3. Types'
    BY <1>1, <1>2, <1>5, <1>7, <2>1, <2>2, TypesStep, Zenon
  <2>4. Len(body') = 0 /\ (chan' = << >> => Len(held') = 0)
    BY <1>1, <1>2, <2>1, EmptySeq
  <2>5. ProxyShape'
    BY <1>1, <1>6, <1>9, <2>1, <2>4 DEF ProxyShape
  <2>6. QED
    BY <1>1, <2>3, <2>5, ProxyStep
<1>10. QED
  BY <1>8, <1>9

LEMMA ProxyCancelledInv == ASSUME IInv, ProxyCancelled PROVE IInv'
<1>1. /\ UNCHANGED <<source, script, at, live, stream, held, body, why>>
      /\ source = "proxy" /\ reader = "read" /\ ~live /\ Fill(held)
  BY DEF ProxyCancelled
<1>2. /\ Types /\ ScriptOK /\ Len(script) \in Nat /\ at \in 0..Len(script)
      /\ held = UpTo(Before[at]) /\ Before[at] \in Nat /\ GoesOn(at)
      /\ chan = << >> /\ Len(chan) = 0 /\ Len(body) = 0 /\ why = "reading"
  BY <1>1, ProxyReading, Zenon
<1>3. held \in Seq(Nat)
  BY <1>2 DEF Types
<1>4. /\ reader' = "done" /\ chan' \in Seq(Chunks) /\ Len(chan') <= 1
      /\ chan' = << >> => held = << >>
      /\ chan' # << >> => chan'[1] = Chunk(held, FALSE)
  BY <1>1, <1>3, Filled, Zenon
<1>5. reader' \in {"top", "read", "send", "last", "done"} /\ held' \in Seq(Nat)
  BY <1>1, <1>3, <1>4
<1>6. stream' \in {"none", "open", "over", "closed"} /\ at' \in 0..Len(script)
  BY <1>1, <1>2 DEF Types
<1>7. Types'
  BY <1>1, <1>2, <1>4, <1>5, <1>6, TypesStep, Zenon
<1>8. Len(body') = 0 /\ (chan' = << >> => Len(held') = 0)
  BY <1>1, <1>2, <1>4, EmptySeq
<1>9. held' = UpTo(Before[at])' /\ GoesOn(at)'
  BY <1>1, <1>2, SameScript DEF UpTo, GoesOn
<1>10. ProxyShape'
  BY <1>1, <1>4, <1>8, <1>9 DEF ProxyShape
<1>11. QED
  BY <1>1, <1>7, <1>10, ProxyStep

-----------------------------------------------------------------------------
(* The steps of readStreamErrorBody.                                       *)

\* A proxied body is waited for only when it has been read.
LEMMA Awaited ==
  ASSUME IInv, Waiting
  PROVE  /\ why = "reading" /\ (source = "proxy" => reader = "done")
         /\ Types /\ ScriptOK /\ Len(script) \in Nat /\ at \in 0..Len(script)
         /\ Len(body) \in Nat /\ Due \in Nat
<1>1. Types /\ ScriptOK
  BY DEF IInv, Types
<1>2. Due \in Nat
  BY <1>1, DueNat
<1>3. QED
  BY <1>1, <1>2, Zenon DEF Waiting, Types, ScriptOK

\* Returning changes nothing but the reason.
LEMMA WhyStep ==
  ASSUME IInv, Waiting,
         UNCHANGED <<source, script, at, live, reader, chan, stream, held, body>>,
         why' \in {"closed", "error", "cap", "cancelled"}, Outcome'
  PROVE  IInv'
<1>1. Types'
  BY DEF IInv, Types, ScriptOK
<1>2. Due' = Due /\ Before' = Before /\ (\A k : ChunkOf(k)' = ChunkOf(k))
  BY SameScript, Zenon
<1>3. BodyShape'
  BY <1>2 DEF IInv, BodyShape
<1>4. GoesOn(at)' = GoesOn(at) /\ EndsAt(at)' = EndsAt(at)
  BY DEF GoesOn, EndsAt
<1>5. why' # "reading"
  OBVIOUS
<1>6. HostShape'
  BY <1>4, <1>5 DEF IInv, HostShape
<1>7. BatchShape'
  BY <1>2, <1>5 DEF IInv, BatchShape
<1>8. ProxyShape'
  <2>1. source = "proxy" => reader = "done"
    BY Awaited
  <2>2. QED
    BY <1>2, <1>4, <1>5, <2>1 DEF IInv, ProxyShape, UpTo
<1>9. NoneShape'
  BY DEF IInv, NoneShape
<1>10. QED
  BY <1>1, <1>3, <1>6, <1>7, <1>8, <1>9 DEF IInv

LEMMA NoChannelInv == ASSUME IInv, NoChannel PROVE IInv'
<1>1. /\ UNCHANGED <<source, script, at, live, reader, chan, stream, held, body>>
      /\ Waiting /\ source = "none" /\ why' = "closed"
  BY DEF NoChannel
<1>2. Due' = 0 /\ Len(body') = 0
  BY <1>1 DEF IInv, NoneShape, Due
<1>3. Outcome'
  BY <1>1, <1>2 DEF Outcome
<1>4. QED
  BY <1>1, <1>3, WhyStep

LEMMA SeeCancelledInv == ASSUME IInv, SeeCancelled PROVE IInv'
<1>1. /\ UNCHANGED <<source, script, at, live, reader, chan, stream, held, body>>
      /\ Waiting /\ ~live /\ why' = "cancelled"
  BY DEF SeeCancelled
<1>2. Outcome'
  BY <1>1 DEF Outcome
<1>3. QED
  BY <1>1, <1>2, WhyStep

\* What the host's reader passed on is due; all that is due once it met the end.
LEMMA PassedIsDue ==
  ASSUME IInv, source = "host"
  PROVE  /\ Passed \in Nat /\ Passed <= Due
         /\ Met \/ EndsAt(at) => Passed = Due
<1>1. /\ ScriptOK /\ Len(script) \in Nat /\ at \in 0..Len(script)
      /\ reader \in {"top", "read", "send", "last", "done"}
  BY Zenon DEF IInv, Types, ScriptOK
<1>2. GoesOn(at) \/ EndsAt(at)
  BY <1>1 DEF IInv, HostShape
<1>3. NoneFails(at - 1) /\ (EndsAt(at) => LastItem = at)
  BY <1>1, <1>2, GoingOn, Zenon
<1>4. /\ Met => Before[at - 1] = Due
      /\ ~Met => Before[at] <= Due
      /\ LastItem = at /\ ~Met => Before[at] = Due
  BY <1>1, <1>3, DueDropped, Zenon DEF Met
<1>5. Due \in Nat /\ Before[at] \in Nat
  BY <1>1, DueNat, BeforeNat
<1>6. CASE Met
  BY <1>4, <1>5, <1>6 DEF Passed
<1>7. CASE ~Met
  BY <1>3, <1>4, <1>5, <1>7 DEF Passed
<1>8. QED
  BY <1>6, <1>7

\* A proxied body that was read is due; all of it unless it was given up.
LEMMA HeldIsDue ==
  ASSUME IInv, source = "proxy", reader = "done"
  PROVE  /\ Before[at] \in Nat /\ held = UpTo(Before[at]) /\ Len(held) = Before[at]
         /\ Before[at] <= Due
         /\ live => Before[at] = Due
<1>1. /\ ScriptOK /\ Len(script) \in Nat /\ at \in 0..Len(script)
  BY Zenon DEF IInv, Types, ScriptOK
<1>2. held = UpTo(Before[at]) /\ (EndsAt(at) \/ (GoesOn(at) /\ ~live))
  BY DEF IInv, ProxyShape
<1>3. NoneFails(at - 1) /\ (EndsAt(at) => LastItem = at)
  BY <1>1, <1>2, GoingOn, Zenon
<1>4. source \in {"batch", "proxy"}
  OBVIOUS
<1>5. Before[at] <= Due /\ (LastItem = at => Before[at] = Due)
  BY <1>1, <1>3, <1>4, DueWhole, Zenon
<1>6. Before[at] \in Nat
  BY <1>1, BeforeNat
<1>7. Len(held) = Before[at]
  BY <1>2, <1>6, RunIsSeq, Zenon
<1>8. QED
  BY <1>2, <1>3, <1>5, <1>6, <1>7, Zenon

LEMMA SeeClosedInv == ASSUME IInv, SeeClosed PROVE IInv'
<1>1. /\ UNCHANGED <<source, script, at, live, reader, chan, stream, held, body>>
      /\ Waiting /\ source # "none" /\ chan = << >> /\ reader = "done" /\ why' = "closed"
  BY DEF SeeClosed
<1>2. /\ why = "reading" /\ Types /\ ScriptOK /\ Len(script) \in Nat
  BY <1>1, Awaited, Zenon
<1>3. live => Len(body) = Due
  <2>1. SUFFICES ASSUME live PROVE Len(body) = Due
    OBVIOUS
  <2>2. CASE source = "host"
    <3>1. EndsAt(at) /\ Len(body) = Passed
      BY <1>1, <1>2, <2>1, <2>2 DEF IInv, HostShape
    <3>2. QED
      BY <2>2, <3>1, PassedIsDue
  <2>3. CASE source = "batch"
    <3>1. Len(chan) = 0 /\ Len(script) - Len(chan) = Len(script)
      BY <1>1, <1>2
    <3>2. Len(body) = Before[Len(script)] /\ NoneFails(Len(script))
      BY <1>2, <2>3, <3>1 DEF IInv, BatchShape
    <3>3. NoneFails(Len(script) - 1)
      <4>1. \A i \in 1..(Len(script) - 1) : i \in 1..Len(script)
        BY <1>2
      <4>2. QED
        BY <3>2, <4>1, Zenon DEF NoneFails
    <3>4. Len(script) \in 0..Len(script)
      BY <1>2
    <3>5. LastItem = Len(script)
      <4>1. Len(script) <= LastItem /\ LastItem \in 0..Len(script)
        BY <1>2, <3>3, <3>4, BeforeLast, LastItemIs, Zenon
      <4>2. QED
        BY <1>2, <4>1
    <3>6. source \in {"batch", "proxy"}
      BY <2>3
    <3>7. QED
      BY <1>2, <3>2, <3>3, <3>4, <3>5, <3>6, DueWhole, Zenon
  <2>4. CASE source = "proxy"
    <3>1. Len(body) = Len(held)
      BY <1>1, <1>2, <2>4 DEF IInv, ProxyShape
    <3>2. QED
      BY <1>1, <2>1, <2>4, <3>1, HeldIsDue
  <2>5. source \in {"host", "batch", "proxy", "none"}
    BY <1>2 DEF Types
  <2>6. QED
    BY <1>1, <2>2, <2>3, <2>4, <2>5
<1>4. Due' = Due
  BY <1>1, SameScript
<1>5. Outcome'
  BY <1>1, <1>3, <1>4 DEF Outcome
<1>6. QED
  BY <1>1, <1>5, WhyStep

LEMMA MinOfTwo ==
  ASSUME NEW a \in Int, NEW b \in Int
  PROVE  Min({a, b}) = IF a <= b THEN a ELSE b
<1>1. \E x \in {a, b} : \A y \in {a, b} : x <= y
  OBVIOUS
<1>2. Min({a, b}) \in {a, b} /\ \A y \in {a, b} : Min({a, b}) <= y
  BY <1>1, Zenon DEF Min
<1>3. QED
  BY <1>2

\* A payload that carries on where the body ends leaves a body that ends where
\* the payload does, or at the cap.
LEMMA KeptJoins ==
  ASSUME IInv, NEW k \in Nat, NEW payload, payload = From(Len(body), k),
         body' = body \o Kept(payload)
  PROVE  /\ Len(payload) = k /\ Len(body') \in Nat /\ body' \in Seq(Nat)
         /\ body' = UpTo(Len(body'))
         /\ Len(body') <= Cap /\ Len(body') <= Len(body) + k
         /\ k <= Cap - Len(body) => Len(body') = Len(body) + k
         /\ k >= Cap - Len(body) => Len(body') = Cap
<1> DEFINE m == Len(body)
           c == Min({k, Cap - m})
<1>1. /\ m \in Nat /\ body = UpTo(m) /\ m <= Cap /\ Cap \in Nat
  BY ErrorBodyAssumption, Zenon DEF IInv, Types, BodyShape
<1>2. Len(payload) = k
  BY <1>1, RunIsSeq, Zenon
<1> HIDE DEF m
<1>3. c = IF k <= Cap - m THEN k ELSE Cap - m
  BY <1>1, MinOfTwo
<1>4. Kept(payload) = SubSeq(From(m, k), 1, c)
  BY <1>2 DEF Kept, m
<1> HIDE DEF c
<1>5. c \in 0..k /\ c \in Nat /\ m + c \in Nat
  BY <1>1, <1>3
<1>6. Kept(payload) = From(m, c)
  BY <1>1, <1>4, <1>5, RunCut, Zenon
<1>7. body' = UpTo(m + c)
  BY <1>1, <1>5, <1>6, RunsJoin, Zenon
<1>8. UpTo(m + c) \in Seq(Nat) /\ Len(UpTo(m + c)) = m + c
  BY <1>5, RunIsSeq, Zenon
<1>9. Len(body') = m + c /\ body' = UpTo(Len(body')) /\ body' \in Seq(Nat)
  BY <1>7, <1>8, Zenon
<1>10. /\ m + c <= Cap /\ m + c <= m + k
       /\ k <= Cap - m => m + c = m + k
       /\ k >= Cap - m => m + c = Cap
  BY <1>1, <1>3
<1>11. QED
  BY <1>2, <1>5, <1>9, <1>10 DEF m

\* What is shown of a chunk that was taken, whatever fed the channel.
LEMMA ChunkTaken ==
  ASSUME IInv, Take, NEW k \in Nat, Head(chan).payload = From(Len(body), k),
         Len(body) + k <= Due, Head(chan).err => Len(body) + k = Due
  PROVE  /\ Types' /\ BodyShape' /\ Outcome'
         /\ why' = "reading" => ~Head(chan).err /\ Len(body') = Len(body) + k
<1> DEFINE payload == Head(chan).payload
           err == Head(chan).err
           room == Cap - Len(body)
<1>1. /\ UNCHANGED <<source, script, at, live, reader, stream, held>>
      /\ Waiting /\ chan # << >> /\ chan' = Tail(chan)
      /\ body' = body \o Kept(payload)
  BY DEF Take
<1>2. /\ why = "reading" /\ Types /\ Len(script) \in Nat /\ Len(body) \in Nat /\ Due \in Nat
      /\ Cap \in Nat
  BY <1>1, Awaited, ErrorBodyAssumption, Zenon
<1>3. /\ Len(payload) = k /\ Len(body') \in Nat /\ body' \in Seq(Nat)
      /\ body' = UpTo(Len(body'))
      /\ Len(body') <= Cap /\ Len(body') <= Len(body) + k
      /\ k <= room => Len(body') = Len(body) + k
      /\ k >= room => Len(body') = Cap
  BY <1>1, KeptJoins, Zenon
<1>4. (CASE Len(payload) > room -> why' = "cap"
         [] Len(payload) <= room /\ err -> why' = "error"
         [] Len(payload) = room /\ ~err -> why' = "cap"
         [] OTHER -> UNCHANGED why)
  BY Zenon DEF Take
<1> HIDE DEF payload, err
<1>5. room \in Int
  BY <1>2
<1> HIDE DEF room
<1>6. \/ k >= room /\ why' = "cap"
      \/ k <= room /\ err /\ why' = "error"
      \/ k <= room /\ ~err /\ why' = "reading"
  BY <1>2, <1>3, <1>4, <1>5
<1>7. Due' = Due
  BY <1>1, SameScript
<1>8. Types'
  <2>1. chan \in Seq(Chunks)
    BY <1>2, Zenon DEF Types
  <2>2. chan' \in Seq(Chunks)
    BY <1>1, <2>1, HeadTailProperties
  <2>3. Len(chan') \in Nat
    BY <2>2, LenProperties
  <2>4. why' \in {"reading", "closed", "error", "cap", "cancelled"}
    BY <1>6
  <2>5. QED
    BY <1>1, <1>2, <1>3, <2>2, <2>3, <2>4, Zenon DEF Types, ScriptOK
<1>9. BodyShape'
  <2>1. Len(body') <= Due
    BY <1>2, <1>3
  <2>2. QED
    BY <1>3, <1>7, <2>1, Zenon DEF BodyShape
<1>10. Outcome'
  <2>1. why' = "error" => Len(body') = Due
    BY <1>3, <1>6 DEF err
  <2>2. why' = "cap" => Len(body') = Cap
    BY <1>3, <1>6
  <2>3. why' \notin {"closed", "cancelled"}
    BY <1>6
  <2>4. QED
    BY <1>7, <2>1, <2>2, <2>3 DEF Outcome
<1>11. why' = "reading" => ~err /\ Len(body') = Len(body) + k
  BY <1>3, <1>6
<1>12. QED
  BY <1>8, <1>9, <1>10, <1>11, Zenon DEF err

\* The host's reader has one chunk under way, of what it passed on last.
LEMMA TakeFromHost == ASSUME IInv, Take, source = "host" PROVE IInv'
<1> DEFINE k == Passed - Len(body)
<1>1. /\ UNCHANGED <<source, script, at, live, reader, stream, held>>
      /\ Waiting /\ chan # << >> /\ chan' = Tail(chan)
  BY DEF Take
<1>2. /\ why = "reading" /\ Types /\ Len(body) \in Nat /\ HostShape
  BY <1>1, Awaited, Zenon DEF IInv
<1>3. chan \in Seq(Chunks)
  BY <1>2, Zenon DEF Types
<1>4. Len(chan) = 1 /\ Len(chan') = 0
  <2>1. Len(chan) <= 1 /\ Len(chan) \in Nat \ {0} /\ Len(chan') = Len(chan) - 1
    <3>1. Len(chan) <= 1
      BY <1>2 DEF HostShape
    <3>2. Len(chan) \in Nat \ {0} /\ Len(chan') = Len(chan) - 1
      BY <1>1, <1>3, EmptySeq, HeadTailProperties
    <3>3. QED
      BY <3>1, <3>2
  <2>2. QED
    BY <2>1
<1>5. chan' = << >>
  BY <1>1, <1>3, <1>4, EmptySeq, HeadTailProperties
<1>6. Head(chan) = Chunk(From(Len(body), k), Met) /\ Len(body) <= Passed
  BY <1>1, <1>2, <1>3 DEF HostShape
<1>7. /\ Passed \in Nat /\ Passed <= Due /\ (Met => Passed = Due)
  BY PassedIsDue
<1>8. k \in Nat /\ Len(body) + k = Passed
  BY <1>2, <1>6, <1>7
<1> HIDE DEF k
<1>9. Head(chan).payload = From(Len(body), k) /\ Head(chan).err = Met
  BY <1>6 DEF Chunk
<1>10. /\ Types' /\ BodyShape' /\ Outcome'
       /\ why' = "reading" => Len(body') = Len(body) + k
  <2>1. Len(body) + k <= Due /\ (Met => Len(body) + k = Due)
    BY <1>7, <1>8
  <2>2. Head(chan).err => Len(body) + k = Due
    BY <1>9, <2>1, Zenon
  <2>3. QED
    BY <1>8, <1>9, <2>1, <2>2, ChunkTaken, Zenon
<1>11. /\ GoesOn(at)' = GoesOn(at) /\ EndsAt(at)' = EndsAt(at) /\ Passed' = Passed
  BY <1>1, SameScript DEF Passed, Met, GoesOn, EndsAt
<1>12. HostShape'
  <2>1. why' = "reading" => Len(body') = Passed' /\ Len(body') <= Passed'
    BY <1>7, <1>8, <1>10, <1>11
  <2>2. Len(chan') <= 1 /\ held' = << >>
    <3>1. held = << >>
      BY <1>2, Zenon DEF HostShape
    <3>2. Len(chan') <= 1
      BY <1>4
    <3>3. QED
      BY <1>1, <3>1, <3>2, Zenon
  <2>3. /\ reader' \in {"top", "read", "send"} => GoesOn(at)'
        /\ reader' = "last" => EndsAt(at)'
        /\ reader' = "done" => (EndsAt(at) \/ (GoesOn(at) /\ ~live))'
    <3>1. /\ reader \in {"top", "read", "send"} => GoesOn(at)
          /\ reader = "last" => EndsAt(at)
          /\ reader = "done" => EndsAt(at) \/ (GoesOn(at) /\ ~live)
      BY <1>2, Zenon DEF HostShape
    <3>2. QED
      BY <1>1, <1>11, <3>1, Zenon
  <2>4. QED
    BY <1>5, <2>1, <2>2, <2>3, Zenon DEF HostShape
<1>13. BatchShape' /\ ProxyShape' /\ NoneShape'
  BY <1>1 DEF BatchShape, ProxyShape, NoneShape
<1>14. QED
  BY <1>10, <1>12, <1>13 DEF IInv

\* The first chunk of a batch is the item behind those that were taken.
LEMMA TakeFromBatch == ASSUME IInv, Take, source = "batch" PROVE IInv'
<1> DEFINE t == Len(script) - Len(chan)
<1>1. /\ UNCHANGED <<source, script, at, live, reader, stream, held>>
      /\ Waiting /\ chan # << >> /\ chan' = Tail(chan)
  BY DEF Take
<1>2. /\ why = "reading" /\ Types /\ ScriptOK /\ Len(script) \in Nat /\ Len(body) \in Nat /\ BatchShape
  BY <1>1, Awaited, Zenon DEF IInv
<1>3. chan \in Seq(Chunks)
  BY <1>2, Zenon DEF Types
<1>4. /\ Len(chan) \in Nat \ {0} /\ Len(chan') = Len(chan) - 1 /\ Head(chan) = chan[1]
      /\ \A i \in 1..(Len(chan) - 1) : chan'[i] = chan[i + 1]
  BY <1>1, <1>3, EmptySeq, HeadTailProperties
<1>5. /\ Len(chan) <= Len(script) /\ Len(body) = Before[t] /\ NoneFails(t)
      /\ \A i \in 1..Len(chan) : chan[i] = ChunkOf(t + i)
      /\ held = << >> /\ at = 0 /\ reader = "done"
  BY <1>2 DEF BatchShape
<1>6. /\ t \in 0..Len(script) /\ t + 1 \in 1..Len(script) /\ t + 1 \in 0..Len(script)
      /\ (t + 1) - 1 = t /\ Len(script) - Len(chan') = t + 1
      /\ 1 \in 1..Len(chan) /\ Len(chan') <= Len(script)
  <2>1. /\ Len(chan) <= Len(script) /\ Len(chan) \in Nat \ {0} /\ Len(script) \in Nat
        /\ Len(chan') = Len(chan) - 1
    BY <1>2, <1>4, <1>5, Zenon
  <2>2. QED
    BY <2>1
<1> HIDE DEF t
<1> DEFINE k == script[t + 1].n
<1>7. Head(chan) = ChunkOf(t + 1)
  BY <1>4, <1>5, <1>6, Zenon
<1>8. Bytes(t + 1, t + 1) = From(Before[t], k) /\ k \in Nat
  <2>1. Bytes(t + 1, t + 1) = From(Before[(t + 1) - 1], k)
    BY <1>2, <1>6, BytesAre, Zenon
  <2>2. k \in Nat
    BY <1>2, <1>6, ItemTypes, Zenon
  <2>3. QED
    BY <1>6, <2>1, <2>2, Zenon
<1>9. Before[t + 1] = Before[t] + k
  <2>1. Before[t + 1] = Before[(t + 1) - 1] + k
    BY <1>2, <1>6, BeforeSteps, Zenon
  <2>2. QED
    BY <1>6, <2>1, Zenon
<1> HIDE DEF k
<1>10. /\ Head(chan).payload = From(Len(body), k)
       /\ Head(chan).err = Failed(script[t + 1])
  <2>1. Head(chan) = Chunk(From(Len(body), k), Failed(script[t + 1]))
    BY <1>5, <1>7, <1>8, Zenon DEF ChunkOf
  <2>2. QED
    BY <2>1 DEF Chunk
<1>11. NoneFails((t + 1) - 1)
  BY <1>5, <1>6, Zenon
<1>12. /\ Len(body) + k <= Due
       /\ Failed(script[t + 1]) => Len(body) + k = Due
  <2>1. source \in {"batch", "proxy"}
    OBVIOUS
  <2>2. Before[t + 1] <= Due /\ (LastItem = t + 1 => Before[t + 1] = Due)
    BY <1>2, <1>6, <1>11, <2>1, DueWhole, Zenon
  <2>3. Failed(script[t + 1]) => LastItem = t + 1
    BY <1>2, <1>6, <1>11, FirstFailure, Zenon
  <2>4. QED
    BY <1>5, <1>9, <2>2, <2>3, Zenon
<1>13. /\ Types' /\ BodyShape' /\ Outcome'
       /\ why' = "reading" => ~Failed(script[t + 1]) /\ Len(body') = Len(body) + k
  <2>1. Head(chan).err => Len(body) + k = Due
    BY <1>10, <1>12, Zenon
  <2>2. QED
    BY <1>8, <1>10, <1>12, <2>1, ChunkTaken, Zenon
<1>14. /\ Before' = Before /\ Len(script') = Len(script)
       /\ \A i : NoneFails(i)' = NoneFails(i) /\ ChunkOf(i)' = ChunkOf(i)
  BY <1>1, SameScript, Zenon
<1>15. BatchShape'
  <2>1. ASSUME NEW i \in 1..Len(chan')
        PROVE  chan'[i] = ChunkOf((Len(script) - Len(chan')) + i)
    <3>1. i \in 1..(Len(chan) - 1) /\ i + 1 \in 1..Len(chan)
      BY <1>4
    <3>2. chan'[i] = ChunkOf(t + (i + 1))
      BY <1>4, <1>5, <3>1, Zenon
    <3>3. (Len(script) - Len(chan')) + i = t + (i + 1)
      BY <1>6
    <3>4. QED
      BY <3>2, <3>3, Zenon
  <2>2. ASSUME why' = "reading"
        PROVE  /\ Len(body') = Before[Len(script) - Len(chan')]
               /\ NoneFails(Len(script) - Len(chan'))
    <3>1. Len(body') = Before[t + 1]
      BY <1>5, <1>9, <1>13, <2>2, Zenon
    <3>2. \A i \in 1..(t + 1) : i \in 1..t \/ i = t + 1
      BY <1>6
    <3>3. NoneFails(t + 1)
      BY <1>5, <1>13, <2>2, <3>2, Zenon DEF NoneFails
    <3>4. QED
      BY <1>6, <3>1, <3>3, Zenon
  <2>3. Len(chan') <= Len(script')
    BY <1>6, <1>14, Zenon
  <2>4. /\ held' = << >> /\ at' = 0 /\ reader' = "done"
    BY <1>1, <1>5
  <2>5. (\A i \in 1..Len(chan) : chan[i] = ChunkOf((Len(script) - Len(chan)) + i))'
    BY <1>14, <2>1
  <2>6. QED
    BY <1>14, <2>2, <2>3, <2>4, <2>5 DEF BatchShape
<1>16. HostShape' /\ ProxyShape' /\ NoneShape'
  BY <1>1 DEF HostShape, ProxyShape, NoneShape
<1>17. QED
  BY <1>13, <1>15, <1>16 DEF IInv

\* A proxied body comes in one chunk.
LEMMA TakeFromProxy == ASSUME IInv, Take, source = "proxy" PROVE IInv'
<1> DEFINE k == Before[at]
<1>1. /\ UNCHANGED <<source, script, at, live, reader, stream, held>>
      /\ Waiting /\ chan # << >> /\ chan' = Tail(chan)
  BY DEF Take
<1>2. /\ why = "reading" /\ Types /\ Len(body) \in Nat /\ ProxyShape /\ reader = "done"
  BY <1>1, Awaited, Zenon DEF IInv
<1>3. chan \in Seq(Chunks)
  BY <1>2, Zenon DEF Types
<1>4. /\ k \in Nat /\ held = UpTo(k) /\ Len(held) = k /\ k <= Due
  BY <1>2, HeldIsDue, Zenon
<1>5. Len(chan) <= 1 /\ Len(body) = 0 /\ chan[1] = Chunk(held, FALSE)
  BY <1>1, <1>2 DEF ProxyShape
<1>6. Len(chan') = 0 /\ chan' = << >> /\ Head(chan) = chan[1]
  <2>1. Len(chan) \in Nat \ {0} /\ Len(chan') = Len(chan) - 1 /\ chan' \in Seq(Chunks)
    BY <1>1, <1>3, EmptySeq, HeadTailProperties
  <2>2. Len(chan') = 0
    BY <1>5, <2>1
  <2>3. QED
    BY <1>1, <1>3, <2>1, <2>2, EmptySeq
<1> HIDE DEF k
<1>7. Head(chan).payload = From(Len(body), k) /\ Head(chan).err = FALSE
  <2>1. UpTo(k) = From(0, k)
    BY <1>4 DEF UpTo, From
  <2>2. Head(chan) = Chunk(From(Len(body), k), FALSE)
    BY <1>4, <1>5, <1>6, <2>1, Zenon
  <2>3. QED
    BY <2>2 DEF Chunk
<1>8. /\ Types' /\ BodyShape' /\ Outcome'
      /\ why' = "reading" => Len(body') = Len(body) + k
  <2>1. Len(body) + k <= Due
    BY <1>4, <1>5
  <2>2. Head(chan).err => Len(body) + k = Due
    BY <1>7
  <2>3. QED
    BY <1>4, <1>7, <2>1, <2>2, ChunkTaken, Zenon
<1>9. GoesOn(at)' = GoesOn(at) /\ EndsAt(at)' = EndsAt(at) /\ Before' = Before
  BY <1>1, SameScript DEF GoesOn, EndsAt
<1>10. ProxyShape'
  <2>1. why' = "reading" => Len(body') = Len(held')
    BY <1>1, <1>4, <1>5, <1>8
  <2>2. held' = UpTo(Before[at])'
    BY <1>1, <1>2, <1>9 DEF ProxyShape, UpTo
  <2>3. reader' = "done" /\ Len(chan') <= 1
    <3>1. Len(chan') <= 1
      BY <1>6
    <3>2. QED
      BY <1>1, <1>2, <3>1, Zenon
  <2>4. (EndsAt(at) \/ (GoesOn(at) /\ ~live))'
    <3>1. EndsAt(at) \/ (GoesOn(at) /\ ~live)
      BY <1>2, Zenon DEF ProxyShape
    <3>2. QED
      BY <1>1, <1>9, <3>1, Zenon
  <2>5. reader' \in {"read", "done"} /\ reader' # "read"
    BY <2>3
  <2>6. QED
    BY <1>6, <2>1, <2>2, <2>3, <2>4, <2>5, Zenon DEF ProxyShape
<1>11. HostShape' /\ BatchShape' /\ NoneShape'
  BY <1>1 DEF HostShape, BatchShape, NoneShape
<1>12. QED
  BY <1>8, <1>10, <1>11 DEF IInv

LEMMA TakeInv == ASSUME IInv, Take PROVE IInv'
<1>1. source \in {"host", "batch", "proxy"}
  BY DEF Take, IInv, Types, NoneShape
<1>2. QED
  BY <1>1, TakeFromHost, TakeFromBatch, TakeFromProxy

LEMMA StepInv == IInv /\ [Next]_vars => IInv'
<1> SUFFICES ASSUME IInv, [Next]_vars PROVE IInv'
  OBVIOUS
<1>1. CASE Reader
  BY <1>1, ReaderTopInv, ReadHostInv, SentInv, ReadProxyInv, ProxyCancelledInv DEF Reader
<1>2. CASE Body
  BY <1>2, NoChannelInv, SeeCancelledInv, SeeClosedInv, TakeInv DEF Body
<1>3. CASE Cancel
  BY <1>3, CancelInv
<1>4. CASE Returned \/ UNCHANGED vars
  <2>1. UNCHANGED <<source, script, at, live, reader, chan, stream, held, body, why>>
    BY <1>4, Zenon DEF Returned, vars
  <2>2. Types' /\ NoneShape'
    BY <2>1 DEF IInv, Types, ScriptOK, NoneShape
  <2>3. BodyShape' /\ Outcome'
    BY <2>1, BodyKept DEF IInv, Types
  <2>4. /\ Before' = Before /\ GoesOn(at)' = GoesOn(at) /\ EndsAt(at)' = EndsAt(at)
        /\ Passed' = Passed /\ Met' = Met
        /\ \A k : NoneFails(k)' = NoneFails(k) /\ ChunkOf(k)' = ChunkOf(k)
    BY <2>1, SameScript DEF Passed, Met, GoesOn, EndsAt
  <2>5. HostShape' /\ ProxyShape'
    BY <2>1, <2>4 DEF IInv, HostShape, ProxyShape
  <2>6. BatchShape'
    BY <2>1, <2>4 DEF IInv, BatchShape
  <2>7. QED
    BY <2>2, <2>3, <2>5, <2>6 DEF IInv
<1>5. QED
  BY <1>1, <1>2, <1>3, <1>4 DEF Next

-----------------------------------------------------------------------------
(* The theorems.                                                           *)

\* The invariant holds throughout every reading of an error body
\* (readStreamErrorBody with what feeds it).
THEOREM Invariance == Spec => []IInv
<1>1. Init => IInv
  BY InitInv
<1>2. IInv /\ [Next]_vars => IInv'
  BY StepInv
<1>3. QED
  BY <1>1, <1>2, PTL DEF Spec

\* The state keeps its shape: the body never grows beyond the cap, whatever a
\* chunk brings, and a channel without a buffer holds one chunk
\* (executor.go:458, abi.go:367).
THEOREM TypeCorrect == Spec => []TypeOK
<1>1. ASSUME IInv PROVE TypeOK
  <2>1. /\ Types /\ ScriptOK /\ Len(script) \in Nat /\ at \in 0..Len(script)
    BY <1>1, Zenon DEF IInv, Types, ScriptOK
  <2>2. Before[at] \in Nat
    BY <2>1, BeforeNat
  <2>3. Bytes(1, at) = UpTo(Before[at]) /\ Len(UpTo(Before[at])) = Before[at]
    BY <2>1, <2>2, FirstBytes, RunIsSeq, Zenon
  <2>4. Len(held) <= Len(Bytes(1, at))
    <3>1. CASE source = "proxy"
      <4>1. held = Bytes(1, at)
        BY <1>1, <2>3, <3>1, Zenon DEF IInv, ProxyShape
      <4>2. QED
        BY <2>2, <2>3, <4>1
    <3>2. CASE source # "proxy"
      <4>1. Len(held) = 0
        BY <1>1, <2>1, <3>2 DEF IInv, Types, HostShape, BatchShape, NoneShape
      <4>2. QED
        BY <2>2, <2>3, <4>1
    <3>3. QED
      BY <3>1, <3>2
  <2>5. source # "batch" => Len(chan) <= 1
    <3>1. source = "none" => Len(chan) = 0
      BY <1>1 DEF IInv, NoneShape
    <3>2. source \in {"host", "proxy"} => Len(chan) <= 1
      BY <1>1 DEF IInv, HostShape, ProxyShape
    <3>3. source \in {"host", "batch", "proxy", "none"}
      BY <2>1, Zenon DEF Types
    <3>4. QED
      BY <3>1, <3>2, <3>3
  <2>6. Len(body) <= Cap
    BY <1>1, Zenon DEF IInv, BodyShape
  <2>7. QED
    BY <2>1, <2>4, <2>5, <2>6, Zenon DEF Types, ScriptOK, TypeOK
<1>2. QED
  BY <1>1, Invariance, PTL

\* The body of a refusal is the beginning of what the upstream sent, each byte
\* once and in its place, and all of it or the whole cap when the reading was
\* not cancelled (executor.go:463-483), for every script and every way the
\* bytes come.
THEOREM BodyIsComplete == Spec => []BodyComplete
<1>1. ASSUME IInv PROVE BodyComplete
  <2>1. Types /\ ScriptOK /\ Len(body) \in Nat
    BY <1>1, Zenon DEF IInv, Types
  <2>2. Offered = UpTo(Due) /\ Len(Offered) = Due /\ Due \in Nat
    BY <2>1, OfferedIsDue, DueNat, Zenon
  <2>3. body = UpTo(Len(body)) /\ Len(body) <= Due
    BY <1>1, Zenon DEF IInv, BodyShape
  <2>4. IsPrefix(body, Offered)
    <3> DEFINE m == Len(body)
    <3>1. UpTo(m) = From(0, m) /\ UpTo(Due) = From(0, Due)
      BY <2>1, <2>2 DEF UpTo, From
    <3>2. m \in 0..m /\ m \in 0..Due
      BY <2>1, <2>2, <2>3
    <3>3. SubSeq(From(0, m), 1, m) = From(0, m) /\ SubSeq(From(0, Due), 1, m) = From(0, m)
      BY <2>1, <2>2, <3>2, RunCut
    <3>4. QED
      BY <2>2, <2>3, <3>1, <3>3, Zenon DEF IsPrefix
  <2>5. why # "reading" /\ live => Len(body) = Cap \/ body = Offered
    <3>1. why # "reading" /\ live => Len(body) = Cap \/ Len(body) = Due
      BY <1>1, <2>1 DEF IInv, Types, Outcome
    <3>2. QED
      BY <2>2, <2>3, <3>1, Zenon
  <2>6. QED
    BY <2>4, <2>5 DEF BodyComplete
<1>2. QED
  BY <1>1, Invariance, PTL
=============================================================================
