-------------------------- MODULE TranslatorProofs --------------------------
(***************************************************************************)
(* Proofs about what the translators do.  To a request (ModelMap), for     *)
(* every set of configured lists and of requests: the tables hold what the *)
(* entries before next say, a request is rewritten once however often it   *)
(* is translated and its flags are set, and the scan of a body, cut off or *)
(* not, finds a name the body holds under "model".  To an answer (Payload), for every set of     *)
(* documents: thinking gets to the field the host reads, and gets there    *)
(* once.                                                                   *)
(***************************************************************************)
EXTENDS ModelMap, Payload, NaturalLemmas, SequenceTheorems, TLAPS

AnyMember == [key : AnyModel, kind : {"text", "scalar", "object"}, name : AnyModel]

\* The stems an entry claims.
Both(e) == Stems(e.alias) \cup Stems(e.name)

\* The entry at k sends a stem to its name.
Sends(k, stem) ==
  effectiveModels[k].name # Blank /\ stem \in Both(effectiveModels[k])

\* The tables say what the entries before next say.
Tables ==
  /\ models \in Lists
  /\ next \in 1..(Len(effectiveModels) + 1)
  /\ claimed = UNION {Both(effectiveModels[k]) : k \in 1..(next - 1)}
  /\ \A k \in 1..(next - 1) : \A stem \in Both(effectiveModels[k]) :
       Sends(k, stem) => stem \in DOMAIN rewrites
  /\ \A stem \in DOMAIN rewrites : \E k \in 1..(next - 1) :
       Sends(k, stem) /\ rewrites[stem] = effectiveModels[k].name

Shape ==
  /\ came \in Seq(AnyMember) /\ streams \in BOOLEAN
  /\ phase \in {"none", "routed", "refused", "sent"}
  /\ phase # "none" => Built

\* The body is as it came or has been given the one name it is sent with, and
\* leaves with its flags set, however often it was translated.
Rewriting ==
  /\ phase = "none" => body = came
  /\ phase # "sent" => body \in {came, normalizeRequestModel(asked, came)}
  /\ phase = "sent" => body = setStreamFlag(normalizeRequestModel(asked, came), streams)

\* The request was routed by a scan of its first n marks and strings.
Routing ==
  phase # "none" =>
    \E n \in 0..Len(Bytes(came)) :
      /\ whole <=> n = Len(Bytes(came))
      /\ phase = "refused" <=> ~owned(asked, SubSeq(Bytes(came), 1, n))

IInv == Tables /\ Shape /\ Rewriting /\ Routing

-----------------------------------------------------------------------------
(* The tables.                                                             *)

\* The entries in force are a sequence, whatever they hold.
LEMMA EntriesInForce ==
  ASSUME models \in Lists
  PROVE  Len(effectiveModels) \in Nat /\ DOMAIN effectiveModels = 1..Len(effectiveModels)
<1>1. CASE models # << >>
  <2>1. effectiveModels = models
    BY <1>1 DEF effectiveModels
  <2>2. \E S : models \in Seq(S)
    BY ModelAssumption, Zenon
  <2>3. PICK S : models \in Seq(S)
    BY <2>2, Zenon
  <2>4. Len(models) \in Nat /\ DOMAIN models = 1..Len(models)
    BY <2>3, LenProperties
  <2>5. QED
    BY <2>1, <2>4, Zenon
<1>2. CASE models = << >>
  <2>1. ASSUME NEW x, NEW y
        PROVE  Len(<<x, y>>) \in Nat /\ DOMAIN <<x, y>> = 1..Len(<<x, y>>)
    OBVIOUS
  <2>2. PICK x, y : defaultModelEntries = <<x, y>>
    BY Zenon DEF defaultModelEntries
  <2>3. effectiveModels = <<x, y>>
    BY <1>2, <2>2, Zenon DEF effectiveModels
  <2>4. QED
    BY <2>1, <2>3, Zenon
<1>3. QED
  BY <1>1, <1>2

\* The request's part of the state says nothing about the tables.
LEMMA TablesLast ==
  ASSUME Tables, UNCHANGED <<models, next, claimed, rewrites>>
  PROVE  Tables'
<1>1. effectiveModels' = effectiveModels
  BY Zenon DEF effectiveModels
<1>2. \A k, stem : Sends(k, stem)' <=> Sends(k, stem)
  BY <1>1, Zenon DEF Sends
<1>3. QED
  BY <1>1, <1>2, Zenon DEF Tables

LEMMA TablesInit == Init => Tables
<1> SUFFICES ASSUME Init PROVE Tables
  OBVIOUS
<1>1. models \in Lists /\ next = 1 /\ claimed = {} /\ DOMAIN rewrites = {}
  BY DEF Init
<1>2. Len(effectiveModels) \in Nat
  BY <1>1, EntriesInForce
<1>3. 1..(next - 1) = {} /\ next \in 1..(Len(effectiveModels) + 1)
  BY <1>1, <1>2
<1>4. claimed = UNION {Both(effectiveModels[k]) : k \in 1..(next - 1)}
  BY <1>1, <1>3, Zenon
<1>5. QED
  BY <1>1, <1>3, <1>4, Zenon DEF Tables

\* buildIndexes takes up one more entry.
LEMMA IndexEntryTables ==
  ASSUME Tables, IndexEntry
  PROVE  Tables'
<1> DEFINE e == effectiveModels[next]
<1>1. effectiveModels' = effectiveModels /\ models' = models
  BY Zenon DEF IndexEntry, effectiveModels
<1>2. next \in Nat /\ Len(effectiveModels) \in Nat /\ next <= Len(effectiveModels) /\ next >= 1
  BY EntriesInForce DEF Tables, IndexEntry, Built
<1>3. next' = next + 1
  BY DEF IndexEntry
<1>4. \A k : k \in 1..(next' - 1) <=> k \in 1..(next - 1) \/ k = next
  BY <1>2, <1>3
<1>5. next' \in 1..(Len(effectiveModels) + 1)
  BY <1>2, <1>3
<1>6. claimed' = claimed \cup Both(e)
  BY DEF IndexEntry, ClaimEntry, Both
<1>7. \A k, stem : Sends(k, stem)' <=> Sends(k, stem)
  BY <1>1, Zenon DEF Sends
<1>8. \/ e.name = Blank /\ rewrites' = rewrites
      \/ e.name # Blank /\ rewrites' = Rewritten(rewrites, Both(e), e.name)
  BY Zenon DEF IndexEntry, RewriteEntry, Both
<1>10. claimed' = UNION {Both(effectiveModels[k]) : k \in 1..(next' - 1)}
  <2>1. claimed = UNION {Both(effectiveModels[k]) : k \in 1..(next - 1)}
    BY DEF Tables
  <2> HIDE DEF e
  <2>2. QED
    BY <1>4, <1>6, <2>1 DEF e
<1>11. ASSUME NEW k \in 1..(next' - 1), NEW stem \in Both(effectiveModels[k]), Sends(k, stem)
       PROVE  stem \in DOMAIN rewrites'
  <2>1. stem \in DOMAIN rewrites => stem \in DOMAIN rewrites'
    BY <1>8 DEF Rewritten
  <2>2. CASE k \in 1..(next - 1)
    BY <1>11, <2>1, <2>2 DEF Tables
  <2>3. CASE k = next
    <3>1. e.name # Blank /\ stem \in Both(e)
      BY <1>11, <2>3 DEF Sends
    <3>2. QED
      BY <1>8, <3>1 DEF Rewritten
  <2>4. QED
    BY <1>4, <2>2, <2>3
<1>12. ASSUME NEW stem \in DOMAIN rewrites'
       PROVE  \E k \in 1..(next' - 1) :
                Sends(k, stem) /\ rewrites'[stem] = effectiveModels[k].name
  <2>1. CASE stem \in DOMAIN rewrites /\ rewrites'[stem] = rewrites[stem]
    <3>1. PICK k \in 1..(next - 1) : Sends(k, stem) /\ rewrites[stem] = effectiveModels[k].name
      BY <2>1 DEF Tables
    <3>2. QED
      BY <1>4, <2>1, <3>1
  <2>2. CASE e.name # Blank /\ stem \in Both(e) /\ rewrites'[stem] = e.name
    <3>1. Sends(next, stem) /\ next \in 1..(next' - 1)
      BY <1>4, <2>2 DEF Sends
    <3>2. QED
      BY <2>2, <3>1
  <2>3. QED
    BY <1>8, <2>1, <2>2 DEF Rewritten
<1>13. QED
  BY <1>1, <1>5, <1>7, <1>10, <1>11, <1>12 DEF Tables

-----------------------------------------------------------------------------
(* Rewriting a body.                                                       *)

\* The least of a non-empty set of positions.
LEMMA MinOf ==
  ASSUME NEW S \in SUBSET Nat, S # {}
  PROVE  Min(S) \in S /\ \A x \in S : Min(S) <= x
<1>1. \E x \in S : \A y \in S : x <= y
  BY LeastNatural
<1>2. QED
  BY <1>1, Zenon DEF Min

\* Nothing but the least position is one.
LEMMA MinIs ==
  ASSUME NEW S \in SUBSET Nat, NEW x \in S, \A y \in S : x <= y
  PROVE  Min(S) = x
<1>1. Min(S) \in S /\ Min(S) <= x /\ x <= Min(S)
  BY MinOf
<1>2. Min(S) \in Nat /\ x \in Nat
  BY <1>1
<1>3. QED
  BY <1>1, <1>2

\* What a member made by the plugin holds.
LEMMA MemberOf ==
  ASSUME NEW key, NEW kind, NEW name
  PROVE  /\ Member(key, kind, name).key = key
         /\ Member(key, kind, name).kind = kind
         /\ Member(key, kind, name).name = name
BY DEF Member

\* w is c with e as the first member of its key.
Given(c, w, e) ==
  /\ DOMAIN c \subseteq 1..Len(w)
  /\ \E i \in 1..Len(w) :
       /\ w[i] = e
       /\ \A j \in 1..Len(w) : w[j].key = e.key => i <= j
       /\ \A j \in 1..Len(w) : j # i => j \in DOMAIN c /\ w[j] = c[j]
       /\ i \in DOMAIN c => c[i].key = e.key

\* That is what setting a member does.
LEMMA SetMemberGives ==
  ASSUME NEW T, NEW c \in Seq(T), NEW e
  PROVE  SetMember(c, e) \in Seq(T \cup {e}) /\ Given(c, SetMember(c, e), e)
<1> DEFINE w == SetMember(c, e)
<1>1. Len(c) \in Nat /\ DOMAIN c = 1..Len(c)
  BY LenProperties
<1>2. c \in Seq(T \cup {e}) /\ e \in T \cup {e}
  BY <1>1
<1>3. CASE KeyAt(c, e.key) = {}
  <2>1. w = Append(c, e)
    BY <1>3, Zenon DEF SetMember
  <2> HIDE DEF w
  <2>2. /\ w \in Seq(T \cup {e})
        /\ Len(w) = Len(c) + 1 /\ w[Len(c) + 1] = e
        /\ \A i \in 1..Len(c) : w[i] = c[i]
    BY <1>2, <2>1, AppendProperties
  <2>3. \A j \in 1..Len(c) : c[j].key # e.key
    BY <1>1, <1>3 DEF KeyAt
  <2>4. Len(c) + 1 \in 1..Len(w) /\ DOMAIN c \subseteq 1..Len(w) /\ Len(c) + 1 \notin DOMAIN c
    BY <1>1, <2>2
  <2>5. \A j \in 1..Len(w) : j # Len(c) + 1 => j \in DOMAIN c /\ w[j] = c[j]
    BY <1>1, <2>2
  <2>6. \A j \in 1..Len(w) : w[j].key = e.key => Len(c) + 1 <= j
    BY <1>1, <2>2, <2>3, <2>5
  <2>7. Given(c, w, e)
    BY <2>2, <2>4, <2>5, <2>6, Zenon DEF Given
  <2>8. QED
    BY <2>2, <2>7 DEF w
<1>4. CASE KeyAt(c, e.key) # {}
  <2> DEFINE i == Min(KeyAt(c, e.key))
  <2>1. KeyAt(c, e.key) \in SUBSET Nat /\ \A j : j \in KeyAt(c, e.key) <=> j \in DOMAIN c /\ c[j].key = e.key
    BY <1>1 DEF KeyAt
  <2>2. i \in KeyAt(c, e.key) /\ \A j \in KeyAt(c, e.key) : i <= j
    BY <1>4, <2>1, MinOf
  <2>3. w = [c EXCEPT ![i] = e]
    BY <1>4, Zenon DEF SetMember
  <2> HIDE DEF w, i
  <2>4. i \in Nat /\ i \in 1..Len(c) /\ c[i].key = e.key
    BY <1>1, <2>1, <2>2
  <2>5. /\ w \in Seq(T \cup {e}) /\ Len(w) = Len(c) /\ w[i] = e
        /\ \A j \in 1..Len(c) : j # i => w[j] = c[j]
    BY <1>2, <2>3, <2>4, ExceptSeq
  <2>6. \A j \in 1..Len(w) : j # i => j \in DOMAIN c /\ w[j] = c[j]
    BY <1>1, <2>5
  <2>7. ASSUME NEW j \in 1..Len(w), w[j].key = e.key PROVE i <= j
    <3>1. CASE j = i
      BY <2>4, <3>1
    <3>2. CASE j # i
      BY <2>1, <2>2, <2>6, <2>7, <3>2
    <3>3. QED
      BY <3>1, <3>2
  <2>8. i \in 1..Len(w) /\ DOMAIN c \subseteq 1..Len(w)
    BY <1>1, <2>4, <2>5
  <2>9. Given(c, w, e)
    BY <2>4, <2>5, <2>6, <2>7, <2>8, Zenon DEF Given
  <2>10. QED
    BY <2>5, <2>9 DEF w
<1>5. QED
  BY <1>3, <1>4

\* It is then what a reader of that key finds, and to set it again changes nothing.
LEMMA GivenFirst ==
  ASSUME NEW T, NEW c, NEW w \in Seq(T), NEW e, Given(c, w, e)
  PROVE  KeyAt(w, e.key) # {} /\ First(w, e.key) = e /\ SetMember(w, e) = w
<1>1. Len(w) \in Nat /\ DOMAIN w = 1..Len(w)
  BY LenProperties
<1>2. PICK i \in 1..Len(w) : w[i] = e /\ \A j \in 1..Len(w) : w[j].key = e.key => i <= j
  BY Zenon DEF Given
<1>3. KeyAt(w, e.key) \in SUBSET Nat /\ i \in KeyAt(w, e.key) /\ \A j \in KeyAt(w, e.key) : i <= j
  BY <1>1, <1>2 DEF KeyAt
<1>4. Min(KeyAt(w, e.key)) = i
  BY <1>3, MinIs
<1>5. SetMember(w, e) = [w EXCEPT ![i] = e]
  BY <1>3, <1>4, Zenon DEF SetMember
<1>6. [w EXCEPT ![i] = e] = w
  BY <1>1, <1>2
<1>7. QED
  BY <1>2, <1>3, <1>4, <1>5, <1>6, Zenon DEF First

\* What a reader of another key finds is as before.
LEMMA GivenOther ==
  ASSUME NEW T, NEW c \in Seq(T), NEW U, NEW w \in Seq(U), NEW e, Given(c, w, e),
         NEW key, key # e.key, KeyAt(c, key) # {}
  PROVE  KeyAt(w, key) # {} /\ First(w, key) = First(c, key)
<1>1. /\ Len(w) \in Nat /\ DOMAIN w = 1..Len(w)
      /\ Len(c) \in Nat /\ DOMAIN c = 1..Len(c)
  BY LenProperties
<1>2. PICK i \in 1..Len(w) :
        /\ w[i] = e
        /\ \A j \in 1..Len(w) : j # i => j \in DOMAIN c /\ w[j] = c[j]
        /\ i \in DOMAIN c => c[i].key = e.key
  BY Zenon DEF Given
<1>3. DOMAIN c \subseteq 1..Len(w)
  BY DEF Given
<1>4. \A j : /\ j \in KeyAt(w, key) <=> j \in DOMAIN w /\ w[j].key = key
             /\ j \in KeyAt(c, key) <=> j \in DOMAIN c /\ c[j].key = key
  BY DEF KeyAt
<1>5. \A j \in KeyAt(c, key) : j # i /\ w[j] = c[j] /\ j \in KeyAt(w, key)
  BY <1>1, <1>2, <1>3, <1>4, Zenon
<1>6. \A j \in KeyAt(w, key) : j \in KeyAt(c, key)
  BY <1>1, <1>2, <1>4, Zenon
<1>7. KeyAt(w, key) = KeyAt(c, key)
  BY <1>5, <1>6
<1>8. KeyAt(c, key) \in SUBSET Nat
  BY <1>1, <1>4
<1>9. Min(KeyAt(c, key)) \in KeyAt(c, key)
  BY <1>8, MinOf
<1>10. QED
  BY <1>5, <1>7, <1>9, Zenon DEF First

\* w is c but for members of the keys K, each set as the first of its key.
SetIn(c, w, K) ==
  /\ DOMAIN c \subseteq DOMAIN w
  /\ \A i \in DOMAIN w :
       \/ i \in DOMAIN c /\ w[i] = c[i]
       \/ /\ w[i].key \in K /\ KeyAt(w, w[i].key) \cap 1..(i - 1) = {}
          /\ i \in DOMAIN c => c[i].key = w[i].key

LEMMA SetInNothing == ASSUME NEW c, NEW K PROVE SetIn(c, c, K)
BY DEF SetIn

\* Of a member a reader finds first no other of the key comes before.
LEMMA SetInMore ==
  ASSUME NEW c, NEW K, NEW T, NEW w \in Seq(T), SetIn(c, w, K),
         NEW e, NEW U, NEW x \in Seq(U), Given(w, x, e)
  PROVE  SetIn(c, x, K \cup {e.key})
<1>1. /\ Len(w) \in Nat /\ DOMAIN w = 1..Len(w)
      /\ Len(x) \in Nat /\ DOMAIN x = 1..Len(x)
  BY LenProperties
<1>2. PICK i \in 1..Len(x) :
        /\ x[i] = e
        /\ \A j \in 1..Len(x) : x[j].key = e.key => i <= j
        /\ \A j \in 1..Len(x) : j # i => j \in DOMAIN w /\ x[j] = w[j]
        /\ i \in DOMAIN w => w[i].key = e.key
  BY Zenon DEF Given
<1>3. DOMAIN w \subseteq DOMAIN x
  BY <1>1 DEF Given
<1>4. \A j \in DOMAIN w : x[j].key = w[j].key
  BY <1>1, <1>2, <1>3, Zenon
<1>5. DOMAIN c \subseteq DOMAIN w
  BY DEF SetIn
<1>6. \A j \in DOMAIN c : c[j].key = w[j].key
  BY <1>5 DEF SetIn
<1>7. ASSUME NEW j \in DOMAIN x
      PROVE  \/ j \in DOMAIN c /\ x[j] = c[j]
             \/ /\ x[j].key \in K \cup {e.key} /\ KeyAt(x, x[j].key) \cap 1..(j - 1) = {}
                /\ j \in DOMAIN c => c[j].key = x[j].key
  <2>1. CASE j = i
    <3>1. \A k \in KeyAt(x, e.key) : k \in 1..Len(x) /\ i <= k
      BY <1>1, <1>2 DEF KeyAt
    <3>2. KeyAt(x, e.key) \cap 1..(i - 1) = {}
      BY <3>1
    <3>3. i \in DOMAIN c => c[i].key = e.key
      BY <1>2, <1>5, <1>6
    <3>4. QED
      BY <1>2, <2>1, <3>2, <3>3
  <2>2. CASE j # i
    <3>1. j \in DOMAIN w /\ x[j] = w[j]
      BY <1>1, <1>2, <2>2, Zenon
    <3>2. CASE j \in DOMAIN c /\ w[j] = c[j]
      BY <3>1, <3>2
    <3>3. CASE /\ w[j].key \in K /\ KeyAt(w, w[j].key) \cap 1..(j - 1) = {}
               /\ j \in DOMAIN c => c[j].key = w[j].key
      <4>1. ASSUME NEW k \in KeyAt(x, w[j].key), k \in 1..(j - 1) PROVE FALSE
        <5>1. k \in DOMAIN w /\ x[k].key = w[j].key
          BY <1>1, <3>1, <4>1 DEF KeyAt
        <5>2. k \in KeyAt(w, w[j].key)
          BY <1>4, <5>1 DEF KeyAt
        <5>3. QED
          BY <3>3, <4>1, <5>2
      <4>2. QED
        BY <3>1, <3>3, <4>1
    <3>4. QED
      BY <3>1, <3>2, <3>3, Zenon DEF SetIn
  <2>3. QED
    BY <2>1, <2>2
<1>8. DOMAIN c \subseteq DOMAIN x
  BY <1>3, <1>5
<1>9. QED
  BY <1>7, <1>8, Zenon DEF SetIn

\* What a request translated is: the body of a name no entry names, or the body
\* given the name; a name given is what a reader of the model finds.
Renamed(c, w, m) ==
  /\ w = normalizeRequestModel(m, c)
  /\ \E T : w \in Seq(T)
  /\ SetIn(c, w, IF upstreamName(m) = Blank THEN {} ELSE {Word})
  /\ c # << >> /\ upstreamName(m) # Blank =>
       KeyAt(w, Word) # {} /\ First(w, Word) = Member(Word, "text", upstreamName(m))

LEMMA RequestRenamed ==
  ASSUME NEW T, NEW c \in Seq(T), NEW m
  PROVE  /\ Renamed(c, normalizeRequestModel(m, c), m)
         /\ normalizeRequestModel(m, normalizeRequestModel(m, c)) = normalizeRequestModel(m, c)
<1> DEFINE w == normalizeRequestModel(m, c)
           u == upstreamName(m)
           e == Member(Word, "text", u)
<1>1. CASE c = << >> \/ u = Blank
  <2>1. w = c
    BY <1>1, Zenon DEF normalizeRequestModel
  <2>2. SetIn(c, c, IF u = Blank THEN {} ELSE {Word})
    BY SetInNothing, Zenon
  <2>3. QED
    BY <1>1, <2>1, <2>2, Zenon DEF Renamed
<1>2. CASE c # << >> /\ u # Blank
  <2>1. w = SetMember(c, e) /\ (normalizeRequestModel(m, w) = w \/ normalizeRequestModel(m, w) = SetMember(w, e))
    BY <1>2, Zenon DEF normalizeRequestModel, WithModel
  <2>2. e.key = Word
    BY MemberOf
  <2> HIDE DEF e, w
  <2>3. w \in Seq(T \cup {e}) /\ Given(c, w, e)
    BY <2>1, SetMemberGives, Zenon
  <2>4. KeyAt(w, Word) # {} /\ First(w, Word) = e /\ SetMember(w, e) = w
    <3>1. KeyAt(w, e.key) # {} /\ First(w, e.key) = e /\ SetMember(w, e) = w
      BY <2>3, GivenFirst
    <3>2. QED
      BY <2>2, <3>1
  <2>5. SetIn(c, c, {})
    BY SetInNothing, Zenon
  <2>6. SetIn(c, w, {} \cup {e.key})
    BY <2>3, <2>5, SetInMore, Zenon
  <2>7. {} \cup {e.key} = IF u = Blank THEN {} ELSE {Word}
    BY <1>2, <2>2
  <2>8. SetIn(c, w, IF u = Blank THEN {} ELSE {Word})
    BY <2>6, <2>7, Zenon
  <2>9. Renamed(c, w, m)
    BY <2>3, <2>4, <2>8, Zenon DEF Renamed, w, e
  <2>10. QED
    BY <2>1, <2>4, <2>9, Zenon DEF w
<1>3. QED
  BY <1>1, <1>2

-----------------------------------------------------------------------------
(* The inductive invariant.                                                *)

LEMMA InitInv == Init => IInv
<1> SUFFICES ASSUME Init PROVE IInv
  OBVIOUS
<1>1. came = << >> /\ body = << >> /\ phase = "none" /\ streams = FALSE
  BY DEF Init
<1>2. Shape
  <2>1. streams \in BOOLEAN
    BY <1>1, Zenon
  <2>2. came \in Seq(AnyMember)
    BY <1>1
  <2>3. QED
    BY <1>1, <2>1, <2>2, Zenon DEF Shape
<1>3. Rewriting /\ Routing
  BY <1>1 DEF Rewriting, Routing
<1>4. QED
  BY <1>2, <1>3, TablesInit DEF IInv

LEMMA IndexEntryInv ==
  ASSUME IInv, IndexEntry
  PROVE  IInv'
<1>1. phase = "none" /\ UNCHANGED <<phase, asked, came, whole, body, streams>>
  BY DEF IndexEntry, IInv, Shape
<1>2. body = came
  BY <1>1 DEF IInv, Rewriting
<1>3. Shape'
  BY <1>1 DEF IInv, Shape
<1>4. Rewriting' /\ Routing'
  BY <1>1, <1>2 DEF Rewriting, Routing
<1>5. Tables'
  BY IndexEntryTables DEF IInv
<1>6. QED
  BY <1>3, <1>4, <1>5 DEF IInv

LEMMA RouteInv ==
  ASSUME IInv, NEW q \in Requests, Route(q)
  PROVE  IInv'
<1>1. Tables'
  BY TablesLast, Zenon DEF IInv, Route
<1>2. q.body \in Seq(AnyMember)
  <2> DEFINE A == AnyModel
  <2>1. Requests \subseteq [asked : A, body : Seq(AnyMember)]
    BY ModelAssumption, Zenon DEF AnyMember
  <2> HIDE DEF A
  <2>2. QED
    BY <2>1
<1>3. PICK n \in 0..Len(Bytes(q.body)) :
        /\ whole' = (n = Len(Bytes(q.body)))
        /\ phase' = IF owned(q.asked, SubSeq(Bytes(q.body), 1, n)) THEN "routed" ELSE "refused"
  BY Zenon DEF Route
<1>4. /\ asked' = q.asked /\ came' = q.body /\ body' = q.body /\ Built /\ Built'
      /\ streams' = streams
  BY Zenon DEF Route, Built, effectiveModels
<1>5. phase' \in {"routed", "refused"}
  BY <1>3
<1>6. Shape'
  BY <1>2, <1>4, <1>5 DEF IInv, Shape
<1>7. Rewriting'
  BY <1>4, <1>5 DEF Rewriting
<1>8. \A m, raw : owned(m, raw)' <=> owned(m, raw)
  BY Zenon DEF owned, Route
<1>9. Routing'
  <2>1. phase' = "refused" <=> ~owned(q.asked, SubSeq(Bytes(q.body), 1, n))
    BY <1>3
  <2>2. whole' <=> n = Len(Bytes(q.body))
    BY <1>3
  <2>3. QED
    BY <1>4, <1>8, <2>1, <2>2, Zenon DEF Routing
<1>10. QED
  BY <1>1, <1>6, <1>7, <1>9 DEF IInv

\* Translating and sending leave the tables, and how the request was routed.
LEMMA RoutedStays ==
  ASSUME IInv, phase = "routed", phase' \in {"routed", "sent"}, streams' \in BOOLEAN,
         UNCHANGED <<models, next, claimed, rewrites, asked, came, whole>>
  PROVE  Tables' /\ Shape' /\ Routing'
<1>1. Tables'
  BY TablesLast DEF IInv
<1>2. Shape'
  <2>1. came \in Seq(AnyMember) /\ Built
    BY DEF IInv, Shape
  <2>2. Built' <=> Built
    BY Zenon DEF Built, effectiveModels
  <2>3. QED
    BY <2>1, <2>2 DEF Shape
<1>3. Routing'
  <2>1. \A m, raw : owned(m, raw)' <=> owned(m, raw)
    BY Zenon DEF owned
  <2>2. phase # "none" /\ phase # "refused" /\ phase' # "refused"
    OBVIOUS
  <2>3. QED
    BY <2>1, <2>2, Zenon DEF IInv, Routing
<1>4. QED
  BY <1>1, <1>2, <1>3

\* Translated once more, the body that is sent is the one translated once.
LEMMA RewrittenOnce ==
  ASSUME IInv, phase = "routed", UNCHANGED <<rewrites, asked, came>>
  PROVE  /\ normalizeRequestModel(asked, body) = normalizeRequestModel(asked, came)
         /\ normalizeRequestModel(asked, came)' = normalizeRequestModel(asked, came)
<1>1. came \in Seq(AnyMember) /\ body \in {came, normalizeRequestModel(asked, came)}
  BY DEF IInv, Shape, Rewriting
<1>2. normalizeRequestModel(asked, normalizeRequestModel(asked, came)) = normalizeRequestModel(asked, came)
  BY <1>1, RequestRenamed, Zenon
<1>3. normalizeRequestModel(asked, came)' = normalizeRequestModel(asked, came)
  BY Zenon DEF normalizeRequestModel, upstreamName
<1>4. QED
  BY <1>1, <1>2, <1>3, Zenon

LEMMA TranslateInv ==
  ASSUME IInv, Translate
  PROVE  IInv'
<1>1. /\ phase = "routed" /\ phase' = "routed" /\ body' = normalizeRequestModel(asked, body)
      /\ UNCHANGED <<models, next, claimed, rewrites, asked, came, whole, streams>>
  BY DEF Translate
<1>2. Tables' /\ Shape' /\ Routing'
  BY <1>1, RoutedStays DEF IInv, Shape
<1>3. body' = normalizeRequestModel(asked, came)'
  BY <1>1, RewrittenOnce, Zenon
<1>4. Rewriting'
  <2>1. phase' # "none" /\ phase' # "sent"
    BY <1>1
  <2>2. QED
    BY <1>3, <2>1, Zenon DEF Rewriting
<1>5. QED
  BY <1>2, <1>4 DEF IInv

LEMMA SendInv ==
  ASSUME IInv, NEW s \in BOOLEAN, Send(s)
  PROVE  IInv'
<1>1. /\ phase = "routed" /\ phase' = "sent" /\ streams' = s
      /\ body' = setStreamFlag(normalizeRequestModel(asked, body), s)
      /\ UNCHANGED <<models, next, claimed, rewrites, asked, came, whole>>
  BY Zenon DEF Send
<1>2. Tables' /\ Shape' /\ Routing'
  BY <1>1, RoutedStays
<1>3. body' = setStreamFlag(normalizeRequestModel(asked, came)', streams')
  BY <1>1, RewrittenOnce, Zenon
<1>4. Rewriting'
  <2>1. phase' # "none" /\ phase' = "sent"
    BY <1>1
  <2>2. setStreamFlag(normalizeRequestModel(asked, came), streams)'
          = setStreamFlag(normalizeRequestModel(asked, came)', streams')
    BY Zenon DEF setStreamFlag
  <2>3. QED
    BY <1>3, <2>1, <2>2, Zenon DEF Rewriting
<1>5. QED
  BY <1>2, <1>4 DEF IInv

LEMMA StepInv == IInv /\ [Next]_vars => IInv'
<1> SUFFICES ASSUME IInv, [Next]_vars PROVE IInv'
  OBVIOUS
<1>1. CASE IndexEntry
  BY <1>1, IndexEntryInv
<1>2. ASSUME NEW q \in Requests, Route(q) PROVE IInv'
  BY <1>2, RouteInv
<1>3. CASE Translate
  BY <1>3, TranslateInv
<1>4. ASSUME NEW s \in BOOLEAN, Send(s) PROVE IInv'
  BY <1>4, SendInv
<1>5. CASE Over \/ UNCHANGED vars
  <2>1. UNCHANGED <<models, next, claimed, rewrites, phase, asked, came, whole, body, streams>>
    BY <1>5, Zenon DEF Over, vars
  <2>2. Tables'
    BY <2>1, TablesLast DEF IInv
  <2>3. Shape'
    BY <2>1, Zenon DEF IInv, Shape, Built, effectiveModels
  <2>4. Rewriting'
    BY <2>1, Zenon DEF IInv, Rewriting, normalizeRequestModel, upstreamName, setStreamFlag
  <2>5. Routing'
    BY <2>1, Zenon DEF IInv, Routing, owned
  <2>6. QED
    BY <2>2, <2>3, <2>4, <2>5 DEF IInv
<1>6. QED
  BY <1>1, <1>2, <1>3, <1>4, <1>5 DEF Next

\* The invariant holds whatever is configured and asked for: the tables say what
\* the entries say, and the body is as it came, translated once, or translated once
\* with its flags set.
THEOREM Invariance == Spec => []IInv
BY InitInv, StepInv, PTL DEF Spec

-----------------------------------------------------------------------------
(* What is sent.                                                           *)

\* The tables of a plugin that has indexed its entries are those of the list.
LEMMA TablesBuilt ==
  ASSUME Tables, Built
  PROVE  /\ \A stem : stem \in claimed <=> \E e \in Entries : stem \in Both(e)
         /\ \A stem : stem \in DOMAIN rewrites <=> Served(stem) # {}
         /\ \A stem \in DOMAIN rewrites : rewrites[stem] \in Served(stem) \ {Blank}
<1>1. next - 1 = Len(effectiveModels) /\ DOMAIN effectiveModels = 1..(next - 1)
  BY EntriesInForce DEF Tables, Built
<1>2. \A e : e \in Entries <=> \E k \in 1..(next - 1) : e = effectiveModels[k]
  BY <1>1, Zenon DEF Entries
<1>3. ASSUME NEW stem
      PROVE  stem \in claimed <=> \E e \in Entries : stem \in Both(e)
  <2>1. claimed = UNION {Both(effectiveModels[k]) : k \in 1..(next - 1)}
    BY Zenon DEF Tables
  <2>2. QED
    BY <1>2, <2>1, Zenon
<1>4. ASSUME NEW stem, NEW name
      PROVE  name \in Served(stem) <=>
               \E k \in 1..(next - 1) : Sends(k, stem) /\ name = effectiveModels[k].name
  <2>1. name \in Served(stem) <=> \E e \in Named : stem \in Both(e) /\ name = e.name
    BY DEF Served, Both
  <2>2. \A e : e \in Named <=> e \in Entries /\ e.name # Blank
    BY DEF Named
  <2>3. QED
    BY <1>2, <2>1, <2>2, Zenon DEF Sends
<1>5. ASSUME NEW stem \in DOMAIN rewrites
      PROVE  rewrites[stem] \in Served(stem) /\ rewrites[stem] # Blank
  <2>1. PICK k \in 1..(next - 1) : Sends(k, stem) /\ rewrites[stem] = effectiveModels[k].name
    BY Zenon DEF Tables
  <2>2. QED
    BY <1>4, <2>1, Zenon DEF Sends
<1>6. ASSUME NEW stem, Served(stem) # {}
      PROVE  stem \in DOMAIN rewrites
  <2>1. PICK name \in Served(stem) : TRUE
    BY <1>6
  <2>2. PICK k \in 1..(next - 1) : Sends(k, stem)
    BY <1>4, <2>1, Zenon
  <2>3. stem \in Both(effectiveModels[k])
    BY <2>2, Zenon DEF Sends
  <2>4. QED
    BY <2>2, <2>3, Zenon DEF Tables
<1>7. \A stem : stem \in DOMAIN rewrites <=> Served(stem) # {}
  BY <1>5, <1>6, Zenon
<1>8. \A stem \in DOMAIN rewrites : rewrites[stem] \in Served(stem) \ {Blank}
  BY <1>5
<1>9. \A stem : stem \in claimed <=> \E e \in Entries : stem \in Both(e)
  BY <1>3, Zenon
<1>10. QED
  BY <1>7, <1>8, <1>9, Zenon

\* A name is given to exactly the requests some entry names, one of such an entry.
LEMMA NameGiven ==
  ASSUME IInv, phase # "none"
  PROVE  LET stem == normalizeModel(asked)
             u    == upstreamName(asked)
         IN  IF Served(stem) = {} THEN u = Blank ELSE u # Blank /\ u \in Served(stem)
<1> DEFINE stem == normalizeModel(asked)
           u == upstreamName(asked)
<1>1. Tables /\ Built
  BY DEF IInv, Shape
<1>2. CASE Served(stem) = {}
  BY <1>1, <1>2, TablesBuilt, Zenon DEF upstreamName
<1>3. CASE Served(stem) # {}
  <2>1. stem \in DOMAIN rewrites
    BY <1>1, <1>3, TablesBuilt, Zenon
  <2>2. u = rewrites[stem]
    BY <2>1, Zenon DEF upstreamName
  <2>3. u \in Served(stem) \ {Blank}
    BY <1>1, <2>1, <2>2, TablesBuilt, Zenon
  <2>4. QED
    BY <1>3, <2>3
<1>4. QED
  BY <1>2, <1>3

\* The keys the plugin sets are three.
LEMMA KeysDiffer == Word # Stream /\ Word # Options /\ Stream # Options
<1>1. Word.stem = "model" /\ Stream.stem = "stream" /\ Options.stem = "stream_options"
  BY DEF Word, Stream, Options, Model
<1>2. "model" # "stream" /\ "model" # "stream_options" /\ "stream" # "stream_options"
  OBVIOUS
<1>3. QED
  BY <1>1, <1>2

\* The flags are set, nothing else of the body changes.
LEMMA FlagsSet ==
  ASSUME NEW T, NEW n \in Seq(T), n # << >>, NEW b \in BOOLEAN, NEW c, NEW K, SetIn(c, n, K)
  PROVE  LET x == setStreamFlag(n, b)
         IN  /\ First(x, Stream) = Flag(b)
             /\ b => First(x, Options) = Usage
             /\ SetIn(c, x, K \cup {Stream} \cup (IF b THEN {Options} ELSE {}))
             /\ KeyAt(n, Word) # {} => KeyAt(x, Word) # {} /\ First(x, Word) = First(n, Word)
<1> DEFINE f == Flag(b)
           w == SetMember(n, f)
           y == SetMember(w, Usage)
           x == setStreamFlag(n, b)
<1>1. f.key = Stream /\ Usage.key = Options
  BY MemberOf DEF Flag, Usage
<1>2. IF b THEN x = y ELSE x = w
  BY Zenon DEF setStreamFlag
<1> HIDE DEF f, x
<1>3. w \in Seq(T \cup {f}) /\ Given(n, w, f)
  BY SetMemberGives, Zenon
<1> HIDE DEF w
<1>4. y \in Seq((T \cup {f}) \cup {Usage}) /\ Given(w, y, Usage)
  BY <1>3, SetMemberGives, Zenon
<1> HIDE DEF y
<1>5. KeyAt(w, Stream) # {} /\ First(w, Stream) = f
  <2>1. KeyAt(w, f.key) # {} /\ First(w, f.key) = f
    BY <1>3, GivenFirst
  <2>2. QED
    BY <1>1, <2>1
<1>6. First(y, Options) = Usage
  <2>1. First(y, Usage.key) = Usage
    BY <1>4, GivenFirst
  <2>2. QED
    BY <1>1, <2>1
<1>7. ASSUME NEW key, key # Usage.key, KeyAt(w, key) # {}
      PROVE  KeyAt(y, key) # {} /\ First(y, key) = First(w, key)
  BY <1>3, <1>4, <1>7, GivenOther, Zenon
<1>8. KeyAt(n, Word) # {} => KeyAt(w, Word) # {} /\ First(w, Word) = First(n, Word)
  <2>1. Word # f.key
    BY <1>1, KeysDiffer
  <2>2. QED
    BY <1>3, <2>1, GivenOther, Zenon
<1>9. /\ First(y, Stream) = f
      /\ KeyAt(n, Word) # {} => KeyAt(y, Word) # {} /\ First(y, Word) = First(n, Word)
  <2>1. Word # Usage.key /\ Stream # Usage.key
    BY <1>1, KeysDiffer
  <2>2. QED
    BY <1>5, <1>7, <1>8, <2>1, Zenon
<1>10. SetIn(c, w, K \cup {Stream})
  BY <1>1, <1>3, SetInMore, Zenon
<1>11. SetIn(c, y, (K \cup {Stream}) \cup {Options})
  BY <1>1, <1>3, <1>4, <1>10, SetInMore, Zenon
<1>12. CASE b
  BY <1>2, <1>6, <1>9, <1>11, <1>12, Zenon DEF f, x
<1>13. CASE ~b
  <2>1. K \cup {Stream} \cup (IF b THEN {Options} ELSE {}) = K \cup {Stream}
    BY <1>13
  <2>2. QED
    BY <1>2, <1>5, <1>8, <1>10, <1>13, <2>1, Zenon DEF f, x
<1>14. QED
  BY <1>12, <1>13

\* Of a body of some bytes: what leaves, by the parts the properties are about.
LEMMA WhatLeaves ==
  ASSUME IInv, phase = "sent", came # << >>
  PROVE  LET u == upstreamName(asked)
         IN  /\ First(body, Stream) = Flag(streams)
             /\ streams => First(body, Options) = Usage
             /\ SetIn(came, body, (IF u = Blank THEN {} ELSE {Word}) \cup {Stream}
                                    \cup (IF streams THEN {Options} ELSE {}))
             /\ u # Blank => KeyAt(body, Word) # {} /\ First(body, Word) = Member(Word, "text", u)
<1> DEFINE n == normalizeRequestModel(asked, came)
           u == upstreamName(asked)
           K == IF u = Blank THEN {} ELSE {Word}
<1>1. came \in Seq(AnyMember) /\ streams \in BOOLEAN
  BY DEF IInv, Shape
<1>2. body = setStreamFlag(n, streams)
  BY DEF IInv, Rewriting
<1>3. Renamed(came, n, asked)
  BY <1>1, RequestRenamed, Zenon
<1> HIDE DEF n
<1>4. /\ SetIn(came, n, K)
      /\ u # Blank => KeyAt(n, Word) # {} /\ First(n, Word) = Member(Word, "text", u)
  BY <1>3, Zenon DEF Renamed
<1>5. PICK T : n \in Seq(T)
  BY <1>3, Zenon DEF Renamed
<1>6. n # << >>
  <2>1. DOMAIN came \subseteq DOMAIN n
    BY <1>4, Zenon DEF SetIn
  <2>2. DOMAIN came # {}
    <3>1. Len(came) \in Nat /\ DOMAIN came = 1..Len(came) /\ Len(came) # 0
      BY <1>1, LenProperties, EmptySeq
    <3>2. QED
      BY <3>1
  <2>3. QED
    BY <2>1, <2>2
<1> HIDE DEF u, K
<1>7. /\ First(body, Stream) = Flag(streams)
      /\ streams => First(body, Options) = Usage
      /\ SetIn(came, body, K \cup {Stream} \cup (IF streams THEN {Options} ELSE {}))
      /\ KeyAt(n, Word) # {} => KeyAt(body, Word) # {} /\ First(body, Word) = First(n, Word)
  BY <1>1, <1>2, <1>4, <1>5, <1>6, FlagsSet, Zenon
<1>8. QED
  BY <1>4, <1>7, Zenon DEF u, K

\* A request for a name that some entry names leaves under a name such an entry
\* gives, whatever its body said and however often it was translated.
THEOREM SentAsServed == Spec => []SentIsServed
<1>1. IInv => SentIsServed
  <2> DEFINE stem == normalizeModel(asked)
             u == upstreamName(asked)
  <2> SUFFICES ASSUME IInv, phase = "sent", came # << >>, Served(stem) # {}
      PROVE  TopModel(body) \in Served(stem)
    BY Zenon DEF SentIsServed
  <2>1. u # Blank /\ u \in Served(stem)
    BY NameGiven
  <2>2. KeyAt(body, Word) # {} /\ First(body, Word) = Member(Word, "text", u)
    BY <2>1, WhatLeaves, Zenon
  <2>3. /\ First(body, Word).kind = "text" /\ First(body, Word).name = u
    BY <2>2, MemberOf
  <2>4. TopModel(body) = u
    BY <2>2, <2>3, Zenon DEF TopModel, ModelAt, First
  <2>5. QED
    BY <2>1, <2>4
<1>2. QED
  BY <1>1, Invariance, PTL

\* What leaves has the stream flag of the call, asks a stream for its usage, and
\* beside these and the model it is sent with is the body that came, member by
\* member, each flag and the model where the client had it or at the end.
THEOREM OtherwiseAsCame == Spec => []BodyAsCame
<1>1. IInv => BodyAsCame
  <2> DEFINE u == upstreamName(asked)
             K == (IF u = Blank THEN {} ELSE {Word}) \cup {Stream}
                    \cup (IF streams THEN {Options} ELSE {})
  <2> SUFFICES ASSUME IInv, phase = "sent", came # << >>
      PROVE  /\ First(body, Stream) = Flag(streams)
             /\ streams => First(body, Options) = Usage
             /\ SetIn(came, body, SetKeys)
    BY Zenon DEF BodyAsCame, SetIn
  <2>1. u = Blank <=> Served(normalizeModel(asked)) = {}
    BY NameGiven
  <2>2. SetKeys = K
    BY <2>1 DEF SetKeys
  <2> HIDE DEF K
  <2>3. SetIn(came, body, K)
    BY WhatLeaves, Zenon DEF K
  <2>4. QED
    BY <2>2, <2>3, WhatLeaves, Zenon
<1>2. QED
  BY <1>1, Invariance, PTL

\* The scan of no bytes finds nothing.
LEMMA ModelOfNothing == modelFromBody(<< >>) = Blank
<1>1. {i \in DOMAIN << >> : << >>[i] = String(Word)} = {}
  OBVIOUS
<1>2. QED
  BY <1>1, Zenon DEF modelFromBody

\* Of all that is advertised, whatever is configured, just the names that have a
\* stem are taken.
THEOREM AdvertisedByStem == Spec => []AdvertisedRoutedByStem
<1>1. IInv => AdvertisedRoutedByStem
  <2> SUFFICES ASSUME IInv, Built, NEW e \in Entries
               PROVE  owned(Advertised(e), << >>) <=> normalizeModel(Advertised(e)) # NoText
    BY Zenon DEF AdvertisedRoutedByStem
  <2> DEFINE m == Advertised(e)
  <2>1. owned(m, << >>) <=> normalizeModel(m) \in claimed \/ normalizeModel(Blank) \in claimed
    BY ModelOfNothing, Zenon DEF owned
  <2>2. \A stem : stem \in claimed <=> \E x \in Entries : stem \in Both(x)
    BY TablesBuilt, Zenon DEF IInv
  <2>3. normalizeModel(Blank) = NoText
    BY DEF normalizeModel, Blank, Model
  <2>4. NoText \notin claimed
    BY <2>2 DEF Both, Stems
  <2>5. normalizeModel(m) # NoText => normalizeModel(m) \in Both(e)
    BY DEF Both, Stems, Advertised
  <2>6. QED
    BY <2>1, <2>2, <2>3, <2>4, <2>5, Zenon
<1>2. QED
  BY <1>1, Invariance, PTL

-----------------------------------------------------------------------------
(* The bytes of a body.                                                    *)

Colon == Mark(":")
Comma == Mark(",")
Zero  == Mark("0")
Left  == Mark("{")
Right == Mark("}")

\* What the scan meets, strings and marks.
LEMMA StringsAndMarks ==
  /\ \A name : String(name).string /\ String(name).name = name
  /\ ~Colon.string /\ ~Comma.string /\ ~Zero.string /\ ~Left.string /\ ~Right.string
  /\ Colon \notin {Comma, Zero, Left, Right}
<1>1. \A name : String(name).string /\ String(name).name = name
  BY DEF String
<1>2. \A c : ~Mark(c).string /\ Mark(c).name.stem = c
  BY DEF Mark, Model
<1>3. "0" # ":" /\ "{" # ":" /\ "}" # ":" /\ "," # ":"
  OBVIOUS
<1>4. QED
  BY <1>1, <1>2, <1>3, Zenon DEF Colon, Comma, Zero, Left, Right

\* All there is in the bytes of a body.
Marks ==
  {String(name) : name \in AnyModel \cup {Word}} \cup
  {Mark(c) : c \in {":", "0", "{", "}", ","}}

\* A value with what is around it.
LEMMA Bracketed ==
  ASSUME NEW T, NEW a \in T, NEW b \in T, NEW c \in T, NEW v \in Seq(T),
         NEW s, s = <<a, b>> \o v \o <<c>>
  PROVE  /\ s \in Seq(T) /\ Len(s) = Len(v) + 3
         /\ s[1] = a /\ s[2] = b /\ s[Len(v) + 3] = c
         /\ \A i \in 1..Len(v) : s[i + 2] = v[i]
<1>1. PICK x : x = <<a, b>>
  OBVIOUS
<1>2. x \in Seq(T) /\ Len(x) = 2 /\ x[1] = a /\ x[2] = b
  BY <1>1
<1>3. PICK z : z = <<c>>
  OBVIOUS
<1>4. z \in Seq(T) /\ Len(z) = 1 /\ z[1] = c
  BY <1>3
<1>5. PICK y : y = x \o v
  OBVIOUS
<1>6. Len(v) \in Nat
  BY LenProperties
<1>7. /\ y \in Seq(T) /\ Len(y) = Len(v) + 2
      /\ \A i \in 1..(Len(v) + 2) : y[i] = IF i <= 2 THEN x[i] ELSE v[i - 2]
  <2>1. /\ x \o v \in Seq(T) /\ Len(x \o v) = Len(x) + Len(v)
        /\ \A i \in 1..(Len(x) + Len(v)) :
             (x \o v)[i] = IF i <= Len(x) THEN x[i] ELSE v[i - Len(x)]
    BY <1>2, ConcatProperties
  <2>2. Len(x) + Len(v) = Len(v) + 2 /\ Len(x) = 2
    BY <1>2, <1>6
  <2>3. QED
    BY <1>5, <2>1, <2>2, Zenon
<1>8. s = y \o z
  BY <1>1, <1>3, <1>5, Zenon
<1>9. /\ s \in Seq(T) /\ Len(s) = Len(v) + 3
      /\ \A i \in 1..(Len(v) + 3) : s[i] = IF i <= Len(v) + 2 THEN y[i] ELSE z[i - (Len(v) + 2)]
  <2>1. /\ y \o z \in Seq(T) /\ Len(y \o z) = Len(y) + Len(z)
        /\ \A i \in 1..(Len(y) + Len(z)) :
             (y \o z)[i] = IF i <= Len(y) THEN y[i] ELSE z[i - Len(y)]
    BY <1>4, <1>7, ConcatProperties
  <2>2. Len(y) + Len(z) = Len(v) + 3 /\ Len(y) = Len(v) + 2
    BY <1>4, <1>6, <1>7
  <2>3. QED
    BY <1>8, <2>1, <2>2, Zenon
<1>10. s[1] = a /\ s[2] = b
  BY <1>2, <1>6, <1>7, <1>9
<1>11. s[Len(v) + 3] = c
  BY <1>4, <1>6, <1>9
<1>12. ASSUME NEW i \in 1..Len(v) PROVE s[i + 2] = v[i]
  BY <1>6, <1>7, <1>9
<1>13. QED
  BY <1>9, <1>10, <1>11, <1>12

\* The bytes of each kind of member's value.
LEMMA ValueOf ==
  ASSUME NEW m
  PROVE  /\ m.kind = "text" => Value(m) = <<String(m.name)>>
         /\ m.kind = "scalar" => Value(m) = <<Zero>>
         /\ m.kind = "object" => Value(m) = <<Left, String(Word), Colon, String(m.name), Right>>
<1>1. m.kind = "text" => Value(m) = <<String(m.name)>>
  BY Zenon DEF Value
<1>2. m.kind = "scalar" => Value(m) = <<Zero>>
  BY Zenon DEF Value, Zero
<1>3. m.kind = "object" => Value(m) = <<Left, String(Word), Colon, String(m.name), Right>>
  BY Zenon DEF Value, Left, Colon, Right
<1>4. QED
  BY <1>1, <1>2, <1>3, Zenon

\* The bytes of a member: its key, and what follows the colon.
LEMMA PieceOf ==
  ASSUME NEW m \in AnyMember
  PROVE  /\ Piece(m) \in Seq(Marks)
         /\ Piece(m)[1] = String(m.key) /\ Piece(m)[2] = Colon
         /\ \/ /\ m.kind = "text" /\ Len(Piece(m)) = 4
               /\ Piece(m)[3] = String(m.name) /\ Piece(m)[4] = Comma
            \/ /\ m.kind = "scalar" /\ Len(Piece(m)) = 4
               /\ Piece(m)[3] = Zero /\ Piece(m)[4] = Comma
            \/ /\ m.kind = "object" /\ Len(Piece(m)) = 8
               /\ Piece(m)[3] = Left /\ Piece(m)[4] = String(Word)
               /\ Piece(m)[5] = Colon /\ Piece(m)[6] = String(m.name)
               /\ Piece(m)[7] = Right /\ Piece(m)[8] = Comma
<1> DEFINE s == Piece(m)
           v == Value(m)
           k == String(m.key)
           n == String(m.name)
           w == String(Word)
<1>1. m.key \in AnyModel /\ m.kind \in {"text", "scalar", "object"} /\ m.name \in AnyModel
  BY DEF AnyMember
<1>2. /\ k \in Marks /\ n \in Marks /\ w \in Marks
      /\ Colon \in Marks /\ Comma \in Marks /\ Zero \in Marks
      /\ Left \in Marks /\ Right \in Marks
  BY <1>1, Zenon DEF Marks, Colon, Comma, Zero, Left, Right
<1>3. s = <<k, Colon>> \o v \o <<Comma>>
  BY Zenon DEF Piece, Colon, Comma
<1>4. /\ m.kind = "text" => v = <<n>>
      /\ m.kind = "scalar" => v = <<Zero>>
      /\ m.kind = "object" => v = <<Left, w, Colon, n, Right>>
  BY ValueOf, Zenon
<1> HIDE DEF s, v, k, n, w
<1>5. ASSUME v \in Seq(Marks)
      PROVE  /\ s \in Seq(Marks) /\ Len(s) = Len(v) + 3
             /\ s[1] = k /\ s[2] = Colon /\ s[Len(v) + 3] = Comma
             /\ \A i \in 1..Len(v) : s[i + 2] = v[i]
  BY <1>2, <1>3, <1>5, Bracketed
<1>6. ASSUME v = <<n>>
      PROVE  /\ s \in Seq(Marks) /\ Len(s) = 4
             /\ s[1] = k /\ s[2] = Colon /\ s[3] = n /\ s[4] = Comma
  <2>1. v \in Seq(Marks) /\ Len(v) = 1 /\ v[1] = n
    BY <1>2, <1>6
  <2>2. s[1 + 2] = n
    BY <1>5, <2>1
  <2>3. QED
    BY <1>5, <2>1, <2>2
<1>7. ASSUME v = <<Zero>>
      PROVE  /\ s \in Seq(Marks) /\ Len(s) = 4
             /\ s[1] = k /\ s[2] = Colon /\ s[3] = Zero /\ s[4] = Comma
  <2>1. v \in Seq(Marks) /\ Len(v) = 1 /\ v[1] = Zero
    BY <1>2, <1>7
  <2>2. s[1 + 2] = Zero
    BY <1>5, <2>1
  <2>3. QED
    BY <1>5, <2>1, <2>2
<1>8. ASSUME v = <<Left, w, Colon, n, Right>>
      PROVE  /\ s \in Seq(Marks) /\ Len(s) = 8
             /\ s[1] = k /\ s[2] = Colon /\ s[3] = Left /\ s[4] = w
             /\ s[5] = Colon /\ s[6] = n /\ s[7] = Right /\ s[8] = Comma
  <2>1. /\ v \in Seq(Marks) /\ Len(v) = 5
        /\ v[1] = Left /\ v[2] = w /\ v[3] = Colon /\ v[4] = n /\ v[5] = Right
    BY <1>2, <1>8
  <2>2. /\ s[1 + 2] = Left /\ s[2 + 2] = w /\ s[3 + 2] = Colon
        /\ s[4 + 2] = n /\ s[5 + 2] = Right
    BY <1>5, <2>1
  <2>3. QED
    BY <1>5, <2>1, <2>2
<1>9. CASE m.kind = "text"
  BY <1>4, <1>6, <1>9, Zenon DEF s, k, n
<1>10. CASE m.kind = "scalar"
  BY <1>4, <1>7, <1>10, Zenon DEF s, k
<1>11. CASE m.kind = "object"
  BY <1>4, <1>8, <1>11, Zenon DEF s, k, n, w
<1>12. QED
  BY <1>1, <1>9, <1>10, <1>11, Zenon

\* The loop of FlattenSeq over the first n sequences.
JoinsNext(seqs, i, before) == IF i = 1 THEN seqs[i] ELSE before \o seqs[i]
Joins(seqs, n, h) == h = [i \in 1..n |-> JoinsNext(seqs, i, h[i - 1])]

LEMMA JoinsExists ==
  ASSUME NEW seqs, NEW N \in Nat
  PROVE  \E h : Joins(seqs, N, h)
<1> DEFINE S == {n \in 0..N : \E h : Joins(seqs, n, h)}
<1>1. 0 \in S
  <2>1. Joins(seqs, 0, [i \in 1..0 |-> 0])
    BY DEF Joins
  <2>2. QED
    BY <2>1
<1>2. ASSUME NEW n \in 0..(N - 1), n \in S PROVE n + 1 \in S
  <2>1. PICK h : Joins(seqs, n, h)
    BY <1>2
  <2>2. PICK g : g = [i \in 1..(n + 1) |-> JoinsNext(seqs, i, h[i - 1])]
    OBVIOUS
  <2>3. \A i \in 1..n : g[i] = h[i]
    BY <2>1, <2>2 DEF Joins
  <2>4. ASSUME NEW i \in 1..(n + 1)
        PROVE  JoinsNext(seqs, i, h[i - 1]) = JoinsNext(seqs, i, g[i - 1])
    <3>1. CASE i = 1
      BY <3>1 DEF JoinsNext
    <3>2. CASE i # 1
      <4>1. g[i - 1] = h[i - 1]
        BY <2>3, <3>2
      <4>2. QED
        BY <4>1, Zenon
    <3>3. QED
      BY <3>1, <3>2
  <2>5. [i \in 1..(n + 1) |-> JoinsNext(seqs, i, h[i - 1])] =
          [i \in 1..(n + 1) |-> JoinsNext(seqs, i, g[i - 1])]
    BY <2>4, Zenon
  <2>6. Joins(seqs, n + 1, g)
    BY <2>2, <2>5, Zenon DEF Joins
  <2>7. n + 1 \in 0..N
    OBVIOUS
  <2>8. QED
    BY <2>6, <2>7
<1>3. \A n \in 0..N : n \in S
  BY <1>1, <1>2, UpToByInduction
<1>4. QED
  BY <1>3

\* What FlattenSeq returns is put together a sequence at a time.
LEMMA Flattened ==
  ASSUME NEW T, NEW seqs \in Seq(Seq(T))
  PROVE  \E f : /\ f \in [0..Len(seqs) -> Seq(T)]
                /\ f[0] = << >>
                /\ \A k \in 1..Len(seqs) : f[k] = f[k - 1] \o seqs[k]
                /\ FlattenSeq(seqs) = f[Len(seqs)]
<1> DEFINE N == Len(seqs)
           loop == CHOOSE h : Joins(seqs, N, h)
           f == [k \in 0..N |-> IF k = 0 THEN << >> ELSE loop[k]]
<1>1. N \in Nat /\ \A k \in 1..N : seqs[k] \in Seq(T)
  BY LenProperties, ElementOfSeq
<1>2. Joins(seqs, N, loop)
  BY <1>1, JoinsExists
<1>3. FlattenSeq(seqs) = IF N = 0 THEN seqs ELSE loop[N]
  BY DEF FlattenSeq, Joins, JoinsNext
<1> HIDE DEF loop, N
<1>4. \A k \in 1..N : loop[k] = JoinsNext(seqs, k, loop[k - 1])
  BY <1>2 DEF Joins
<1>5. f[0] = << >> /\ DOMAIN f = 0..N /\ f = [k \in DOMAIN f |-> f[k]]
      /\ \A k \in 1..N : f[k] = loop[k]
  BY <1>1
<1> HIDE DEF f
<1>6. ASSUME NEW k \in 1..N, f[k - 1] \in Seq(T)
      PROVE  f[k] = f[k - 1] \o seqs[k]
  <2>1. seqs[k] \in Seq(T)
    BY <1>1
  <2>2. CASE k = 1
    <3>1. f[k] = seqs[k] /\ f[k - 1] = << >>
      BY <1>4, <1>5, <2>2 DEF JoinsNext
    <3>2. << >> \o seqs[k] = seqs[k]
      BY <2>1, ConcatEmptySeq
    <3>3. QED
      BY <3>1, <3>2, Zenon
  <2>3. CASE k # 1
    <3>1. k - 1 \in 1..N
      BY <1>1, <2>3
    <3>2. f[k - 1] = loop[k - 1] /\ f[k] = loop[k]
      BY <1>5, <3>1
    <3>3. loop[k] = loop[k - 1] \o seqs[k]
      BY <1>4, <2>3 DEF JoinsNext
    <3>4. QED
      BY <3>2, <3>3, Zenon
  <2>4. QED
    BY <2>2, <2>3
<1> DEFINE S == {k \in 0..N : f[k] \in Seq(T)}
<1>7. 0 \in S
  <2>1. f[0] \in Seq(T)
    BY <1>5, EmptySeq, Zenon
  <2>2. 0 \in 0..N
    BY <1>1
  <2>3. QED
    BY <2>1, <2>2, Zenon
<1>8. ASSUME NEW n \in 0..(N - 1), n \in S PROVE n + 1 \in S
  <2>1. n + 1 \in 1..N /\ (n + 1) - 1 = n
    BY <1>1
  <2>2. f[n + 1] = f[n] \o seqs[n + 1]
    BY <1>6, <1>8, <2>1
  <2>3. f[n + 1] \in Seq(T)
    BY <1>1, <1>8, <2>1, <2>2, ConcatProperties
  <2>4. QED
    BY <1>1, <2>1, <2>3
<1>9. \A n \in 0..N : f[n] \in Seq(T)
  <2>1. \A n \in 0..N : n \in S
    BY <1>1, <1>7, <1>8, UpToByInduction
  <2>2. QED
    BY <2>1
<1>10. ASSUME NEW k \in 1..N PROVE f[k] = f[k - 1] \o seqs[k]
  <2>1. k - 1 \in 0..N
    BY <1>1
  <2>2. QED
    BY <1>6, <1>9, <2>1, Zenon
<1>11. f \in [0..N -> Seq(T)]
  BY <1>5, <1>9, Zenon
<1>12. FlattenSeq(seqs) = f[N]
  <2>1. CASE N = 0
    <3>1. seqs = << >>
      BY <2>1, EmptySeq DEF N
    <3>2. QED
      BY <1>3, <1>5, <2>1, <3>1, Zenon
  <2>2. CASE N # 0
    BY <1>1, <1>3, <1>5, <2>2
  <2>3. QED
    BY <2>1, <2>2
<1>13. QED
  BY <1>5, <1>10, <1>11, <1>12, Zenon DEF N

\* The bytes of the first members: one more piece behind those of the others.
Grown(members, f) ==
  /\ f \in [0..Len(members) -> Seq(Marks)]
  /\ f[0] = << >>
  /\ \A k \in 1..Len(members) : f[k] = f[k - 1] \o Piece(members[k])

\* The bytes of a body are those of its members, one behind the other.
LEMMA BytesGrow ==
  ASSUME NEW members \in Seq(AnyMember)
  PROVE  \E f : Grown(members, f) /\ Bytes(members) = f[Len(members)]
<1> DEFINE seqs == [i \in DOMAIN members |-> Piece(members[i])]
<1>1. Len(members) \in Nat /\ DOMAIN members = 1..Len(members)
  BY LenProperties
<1>2. \A i \in 1..Len(members) : seqs[i] = Piece(members[i]) /\ seqs[i] \in Seq(Marks)
  <2>1. ASSUME NEW i \in 1..Len(members) PROVE members[i] \in AnyMember
    BY ElementOfSeq
  <2>2. QED
    BY <1>1, <2>1, PieceOf, Zenon
<1>3. seqs \in Seq(Seq(Marks)) /\ Len(seqs) = Len(members)
  BY <1>1, <1>2
<1>4. Bytes(members) = FlattenSeq(seqs)
  BY Zenon DEF Bytes
<1> HIDE DEF seqs
<1>5. PICK f : /\ f \in [0..Len(seqs) -> Seq(Marks)]
               /\ f[0] = << >>
               /\ \A k \in 1..Len(seqs) : f[k] = f[k - 1] \o seqs[k]
               /\ FlattenSeq(seqs) = f[Len(seqs)]
  BY <1>3, Flattened
<1>6. \A k \in 1..Len(members) : f[k] = f[k - 1] \o Piece(members[k])
  BY <1>2, <1>3, <1>5, Zenon
<1>7. Grown(members, f)
  BY <1>3, <1>5, <1>6, Zenon DEF Grown
<1>8. Bytes(members) = f[Len(members)]
  BY <1>3, <1>4, <1>5, Zenon
<1>9. QED
  BY <1>7, <1>8, Zenon

\* The bytes of the first members are the beginning of those of more of them.
LEMMA GrownBegins ==
  ASSUME NEW members \in Seq(AnyMember), NEW f, Grown(members, f),
         NEW k \in 0..Len(members)
  PROVE  /\ Len(f[k]) <= Len(f[Len(members)])
         /\ \A i \in 1..Len(f[k]) : f[Len(members)][i] = f[k][i]
<1> DEFINE N == Len(members)
           S == {n \in 0..N : k <= n =>
                   Len(f[k]) <= Len(f[n]) /\ \A i \in 1..Len(f[k]) : f[n][i] = f[k][i]}
<1>1. N \in Nat /\ \A n \in 0..N : f[n] \in Seq(Marks) /\ Len(f[n]) \in Nat
  BY LenProperties DEF Grown
<1>2. \A n \in 1..N : Piece(members[n]) \in Seq(Marks) /\ f[n] = f[n - 1] \o Piece(members[n])
  BY ElementOfSeq, PieceOf DEF Grown
<1> HIDE DEF N
<1>3. k \in 0..N
  BY DEF N
<1>4. 0 \in S
  BY <1>1, <1>3
<1>5. ASSUME NEW n \in 0..(N - 1), n \in S PROVE n + 1 \in S
  <2>1. n + 1 \in 1..N /\ n \in 0..N /\ n + 1 \in 0..N /\ (n + 1) - 1 = n
    BY <1>1
  <2>2. f[n + 1] = f[n] \o Piece(members[n + 1]) /\ Piece(members[n + 1]) \in Seq(Marks)
    BY <1>2, <2>1
  <2>3. /\ Len(f[n]) <= Len(f[n + 1])
        /\ \A i \in 1..Len(f[n]) : f[n + 1][i] = f[n][i]
    <3>1. PICK s : s = Piece(members[n + 1])
      OBVIOUS
    <3>2. s \in Seq(Marks) /\ f[n] \in Seq(Marks) /\ f[n + 1] = f[n] \o s
      BY <1>1, <2>1, <2>2, <3>1
    <3>3. Len(f[n]) \in Nat /\ Len(s) \in Nat
      BY <3>2, LenProperties
    <3>4. QED
      BY <3>2, <3>3, ConcatProperties
  <2>4. CASE k <= n
    <3>1. Len(f[k]) <= Len(f[n]) /\ \A i \in 1..Len(f[k]) : f[n][i] = f[k][i]
      BY <1>5, <2>4
    <3>2. Len(f[k]) \in Nat /\ Len(f[n]) \in Nat /\ Len(f[n + 1]) \in Nat
      BY <1>1, <1>3, <2>1
    <3>3. Len(f[k]) <= Len(f[n + 1]) /\ \A i \in 1..Len(f[k]) : f[n + 1][i] = f[k][i]
      BY <2>3, <3>1, <3>2
    <3>4. QED
      BY <2>1, <3>3
  <2>5. CASE k = n + 1
    BY <1>1, <2>1, <2>5
  <2>6. CASE k > n + 1
    BY <1>3, <2>1, <2>6
  <2>7. QED
    BY <1>3, <2>4, <2>5, <2>6
<1>6. \A n \in 0..N : n \in S
  BY <1>1, <1>4, <1>5, UpToByInduction
<1>7. N \in S /\ k <= N
  BY <1>1, <1>3, <1>6
<1>8. QED
  BY <1>7 DEF N

-----------------------------------------------------------------------------
(* The scan.                                                               *)

\* Behind the word at i the bytes hold a value, perhaps after a colon, and if
\* that is a string it is one of the names.
Ties(raw, names, i) ==
  \/ /\ i + 1 <= Len(raw)
     /\ raw[i + 1] # Colon /\ ~raw[i + 1].string
  \/ /\ i + 2 <= Len(raw)
     /\ raw[i + 1] = Colon /\ raw[i + 2] # Colon
     /\ raw[i + 2].string => raw[i + 2].name \in names

Tied(raw, names) ==
  \A i \in 1..Len(raw) : raw[i] = String(Word) => Ties(raw, names, i)

\* A scan of bytes in which every word is tied, cut off anywhere, finds nothing
\* or one of the names.
LEMMA ScanFindsName ==
  ASSUME NEW raw \in Seq(Marks), NEW names, Tied(raw, names),
         NEW n \in 0..Len(raw)
  PROVE  modelFromBody(SubSeq(raw, 1, n)) \in names \cup {Blank}
<1> DEFINE cut == SubSeq(raw, 1, n)
           words == {i \in DOMAIN cut : cut[i] = String(Word)}
           after == {i \in DOMAIN cut : i > Min(words) /\ cut[i] # Mark(":")}
<1>1. /\ Len(raw) \in Nat /\ cut \in Seq(Marks) /\ Len(cut) = n
      /\ \A i \in 1..n : cut[i] = raw[i]
  BY LenProperties, SubSeqProperties
<1>2. DOMAIN cut = 1..n
  BY <1>1, LenProperties
<1>3. modelFromBody(cut) =
        IF words = {} \/ after = {} \/ ~cut[Min(after)].string THEN Blank
        ELSE cut[Min(after)].name
  BY Zenon DEF modelFromBody
<1> HIDE DEF cut
<1>4. SUFFICES ASSUME words # {}, after # {}, cut[Min(after)].string
               PROVE  cut[Min(after)].name \in names
  BY <1>3, Zenon DEF cut
<1> DEFINE w == Min(words)
           p == Min(after)
<1>5. w \in words
  <2>1. words \in SUBSET Nat
    BY <1>2
  <2> HIDE DEF words
  <2>2. QED
    BY <1>4, <2>1, MinOf, Zenon
<1>6. w \in 1..n /\ raw[w] = String(Word)
  BY <1>1, <1>2, <1>5
<1>7. p \in after /\ \A i \in after : p <= i
  <2>1. after \in SUBSET Nat
    BY <1>2
  <2> HIDE DEF after
  <2>2. QED
    BY <1>4, <2>1, MinOf, Zenon
<1> HIDE DEF words
<1>8. \A i : i \in after <=> i \in 1..n /\ i > w /\ raw[i] # Colon
  BY <1>1, <1>2 DEF Colon
<1> HIDE DEF w, p, after
<1>9. p \in 1..n /\ p > w /\ raw[p] # Colon /\ cut[p] = raw[p]
  BY <1>1, <1>7, <1>8
<1>10. Ties(raw, names, w)
  BY <1>1, <1>6 DEF Tied
<1>11. raw[p].string
  BY <1>4, <1>9 DEF p
<1>12. raw[p].name \in names
  <2>1. CASE raw[w + 1] # Colon
    <3>1. w + 1 \in after
      BY <1>6, <1>8, <1>9, <2>1
    <3>2. p = w + 1
      BY <1>6, <1>7, <1>9, <3>1
    <3>3. QED
      BY <1>10, <1>11, <2>1, <3>2, Zenon DEF Ties
  <2>2. CASE raw[w + 1] = Colon
    <3>1. raw[w + 2] # Colon /\ (raw[w + 2].string => raw[w + 2].name \in names)
      BY <1>10, <2>2, Zenon DEF Ties
    <3>2. p # w + 1
      BY <1>9, <2>2
    <3>3. w + 2 \in after
      BY <1>6, <1>8, <1>9, <3>1, <3>2
    <3>4. p = w + 2
      BY <1>6, <1>7, <1>9, <3>2, <3>3
    <3>5. QED
      BY <1>11, <3>1, <3>4, Zenon
  <2>3. QED
    BY <2>1, <2>2
<1>13. QED
  BY <1>9, <1>12 DEF p

\* What is tied stays so behind more bytes, and before them.
LEMMA TiedJoin ==
  ASSUME NEW names, NEW a \in Seq(Marks), NEW b \in Seq(Marks),
         Tied(a, names), Tied(b, names)
  PROVE  Tied(a \o b, names)
<1> DEFINE s == a \o b
<1>1. /\ Len(a) \in Nat /\ Len(b) \in Nat /\ Len(s) = Len(a) + Len(b)
      /\ \A i \in 1..(Len(a) + Len(b)) : s[i] = IF i <= Len(a) THEN a[i] ELSE b[i - Len(a)]
  BY LenProperties, ConcatProperties
<1> HIDE DEF s
<1>2. SUFFICES ASSUME NEW i \in 1..Len(s), s[i] = String(Word) PROVE Ties(s, names, i)
  BY DEF Tied, s
<1>3. CASE i <= Len(a)
  <2>1. i \in 1..Len(a) /\ s[i] = a[i]
    BY <1>1, <1>3
  <2>2. Ties(a, names, i)
    BY <1>2, <2>1, Zenon DEF Tied
  <2>3. i + 1 <= Len(a) => s[i + 1] = a[i + 1] /\ i + 1 <= Len(s)
    BY <1>1, <2>1
  <2>4. i + 2 <= Len(a) => i + 1 <= Len(a) /\ s[i + 2] = a[i + 2] /\ i + 2 <= Len(s)
    BY <1>1, <2>1
  <2>5. QED
    BY <2>2, <2>3, <2>4, Zenon DEF Ties
<1>4. CASE i > Len(a)
  <2> DEFINE j == i - Len(a)
  <2>1. j \in 1..Len(b) /\ s[i] = b[j]
    BY <1>1, <1>4
  <2>2. j + 1 <= Len(b) => s[i + 1] = b[j + 1] /\ i + 1 <= Len(s)
    <3>1. SUFFICES ASSUME j + 1 <= Len(b) PROVE s[i + 1] = b[j + 1] /\ i + 1 <= Len(s)
      OBVIOUS
    <3>2. i + 1 \in 1..(Len(a) + Len(b)) /\ ~ (i + 1 <= Len(a)) /\ (i + 1) - Len(a) = j + 1
      BY <1>1, <1>4, <3>1
    <3>3. QED
      BY <1>1, <3>2
  <2>3. j + 2 <= Len(b) => j + 1 <= Len(b) /\ s[i + 2] = b[j + 2] /\ i + 2 <= Len(s)
    <3>1. SUFFICES ASSUME j + 2 <= Len(b)
                   PROVE  j + 1 <= Len(b) /\ s[i + 2] = b[j + 2] /\ i + 2 <= Len(s)
      OBVIOUS
    <3>2. i + 2 \in 1..(Len(a) + Len(b)) /\ ~ (i + 2 <= Len(a)) /\ (i + 2) - Len(a) = j + 2
      BY <1>1, <1>4, <3>1
    <3>3. j + 1 <= Len(b)
      BY <1>1, <2>1, <3>1
    <3>4. QED
      BY <1>1, <3>2, <3>3
  <2> HIDE DEF j
  <2>4. Ties(b, names, j)
    BY <1>2, <2>1, Zenon DEF Tied
  <2>5. QED
    BY <2>2, <2>3, <2>4, Zenon DEF Ties
<1>5. QED
  BY <1>1, <1>3, <1>4

\* A member's bytes tie its words to the names it gives a model.
LEMMA PieceTied ==
  ASSUME NEW members \in Seq(AnyMember), NEW k \in 1..Len(members)
  PROVE  Tied(Piece(members[k]), ModelNames(members))
<1> DEFINE m == members[k]
           s == Piece(m)
           names == ModelNames(members)
<1>1. m \in AnyMember /\ m \in Range(members)
  <2>1. k \in DOMAIN members
    BY LenProperties
  <2>2. QED
    BY <2>1, ElementOfSeq DEF Range
<1>2. m.kind = "object" \/ (m.key = Word /\ m.kind = "text") => m.name \in names
  BY <1>1 DEF ModelNames
<1>3. /\ s \in Seq(Marks) /\ s[1] = String(m.key) /\ s[2] = Colon
      /\ \/ /\ m.kind = "text" /\ Len(s) = 4 /\ s[3] = String(m.name) /\ s[4] = Comma
         \/ /\ m.kind = "scalar" /\ Len(s) = 4 /\ s[3] = Zero /\ s[4] = Comma
         \/ /\ m.kind = "object" /\ Len(s) = 8
            /\ s[3] = Left /\ s[4] = String(Word) /\ s[5] = Colon
            /\ s[6] = String(m.name) /\ s[7] = Right /\ s[8] = Comma
  BY <1>1, PieceOf
<1> DEFINE isText == m.kind = "text"
           isObject == m.kind = "object"
<1>4. isText => Len(s) = 4 /\ s[3] = String(m.name) /\ s[4] = Comma
  BY <1>3
<1>5. ~isText /\ ~isObject => Len(s) = 4 /\ s[3] = Zero /\ s[4] = Comma
  BY <1>3
<1>6. isObject => /\ Len(s) = 8
                  /\ s[3] = Left /\ s[4] = String(Word) /\ s[5] = Colon
                  /\ s[6] = String(m.name) /\ s[7] = Right /\ s[8] = Comma
  BY <1>3
<1>7. isObject \/ (m.key = Word /\ isText) => m.name \in names
  BY <1>2
<1>8. s[1] = String(m.key) /\ s[2] = Colon
  BY <1>3
<1>9. String(m.name).string /\ String(m.name).name = m.name /\ String(m.key).name = m.key
      /\ String(Word).name = Word /\ String(Word).string
  BY StringsAndMarks
<1> HIDE DEF isText, isObject, s, names, m
<1> DEFINE n == String(m.name)
           w == String(Word)
<1>10. /\ n.string /\ n.name = m.name /\ w.string
       /\ ~Comma.string /\ ~Zero.string /\ ~Left.string /\ ~Right.string /\ ~Colon.string
       /\ n # Colon /\ w # Colon /\ w # Comma /\ w # Zero /\ w # Left /\ w # Right
       /\ Comma # Colon /\ Zero # Colon /\ Left # Colon /\ Right # Colon
  BY <1>9, StringsAndMarks, Zenon
<1>11. String(m.key) = w => m.key = Word
  BY <1>9, Zenon
<1> HIDE DEF n, w
<1>12. ASSUME NEW i \in Nat, i + 1 <= Len(s), ~s[i + 1].string, s[i + 1] # Colon
       PROVE  Ties(s, names, i)
  BY <1>12, Zenon DEF Ties
<1>13. ASSUME NEW i \in Nat, i + 2 <= Len(s), s[i + 1] = Colon, s[i + 2] # Colon,
              s[i + 2].string => s[i + 2].name \in names
       PROVE  Ties(s, names, i)
  BY <1>13, Zenon DEF Ties
<1>14. ASSUME isText, NEW i \in 1..Len(s), s[i] = w PROVE Ties(s, names, i)
  <2>1. Len(s) = 4 /\ s[1] = String(m.key) /\ s[2] = Colon /\ s[3] = n /\ s[4] = Comma
    BY <1>4, <1>8, <1>14 DEF n
  <2>2. i = 1 \/ i = 3
    BY <1>10, <1>14, <2>1
  <2>3. CASE i = 1
    <3>1. m.key = Word
      BY <1>11, <1>14, <2>1, <2>3
    <3>2. n.name \in names
      BY <1>7, <1>10, <1>14, <3>1
    <3>3. s[i + 1] = Colon /\ s[i + 2] = n /\ i + 2 <= Len(s)
      BY <2>1, <2>3
    <3>4. QED
      BY <1>10, <1>13, <2>3, <3>2, <3>3
  <2>4. CASE i = 3
    <3>1. s[i + 1] = Comma /\ i + 1 <= Len(s)
      BY <2>1, <2>4
    <3>2. QED
      BY <1>10, <1>12, <2>4, <3>1
  <2>5. QED
    BY <2>2, <2>3, <2>4
<1>15. ASSUME ~isText, ~isObject, NEW i \in 1..Len(s), s[i] = w
       PROVE  Ties(s, names, i)
  <2>1. Len(s) = 4 /\ s[2] = Colon /\ s[3] = Zero /\ s[4] = Comma
    BY <1>5, <1>8, <1>15
  <2>2. i = 1
    BY <1>10, <1>15, <2>1
  <2>3. s[i + 1] = Colon /\ s[i + 2] = Zero /\ i + 2 <= Len(s)
    BY <2>1, <2>2
  <2>4. QED
    BY <1>10, <1>13, <2>2, <2>3
<1>16. ASSUME isObject, NEW i \in 1..Len(s), s[i] = w PROVE Ties(s, names, i)
  <2>1. /\ Len(s) = 8 /\ s[2] = Colon /\ s[3] = Left /\ s[4] = w
        /\ s[5] = Colon /\ s[6] = n /\ s[7] = Right /\ s[8] = Comma
    BY <1>6, <1>8, <1>16 DEF n, w
  <2>2. i = 1 \/ i = 4 \/ i = 6
    BY <1>10, <1>16, <2>1
  <2>3. CASE i = 1
    <3>1. s[i + 1] = Colon /\ s[i + 2] = Left /\ i + 2 <= Len(s)
      BY <2>1, <2>3
    <3>2. QED
      BY <1>10, <1>13, <2>3, <3>1
  <2>4. CASE i = 4
    <3>1. s[i + 1] = Colon /\ s[i + 2] = n /\ i + 2 <= Len(s)
      BY <2>1, <2>4
    <3>2. n.name \in names
      BY <1>7, <1>10, <1>16
    <3>3. QED
      BY <1>10, <1>13, <2>4, <3>1, <3>2
  <2>5. CASE i = 6
    <3>1. s[i + 1] = Right /\ i + 1 <= Len(s)
      BY <2>1, <2>5
    <3>2. QED
      BY <1>10, <1>12, <2>5, <3>1
  <2>6. QED
    BY <2>2, <2>3, <2>4, <2>5
<1>17. Tied(s, names)
  BY <1>14, <1>15, <1>16, Zenon DEF Tied, w
<1>18. QED
  BY <1>17 DEF s, names, m

\* The bytes of a body tie each of its words.
LEMMA BytesTied ==
  ASSUME NEW members \in Seq(AnyMember)
  PROVE  Bytes(members) \in Seq(Marks) /\ Tied(Bytes(members), ModelNames(members))
<1> DEFINE N == Len(members)
           names == ModelNames(members)
<1>1. PICK f : Grown(members, f) /\ Bytes(members) = f[N]
  BY BytesGrow
<1>2. N \in Nat /\ \A k \in 0..N : f[k] \in Seq(Marks)
  BY <1>1, LenProperties DEF Grown
<1>3. \A k \in 1..N : Piece(members[k]) \in Seq(Marks) /\ Tied(Piece(members[k]), names)
  BY ElementOfSeq, PieceOf, PieceTied
<1>4. f[0] = << >> /\ \A k \in 1..N : f[k] = f[k - 1] \o Piece(members[k])
  BY <1>1 DEF Grown
<1> HIDE DEF N, names
<1> DEFINE S == {k \in 0..N : Tied(f[k], names)}
<1>5. 0 \in S
  <2>1. Tied(<< >>, names)
    BY DEF Tied
  <2>2. QED
    BY <1>2, <1>4, <2>1
<1>6. ASSUME NEW k \in 0..(N - 1), k \in S PROVE k + 1 \in S
  <2>1. k + 1 \in 1..N /\ k \in 0..N /\ (k + 1) - 1 = k /\ k + 1 \in 0..N
    BY <1>2
  <2>2. f[k + 1] = f[k] \o Piece(members[k + 1])
    BY <1>4, <2>1
  <2>3. Tied(f[k] \o Piece(members[k + 1]), names)
    BY <1>2, <1>3, <1>6, <2>1, TiedJoin
  <2>4. QED
    BY <2>1, <2>2, <2>3
<1>7. \A k \in 0..N : k \in S
  BY <1>2, <1>5, <1>6, UpToByInduction
<1>8. Tied(f[N], names) /\ f[N] \in Seq(Marks)
  BY <1>2, <1>7
<1>9. QED
  BY <1>1, <1>8 DEF N, names

NoWord(s) == \A j \in 1..Len(s) : s[j] # String(Word)

LEMMA NoWordJoin ==
  ASSUME NEW a \in Seq(Marks), NEW b \in Seq(Marks), NoWord(a), NoWord(b)
  PROVE  NoWord(a \o b)
<1>1. /\ Len(a) \in Nat /\ Len(b) \in Nat /\ Len(a \o b) = Len(a) + Len(b)
      /\ \A i \in 1..(Len(a) + Len(b)) : (a \o b)[i] = IF i <= Len(a) THEN a[i] ELSE b[i - Len(a)]
  BY LenProperties, ConcatProperties
<1>2. ASSUME NEW j \in 1..Len(a \o b) PROVE (a \o b)[j] # String(Word)
  <2>1. CASE j <= Len(a)
    <3>1. j \in 1..Len(a) /\ (a \o b)[j] = a[j]
      BY <1>1, <2>1
    <3>2. QED
      BY <3>1, Zenon DEF NoWord
  <2>2. CASE j > Len(a)
    <3>1. j - Len(a) \in 1..Len(b) /\ (a \o b)[j] = b[j - Len(a)]
      BY <1>1, <2>2
    <3>2. QED
      BY <3>1, Zenon DEF NoWord
  <2>3. QED
    BY <1>1, <2>1, <2>2
<1>3. QED
  BY <1>2 DEF NoWord

\* A member of another key, without an object and without the word for its
\* text, holds no word.
LEMMA NoWordPiece ==
  ASSUME NEW m \in AnyMember, m.key # Word, m.kind # "object",
         m.name = Word => m.kind # "text"
  PROVE  NoWord(Piece(m))
<1> DEFINE s == Piece(m)
           isText == m.kind = "text"
           n == String(m.name)
           w == String(Word)
           k == String(m.key)
<1>1. /\ s[1] = k /\ s[2] = Colon /\ Len(s) = 4 /\ s[4] = Comma
      /\ isText => s[3] = n
      /\ ~isText => s[3] = Zero
  BY PieceOf
<1>2. k # w /\ (isText => n # w)
  BY StringsAndMarks, Zenon
<1>3. Colon # w /\ Comma # w /\ Zero # w
  BY StringsAndMarks, Zenon
<1> HIDE DEF s, isText, n, w, k
<1>4. \A j \in 1..Len(s) : s[j] # w
  BY <1>1, <1>2, <1>3
<1>5. QED
  BY <1>4 DEF NoWord, s, w

\* In a body that names its model before anything else of that name, the scan
\* finds what a JSON reader finds.
LEMMA ScanFindsModel ==
  ASSUME NEW members \in Seq(AnyMember), ModelAt(members) # {}, Plain(members)
  PROVE  modelFromBody(Bytes(members)) = TopModel(members)
<1> DEFINE N == Len(members)
           at == Min(ModelAt(members))
           b == Bytes(members)
           w == String(Word)
<1>1. PICK f : Grown(members, f) /\ Bytes(members) = f[N]
  BY BytesGrow
<1>2. N \in Nat /\ DOMAIN members = 1..N /\ \A k \in 0..N : f[k] \in Seq(Marks)
  BY <1>1, LenProperties DEF Grown
<1>3. at \in ModelAt(members) /\ \A i \in ModelAt(members) : at <= i
  <2>1. ModelAt(members) \in SUBSET Nat
    BY <1>2 DEF ModelAt, KeyAt
  <2>2. QED
    BY <2>1, MinOf
<1>4. \A k \in 1..N : members[k] \in AnyMember /\ Piece(members[k]) \in Seq(Marks)
  BY ElementOfSeq, PieceOf
<1>5. f[0] = << >> /\ \A k \in 1..N : f[k] = f[k - 1] \o Piece(members[k])
  BY <1>1 DEF Grown
<1>6. at \in 1..N /\ members[at].key = Word
  BY <1>2, <1>3 DEF ModelAt, KeyAt
<1>7. \A j \in 1..at :
        members[j].kind # "object" /\ (members[j].name = Word => members[j].kind # "text")
  BY <1>3 DEF Plain
<1>8. \A k \in 1..(at - 1) : members[k].key # Word
  <2>1. SUFFICES ASSUME NEW k \in 1..(at - 1), members[k].key = Word PROVE FALSE
    OBVIOUS
  <2>2. k \in ModelAt(members) /\ ~ (at <= k)
    BY <1>2, <1>6, <2>1 DEF ModelAt, KeyAt
  <2>3. QED
    BY <1>3, <2>2
<1> DEFINE m == members[at]
<1>9. TopModel(members) = IF m.kind # "text" THEN Blank ELSE m.name
  BY Zenon DEF TopModel
<1> HIDE DEF N, at
<1> DEFINE S == {k \in 0..(at - 1) : NoWord(f[k])}
<1>10. at - 1 \in S
  <2>1. 0 \in S
    <3>1. NoWord(<< >>)
      BY DEF NoWord
    <3>2. QED
      BY <1>5, <1>6, <3>1
  <2>2. ASSUME NEW k \in 0..((at - 1) - 1), k \in S PROVE k + 1 \in S
    <3>1. /\ k + 1 \in 1..N /\ k \in 0..N /\ (k + 1) - 1 = k
          /\ k + 1 \in 0..(at - 1) /\ k + 1 \in 1..(at - 1) /\ k + 1 \in 1..at
      BY <1>2, <1>6
    <3>2. NoWord(Piece(members[k + 1]))
      BY <1>4, <1>7, <1>8, <3>1, NoWordPiece
    <3>3. NoWord(f[k] \o Piece(members[k + 1]))
      BY <1>2, <1>4, <2>2, <3>1, <3>2, NoWordJoin
    <3>4. f[k + 1] = f[k] \o Piece(members[k + 1])
      BY <1>5, <3>1
    <3>5. QED
      BY <3>1, <3>3, <3>4
  <2>3. at - 1 \in Nat /\ at - 1 \in 0..(at - 1)
    BY <1>6, <1>2
  <2>4. \A k \in 0..(at - 1) : k \in S
    BY <2>1, <2>2, <2>3, UpToByInduction
  <2>5. QED
    BY <2>3, <2>4
<1> DEFINE a == f[at - 1]
           s == Piece(m)
           L == Len(a)
<1>11. at \in 0..N /\ at - 1 \in 0..N
  BY <1>2, <1>6
<1>12. a \in Seq(Marks) /\ L \in Nat /\ NoWord(a)
  BY <1>2, <1>10, <1>11, LenProperties
<1>13. s[1] = w /\ s[2] = Colon /\ Len(s) = 4 /\ s \in Seq(Marks)
       /\ (m.kind = "text" => s[3] = String(m.name))
       /\ (m.kind # "text" => s[3] = Zero)
  <2>1. m \in AnyMember /\ s \in Seq(Marks) /\ m.key = Word /\ m.kind # "object"
    <3>1. at \in 1..at
      BY <1>2, <1>6
    <3>2. QED
      BY <1>4, <1>6, <1>7, <3>1, Zenon
  <2> HIDE DEF m
  <2>2. QED
    BY <2>1, PieceOf
<1>14. f[at] = a \o s
  BY <1>5, <1>6
<1> HIDE DEF s
<1>15. /\ Len(f[at]) = L + 4
       /\ \A i \in 1..(L + 4) : f[at][i] = IF i <= L THEN a[i] ELSE s[i - L]
  <2>1. s \in Seq(Marks) /\ Len(s) = 4
    BY <1>13
  <2>2. /\ Len(a \o s) = Len(a) + Len(s)
        /\ \A i \in 1..(Len(a) + Len(s)) : (a \o s)[i] = IF i <= Len(a) THEN a[i] ELSE s[i - Len(a)]
    BY <1>12, <2>1, ConcatProperties
  <2>3. QED
    BY <1>14, <2>1, <2>2, Zenon
<1>16. Len(f[at]) <= Len(b) /\ \A i \in 1..Len(f[at]) : b[i] = f[at][i]
  BY <1>1, <1>11, GrownBegins DEF N
<1>17. b \in Seq(Marks) /\ Len(b) \in Nat /\ DOMAIN b = 1..Len(b)
  BY BytesTied, LenProperties
<1> HIDE DEF b, a, L, w
<1>18. L + 4 <= Len(b) /\ \A i \in 1..(L + 4) : b[i] = IF i <= L THEN a[i] ELSE s[i - L]
  BY <1>15, <1>16
<1>19. \A i \in 1..L : a[i] # w
  BY <1>12 DEF NoWord, L, w
<1>20. \A i \in 1..L : b[i] # w
  BY <1>12, <1>18, <1>19
<1>21. b[L + 1] = w /\ b[L + 2] = Colon /\ b[L + 3] = s[3]
  BY <1>12, <1>13, <1>18
<1> DEFINE words == {i \in DOMAIN b : b[i] = String(Word)}
           after == {i \in DOMAIN b : i > Min(words) /\ b[i] # Mark(":")}
<1>22. modelFromBody(b) =
         IF words = {} \/ after = {} \/ ~b[Min(after)].string THEN Blank
         ELSE b[Min(after)].name
  BY Zenon DEF modelFromBody
<1>23. words # {} /\ Min(words) = L + 1
  <2>1. words \in SUBSET Nat
    BY <1>17
  <2>2. L + 1 \in words
    BY <1>12, <1>17, <1>18, <1>21 DEF w
  <2>3. \A i \in words : L + 1 <= i
    BY <1>12, <1>17, <1>20 DEF w
  <2> HIDE DEF words
  <2>4. QED
    BY <2>1, <2>2, <2>3, MinIs
<1> HIDE DEF words
<1>24. s[3] # Colon
  BY <1>13, StringsAndMarks, Zenon
<1>25. after # {} /\ Min(after) = L + 3
  <2>1. after \in SUBSET Nat
    BY <1>17
  <2>2. L + 3 \in after
    BY <1>12, <1>17, <1>18, <1>21, <1>23, <1>24 DEF Colon
  <2>3. \A i \in after : L + 3 <= i
    BY <1>12, <1>17, <1>21, <1>23 DEF Colon
  <2> HIDE DEF after
  <2>4. QED
    BY <2>1, <2>2, <2>3, MinIs
<1> HIDE DEF after
<1>26. modelFromBody(b) = IF ~s[3].string THEN Blank ELSE s[3].name
  BY <1>21, <1>22, <1>23, <1>25, Zenon
<1>27. CASE m.kind = "text"
  <2>1. s[3].string /\ s[3].name = m.name
    BY <1>13, <1>27, StringsAndMarks, Zenon
  <2>2. QED
    BY <1>9, <1>26, <1>27, <2>1, Zenon DEF b
<1>28. CASE m.kind # "text"
  <2>1. ~s[3].string
    BY <1>13, <1>28, StringsAndMarks, Zenon
  <2>2. QED
    BY <1>9, <1>26, <1>28, <2>1, Zenon DEF b
<1>29. QED
  BY <1>27, <1>28, Zenon

-----------------------------------------------------------------------------
(* What is taken.                                                          *)

\* A request is taken for a name the plugin claims, the client's or one its body
\* holds under "model"; and for no other, if the body names its model first.
THEOREM RoutedByName == Spec => []RoutedAsNamed
<1>1. IInv => RoutedAsNamed
  <2> DEFINE raw == Bytes(came)
             Claims(m) == normalizeModel(m) \in claimed
  <2> SUFFICES ASSUME IInv PROVE RoutedAsNamed
    OBVIOUS
  <2>1. CASE phase = "none"
    BY <2>1 DEF RoutedAsNamed
  <2>2. CASE phase # "none"
    <3>1. Tables /\ Built /\ came \in Seq(AnyMember)
      BY <2>2 DEF IInv, Shape
    <3>2. \A m : Claimed(m) <=> Claims(m)
      BY <3>1, TablesBuilt, Zenon DEF Claimed, Both
    <3>3. ~Claims(Blank)
      <4>1. \A e : normalizeModel(Blank) \notin Both(e)
        BY DEF Both, Stems, normalizeModel, Blank, Model
      <4>2. QED
        BY <3>1, <4>1, TablesBuilt, Zenon
    <3>4. PICK n \in 0..Len(raw) :
            /\ whole <=> n = Len(raw)
            /\ phase = "refused" <=> ~owned(asked, SubSeq(raw, 1, n))
      BY <2>2, Zenon DEF IInv, Routing
    <3>5. raw \in Seq(Marks) /\ Tied(raw, ModelNames(came))
      BY <3>1, BytesTied
    <3> HIDE DEF raw
    <3> DEFINE found == modelFromBody(SubSeq(raw, 1, n))
    <3>6. found \in ModelNames(came) \cup {Blank}
      BY <3>5, ScanFindsName
    <3>7. phase = "refused" <=> ~Claims(asked) /\ ~Claims(found)
      BY <3>4, Zenon DEF owned
    <3>8. ASSUME whole, Plain(came), ModelAt(came) # {}
          PROVE  found = TopModel(came)
      <4>1. SubSeq(raw, 1, n) = raw
        BY <3>4, <3>5, <3>8, SubSeqFull
      <4>2. modelFromBody(raw) = TopModel(came)
        BY <3>1, <3>8, ScanFindsModel DEF raw
      <4>3. QED
        BY <4>1, <4>2, Zenon
    <3> HIDE DEF Claims, found
    <3>9. ASSUME phase \in {"routed", "sent"}
          PROVE  \E m \in {asked} \cup ModelNames(came) : Claimed(m)
      <4>1. Claims(asked) \/ Claims(found)
        BY <3>7, <3>9
      <4>2. QED
        BY <3>2, <3>3, <3>6, <4>1, Zenon
    <3>10. ASSUME whole, Plain(came), ModelAt(came) # {}
           PROVE  phase = "refused" <=> ~Claimed(asked) /\ ~Claimed(TopModel(came))
      BY <3>2, <3>7, <3>8, <3>10, Zenon
    <3>11. QED
      BY <3>9, <3>10, Zenon DEF RoutedAsNamed
  <2>3. QED
    BY <2>1, <2>2, Zenon
<1>2. QED
  BY <1>1, Invariance, PTL

-----------------------------------------------------------------------------
(* Answers: what a filter keeps.                                            *)

\* The loop of Kept over the first n elements.
KeptNext(seq, S, n, before) ==
  IF n = 0 THEN << >>
  ELSE IF seq[n] \in S THEN Append(before, seq[n])
  ELSE before

Keeps(seq, S, N, k) == k = [n \in 0..N |-> KeptNext(seq, S, n, k[n - 1])]

LEMMA KeepsExists ==
  ASSUME NEW seq, NEW S, NEW N \in Nat
  PROVE  \E k : Keeps(seq, S, N, k)
<1> DEFINE Q == {n \in 0..N : \E k : Keeps(seq, S, n, k)}
<1>1. 0 \in Q
  <2>1. PICK k : k = [n \in 0..0 |-> << >>]
    OBVIOUS
  <2>2. \A n \in 0..0 : KeptNext(seq, S, n, k[n - 1]) = << >>
    BY DEF KeptNext
  <2>3. [n \in 0..0 |-> << >>] = [n \in 0..0 |-> KeptNext(seq, S, n, k[n - 1])]
    BY <2>2, Zenon
  <2>4. Keeps(seq, S, 0, k)
    BY <2>1, <2>3, Zenon DEF Keeps
  <2>5. QED
    BY <2>4
<1>2. ASSUME NEW n \in 0..(N - 1), n \in Q PROVE n + 1 \in Q
  <2>1. PICK k : Keeps(seq, S, n, k)
    BY <1>2
  <2>2. PICK g : g = [i \in 0..(n + 1) |-> KeptNext(seq, S, i, k[i - 1])]
    OBVIOUS
  <2>3. \A i \in 0..n : g[i] = k[i]
    BY <2>1, <2>2 DEF Keeps
  <2>4. ASSUME NEW i \in 0..(n + 1)
        PROVE  KeptNext(seq, S, i, k[i - 1]) = KeptNext(seq, S, i, g[i - 1])
    <3>1. CASE i = 0
      BY <3>1 DEF KeptNext
    <3>2. CASE i # 0
      <4>1. g[i - 1] = k[i - 1]
        BY <2>3, <3>2
      <4>2. QED
        BY <4>1, Zenon
    <3>3. QED
      BY <3>1, <3>2
  <2>5. [i \in 0..(n + 1) |-> KeptNext(seq, S, i, k[i - 1])] =
          [i \in 0..(n + 1) |-> KeptNext(seq, S, i, g[i - 1])]
    BY <2>4, Zenon
  <2>6. Keeps(seq, S, n + 1, g)
    BY <2>2, <2>5, Zenon DEF Keeps
  <2>7. n + 1 \in 0..N
    OBVIOUS
  <2>8. QED
    BY <2>6, <2>7
<1>3. \A n \in 0..N : n \in Q
  BY <1>1, <1>2, UpToByInduction
<1>4. QED
  BY <1>3

\* What Kept returns is kept an element at a time.
KeptBy(T, seq, S, k) ==
  /\ k \in [0..Len(seq) -> Seq(T)]
  /\ k[0] = << >>
  /\ \A n \in 1..Len(seq) :
       k[n] = IF seq[n] \in S THEN Append(k[n - 1], seq[n]) ELSE k[n - 1]
  /\ Kept(seq, S) = k[Len(seq)]

LEMMA KeptLoop ==
  ASSUME NEW T, NEW seq \in Seq(T), NEW S
  PROVE  \E k : KeptBy(T, seq, S, k)
<1> DEFINE N == Len(seq)
           k == CHOOSE h : Keeps(seq, S, N, h)
<1>1. N \in Nat /\ \A n \in 1..N : seq[n] \in T
  BY LenProperties, ElementOfSeq
<1>2. Keeps(seq, S, N, k)
  BY <1>1, KeepsExists
<1>3. Kept(seq, S) = k[N]
  BY DEF Kept, Keeps, KeptNext
<1> HIDE DEF k, N
<1>4. \A n \in 0..N : k[n] = KeptNext(seq, S, n, k[n - 1])
  BY <1>2 DEF Keeps
<1>5. k[0] = << >>
  BY <1>1, <1>4 DEF KeptNext
<1>6. ASSUME NEW n \in 1..N
      PROVE  k[n] = IF seq[n] \in S THEN Append(k[n - 1], seq[n]) ELSE k[n - 1]
  BY <1>1, <1>4 DEF KeptNext
<1> DEFINE Q == {n \in 0..N : k[n] \in Seq(T)}
<1>7. 0 \in Q
  <2>1. k[0] \in Seq(T)
    BY <1>5, EmptySeq, Zenon
  <2>2. QED
    BY <1>1, <2>1
<1>8. ASSUME NEW n \in 0..(N - 1), n \in Q PROVE n + 1 \in Q
  <2>1. n + 1 \in 1..N /\ (n + 1) - 1 = n
    BY <1>1
  <2>2. k[n + 1] = IF seq[n + 1] \in S THEN Append(k[n], seq[n + 1]) ELSE k[n]
    BY <1>6, <2>1
  <2>3. k[n] \in Seq(T) /\ seq[n + 1] \in T
    BY <1>1, <1>8, <2>1
  <2>4. k[n + 1] \in Seq(T)
    BY <2>2, <2>3, AppendProperties
  <2>5. QED
    BY <2>1, <2>4
<1>9. \A n \in 0..N : n \in Q
  BY <1>1, <1>7, <1>8, UpToByInduction
<1>10. k \in [0..N -> Seq(T)]
  BY <1>2, <1>9, Zenon DEF Keeps
<1>11. QED
  BY <1>3, <1>5, <1>6, <1>10, Zenon DEF N, KeptBy

LEMMA KeptType ==
  ASSUME NEW T, NEW seq \in Seq(T), NEW S
  PROVE  Kept(seq, S) \in Seq(T)
<1>1. PICK k : KeptBy(T, seq, S, k)
  BY KeptLoop
<1>2. k \in [0..Len(seq) -> Seq(T)] /\ Kept(seq, S) = k[Len(seq)]
  BY <1>1, Zenon DEF KeptBy
<1>3. Len(seq) \in 0..Len(seq)
  BY LenProperties
<1>4. QED
  BY <1>2, <1>3

LEMMA KeptNone ==
  ASSUME NEW S
  PROVE  Kept(<< >>, S) = << >>
<1>1. << >> \in Seq({}) /\ Len(<< >>) = 0
  BY EmptySeq, Zenon
<1>2. PICK k : KeptBy({}, << >>, S, k)
  BY <1>1, KeptLoop
<1>3. QED
  BY <1>1, <1>2, Zenon DEF KeptBy

\* Of two sequences one after the other is kept what is kept of each.
LEMMA KeptConcat ==
  ASSUME NEW T, NEW a \in Seq(T), NEW b \in Seq(T), NEW S
  PROVE  Kept(a \o b, S) = Kept(a, S) \o Kept(b, S)
<1> DEFINE c == a \o b
           M == Len(a)
           N == Len(b)
<1>1. M \in Nat /\ N \in Nat
  BY LenProperties
<1>2. c \in Seq(T) /\ Len(c) = M + N
  BY ConcatProperties
<1>3. \A i \in 1..M + N : c[i] = IF i <= M THEN a[i] ELSE b[i - M]
  BY ConcatProperties
<1>4. PICK k : KeptBy(T, a, S, k)
  BY KeptLoop
<1>5. /\ k \in [0..M -> Seq(T)]
      /\ k[0] = << >>
      /\ \A n \in 1..M : k[n] = IF a[n] \in S THEN Append(k[n - 1], a[n]) ELSE k[n - 1]
      /\ Kept(a, S) = k[M]
  BY <1>4, Zenon DEF KeptBy
<1>6. PICK l : KeptBy(T, b, S, l)
  BY KeptLoop
<1>7. /\ l \in [0..N -> Seq(T)]
      /\ l[0] = << >>
      /\ \A n \in 1..N : l[n] = IF b[n] \in S THEN Append(l[n - 1], b[n]) ELSE l[n - 1]
      /\ Kept(b, S) = l[N]
  BY <1>6, Zenon DEF KeptBy
<1> HIDE DEF c
<1>8. PICK h : KeptBy(T, c, S, h)
  BY <1>2, KeptLoop
<1>9. /\ h[0] = << >>
      /\ \A n \in 1..Len(c) :
           h[n] = IF c[n] \in S THEN Append(h[n - 1], c[n]) ELSE h[n - 1]
      /\ Kept(c, S) = h[Len(c)]
  BY <1>8, Zenon DEF KeptBy
<1>10. \A n \in 1..M + N : h[n] = IF c[n] \in S THEN Append(h[n - 1], c[n]) ELSE h[n - 1]
  BY <1>2, <1>9, Zenon
<1>11. Kept(c, S) = h[M + N]
  BY <1>2, <1>9, Zenon
<1>12. \A n \in 1..N : b[n] \in T /\ <<b[n]>> \in Seq(T)
  BY ElementOfSeq
<1> HIDE DEF M, N
<1> DEFINE Q == {n \in 0..M : h[n] = k[n]}
<1>13. \A n \in 0..M : n \in Q
  <2>1. 0 \in Q
    BY <1>1, <1>5, <1>9
  <2>2. ASSUME NEW n \in 0..(M - 1), n \in Q PROVE n + 1 \in Q
    <3>1. n + 1 \in 1..M /\ n + 1 \in 1..M + N /\ (n + 1) - 1 = n
      BY <1>1
    <3>2. c[n + 1] = a[n + 1]
      BY <1>3, <3>1
    <3>3. h[n + 1] = IF a[n + 1] \in S THEN Append(h[n], a[n + 1]) ELSE h[n]
      BY <1>10, <3>1, <3>2
    <3>4. k[n + 1] = IF a[n + 1] \in S THEN Append(k[n], a[n + 1]) ELSE k[n]
      BY <1>5, <3>1
    <3>5. h[n] = k[n]
      BY <2>2
    <3>6. h[n + 1] = k[n + 1]
      BY <3>3, <3>4, <3>5
    <3>7. QED
      BY <1>1, <3>1, <3>6
  <2>3. QED
    BY <1>1, <2>1, <2>2, UpToByInduction
<1>14. k[M] \in Seq(T) /\ h[M] = k[M]
  BY <1>1, <1>5, <1>13
<1> DEFINE Same(n) == h[M + n] = k[M] \o l[n]
           R == {n \in 0..N : Same(n)}
<1>15. Same(0)
  <2>1. M + 0 = M
    BY <1>1
  <2>2. k[M] \o l[0] = k[M]
    BY <1>7, <1>14, ConcatEmptySeq
  <2>3. QED
    BY <1>14, <2>1, <2>2, Zenon
<1>16. ASSUME NEW n \in 0..(N - 1), Same(n) PROVE Same(n + 1)
  <2>1. /\ n + 1 \in 1..N /\ (n + 1) - 1 = n /\ n \in 0..N
        /\ M + (n + 1) \in 1..M + N /\ (M + (n + 1)) - 1 = M + n
        /\ ~(M + (n + 1) <= M) /\ (M + (n + 1)) - M = n + 1
    BY <1>1
  <2>2. c[M + (n + 1)] = b[n + 1]
    BY <1>3, <2>1, Zenon
  <2>3. h[M + (n + 1)] = IF b[n + 1] \in S THEN Append(h[M + n], b[n + 1]) ELSE h[M + n]
    BY <1>10, <2>1, <2>2, Zenon
  <2>4. l[n + 1] = IF b[n + 1] \in S THEN Append(l[n], b[n + 1]) ELSE l[n]
    BY <1>7, <2>1, Zenon
  <2>5. l[n] \in Seq(T) /\ b[n + 1] \in T /\ <<b[n + 1]>> \in Seq(T)
    BY <1>7, <1>12, <2>1
  <2> DEFINE u == k[M]
             v == l[n]
             e == b[n + 1]
  <2>6. u \in Seq(T) /\ v \in Seq(T) /\ e \in T /\ <<e>> \in Seq(T)
    BY <1>14, <2>5
  <2>7. h[M + (n + 1)] = IF e \in S THEN Append(u \o v, e) ELSE u \o v
    BY <1>16, <2>3, Zenon
  <2>8. l[n + 1] = IF e \in S THEN Append(v, e) ELSE v
    BY <2>4, Zenon
  <2> HIDE DEF u, v, e
  <2>9. u \o v \in Seq(T)
    BY <2>6, ConcatProperties
  <2>10. Append(u \o v, e) = (u \o v) \o <<e>>
    BY <2>6, <2>9, AppendIsConcat
  <2>11. (u \o v) \o <<e>> = u \o (v \o <<e>>)
    BY <2>6, ConcatAssociative, SMTT(20)
  <2>12. Append(v, e) = v \o <<e>>
    BY <2>6, AppendIsConcat
  <2>13. h[M + (n + 1)] = u \o l[n + 1]
    BY <2>7, <2>8, <2>10, <2>11, <2>12, Zenon
  <2>14. QED
    BY <2>13, Zenon DEF u
<1>17. \A n \in 0..N : n \in R
  <2> HIDE DEF Same
  <2>1. 0 \in R
    BY <1>1, <1>15
  <2>2. ASSUME NEW n \in 0..(N - 1), n \in R PROVE n + 1 \in R
    BY <1>1, <1>16, <2>2
  <2>3. QED
    BY <1>1, <2>1, <2>2, UpToByInduction
<1>18. Same(N)
  <2>1. N \in 0..N
    BY <1>1
  <2>2. QED
    BY <1>17, <2>1, Zenon
<1>19. QED
  BY <1>5, <1>7, <1>11, <1>18, Zenon DEF c

LEMMA KeptOne ==
  ASSUME NEW T, NEW e \in T, NEW S
  PROVE  Kept(<<e>>, S) = IF e \in S THEN <<e>> ELSE << >>
<1>1. <<e>> \in Seq(T) /\ Len(<<e>>) = 1 /\ <<e>>[1] = e
  OBVIOUS
<1>2. PICK k : /\ k[0] = << >>
               /\ \A n \in 1..1 :
                    k[n] = IF <<e>>[n] \in S THEN Append(k[n - 1], <<e>>[n]) ELSE k[n - 1]
               /\ Kept(<<e>>, S) = k[1]
  <2>1. PICK k : KeptBy(T, <<e>>, S, k)
    BY <1>1, KeptLoop
  <2>2. QED
    BY <1>1, <2>1, Zenon DEF KeptBy
<1>3. k[1] = IF e \in S THEN Append(k[0], e) ELSE k[0]
  <2>1. 1 \in 1..1 /\ 1 - 1 = 0
    OBVIOUS
  <2>2. QED
    BY <1>1, <1>2, <2>1, Zenon
<1>4. Append(<< >>, e) = <<e>>
  OBVIOUS
<1>5. QED
  BY <1>2, <1>3, <1>4, Zenon

LEMMA KeptAppend ==
  ASSUME NEW T, NEW seq \in Seq(T), NEW e \in T, NEW S
  PROVE  Kept(Append(seq, e), S) =
           IF e \in S THEN Append(Kept(seq, S), e) ELSE Kept(seq, S)
<1>1. Kept(seq, S) \in Seq(T)
  BY KeptType
<1>2. Append(seq, e) = seq \o <<e>>
  BY AppendIsConcat
<1>3. Kept(seq \o <<e>>, S) = Kept(seq, S) \o Kept(<<e>>, S)
  <2> DEFINE one == <<e>>
  <2>1. one \in Seq(T)
    OBVIOUS
  <2> HIDE DEF one
  <2>2. Kept(seq \o one, S) = Kept(seq, S) \o Kept(one, S)
    BY <2>1, KeptConcat
  <2>3. QED
    BY <2>2, Zenon DEF one
<1>4. Kept(<<e>>, S) = IF e \in S THEN <<e>> ELSE << >>
  BY KeptOne, Zenon
<1>5. /\ Append(Kept(seq, S), e) = Kept(seq, S) \o <<e>>
      /\ Kept(seq, S) \o << >> = Kept(seq, S)
  BY <1>1, AppendIsConcat, ConcatEmptySeq
<1>6. QED
  BY <1>2, <1>3, <1>4, <1>5, Zenon

-----------------------------------------------------------------------------
(* The thinking of a message.                                              *)

\* The loop of FlattenSeq, under a name.
Grows(T, seqs, f) ==
  /\ f \in [0..Len(seqs) -> Seq(T)]
  /\ f[0] = << >>
  /\ \A n \in 1..Len(seqs) : f[n] = f[n - 1] \o seqs[n]
  /\ FlattenSeq(seqs) = f[Len(seqs)]

LEMMA FlattenLoop ==
  ASSUME NEW T, NEW seqs \in Seq(Seq(T))
  PROVE  \E f : Grows(T, seqs, f)
BY Flattened, Zenon DEF Grows

LEMMA FlatType ==
  ASSUME NEW T, NEW seqs \in Seq(Seq(T))
  PROVE  FlattenSeq(seqs) \in Seq(T)
<1>1. PICK f : Grows(T, seqs, f)
  BY FlattenLoop
<1>2. f \in [0..Len(seqs) -> Seq(T)] /\ FlattenSeq(seqs) = f[Len(seqs)]
  BY <1>1, Zenon DEF Grows
<1>3. Len(seqs) \in 0..Len(seqs)
  BY LenProperties
<1>4. QED
  BY <1>2, <1>3

LEMMA FlatNone == FlattenSeq(<< >>) = << >>
<1>1. << >> \in Seq(Seq({})) /\ Len(<< >>) = 0
  BY EmptySeq, Zenon
<1> DEFINE none == << >>
<1>2. none \in Seq(Seq({}))
  BY <1>1
<1> HIDE DEF none
<1>3. PICK f : Grows({}, none, f)
  BY <1>2, FlattenLoop
<1>4. QED
  BY <1>1, <1>3, Zenon DEF none, Grows

LEMMA FlatAppend ==
  ASSUME NEW T, NEW seqs \in Seq(Seq(T)), NEW e \in Seq(T)
  PROVE  FlattenSeq(Append(seqs, e)) = FlattenSeq(seqs) \o e
<1> DEFINE N == Len(seqs)
           more == Append(seqs, e)
<1>1. N \in Nat
  BY LenProperties
<1>2. more \in Seq(Seq(T)) /\ Len(more) = N + 1
  BY AppendProperties
<1>3. \A n \in 1..N : more[n] = seqs[n]
  BY AppendProperties
<1>4. more[N + 1] = e
  BY AppendProperties
<1>5. PICK f : Grows(T, seqs, f)
  BY FlattenLoop
<1> HIDE DEF more
<1>6. PICK g : Grows(T, more, g)
  BY <1>2, FlattenLoop
<1>7. /\ f[0] = << >> /\ FlattenSeq(seqs) = f[N]
      /\ \A n \in 1..N : f[n] = f[n - 1] \o seqs[n]
  BY <1>5, Zenon DEF Grows
<1>8. /\ g[0] = << >> /\ FlattenSeq(more) = g[N + 1]
      /\ \A n \in 1..(N + 1) : g[n] = g[n - 1] \o more[n]
  BY <1>2, <1>6, Zenon DEF Grows
<1> HIDE DEF N
<1> DEFINE Q == {n \in 0..N : g[n] = f[n]}
<1>9. 0 \in Q
  BY <1>1, <1>7, <1>8
<1>10. ASSUME NEW n \in 0..(N - 1), n \in Q PROVE n + 1 \in Q
  <2>1. n + 1 \in 1..N /\ n + 1 \in 1..(N + 1) /\ n + 1 \in 0..N /\ (n + 1) - 1 = n
    BY <1>1
  <2>2. f[n + 1] = f[n] \o seqs[n + 1]
    BY <1>7, <2>1, Zenon
  <2>3. g[n + 1] = g[n] \o more[n + 1]
    BY <1>8, <2>1, Zenon
  <2>4. more[n + 1] = seqs[n + 1]
    BY <1>3, <2>1, Zenon
  <2>5. g[n] = f[n]
    BY <1>10
  <2>6. g[n + 1] = f[n + 1]
    BY <2>2, <2>3, <2>4, <2>5, Zenon
  <2>7. QED
    BY <2>1, <2>6
<1>11. \A n \in 0..N : n \in Q
  BY <1>1, <1>9, <1>10, UpToByInduction
<1>12. g[N] = f[N]
  BY <1>1, <1>11
<1>13. g[N + 1] = g[N] \o e
  <2>1. N + 1 \in 1..(N + 1) /\ (N + 1) - 1 = N
    BY <1>1
  <2>2. QED
    BY <1>4, <1>8, <2>1, Zenon
<1>14. QED
  BY <1>7, <1>8, <1>12, <1>13, Zenon DEF more

LEMMA VisibleText ==
  ASSUME NEW t \in Text
  PROVE  /\ t # Missing
         /\ Visible(t) = Kept(t, Words)
         /\ IsBlank(t) <=> Kept(t, Words) = << >>
<1>1. t # Missing
  BY PayloadAssumption
<1>2. Visible(t) = Kept(t, Words)
  BY <1>1, Zenon DEF Visible
<1>3. QED
  BY <1>1, <1>2, Zenon DEF IsBlank

\* The details without the blank ones show what all of them do, and they are
\* none exactly where nothing shows.
LEMMA BlanksDropped ==
  ASSUME NEW d \in Seq(Text)
  PROVE  LET told == Kept(d, {t \in Range(d) : ~IsBlank(t)})
         IN  /\ FlattenSeq(told) \in Text
             /\ Kept(FlattenSeq(told), Words) = Kept(FlattenSeq(d), Words)
             /\ FlattenSeq(told) # << >> => Kept(FlattenSeq(d), Words) # << >>
<1> DEFINE A == Words \cup {Space}
           V == {t \in Range(d) : ~IsBlank(t)}
           N == Len(d)
<1>1. Text = Seq(A)
  BY Zenon DEF Text
<1>2. N \in Nat /\ DOMAIN d = 1..N
  BY LenProperties
<1>3. ASSUME NEW n \in 1..N
      PROVE  /\ d[n] \in Seq(A)
             /\ d[n] \in V => Kept(d[n], Words) # << >>
             /\ d[n] \notin V => Kept(d[n], Words) = << >>
  <2>1. d[n] \in Text
    BY ElementOfSeq
  <2>2. d[n] \in Range(d)
    BY <1>2, Zenon DEF Range
  <2>3. IsBlank(d[n]) <=> Kept(d[n], Words) = << >>
    BY <2>1, VisibleText
  <2>4. d[n] \in V <=> ~IsBlank(d[n])
    BY <2>2, Zenon
  <2>5. QED
    BY <1>1, <2>1, <2>3, <2>4, Zenon
<1> HIDE DEF A, V
<1>4. d \in Seq(Seq(A))
  BY <1>1, Zenon
<1>5. PICK k : KeptBy(Seq(A), d, V, k)
  BY <1>4, KeptLoop
<1>6. PICK f : Grows(A, d, f)
  BY <1>4, FlattenLoop
<1>7. /\ k \in [0..N -> Seq(Seq(A))] /\ k[0] = << >>
      /\ \A n \in 1..N : k[n] = IF d[n] \in V THEN Append(k[n - 1], d[n]) ELSE k[n - 1]
      /\ Kept(d, V) = k[N]
  BY <1>5, Zenon DEF KeptBy
<1>8. /\ f \in [0..N -> Seq(A)] /\ f[0] = << >>
      /\ \A n \in 1..N : f[n] = f[n - 1] \o d[n]
      /\ FlattenSeq(d) = f[N]
  BY <1>6, Zenon DEF Grows
<1> HIDE DEF N
<1> DEFINE Same(n) == /\ Kept(FlattenSeq(k[n]), Words) = Kept(f[n], Words)
                      /\ k[n] # << >> => Kept(f[n], Words) # << >>
           Q == {n \in 0..N : Same(n)}
<1>9. Same(0)
  BY <1>7, <1>8, FlatNone, Zenon
<1>10. ASSUME NEW n \in 0..(N - 1), Same(n) PROVE Same(n + 1)
  <2> DEFINE x == k[n]
             y == f[n]
             t == d[n + 1]
  <2>1. n + 1 \in 1..N /\ (n + 1) - 1 = n /\ n \in 0..N
    BY <1>2
  <2>2. x \in Seq(Seq(A)) /\ y \in Seq(A)
    BY <1>7, <1>8, <2>1
  <2>3. /\ t \in Seq(A)
        /\ t \in V => Kept(t, Words) # << >>
        /\ t \notin V => Kept(t, Words) = << >>
    BY <1>3, <2>1, Zenon
  <2>4. k[n + 1] = IF t \in V THEN Append(x, t) ELSE x
    BY <1>7, <2>1, Zenon
  <2>5. f[n + 1] = y \o t
    BY <1>8, <2>1, Zenon
  <2>6. /\ Kept(FlattenSeq(x), Words) = Kept(y, Words)
        /\ x # << >> => Kept(y, Words) # << >>
    BY <1>10, Zenon
  <2> HIDE DEF x, y, t
  <2>7. Kept(y \o t, Words) = Kept(y, Words) \o Kept(t, Words)
    BY <2>2, <2>3, KeptConcat
  <2>8. /\ FlattenSeq(x) \in Seq(A)
        /\ Kept(y, Words) \in Seq(A) /\ Kept(t, Words) \in Seq(A)
    BY <2>2, <2>3, FlatType, KeptType
  <2>9. CASE t \in V
    <3>1. FlattenSeq(Append(x, t)) = FlattenSeq(x) \o t
      BY <2>2, <2>3, FlatAppend, SMTT(20)
    <3>2. Kept(FlattenSeq(x) \o t, Words) = Kept(FlattenSeq(x), Words) \o Kept(t, Words)
      BY <2>3, <2>8, KeptConcat
    <3>3. Kept(FlattenSeq(k[n + 1]), Words) = Kept(f[n + 1], Words)
      BY <2>4, <2>5, <2>6, <2>7, <2>9, <3>1, <3>2, Zenon
    <3>4. Kept(y, Words) \o Kept(t, Words) # << >>
      BY <2>3, <2>8, <2>9, ConcatEqualIffEmpty
    <3>5. QED
      BY <2>5, <2>7, <3>3, <3>4, Zenon
  <2>10. CASE t \notin V
    <3>1. Kept(y, Words) \o << >> = Kept(y, Words)
      BY <2>8, ConcatEmptySeq
    <3>2. Kept(f[n + 1], Words) = Kept(y, Words)
      BY <2>3, <2>5, <2>7, <2>10, <3>1, Zenon
    <3>3. k[n + 1] = x
      BY <2>4, <2>10, Zenon
    <3>4. QED
      BY <2>6, <3>2, <3>3, Zenon
  <2>11. QED
    BY <2>9, <2>10, Zenon
<1>11. \A n \in 0..N : n \in Q
  <2> HIDE DEF Same
  <2>1. 0 \in Q
    BY <1>2, <1>9
  <2>2. ASSUME NEW n \in 0..(N - 1), n \in Q PROVE n + 1 \in Q
    BY <1>2, <1>10, <2>2
  <2>3. QED
    BY <1>2, <2>1, <2>2, UpToByInduction
<1>12. Same(N) /\ N \in 0..N
  BY <1>2, <1>11
<1>13. FlattenSeq(k[N]) \in Seq(A)
  BY <1>7, <1>12, FlatType
<1>14. FlattenSeq(k[N]) # << >> => k[N] # << >>
  BY FlatNone, Zenon
<1>15. QED
  BY <1>1, <1>7, <1>8, <1>12, <1>13, <1>14, Zenon DEF V

\* What the details tell, and that they tell nothing only where nothing shows.
LEMMA DetailsTell ==
  ASSUME NEW msg \in AnyMessage
  PROVE  /\ Details(msg) \in Text
         /\ Joined(msg.details) \in Text
         /\ Kept(Details(msg), Words) = Visible(Joined(msg.details))
         /\ Details(msg) # << >> => Visible(Joined(msg.details)) # << >>
<1> DEFINE d == msg.details
<1>1. d \in Seq(Text) \/ d = Missing
  BY DEF AnyMessage
<1>2. << >> \in Text
  BY EmptySeq, Zenon DEF Text
<1>3. Details(msg) = IF d = Missing THEN << >>
        ELSE FlattenSeq(Kept(d, {t \in Range(d) : ~IsBlank(t)}))
  BY Zenon DEF Details
<1>4. Joined(d) = IF d = Missing THEN << >> ELSE FlattenSeq(d)
  BY Zenon DEF Joined
<1> HIDE DEF d
<1>5. CASE d = Missing
  <2>1. Visible(<< >>) = Kept(<< >>, Words)
    BY <1>2, VisibleText
  <2>2. QED
    BY <1>2, <1>3, <1>4, <1>5, <2>1, KeptNone, Zenon DEF d
<1>6. CASE d # Missing
  <2>1. d \in Seq(Text)
    BY <1>1, <1>6, Zenon
  <2>2. FlattenSeq(d) \in Text
    BY <2>1, FlatType DEF Text
  <2>3. Visible(FlattenSeq(d)) = Kept(FlattenSeq(d), Words)
    BY <2>2, VisibleText
  <2> DEFINE told == Kept(d, {t \in Range(d) : ~IsBlank(t)})
  <2>4. /\ FlattenSeq(told) \in Text
        /\ Kept(FlattenSeq(told), Words) = Kept(FlattenSeq(d), Words)
        /\ FlattenSeq(told) # << >> => Kept(FlattenSeq(d), Words) # << >>
    BY <2>1, BlanksDropped, Zenon
  <2>5. Details(msg) = FlattenSeq(told)
    BY <1>3, <1>6, Zenon
  <2> HIDE DEF told
  <2>6. QED
    BY <1>4, <1>6, <2>2, <2>3, <2>4, <2>5, Zenon DEF d
<1>7. QED
  BY <1>5, <1>6, Zenon

\* What the vendor's fields show.
Shown(msg) ==
  IF ~IsBlank(msg.reasoning) THEN Visible(msg.reasoning)
  ELSE Visible(Joined(msg.details))

\* The text that is copied shows it, and there is one where it does.
LEMMA TextShows ==
  ASSUME NEW msg \in AnyMessage, Mirrored(msg)
  PROVE  /\ reasoningText(msg) \in Text
         /\ Visible(reasoningText(msg)) = Shown(msg)
         /\ reasoningText(msg) # << >> => ~IsBlank(reasoningText(msg))
<1> DEFINE D == Details(msg)
           J == Joined(msg.details)
           r == msg.reasoning
<1>1. /\ D \in Text /\ J \in Text
      /\ Kept(D, Words) = Visible(J)
      /\ D # << >> => Visible(J) # << >>
  BY DetailsTell
<1>2. reasoningText(msg) = IF D # << >> THEN D ELSE IF IsBlank(r) THEN << >> ELSE r
  BY Zenon DEF reasoningText
<1>3. r \in Text \/ r = Missing
  BY DEF AnyMessage
<1>4. IsBlank(J) \/ IsBlank(r) \/ Visible(J) = Visible(r)
  BY Zenon DEF Mirrored
<1>5. Shown(msg) = IF ~IsBlank(r) THEN Visible(r) ELSE Visible(J)
  BY Zenon DEF Shown
<1>6. << >> \in Text
  BY EmptySeq, Zenon DEF Text
<1>7. \A t : IsBlank(t) <=> Visible(t) = << >>
  BY Zenon DEF IsBlank
<1>8. Visible(<< >>) = << >>
  BY <1>6, VisibleText, KeptNone, Zenon
<1>9. Visible(D) = Kept(D, Words)
  BY <1>1, VisibleText
<1>10. Visible(Missing) = << >>
  BY Zenon DEF Visible
<1> HIDE DEF D, J, r
<1>11. CASE D # << >>
  <2>1. reasoningText(msg) = D
    BY <1>2, <1>11, Zenon
  <2>2. Visible(D) # << >> /\ Visible(D) = Visible(J)
    BY <1>1, <1>9, <1>11, Zenon
  <2>3. Shown(msg) = Visible(J)
    BY <1>4, <1>5, <1>7, <2>2, Zenon
  <2>4. QED
    BY <1>1, <1>7, <2>1, <2>2, <2>3, Zenon
<1>12. CASE D = << >>
  <2>1. Visible(J) = << >>
    BY <1>1, <1>12, KeptNone, Zenon
  <2>2. CASE IsBlank(r)
    BY <1>2, <1>5, <1>6, <1>8, <1>12, <2>1, <2>2, Zenon
  <2>3. CASE ~IsBlank(r)
    BY <1>2, <1>3, <1>5, <1>7, <1>10, <1>12, <2>3, Zenon
  <2>4. QED
    BY <2>2, <2>3, Zenon
<1>13. QED
  BY <1>11, <1>12, Zenon

\* A message a document has.
LEMMA MessageArrives ==
  ASSUME NEW msg \in AnyMessage, Mirrored(msg)
  PROVE  /\ Arrived(msg, Backfilled(msg))
         /\ Backfilled(Backfilled(msg)) = Backfilled(msg)
<1> DEFINE r == reasoningText(msg)
           new == [msg EXCEPT !.content = r]
<1>1. /\ r \in Text /\ Visible(r) = Shown(msg)
      /\ r # << >> => ~IsBlank(r)
  BY TextShows
<1>2. msg # Missing
  BY PayloadAssumption
<1>3. Backfilled(msg) = IF r = << >> \/ ~IsBlank(msg.content) THEN msg ELSE new
  BY <1>2, Zenon DEF Backfilled
<1>4. Thought(msg) = IF ~IsBlank(msg.content) THEN Visible(msg.content) ELSE Shown(msg)
  BY Zenon DEF Thought, Shown
<1>5. \A t : IsBlank(t) <=> Visible(t) = << >>
  BY Zenon DEF IsBlank
<1>6. Visible(<< >>) = << >>
  <2>1. << >> \in Text
    BY EmptySeq, Zenon DEF Text
  <2>2. QED
    BY <2>1, VisibleText, KeptNone, Zenon
<1> HIDE DEF r
<1>7. /\ new.details = msg.details /\ new.reasoning = msg.reasoning /\ new.content = r
      /\ new \in AnyMessage
  BY <1>1 DEF AnyMessage
<1>8. new # Missing
  BY <1>7, PayloadAssumption
<1> HIDE DEF new
<1>9. CASE r = << >> \/ ~IsBlank(msg.content)
  <2>1. Backfilled(msg) = msg
    BY <1>3, <1>9, Zenon
  <2>2. Visible(msg.content) = Thought(msg)
    BY <1>1, <1>4, <1>5, <1>6, <1>9, Zenon
  <2>3. Arrived(msg, msg)
    BY <1>2, <2>2, Zenon DEF Arrived
  <2>4. QED
    BY <2>1, <2>3, Zenon
<1>10. CASE r # << >> /\ IsBlank(msg.content)
  <2>1. Backfilled(msg) = new
    BY <1>3, <1>10, Zenon
  <2>2. Thought(msg) = Visible(r) /\ Thought(msg) # << >>
    BY <1>1, <1>4, <1>5, <1>10, Zenon
  <2>3. Arrived(msg, new)
    BY <1>2, <1>7, <1>8, <1>10, <2>2, Zenon DEF Arrived
  <2>4. ~IsBlank(new.content)
    BY <1>1, <1>7, <1>10, Zenon
  <2>5. Backfilled(new) = new
    BY <2>4, Zenon DEF Backfilled
  <2>6. QED
    BY <2>1, <2>3, <2>5, Zenon
<1>11. QED
  BY <1>9, <1>10, Zenon

LEMMA NoMessageArrives ==
  /\ Arrived(Missing, Backfilled(Missing))
  /\ Backfilled(Backfilled(Missing)) = Backfilled(Missing)
BY Zenon DEF Arrived, Backfilled

\* A document: mapReasoningBody brings the thinking of every message, and
\* brings it once.
LEMMA DocumentArrives ==
  ASSUME NEW doc \in Docs
  PROVE  /\ DOMAIN mapReasoningBody(doc) = DOMAIN doc
         /\ \A i \in DOMAIN doc : \A f \in Fields :
              Arrived(doc[i][f], mapReasoningBody(doc)[i][f])
         /\ mapReasoningBody(mapReasoningBody(doc)) = mapReasoningBody(doc)
<1> DEFINE got == mapReasoningBody(doc)
<1>1. got = [i \in DOMAIN doc |-> [f \in Fields |-> Backfilled(doc[i][f])]]
  BY Zenon DEF mapReasoningBody
<1>2. ASSUME NEW i \in DOMAIN doc, NEW f \in Fields
      PROVE  /\ Arrived(doc[i][f], Backfilled(doc[i][f]))
             /\ Backfilled(Backfilled(doc[i][f])) = Backfilled(doc[i][f])
  <2>1. doc \in Seq([Fields -> AnyMessage \cup {Missing}])
    BY PayloadAssumption
  <2>2. doc[i] \in [Fields -> AnyMessage \cup {Missing}]
    BY <2>1
  <2>3. doc[i][f] \in AnyMessage \/ doc[i][f] = Missing
    BY <2>2
  <2>4. doc[i][f] # Missing => Mirrored(doc[i][f])
    BY PayloadAssumption, Zenon
  <2> DEFINE msg == doc[i][f]
  <2>5. msg \in AnyMessage \/ msg = Missing
    BY <2>3, Zenon
  <2>6. msg # Missing => Mirrored(msg)
    BY <2>4, Zenon
  <2> HIDE DEF msg
  <2>7. CASE msg = Missing
    BY <2>7, NoMessageArrives, Zenon DEF msg
  <2>8. CASE msg # Missing
    <3>1. msg \in AnyMessage /\ Mirrored(msg)
      BY <2>5, <2>6, <2>8, Zenon
    <3>2. /\ Arrived(msg, Backfilled(msg))
          /\ Backfilled(Backfilled(msg)) = Backfilled(msg)
      BY <3>1, MessageArrives
    <3>3. QED
      BY <3>2, Zenon DEF msg
  <2>9. QED
    BY <2>7, <2>8, Zenon
<1> HIDE DEF got
<1>3. DOMAIN got = DOMAIN doc
  BY <1>1, Zenon
<1>4. \A i \in DOMAIN doc : got[i] = [f \in Fields |-> Backfilled(doc[i][f])]
  BY <1>1, Zenon
<1>5. \A i \in DOMAIN doc : \A f \in Fields : got[i][f] = Backfilled(doc[i][f])
  BY <1>4, Zenon
<1>6. \A i \in DOMAIN doc : \A f \in Fields : Arrived(doc[i][f], got[i][f])
  BY <1>2, <1>5, Zenon
<1>7. mapReasoningBody(got) = got
  <2>1. mapReasoningBody(got) =
          [i \in DOMAIN doc |-> [f \in Fields |-> Backfilled(got[i][f])]]
    BY <1>3, Zenon DEF mapReasoningBody
  <2>2. ASSUME NEW i \in DOMAIN doc
        PROVE  [f \in Fields |-> Backfilled(got[i][f])] =
                 [f \in Fields |-> Backfilled(doc[i][f])]
    <3>1. \A f \in Fields : Backfilled(got[i][f]) = Backfilled(doc[i][f])
      BY <1>2, <1>5, Zenon
    <3>2. QED
      BY <3>1, Zenon
  <2>3. [i \in DOMAIN doc |-> [f \in Fields |-> Backfilled(got[i][f])]] = got
    BY <1>1, <2>2, Zenon
  <2>4. QED
    BY <2>1, <2>3, Zenon
<1>8. QED
  BY <1>3, <1>6, <1>7, Zenon DEF got

-----------------------------------------------------------------------------
(* A stream.                                                               *)

\* The lines that carry a document, and what the host gets for one on route p.
DocLines == {line \in Lines : line.kind = "doc" /\ line.prefixes > 0}

Handed(p, doc) ==
  [prefixes |-> IF p = "claude" THEN 1 ELSE 0, doc |-> mapReasoningBody(doc)]

Answers(p) == {Handed(p, doc) : doc \in Docs}

\* The frames f are the answers to the lines s, each in its place.
Answered(p, s, f) ==
  /\ s \in Seq(Lines)
  /\ Kept(s, DocLines) \in Seq(DocLines)
  /\ f \in Seq(Answers(p))
  /\ Len(f) = Len(Kept(s, DocLines))
  /\ \A k \in 1..Len(f) : f[k] = Handed(p, Kept(s, DocLines)[k].doc)

LEMMA DocLine ==
  ASSUME NEW line \in DocLines
  PROVE  line.doc \in Docs
BY DEF DocLines, Lines

LEMMA NothingAnswered ==
  ASSUME NEW p
  PROVE  Answered(p, << >>, << >>)
<1> DEFINE none == Kept(<< >>, DocLines)
<1>1. none = << >>
  BY KeptNone, Zenon
<1>2. << >> \in Seq(Lines) /\ << >> \in Seq(DocLines) /\ << >> \in Seq(Answers(p))
  BY EmptySeq, Zenon
<1>3. \A k \in 1..Len(<< >>) : FALSE
  OBVIOUS
<1>4. QED
  BY <1>1, <1>2, <1>3, Zenon DEF Answered

LEMMA LineAnswered ==
  ASSUME NEW p, NEW s, NEW f, Answered(p, s, f), NEW line \in Lines
  PROVE  Answered(p, Append(s, line),
                  IF line \in DocLines THEN Append(f, Handed(p, line.doc)) ELSE f)
<1> DEFINE docs == Kept(s, DocLines)
           more == Append(s, line)
<1>1. /\ s \in Seq(Lines) /\ docs \in Seq(DocLines) /\ f \in Seq(Answers(p))
      /\ Len(f) = Len(docs)
      /\ \A k \in 1..Len(f) : f[k] = Handed(p, docs[k].doc)
  BY Zenon DEF Answered
<1>2. more \in Seq(Lines)
  BY <1>1, AppendProperties
<1>3. Kept(more, DocLines) = IF line \in DocLines THEN Append(docs, line) ELSE docs
  BY <1>1, KeptAppend
<1> HIDE DEF docs, more
<1>4. CASE line \in DocLines
  <2> DEFINE ds == Append(docs, line)
             answer == Handed(p, line.doc)
             fs == Append(f, answer)
  <2>1. answer \in Answers(p)
    BY <1>4, DocLine, Zenon DEF Answers
  <2> HIDE DEF answer
  <2>2. /\ ds \in Seq(DocLines) /\ Len(ds) = Len(docs) + 1
        /\ \A k \in 1..Len(docs) : ds[k] = docs[k]
        /\ ds[Len(docs) + 1] = line
    BY <1>1, <1>4, AppendProperties
  <2>3. /\ fs \in Seq(Answers(p)) /\ Len(fs) = Len(f) + 1
        /\ \A k \in 1..Len(f) : fs[k] = f[k]
        /\ fs[Len(f) + 1] = answer
    BY <1>1, <2>1, AppendProperties
  <2>4. Len(f) \in Nat
    BY <1>1, LenProperties
  <2> HIDE DEF ds, fs
  <2>5. ASSUME NEW k \in 1..Len(fs) PROVE fs[k] = Handed(p, ds[k].doc)
    <3>1. CASE k = Len(f) + 1
      BY <1>1, <2>2, <2>3, <3>1, Zenon DEF answer
    <3>2. CASE k # Len(f) + 1
      <4>1. k \in 1..Len(f)
        BY <2>3, <2>4, <3>2
      <4>2. QED
        BY <1>1, <2>2, <2>3, <4>1, Zenon
    <3>3. QED
      BY <3>1, <3>2, Zenon
  <2>6. Len(fs) = Len(ds)
    BY <1>1, <2>2, <2>3, Zenon
  <2>7. Kept(more, DocLines) = ds
    BY <1>3, <1>4, Zenon DEF ds
  <2>8. Answered(p, more, fs)
    BY <1>2, <2>2, <2>3, <2>5, <2>6, <2>7, Zenon DEF Answered
  <2>9. QED
    BY <1>4, <2>8, Zenon DEF more, fs, answer
<1>5. CASE line \notin DocLines
  <2>1. Kept(more, DocLines) = docs
    BY <1>3, <1>5, Zenon
  <2>2. Answered(p, more, f)
    BY <1>1, <1>2, <2>1, Zenon DEF Answered
  <2>3. QED
    BY <1>5, <2>2, Zenon DEF more
<1>6. QED
  BY <1>4, <1>5, Zenon

\* An answer translated again is the answer it was.
LEMMA AnswerStays ==
  ASSUME NEW p, NEW f \in Seq(Answers(p)), NEW i \in DOMAIN f
  PROVE  [f EXCEPT ![i].doc = mapReasoningBody(@)] = f
<1>1. f[i] \in Answers(p)
  BY ElementOfSeq, LenProperties
<1>2. PICK doc \in Docs : f[i] = Handed(p, doc)
  BY <1>1, Zenon DEF Answers
<1> DEFINE got == mapReasoningBody(doc)
           n == IF p = "claude" THEN 1 ELSE 0
<1>3. mapReasoningBody(got) = got
  BY DocumentArrives, Zenon
<1>4. f[i] = [prefixes |-> n, doc |-> got]
  BY <1>2, Zenon DEF Handed
<1> HIDE DEF got, n
<1>5. f[i].doc = got /\ [f[i] EXCEPT !.doc = got] = f[i]
  BY <1>4
<1>6. [f[i] EXCEPT !.doc = mapReasoningBody(f[i].doc)] = f[i]
  BY <1>3, <1>5, Zenon
<1>7. [f EXCEPT ![i] = f[i]] = f
  BY LenProperties
<1>8. [f EXCEPT ![i].doc = mapReasoningBody(@)] =
        [f EXCEPT ![i] = [f[i] EXCEPT !.doc = mapReasoningBody(f[i].doc)]]
  BY Zenon
<1>9. QED
  BY <1>6, <1>7, <1>8, Zenon

\* What holds of every stream.
AllAnswered == Answered(path, sent, frames)

LEMMA AnsweredInit ==
  ASSUME PayloadInit
  PROVE  AllAnswered
BY NothingAnswered, Zenon DEF PayloadInit, AllAnswered

LEMMA AnsweredNext ==
  ASSUME AllAnswered, [PayloadNext]_payloadVars
  PROVE  AllAnswered' /\ \A k \in DOMAIN frames : frames'[k] = frames[k]
<1>1. Answered(path, sent, frames)
  BY DEF AllAnswered
<1>2. ASSUME UNCHANGED payloadVars
      PROVE  AllAnswered' /\ \A k \in DOMAIN frames : frames'[k] = frames[k]
  <2>1. path' = path /\ sent' = sent /\ frames' = frames
    BY <1>2 DEF payloadVars
  <2>2. QED
    BY <1>1, <2>1, Zenon DEF AllAnswered
<1>3. ASSUME NEW line \in Lines, StreamLine(line)
      PROVE  AllAnswered' /\ \A k \in DOMAIN frames : frames'[k] = frames[k]
  <2>1. line \in DocLines <=> HasPayload(line)
    BY DEF DocLines, HasPayload
  <2>2. Frame(mapReasoningBody(line.doc)) = Handed(path, line.doc)
    BY Zenon DEF Frame, Handed
  <2>3. /\ path' = path /\ sent' = Append(sent, line)
        /\ frames' = IF line \in DocLines THEN Append(frames, Handed(path, line.doc)) ELSE frames
    BY <1>3, <2>1, <2>2, Zenon DEF StreamLine
  <2>4. Answered(path', sent', frames')
    BY <1>1, <2>3, LineAnswered, Zenon
  <2>5. frames \in Seq(Answers(path)) /\ DOMAIN frames = 1..Len(frames)
    BY <1>1, LenProperties DEF Answered
  <2>6. CASE line \in DocLines
    <3>1. Handed(path, line.doc) \in Answers(path)
      BY <2>6, DocLine, Zenon DEF Answers
    <3> DEFINE answer == Handed(path, line.doc)
    <3>2. answer \in Answers(path)
      BY <3>1
    <3> HIDE DEF answer
    <3>3. \A k \in 1..Len(frames) : Append(frames, answer)[k] = frames[k]
      BY <2>5, <3>2, AppendProperties
    <3>4. QED
      BY <2>3, <2>4, <2>5, <2>6, <3>3, Zenon DEF AllAnswered, answer
  <2>7. CASE line \notin DocLines
    BY <2>3, <2>4, <2>7, Zenon DEF AllAnswered
  <2>8. QED
    BY <2>6, <2>7, Zenon
<1>4. ASSUME NEW doc \in Docs, Execute(doc)
      PROVE  AllAnswered' /\ \A k \in DOMAIN frames : frames'[k] = frames[k]
  <2> DEFINE line == [prefixes |-> 1, kind |-> "doc", doc |-> doc]
  <2>1. line \in Lines /\ line \in DocLines /\ line.doc = doc
    BY PayloadAssumption DEF DocLines, Lines
  <2>2. Frame(mapReasoningBody(doc)) = Handed(path, doc)
    BY Zenon DEF Frame, Handed
  <2>3. /\ sent = << >> /\ path' = path /\ sent' = <<line>>
        /\ frames' = <<Handed(path, doc)>>
    BY <1>4, <2>2, Zenon DEF Execute
  <2> HIDE DEF line
  <2>4. frames = << >>
    <3>1. frames \in Seq(Answers(path)) /\ Len(frames) = Len(Kept(<< >>, DocLines))
      BY <1>1, <2>3, Zenon DEF Answered
    <3>2. Kept(<< >>, DocLines) = << >> /\ Len(<< >>) = 0
      BY KeptNone, EmptySeq, Zenon
    <3>3. Len(frames) = 0
      BY <3>1, <3>2, Zenon
    <3>4. QED
      BY <3>1, <3>3, EmptySeq
  <2> DEFINE answer == Handed(path, doc)
  <2>5. Answered(path, Append(sent, line), Append(frames, answer))
    BY <1>1, <2>1, LineAnswered, Zenon
  <2> HIDE DEF answer
  <2>6. Append(<< >>, line) = <<line>> /\ Append(<< >>, answer) = <<answer>>
    OBVIOUS
  <2>7. Answered(path', sent', frames')
    BY <2>3, <2>4, <2>5, <2>6, Zenon DEF answer
  <2>8. \A k \in DOMAIN frames : FALSE
    BY <2>4
  <2>9. QED
    BY <2>7, <2>8, Zenon DEF AllAnswered
<1>5. ASSUME NEW i \in DOMAIN frames, TranslateResponse(i)
      PROVE  AllAnswered' /\ \A k \in DOMAIN frames : frames'[k] = frames[k]
  <2>1. frames \in Seq(Answers(path))
    BY <1>1, Zenon DEF Answered
  <2>2. [frames EXCEPT ![i].doc = mapReasoningBody(@)] = frames
    BY <2>1, AnswerStays, Zenon
  <2>3. frames' = frames /\ path' = path /\ sent' = sent
    BY <1>5, <2>2, Zenon DEF TranslateResponse
  <2>4. QED
    BY <1>1, <2>3, Zenon DEF AllAnswered
<1>6. PayloadNext \/ UNCHANGED payloadVars
  OBVIOUS
<1>7. Stops => UNCHANGED payloadVars
  BY Zenon DEF Stops
<1>8. QED
  BY <1>2, <1>3, <1>4, <1>5, <1>6, <1>7, Zenon DEF PayloadNext

LEMMA AnsweredArrives ==
  ASSUME AllAnswered
  PROVE  ThinkingArrives
<1> DEFINE docs == Kept(sent, DocLines)
<1>1. /\ docs \in Seq(DocLines) /\ Len(frames) = Len(docs)
      /\ \A k \in 1..Len(frames) : frames[k] = Handed(path, docs[k].doc)
  BY Zenon DEF AllAnswered, Answered
<1>2. ThinkingArrives <=>
        /\ Len(frames) = Len(docs)
        /\ \A k \in 1..Len(docs) :
             /\ frames[k].prefixes = (IF path = "claude" THEN 1 ELSE 0)
             /\ DOMAIN frames[k].doc = DOMAIN docs[k].doc
             /\ \A i \in DOMAIN docs[k].doc : \A f \in Fields :
                  Arrived(docs[k].doc[i][f], frames[k].doc[i][f])
  BY Zenon DEF ThinkingArrives, DocLines
<1> HIDE DEF docs
<1>3. ASSUME NEW k \in 1..Len(docs)
      PROVE  /\ frames[k].prefixes = (IF path = "claude" THEN 1 ELSE 0)
             /\ DOMAIN frames[k].doc = DOMAIN docs[k].doc
             /\ \A i \in DOMAIN docs[k].doc : \A f \in Fields :
                  Arrived(docs[k].doc[i][f], frames[k].doc[i][f])
  <2> DEFINE doc == docs[k].doc
             n == IF path = "claude" THEN 1 ELSE 0
             got == mapReasoningBody(doc)
  <2>1. docs[k] \in DocLines
    BY <1>1, ElementOfSeq
  <2>2. doc \in Docs
    BY <2>1, DocLine, Zenon
  <2>3. frames[k] = [prefixes |-> n, doc |-> got]
    BY <1>1, Zenon DEF Handed
  <2>4. /\ DOMAIN got = DOMAIN doc
        /\ \A i \in DOMAIN doc : \A f \in Fields : Arrived(doc[i][f], got[i][f])
    BY <2>2, DocumentArrives
  <2> HIDE DEF doc, n, got
  <2>5. frames[k].prefixes = n /\ frames[k].doc = got
    BY <2>3
  <2>6. QED
    BY <2>4, <2>5, Zenon DEF doc, n
<1>4. QED
  BY <1>1, <1>2, <1>3, Zenon

\* The host gets the documents of a stream, each once and in order, framed as its
\* route wants them, and each message with its own thinking.
THEOREM ThinkingGot == PayloadSpec => []ThinkingArrives
<1>1. PayloadInit => AllAnswered
  BY AnsweredInit
<1>2. AllAnswered /\ [PayloadNext]_payloadVars => AllAnswered'
  BY AnsweredNext
<1>3. AllAnswered => ThinkingArrives
  BY AnsweredArrives
<1>4. QED
  BY <1>1, <1>2, <1>3, PTL DEF PayloadSpec

\* The host may translate what it has got as often as it likes: no frame changes
\* once it is handed over.
THEOREM FramesStay == PayloadSpec => TranslatedOnce
<1>1. PayloadInit => AllAnswered
  BY AnsweredInit
<1>2. AllAnswered /\ [PayloadNext]_payloadVars =>
        AllAnswered' /\ [\A k \in DOMAIN frames : frames'[k] = frames[k]]_payloadVars
  BY AnsweredNext
<1>3. QED
  BY <1>1, <1>2, PTL DEF PayloadSpec, TranslatedOnce
=============================================================================
