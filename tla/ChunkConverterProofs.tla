------------------------ MODULE ChunkConverterProofs ------------------------
(***************************************************************************)
(* Proofs about ChunkConverter, for every Limit and every set of bodies:   *)
(* its type invariant, that no complete line and no more than Limit        *)
(* fragments wait in the buffer, and that it implements FrameDelivery.     *)
(***************************************************************************)
EXTENDS ChunkConverter, NaturalLemmas, TLAPS

\* The buffer ends where the next chunk begins; at rest it has met every byte.
Windows ==
  /\ mark <= got /\ got <= fed /\ fed <= Len(body)
  /\ in.kind = "data" => in.lo = got /\ in.hi = fed
  /\ in.kind # "data" => got = fed

\* The mark is past the end of (s, mark], a line cut for its length.
LongBefore(s) == s < mark /\ mark - s > Limit /\ NlFree(body, s, mark)

\* Lines are taken off whole, unless they were cut for their length.
MarkShape == LineStart(body, mark) \/ \E s \in 0..mark : LongBefore(s)

\* What each place of the goroutine knows of its buffer and of its input.
Places ==
  /\ pc \in {"select", "flush", "report"} =>
       NlFree(body, mark, got) /\ got - mark <= Limit
  /\ in = Closed => feed = "ended"
  /\ in = Error => feed = "failed"
  /\ pc = "flush" => feed = "ended" /\ got = fed
  /\ pc = "report" => ctx = "cancelled" \/ (feed = "failed" /\ got = fed)

InShape == in.kind = "data" \/ in \in {Idle, Closed, Error}

\* Frames go out in the order of the body, and only from before the mark.
OutBefore == \A i \in 1..Len(out) : out[i].hi <= mark

\* Every short line before the mark that holds a frame has been sent.
AllSent ==
  \A hi \in 0..(mark - 1) : \A lo \in 0..hi :
    /\ IsFrame(body, lo, hi)
    /\ LineStart(body, lo) /\ body[hi + 1] = "nl"
    /\ hi - lo <= Limit
    => \E i \in 1..Len(out) : out[i] = Span("frame", lo, hi)

IInv ==
  /\ TypeOK
  /\ Windows
  /\ InShape
  /\ Places
  /\ pc # "closed" => MarkShape /\ OutBefore /\ AllSent

-----------------------------------------------------------------------------
(* Frames and lines.                                                       *)

\* The text of a frame holds no newline.
LEMMA FrameNlFree ==
  ASSUME NEW b, NEW lo \in Nat, NEW hi \in Nat, IsFrame(b, lo, hi)
  PROVE  NlFree(b, lo, hi)
BY DEF IsFrame, NlFree

\* A frame that begins a line before the mark and ends at or after it belongs
\* to a line cut for its length, so it is too long to be owed to the caller.
LEMMA StraddlingFrameIsLong ==
  ASSUME mark \in Nat, MarkShape,
         NEW lo \in Nat, NEW hi \in Nat, lo < mark, mark <= hi,
         IsFrame(body, lo, hi), LineStart(body, lo)
  PROVE  hi - lo > Limit
<1>1. NlFree(body, lo, hi)
  BY FrameNlFree
<1>2. ~LineStart(body, mark)
  BY <1>1 DEF LineStart, NlFree
<1>3. PICK s \in 0..mark : LongBefore(s)
  BY <1>2 DEF MarkShape
<1>4. lo <= s
  BY <1>3 DEF LongBefore, NlFree, LineStart
<1>5. QED
  BY <1>3, <1>4, LimitAssumption DEF LongBefore

\* The only frame owed within the line taken off is the line itself.
LEMMA FrameOfLine ==
  ASSUME mark \in Nat, got \in Nat, MarkShape,
         NEW k \in (mark + 1)..got, Break(k),
         NEW lo \in Nat, NEW hi \in Nat, mark <= hi, hi < k,
         IsFrame(body, lo, hi), LineStart(body, lo), body[hi + 1] = "nl",
         hi - lo <= Limit
  PROVE  lo = mark /\ hi = TextEnd(k)
<1>1. NlFree(body, lo, hi) /\ lo < hi
  BY FrameNlFree DEF IsFrame
<1>2. lo >= mark
  BY StraddlingFrameIsLong, LimitAssumption
<1>3. body[k] = "nl" /\ NlFree(body, mark, k - 1) /\ hi = k - 1
  BY DEF Break, NlFree
<1>4. lo = mark
  BY <1>1, <1>2, <1>3 DEF NlFree, LineStart
<1>5. QED
  BY <1>3, <1>4 DEF TextEnd

\* A buffer with nothing to take off is free of newlines and within the limit.
LEMMA NothingToTake ==
  ASSUME mark \in Nat, got \in Nat, mark <= got,
         ~\E k \in (mark + 1)..got : Break(k)
  PROVE  NlFree(body, mark, got) /\ got - mark <= Limit
<1>1. NlFree(body, mark, got)
  <2> DEFINE S == {k \in (mark + 1)..got : body[k] = "nl"}
  <2>1. SUFFICES ASSUME S # {} PROVE FALSE
    BY DEF NlFree
  <2>2. S \in SUBSET Nat
    OBVIOUS
  <2>3. PICK k \in S : \A j \in S : k <= j
    BY <2>1, <2>2, LeastNatural
  <2>4. Break(k)
    BY <2>3 DEF Break, NlFree
  <2>5. QED
    BY <2>3, <2>4
<1>2. got - mark <= Limit
  <2>1. SUFFICES ASSUME got - mark > Limit PROVE FALSE
    BY LimitAssumption
  <2>2. Break(got) /\ got \in (mark + 1)..got
    BY <1>1, <2>1, LimitAssumption DEF Break
  <2>3. QED
    BY <2>2
<1>3. QED
  BY <1>1, <1>2

\* A line taken off the buffer leaves the mark at a line's start, or in a line
\* that was cut for its length.
LEMMA MarkAfterLine ==
  ASSUME mark \in Nat, got \in Nat, NEW k \in (mark + 1)..got, Break(k)
  PROVE  LineStart(body, k) \/ (k - mark > Limit /\ NlFree(body, mark, k))
BY DEF Break, LineStart

-----------------------------------------------------------------------------
(* The inductive invariant.                                                *)

LEMMA InitInv == Init => IInv
<1> SUFFICES ASSUME Init PROVE IInv
  OBVIOUS
<1>1. body \in Seq(Symbols)
  BY BodiesAssumption DEF Init
<1>2. TypeOK
  BY <1>1 DEF Init, TypeOK, Idle, Span
<1>3. Windows /\ InShape /\ Places
  BY <1>1, LimitAssumption
  DEF Init, Windows, InShape, Places, Idle, Closed, Error, Span, NlFree
<1>4. MarkShape /\ OutBefore /\ AllSent
  BY DEF Init, MarkShape, LineStart, OutBefore, AllSent
<1>5. QED
  BY <1>2, <1>3, <1>4 DEF IInv

\* The steps of the upstream, of the caller and of its context.
LEMMA EnvironmentInv ==
  ASSUME IInv, Environment
  PROVE  IInv'
<1> USE LimitAssumption DEF upstream, pending, channel
<1> body \in Seq(Symbols)
  BY BodiesAssumption DEF IInv, TypeOK
<1> body' = body /\ pc' = pc /\ mark' = mark /\ got' = got /\ out' = out
  BY DEF Environment, Offer, OfferError, CloseFeed, Cancel, Drain
<1>1. (pc # "closed" => MarkShape /\ OutBefore /\ AllSent)'
  BY DEF IInv, MarkShape, LongBefore, OutBefore, AllSent
<1>2. ASSUME NEW n \in (fed + 1)..Len(body), Offer(n)
      PROVE  (TypeOK /\ Windows /\ InShape /\ Places)'
  BY <1>2 DEF Offer, IInv, TypeOK, Windows, InShape, Places, Idle, Closed,
     Error, Span
<1>3. CASE OfferError
  BY <1>3, <1>1 DEF OfferError, IInv, TypeOK, Windows, InShape, Places, Idle,
     Closed, Error, Span
<1>4. CASE CloseFeed
  BY <1>4, <1>1 DEF CloseFeed, IInv, TypeOK, Windows, InShape, Places, Idle,
     Closed, Error, Span
<1>5. CASE Cancel
  BY <1>5, <1>1 DEF Cancel, IInv, TypeOK, Windows, InShape, Places
<1>6. CASE Drain
  BY <1>6, <1>1 DEF Drain, IInv, TypeOK, Windows, InShape, Places
<1>7. QED
  BY <1>1, <1>2, <1>3, <1>4, <1>5, <1>6 DEF Environment, IInv

\* A line is taken off: if it goes on scanning, the line was sent or is no frame.
LEMMA LineTakenInv ==
  ASSUME IInv, pc = "scan", NEW k \in (mark + 1)..got, Break(k),
         DropLine(k) \/ SendLine(k),
         UNCHANGED <<upstream, ctx, in, got, taken>>
  PROVE  IInv'
<1> USE LimitAssumption DEF upstream
<1> DEFINE f == Span("frame", mark, TextEnd(k))
<1>1. /\ body \in Seq(Symbols) /\ mark \in Nat /\ got \in Nat /\ fed \in Nat
      /\ k \in Nat /\ out \in Seq(Items)
  BY BodiesAssumption DEF IInv, TypeOK
<1>2. MarkShape /\ OutBefore /\ AllSent
  BY DEF IInv
<1>3. pc' = pc /\ body' = body /\ fed' = fed /\ in' = in /\ got' = got /\ mark' = k
  BY DEF DropLine, SendLine
<1>4. TextEnd(k) \in mark..k
  BY <1>1 DEF TextEnd
<1>5. f \in Items /\ f.hi <= k
  BY <1>1, <1>4 DEF Span, Items
<1>6. /\ Len(out') >= Len(out)
      /\ \A i \in 1..Len(out) : out'[i] = out[i]
      /\ \A i \in 1..Len(out') : i \in 1..Len(out) \/ out'[i] = f
  <2>1. CASE DropLine(k)
    BY <2>1 DEF DropLine
  <2>2. CASE SendLine(k)
    <3>1. out' = Append(out, f)
      BY <2>2 DEF SendLine
    <3>2. QED
      BY <1>1, <1>5, <3>1
  <2>3. QED
    BY <2>1, <2>2
<1>7. TypeOK'
  <2>1. CASE DropLine(k)
    BY <1>1, <1>3, <2>1 DEF IInv, TypeOK, DropLine
  <2>2. CASE SendLine(k)
    BY <1>1, <1>3, <1>5, <2>2 DEF IInv, TypeOK, SendLine, Room
  <2>3. QED
    BY <2>1, <2>2
<1>8. (Windows /\ InShape /\ Places)'
  BY <1>1, <1>3 DEF IInv, Windows, InShape, Places, Idle, Closed, Error
<1>9. MarkShape'
  BY <1>1, <1>3, MarkAfterLine DEF MarkShape, LongBefore
<1>10. OutBefore'
  <2> SUFFICES ASSUME NEW i \in 1..Len(out') PROVE out'[i].hi <= k
    BY <1>3 DEF OutBefore
  <2>1. CASE i \in 1..Len(out)
    <3>1. out[i] \in Items
      BY <1>1, <2>1
    <3>2. out[i].hi \in Nat /\ out[i].hi <= mark
      BY <1>2, <2>1, <3>1 DEF OutBefore, Items
    <3>3. QED
      BY <1>1, <1>6, <2>1, <3>2
  <2>2. QED
    BY <1>5, <1>6, <2>1
<1>11. AllSent'
  <2> SUFFICES ASSUME NEW hi \in 0..(k - 1), NEW lo \in 0..hi,
                      IsFrame(body, lo, hi), LineStart(body, lo),
                      body[hi + 1] = "nl", hi - lo <= Limit
               PROVE  \E i \in 1..Len(out') : out'[i] = Span("frame", lo, hi)
    BY <1>3 DEF AllSent
  <2>1. CASE hi < mark
    <3>1. PICK i \in 1..Len(out) : out[i] = Span("frame", lo, hi)
      BY <1>1, <1>2, <2>1 DEF AllSent
    <3>2. QED
      BY <1>1, <1>6, <3>1
  <2>2. CASE hi >= mark
    <3>1. lo = mark /\ hi = TextEnd(k)
      BY <1>1, <1>2, <2>2, FrameOfLine
    <3>2. SendLine(k)
      BY <3>1 DEF DropLine
    <3>3. out' = Append(out, f)
      BY <3>2 DEF SendLine
    <3>4. out'[Len(out) + 1] = f /\ Len(out') = Len(out) + 1
      BY <1>1, <1>5, <3>3
    <3>5. f = Span("frame", lo, hi)
      BY <3>1
    <3>6. QED
      BY <1>1, <3>4, <3>5
  <2>3. QED
    BY <1>1, <2>1, <2>2
<1>12. QED
  BY <1>7, <1>8, <1>9, <1>10, <1>11 DEF IInv

\* The steps of the goroutine.
LEMMA ConverterInv ==
  ASSUME IInv, Converter
  PROVE  IInv'
<1> USE LimitAssumption DEF upstream, pending, channel
<1>1. /\ body \in Seq(Symbols) /\ mark \in Nat /\ got \in Nat /\ fed \in Nat
      /\ out \in Seq(Items)
  BY BodiesAssumption DEF IInv, TypeOK
<1>2. ASSUME UNCHANGED <<body, mark, out>>, MarkShape, OutBefore, AllSent
      PROVE  (MarkShape /\ OutBefore /\ AllSent)'
  BY <1>2 DEF MarkShape, LongBefore, OutBefore, AllSent
<1>3. CASE SelectCancelled
  BY <1>3, <1>1, <1>2 DEF SelectCancelled, IInv, TypeOK, Windows, InShape, Places
<1>4. CASE RecvClosed
  BY <1>4, <1>1, <1>2 DEF RecvClosed, IInv, TypeOK, Windows, InShape, Places,
     Idle, Closed, Error, Span
<1>5. CASE RecvError
  BY <1>5, <1>1, <1>2 DEF RecvError, IInv, TypeOK, Windows, InShape, Places,
     Idle, Closed, Error, Span
<1>6. CASE RecvData
  BY <1>6, <1>1, <1>2 DEF RecvData, IInv, TypeOK, Windows, InShape, Places,
     Idle, Closed, Error, Span
<1>7. CASE TakeLine
  <2>1. PICK k \in (mark + 1)..got :
          Break(k) /\ (DropLine(k) \/ SendLine(k) \/ AbandonLine(k))
    BY <1>7 DEF TakeLine
  <2>2. pc = "scan" /\ UNCHANGED <<upstream, ctx, in, got, taken>>
    BY <1>7 DEF TakeLine
  <2>3. CASE DropLine(k) \/ SendLine(k)
    BY <2>1, <2>2, <2>3, LineTakenInv
  <2>4. CASE AbandonLine(k)
    BY <2>2, <2>4, <1>1 DEF AbandonLine, IInv, TypeOK, Windows, InShape, Places
  <2>5. QED
    BY <2>1, <2>3, <2>4
<1>8. CASE NoLineLeft
  <2>1. NlFree(body, mark, got) /\ got - mark <= Limit
    BY <1>8, <1>1, NothingToTake DEF NoLineLeft, IInv, Windows
  <2>2. QED
    BY <1>8, <1>1, <1>2, <2>1 DEF NoLineLeft, IInv, TypeOK, Windows, InShape, Places
<1>9. CASE Flush
  <2> DEFINE f == Span("frame", mark, got)
  <2>1. f \in Items
    BY <1>1 DEF Span, Items
  <2>2. CASE FlushFrame
    BY <1>9, <1>1, <2>1, <2>2 DEF Flush, FlushFrame, Room, IInv, TypeOK, Windows,
       InShape, Places
  <2>3. CASE FlushNothing \/ FlushAbandoned
    BY <1>9, <1>1, <2>3 DEF Flush, FlushNothing, FlushAbandoned, IInv, TypeOK,
       Windows, InShape, Places
  <2>4. QED
    BY <1>9, <2>2, <2>3 DEF Flush
<1>10. CASE Report
  <2>1. Error \in Items
    BY DEF Error, Span, Items
  <2>2. CASE ReportError
    <3>1. out' = Append(out, Error) /\ Len(out) = taken
      BY <2>2 DEF ReportError, Room
    <3>2. out' \in Seq(Items) /\ Len(out') = Len(out) + 1
      BY <1>1, <2>1, <3>1
    <3>3. TypeOK'
      BY <1>10, <1>1, <3>1, <3>2 DEF Report, IInv, TypeOK
    <3>4. QED
      BY <1>10, <3>3 DEF Report, IInv, Windows, InShape, Places
  <2>3. CASE ReportDropped
    BY <1>10, <1>1, <2>3 DEF Report, ReportDropped, IInv, TypeOK, Windows,
       InShape, Places
  <2>4. QED
    BY <1>10, <2>2, <2>3 DEF Report
<1>11. QED
  BY <1>3, <1>4, <1>5, <1>6, <1>7, <1>8, <1>9, <1>10 DEF Converter

LEMMA StepInv == IInv /\ [Next]_vars => IInv'
<1> SUFFICES ASSUME IInv, [Next]_vars PROVE IInv'
  OBVIOUS
<1>1. CASE Environment
  BY <1>1, EnvironmentInv
<1>2. CASE Converter
  BY <1>2, ConverterInv
<1>3. CASE Terminated \/ UNCHANGED vars
  <2>1. UNCHANGED vars
    BY <1>3, Zenon DEF Terminated
  <2>2. UNCHANGED <<body, fed, feed, ctx, in, pc, got, mark, out, taken>>
    BY <2>1, Zenon DEF vars, upstream, pending, channel
  <2>3. TypeOK' /\ Windows' /\ InShape'
    BY <2>2 DEF IInv, TypeOK, Windows, InShape
  <2>4. Places'
    BY <2>2 DEF IInv, Places
  <2>5. pc' # "closed" => MarkShape' /\ OutBefore' /\ AllSent'
    BY <2>2 DEF IInv, MarkShape, LongBefore, OutBefore, AllSent
  <2>6. QED
    BY <2>3, <2>4, <2>5, Zenon DEF IInv
<1>4. QED
  BY <1>1, <1>2, <1>3 DEF Next

\* The invariant holds throughout every run of the goroutine.
THEOREM Invariance == Spec => []IInv
BY InitInv, StepInv, PTL DEF Spec

\* The state keeps its shape; the caller's channel never holds two items.
THEOREM TypeCorrect == Spec => []TypeOK
BY Invariance, PTL DEF IInv

\* Between two chunks no complete line and no more than Limit fragments wait.
THEOREM HeldBack == Spec => []NothingHeldBack
<1>1. IInv => NothingHeldBack
  BY DEF IInv, Places, NothingHeldBack
<1>2. QED
  BY <1>1, Invariance, PTL

-----------------------------------------------------------------------------
(* The goroutine implements FrameDelivery.                                 *)

\* The abstract specification speaks of the same frames, lines and lengths.
LEMMA SameWords ==
  /\ \A b, lo, hi : D!IsFrame(b, lo, hi) <=> IsFrame(b, lo, hi)
  /\ \A b, lo, hi : D!InLongLine(b, lo, hi) <=> InLongLine(b, lo, hi)
  /\ \A b, lo : D!LineStart(b, lo) <=> LineStart(b, lo)
  /\ \A kind, lo, hi : D!Span(kind, lo, hi) = Span(kind, lo, hi)
BY DEF D!IsFrame, IsFrame, D!InLongLine, InLongLine, D!NlFree, NlFree,
   D!LineStart, LineStart, D!Span, Span

\* A frame owed to the caller from the bytes received has been sent, or it is
\* what waits in the buffer.
LEMMA OwedFrame ==
  ASSUME IInv, pc # "closed",
         NEW lo \in Nat, NEW hi \in Nat, hi <= fed,
         IsFrame(body, lo, hi), D!WholeLine(lo, hi), hi - lo <= Limit,
         ~D!Sent(lo, hi)
  PROVE  /\ lo >= mark /\ hi > mark
         /\ hi < fed => body[hi + 1] = "nl"
         /\ hi >= fed => hi = fed /\ feed = "ended"
<1> USE LimitAssumption
<1>1. /\ mark \in Nat /\ got \in Nat /\ fed \in Nat
      /\ MarkShape /\ AllSent /\ mark <= got /\ got <= fed
  BY BodiesAssumption DEF IInv, TypeOK, Windows
<1>2. lo < hi
  BY DEF IsFrame
<1>3. LineStart(body, lo)
  BY SameWords DEF D!WholeLine
<1>4. ~ (hi < mark)
  <2>1. SUFFICES ASSUME hi < mark PROVE FALSE
    OBVIOUS
  <2>2. body[hi + 1] = "nl"
    BY <1>1, <2>1 DEF D!WholeLine
  <2>3. PICK i \in 1..Len(out) : out[i] = Span("frame", lo, hi)
    BY <1>1, <1>2, <1>3, <2>1, <2>2 DEF AllSent
  <2>4. QED
    BY <2>3, SameWords DEF D!Sent
<1>5. lo >= mark
  BY <1>1, <1>3, <1>4, StraddlingFrameIsLong
<1>6. QED
  BY <1>1, <1>2, <1>5 DEF D!WholeLine

\* Nothing is owed up to the mark, nor up to the end of a stream that stops
\* with no frame in its buffer.
LEMMA NothingMissing ==
  ASSUME IInv, pc # "closed"
  PROVE  /\ D!NoneMissing(mark)
         /\ /\ pc = "report" /\ feed = "failed" /\ got = fed
            => D!NoneMissing(fed)
         /\ pc = "flush" /\ ~IsFrame(body, mark, got) => D!NoneMissing(fed)
<1> USE LimitAssumption
<1>1. mark \in Nat /\ got \in Nat /\ fed \in Nat /\ mark <= got /\ got <= fed
  BY BodiesAssumption DEF IInv, TypeOK, Windows
<1>2. D!NoneMissing(mark)
  BY <1>1, OwedFrame, SameWords DEF D!NoneMissing
<1>3. ASSUME pc = "report", feed = "failed", got = fed
      PROVE  D!NoneMissing(fed)
  <2>1. NlFree(body, mark, got)
    BY <1>3 DEF IInv, Places
  <2>2. SUFFICES ASSUME NEW hi \in 0..fed, NEW lo \in 0..hi,
                        IsFrame(body, lo, hi), D!WholeLine(lo, hi),
                        hi - lo <= Limit, ~D!Sent(lo, hi)
                 PROVE  FALSE
    BY SameWords DEF D!NoneMissing
  <2>3. hi > mark /\ hi < fed /\ body[hi + 1] = "nl"
    BY <1>1, <1>3, <2>2, OwedFrame
  <2>4. QED
    BY <1>1, <1>3, <2>1, <2>3 DEF NlFree
<1>4. ASSUME pc = "flush", ~IsFrame(body, mark, got)
      PROVE  D!NoneMissing(fed)
  <2>1. NlFree(body, mark, got) /\ got = fed
    BY <1>4 DEF IInv, Places
  <2>2. SUFFICES ASSUME NEW hi \in 0..fed, NEW lo \in 0..hi,
                        IsFrame(body, lo, hi), D!WholeLine(lo, hi),
                        hi - lo <= Limit, ~D!Sent(lo, hi)
                 PROVE  FALSE
    BY SameWords DEF D!NoneMissing
  <2>3. /\ lo >= mark /\ hi > mark
        /\ hi < fed => body[hi + 1] = "nl"
    BY <1>1, <2>2, OwedFrame
  <2>4. hi = fed
    BY <1>1, <2>1, <2>3 DEF NlFree
  <2>5. lo < hi /\ LineStart(body, lo)
    BY <2>2, SameWords DEF IsFrame, D!WholeLine
  <2>6. lo = mark
    BY <1>1, <2>1, <2>3, <2>4, <2>5 DEF NlFree, LineStart
  <2>7. QED
    BY <1>4, <2>1, <2>2, <2>4, <2>6
<1>5. QED
  BY <1>2, <1>3, <1>4

\* What is sent next is a line of its own, or part of a line too long.
LEMMA LineSent ==
  ASSUME IInv, pc # "closed", NEW hi \in mark..got,
         IsFrame(body, mark, hi),
         \/ hi < got /\ body[hi + 1] = "nl"
         \/ hi = got /\ got = fed /\ feed = "ended"
         \/ NlFree(body, mark, hi) /\ hi - mark > Limit
  PROVE  D!WholeLine(mark, hi) \/ D!InLongLine(body, mark, hi)
<1> USE LimitAssumption
<1>1. /\ mark \in Nat /\ got \in Nat /\ fed \in Nat /\ mark <= got /\ got <= fed
      /\ MarkShape /\ fed <= Len(body) /\ body \in Seq(Symbols)
  BY BodiesAssumption DEF IInv, TypeOK, Windows
<1>2. NlFree(body, mark, hi)
  BY <1>1, FrameNlFree
<1>3. CASE LineStart(body, mark)
  <2>1. CASE \/ hi < got /\ body[hi + 1] = "nl"
             \/ hi = got /\ got = fed /\ feed = "ended"
    BY <1>1, <1>3, <2>1, SameWords DEF D!WholeLine
  <2>2. CASE hi - mark > Limit
    <3>1. mark \in 0..mark /\ hi \in hi..Len(body)
      BY <1>1
    <3>2. InLongLine(body, mark, hi)
      BY <1>2, <2>2, <3>1 DEF InLongLine
    <3>3. QED
      BY <3>2, SameWords
  <2>3. QED
    BY <2>1, <2>2
<1>4. CASE ~LineStart(body, mark)
  <2>1. PICK s \in 0..mark : LongBefore(s)
    BY <1>1, <1>4 DEF MarkShape
  <2>2. hi - s > Limit /\ NlFree(body, s, hi) /\ hi \in hi..Len(body)
    BY <1>1, <1>2, <2>1 DEF LongBefore, NlFree
  <2>3. InLongLine(body, mark, hi)
    BY <2>1, <2>2 DEF InLongLine
  <2>4. QED
    BY <2>3, SameWords
<1>5. QED
  BY <1>3, <1>4

\* The goroutine's open and close, and what it sends, in abstract terms.
LEMMA ConverterStep ==
  ASSUME IInv, Converter
  PROVE  [D!Next]_(D!vars)
<1> USE LimitAssumption DEF upstream, pending, channel
<1>1. /\ mark \in Nat /\ got \in Nat /\ fed \in Nat /\ mark <= got /\ got <= fed
      /\ fed <= Len(body) /\ body \in Seq(Symbols) /\ out \in Seq(Items)
  BY BodiesAssumption DEF IInv, TypeOK, Windows
<1>2. pc # "closed"
  BY DEF Converter, SelectCancelled, RecvClosed, RecvError, RecvData, TakeLine,
     NoLineLeft, Flush, Report
<1>3. OutBefore /\ D!NoneMissing(mark)
  BY <1>2, NothingMissing DEF IInv
<1>4. UNCHANGED <<body, fed, feed, ctx>>
  BY DEF Converter, SelectCancelled, RecvClosed, RecvError, RecvData, TakeLine,
     NoLineLeft, Flush, Report
<1>5. ASSUME UNCHANGED out, pc' = "closed", ctx = "cancelled"
      PROVE  D!Next
  BY <1>2, <1>4, <1>5 DEF D!Next, D!Close
<1>6. ASSUME NEW hi \in mark..got, IsFrame(body, mark, hi),
             D!WholeLine(mark, hi) \/ D!InLongLine(body, mark, hi),
             out' = Append(out, Span("frame", mark, hi)),
             \/ pc' # "closed"
             \/ pc' = "closed" /\ feed = "ended" /\ hi = fed
      PROVE  D!Next
  <2>1. mark \in 0..Len(body) /\ hi \in 0..Len(body) /\ hi <= fed
    BY <1>1
  <2>2. D!Deliver(mark, hi)
    BY <1>2, <1>3, <1>4, <1>6, <2>1, SameWords DEF D!Deliver, OutBefore
  <2>3. QED
    BY <1>2, <2>1, <2>2 DEF D!Next
<1>7. CASE SelectCancelled \/ RecvClosed \/ RecvError \/ RecvData \/ NoLineLeft
  BY <1>2, <1>4, <1>7 DEF SelectCancelled, RecvClosed, RecvError, RecvData,
     NoLineLeft, D!vars
<1>8. CASE TakeLine
  <2>1. PICK k \in (mark + 1)..got :
          Break(k) /\ (DropLine(k) \/ SendLine(k) \/ AbandonLine(k))
    BY <1>8 DEF TakeLine
  <2>2. CASE DropLine(k)
    BY <1>4, <2>2 DEF DropLine, D!vars
  <2>3. CASE AbandonLine(k)
    BY <1>5, <2>3 DEF AbandonLine
  <2>4. CASE SendLine(k)
    <3>1. TextEnd(k) \in mark..got
      BY <1>1 DEF TextEnd
    <3>2. IsFrame(body, mark, TextEnd(k)) /\ pc' = pc
      BY <2>4 DEF SendLine
    <3>3. \/ TextEnd(k) < got /\ body[TextEnd(k) + 1] = "nl"
          \/ NlFree(body, mark, TextEnd(k)) /\ TextEnd(k) - mark > Limit
      BY <1>1, <2>1 DEF Break, TextEnd
    <3>4. D!WholeLine(mark, TextEnd(k)) \/ D!InLongLine(body, mark, TextEnd(k))
      BY <1>2, <3>1, <3>2, <3>3, LineSent
    <3>5. QED
      BY <1>2, <1>6, <2>4, <3>1, <3>2, <3>4 DEF SendLine
  <2>5. QED
    BY <2>1, <2>2, <2>3, <2>4
<1>9. CASE Flush
  <2>1. pc = "flush" /\ pc' = "closed" /\ feed = "ended" /\ got = fed
    BY <1>9 DEF Flush, IInv, Places
  <2>2. CASE FlushNothing
    BY <1>2, <1>4, <2>1, <2>2, NothingMissing DEF FlushNothing, D!Next, D!Close
  <2>3. CASE FlushAbandoned
    BY <1>5, <2>1, <2>3 DEF FlushAbandoned
  <2>4. CASE FlushFrame
    <3>1. IsFrame(body, mark, got) /\ out' = Append(out, Span("frame", mark, got))
      BY <2>4 DEF FlushFrame
    <3>2. D!WholeLine(mark, got) \/ D!InLongLine(body, mark, got)
      BY <1>1, <1>2, <2>1, <3>1, LineSent
    <3>3. QED
      BY <1>1, <1>6, <2>1, <3>1, <3>2
  <2>5. QED
    BY <1>9, <2>2, <2>3, <2>4 DEF Flush
<1>10. CASE Report
  <2>1. pc = "report" /\ pc' = "closed"
    BY <1>10 DEF Report
  <2>2. CASE ReportDropped
    BY <1>5, <2>1, <2>2 DEF ReportDropped
  <2>3. CASE ReportError
    <3>1. out' = Append(out, D!Error)
      BY <2>3, SameWords DEF ReportError, Error, D!Error
    <3>2. ctx = "cancelled" \/ (feed = "failed" /\ got = fed)
      BY <2>1 DEF IInv, Places
    <3>3. ctx = "cancelled" \/ (feed = "failed" /\ D!NoneMissing(fed))
      BY <1>2, <2>1, <3>2, NothingMissing
    <3>4. QED
      BY <1>2, <1>4, <2>1, <3>1, <3>3 DEF D!Next, D!Fail
  <2>4. QED
    BY <1>10, <2>2, <2>3 DEF Report
<1>11. QED
  BY <1>7, <1>8, <1>9, <1>10 DEF Converter

LEMMA EnvironmentStep ==
  ASSUME IInv, Environment
  PROVE  [D!Next]_(D!vars)
<1> USE DEF upstream, pending, channel
<1>1. CASE OfferError \/ CloseFeed
  BY <1>1 DEF OfferError, CloseFeed, D!Next, D!EndFeed
<1>2. CASE Cancel
  BY <1>2 DEF Cancel, D!Next, D!Cancel
<1>3. CASE Drain
  BY <1>3 DEF Drain, D!vars
<1>4. ASSUME NEW n \in (fed + 1)..Len(body), Offer(n)
      PROVE  D!Next
  BY <1>4 DEF Offer, D!Next, D!Feed
<1>5. QED
  BY <1>1, <1>2, <1>3, <1>4 DEF Environment

\* The goroutine starts where FrameDelivery does.
LEMMA RefinementInit == Init => D!Init
BY DEF Init, D!Init

\* Each step of the goroutine or around it is one FrameDelivery allows.
LEMMA RefinementStep == IInv /\ [Next]_vars => [D!Next]_(D!vars)
<1> SUFFICES ASSUME IInv, [Next]_vars PROVE [D!Next]_(D!vars)
  OBVIOUS
<1>1. CASE Terminated \/ UNCHANGED vars
  BY <1>1 DEF Terminated, vars, D!vars
<1>2. QED
  BY <1>1, ConverterStep, EnvironmentStep DEF Next

\* Every behaviour of convertChunks is one FrameDelivery allows: frames whole,
\* once, in order and as they arrive; a clean close only when none is missing.
THEOREM Refinement == Spec => Delivers
BY RefinementInit, RefinementStep, Invariance, PTL DEF Spec, Delivers, D!Spec

-----------------------------------------------------------------------------
(* What FrameDelivery's promise amounts to.                                *)

\* The caller's channel is not closed.
Open == pc # "closed"

\* One of the first n items is the frame (lo, hi].
SentBy(n, lo, hi) == \E i \in 1..n : out[i] = D!Span("frame", lo, hi)

\* A short line of its own that holds a frame.
Owed(lo, hi) == D!IsFrame(body, lo, hi) /\ D!WholeLine(lo, hi) /\ hi - lo <= Limit

\* (lo, hi] followed n items, nothing owed before it was missing from them.
InTurn(n, lo, hi) ==
  /\ hi <= fed
  /\ D!IsFrame(body, lo, hi)
  /\ D!WholeLine(lo, hi) \/ D!InLongLine(body, lo, hi)
  /\ \A i \in 1..n : out[i].hi <= lo
  /\ \A h \in 0..lo : \A l \in 0..h : Owed(l, h) => SentBy(n, l, h)

\* Every item is a frame that was sent in its turn, or the error at the end.
Turns ==
  \A i \in 1..Len(out) :
    \/ \E lo, hi \in Nat : out[i] = D!Span("frame", lo, hi) /\ InTurn(i - 1, lo, hi)
    \/ out[i] = D!Error /\ i = Len(out) /\ ~Open

\* An upstream that ended on a live context ended with its body.
EndsWhole == feed = "ended" /\ ctx # "cancelled" => fed = Len(body)

\* A stream closed on a live context misses nothing, and says how it ended.
Closes ==
  ~Open /\ ctx # "cancelled" =>
    /\ feed \in {"ended", "failed"}
    /\ D!NoneMissing(fed)
    /\ feed = "failed" => Len(out) > 0 /\ out[Len(out)] = D!Error
    /\ feed = "ended" => \A i \in 1..Len(out) : out[i] # D!Error

SentShape ==
  /\ fed \in Nat /\ Open \in BOOLEAN
  /\ out \in Seq([kind : {"frame", "error"}, lo : Nat, hi : Nat])

AbsInv == SentShape /\ Turns /\ EndsWhole /\ Closes

-----------------------------------------------------------------------------

LEMMA FrameIsNotError ==
  ASSUME NEW lo, NEW hi
  PROVE  D!Span("frame", lo, hi) # D!Error
BY DEF D!Span, D!Error

\* Later bytes change nothing for a frame that was sent.
LEMMA InTurnLasts ==
  ASSUME SentShape, body' = body, fed' \in Nat, fed <= fed',
         fed' # fed \/ feed' # feed => feed = "open",
         NEW n \in Nat, n <= Len(out), Len(out) <= Len(out'),
         \A i \in 1..Len(out) : out'[i] = out[i],
         NEW lo \in Nat, NEW hi \in Nat, InTurn(n, lo, hi)
  PROVE  InTurn(n, lo, hi)'
<1>1. lo < hi /\ hi <= fed
  BY DEF InTurn, D!IsFrame
<1>2. ASSUME NEW l \in Nat, NEW h \in Nat, h < fed
      PROVE  D!WholeLine(l, h)' <=> D!WholeLine(l, h)
  BY <1>2 DEF D!WholeLine, D!LineStart, SentShape
<1>3. D!IsFrame(body, lo, hi)' /\ hi <= fed'
  BY <1>1 DEF InTurn, D!IsFrame, SentShape
<1>4. (D!WholeLine(lo, hi) \/ D!InLongLine(body, lo, hi))'
  <2>1. CASE D!InLongLine(body, lo, hi)
    BY <2>1 DEF D!InLongLine, D!NlFree
  <2>2. CASE D!WholeLine(lo, hi)
    BY <1>1, <2>2 DEF D!WholeLine, D!LineStart, SentShape
  <2>3. QED
    BY <2>1, <2>2 DEF InTurn
<1>5. \A i \in 1..n : i \in 1..Len(out) /\ out'[i] = out[i]
  <2>1. Len(out) \in Nat
    BY DEF SentShape
  <2>2. QED
    BY <2>1
<1>6. ASSUME NEW h \in 0..lo, NEW l \in 0..h, Owed(l, h)'
      PROVE  SentBy(n, l, h)'
  <2>1. h \in Nat /\ l \in Nat /\ h < fed
    BY <1>1 DEF SentShape
  <2>2. Owed(l, h)
    BY <1>2, <1>6, <2>1 DEF Owed, D!IsFrame
  <2>3. PICK i \in 1..n : out[i] = D!Span("frame", l, h)
    BY <2>2 DEF InTurn, SentBy
  <2>4. out'[i] = D!Span("frame", l, h)
    BY <1>5, <2>3
  <2>5. QED
    BY <2>4 DEF SentBy
<1>7. QED
  <2>1. \A i \in 1..n : out'[i].hi <= lo
    BY <1>5 DEF InTurn
  <2>2. QED
    BY <1>3, <1>4, <1>6, <2>1 DEF InTurn

\* A frame that ends where the body's bytes end is the last that can be owed.
LEMMA NothingAfterLast ==
  ASSUME NEW lo \in Nat, fed \in Nat, D!IsFrame(body, lo, fed),
         NEW h \in 0..fed, NEW l \in 0..h, Owed(l, h), h > lo
  PROVE  l = lo /\ h = fed
<1>1. /\ lo < fed /\ body[lo + 1] = "head" /\ body[fed] = "tail"
      /\ \A k \in (lo + 2)..(fed - 1) : body[k] = "mid"
  BY DEF D!IsFrame
<1>2. /\ l < h /\ body[h] = "tail"
      /\ \A k \in (l + 2)..(h - 1) : body[k] = "mid"
  BY DEF Owed, D!IsFrame
<1>3. l = 0 \/ body[l] = "nl"
  BY DEF Owed, D!WholeLine, D!LineStart
<1>4. h < fed => body[h + 1] = "nl"
  BY DEF Owed, D!WholeLine
<1>5. ~ (l < lo)
  <2>1. SUFFICES ASSUME l < lo PROVE FALSE
    OBVIOUS
  <2>2. lo + 1 = h \/ lo + 1 \in (l + 2)..(h - 1)
    BY <2>1
  <2>3. QED
    BY <1>1, <1>2, <2>2
<1>6. ~ (l > lo)
  <2>1. SUFFICES ASSUME l > lo PROVE FALSE
    OBVIOUS
  <2>2. l = lo + 1 \/ l \in (lo + 2)..(fed - 1)
    BY <1>2, <2>1
  <2>3. QED
    BY <1>1, <1>3, <2>1, <2>2
<1>7. l = lo
  BY <1>5, <1>6
<1>8. ~ (h < fed)
  <2>1. SUFFICES ASSUME h < fed PROVE FALSE
    OBVIOUS
  <2>2. h + 1 = fed \/ h + 1 \in (lo + 2)..(fed - 1)
    BY <2>1
  <2>3. QED
    BY <1>1, <1>4, <2>1, <2>2
<1>9. QED
  BY <1>7, <1>8

LEMMA AbsInitInv == D!Init => AbsInv
BY DEF D!Init, Open, AbsInv, SentShape, Turns, EndsWhole, Closes

\* The upstream's and the context's steps.
LEMMA FeedInv ==
  ASSUME AbsInv, D!Feed \/ D!EndFeed \/ D!Cancel
  PROVE  AbsInv'
<1>1. UNCHANGED <<body, out, Open>>
  BY DEF Open, D!Feed, D!EndFeed, D!Cancel
<1>2. /\ fed' \in Nat /\ fed <= fed'
      /\ fed' # fed \/ feed' # feed => feed = "open"
  BY DEF D!Feed, D!EndFeed, D!Cancel, AbsInv, SentShape
<1>3. SentShape'
  BY <1>1, <1>2 DEF AbsInv, SentShape
<1>4. Turns'
  <2> SUFFICES ASSUME NEW i \in 1..Len(out)
      PROVE \/ \E lo, hi \in Nat :
                 out[i] = D!Span("frame", lo, hi) /\ InTurn(i - 1, lo, hi)'
            \/ out[i] = D!Error /\ i = Len(out) /\ ~Open
    BY <1>1 DEF Turns
  <2>1. CASE out[i] = D!Error /\ i = Len(out) /\ ~Open
    BY <2>1
  <2>2. CASE ~ (out[i] = D!Error /\ i = Len(out) /\ ~Open)
    <3>1. PICK lo \in Nat, hi \in Nat :
            out[i] = D!Span("frame", lo, hi) /\ InTurn(i - 1, lo, hi)
      BY <2>2 DEF AbsInv, Turns
    <3>2. i - 1 \in Nat /\ i - 1 <= Len(out)
      BY DEF AbsInv, SentShape
    <3>3. InTurn(i - 1, lo, hi)'
      BY <1>1, <1>2, <3>1, <3>2, InTurnLasts DEF AbsInv
    <3>4. QED
      BY <3>1, <3>3
  <2>3. QED
    BY <2>1, <2>2
<1>5. EndsWhole'
  BY DEF D!Feed, D!EndFeed, D!Cancel, AbsInv, EndsWhole
<1>6. Closes'
  <2>1. SUFFICES ASSUME ~Open, ctx' # "cancelled" PROVE Closes'
    BY <1>1 DEF Closes
  <2>2. ~D!Cancel /\ ctx' = ctx
    BY <2>1 DEF D!Feed, D!EndFeed, D!Cancel
  <2>3. feed # "open"
    BY <2>1, <2>2 DEF AbsInv, Closes
  <2>4. QED
    BY <2>2, <2>3 DEF D!Feed, D!EndFeed
<1>7. QED
  BY <1>3, <1>4, <1>5, <1>6 DEF AbsInv

\* A frame is sent.
LEMMA DeliverInv ==
  ASSUME AbsInv, Open, NEW lo \in Nat, NEW hi \in Nat, D!Deliver(lo, hi)
  PROVE  AbsInv'
<1> DEFINE f == D!Span("frame", lo, hi)
<1>1. UNCHANGED <<body, fed, feed, ctx>> /\ out' = Append(out, f)
  BY DEF D!Deliver
<1>2. f \in [kind : {"frame", "error"}, lo : Nat, hi : Nat]
  BY DEF D!Span
<1>3. out \in Seq([kind : {"frame", "error"}, lo : Nat, hi : Nat]) /\ fed \in Nat
  BY DEF AbsInv, SentShape
<1> HIDE DEF f
<1>4. /\ Len(out') = Len(out) + 1 /\ Len(out) \in Nat
      /\ \A i \in 1..Len(out) : out'[i] = out[i]
      /\ out'[Len(out) + 1] = f
  BY <1>1, <1>2, <1>3
<1>5. Open' \in BOOLEAN /\ (~Open' => feed = "ended" /\ hi = fed)
  BY DEF Open, D!Deliver, AbsInv, SentShape
<1>6. SentShape'
  BY <1>1, <1>2, <1>3, <1>5 DEF SentShape
<1>7. \A l, h : D!WholeLine(l, h)' <=> D!WholeLine(l, h)
  BY <1>1 DEF D!WholeLine
<1>8. \A l, h : Owed(l, h)' <=> Owed(l, h)
  BY <1>1, <1>7 DEF Owed
<1>9. InTurn(Len(out), lo, hi)
  <2>1. \A h \in 0..lo : \A l \in 0..h : Owed(l, h) => SentBy(Len(out), l, h)
    BY DEF D!Deliver, D!NoneMissing, D!Sent, SentBy, Owed
  <2>2. QED
    BY <2>1 DEF D!Deliver, InTurn
<1>10. \A i \in 1..Len(out) : \E l, h \in Nat :
         out[i] = D!Span("frame", l, h) /\ InTurn(i - 1, l, h)
  BY DEF AbsInv, Turns
<1>11. ASSUME NEW n \in Nat, n <= Len(out), NEW l \in Nat, NEW h \in Nat,
              InTurn(n, l, h)
       PROVE  InTurn(n, l, h)'
  <2>1. fed' \in Nat /\ fed <= fed' /\ Len(out) <= Len(out')
    BY <1>1, <1>3, <1>4
  <2>2. QED
    BY <1>1, <1>4, <1>11, <2>1, InTurnLasts DEF AbsInv
<1>12. Turns'
  <2> SUFFICES ASSUME NEW i \in 1..Len(out')
      PROVE \E l, h \in Nat :
              out'[i] = D!Span("frame", l, h) /\ InTurn(i - 1, l, h)'
    BY DEF Turns
  <2>1. CASE i \in 1..Len(out)
    <3>1. PICK l \in Nat, h \in Nat :
            out[i] = D!Span("frame", l, h) /\ InTurn(i - 1, l, h)
      BY <1>10, <2>1
    <3>2. i - 1 \in Nat /\ i - 1 <= Len(out)
      BY <1>4, <2>1
    <3>3. InTurn(i - 1, l, h)'
      BY <1>11, <3>1, <3>2
    <3>4. QED
      BY <1>4, <2>1, <3>1, <3>3
  <2>2. CASE i = Len(out) + 1
    <3>1. i - 1 = Len(out) /\ i - 1 \in Nat /\ i - 1 <= Len(out)
      BY <1>4, <2>2
    <3>2. InTurn(i - 1, lo, hi)
      BY <1>9, <3>1, Zenon
    <3>3. InTurn(i - 1, lo, hi)'
      BY <1>11, <3>1, <3>2
    <3>4. out'[i] = D!Span("frame", lo, hi)
      BY <1>4, <2>2 DEF f
    <3>5. QED
      BY <3>3, <3>4
  <2>3. QED
    BY <1>4, <2>1, <2>2
<1>13. EndsWhole'
  BY <1>1 DEF AbsInv, EndsWhole
<1>14. Closes'
  <2>1. SUFFICES ASSUME ~Open' PROVE Closes'
    BY DEF Closes
  <2>2. feed = "ended" /\ hi = fed
    BY <1>5, <2>1
  <2>3. \A i \in 1..Len(out') : out'[i] # D!Error
    <3> SUFFICES ASSUME NEW i \in 1..Len(out') PROVE out'[i] # D!Error
      OBVIOUS
    <3>1. CASE i \in 1..Len(out)
      BY <1>4, <1>10, <3>1, FrameIsNotError
    <3>2. CASE i = Len(out) + 1
      BY <1>4, <3>2, FrameIsNotError DEF f
    <3>3. QED
      BY <1>4, <3>1, <3>2
  <2>4. ASSUME NEW h \in 0..fed, NEW l \in 0..h, Owed(l, h)
        PROVE  \E i \in 1..Len(out') : out'[i] = D!Span("frame", l, h)
    <3>1. CASE h <= lo
      <4>1. PICK i \in 1..Len(out) : out[i] = D!Span("frame", l, h)
        BY <1>9, <2>4, <3>1 DEF InTurn, SentBy
      <4>2. QED
        BY <1>4, <4>1
    <3>2. CASE h > lo
      <4>1. D!IsFrame(body, lo, fed)
        BY <2>2 DEF D!Deliver
      <4>2. l = lo /\ h = hi
        BY <1>3, <2>2, <2>4, <3>2, <4>1, NothingAfterLast
      <4>3. QED
        BY <1>4, <4>2 DEF f
    <3>3. QED
      BY <1>3, <3>1, <3>2
  <2>5. D!NoneMissing(fed)'
    BY <1>1, <1>7, <2>4 DEF D!NoneMissing, D!Sent, Owed
  <2>6. QED
    BY <1>1, <2>2, <2>3, <2>5 DEF Closes
<1>15. QED
  BY <1>6, <1>12, <1>13, <1>14 DEF AbsInv

\* The stream is closed, with or without an error.
LEMMA EndInv ==
  ASSUME AbsInv, Open, D!Close \/ D!Fail
  PROVE  AbsInv'
<1>1. UNCHANGED <<body, fed, feed, ctx>> /\ Open' = FALSE
  BY DEF Open, D!Close, D!Fail
<1>2. out \in Seq([kind : {"frame", "error"}, lo : Nat, hi : Nat]) /\ fed \in Nat
  BY DEF AbsInv, SentShape
<1>3. D!Error \in [kind : {"frame", "error"}, lo : Nat, hi : Nat]
  BY DEF D!Error, D!Span
<1>4. \A i \in 1..Len(out) : \E l, h \in Nat :
         out[i] = D!Span("frame", l, h) /\ InTurn(i - 1, l, h)
  BY DEF AbsInv, Turns
<1>5. \A i \in 1..Len(out) : out[i] # D!Error
  BY <1>4, FrameIsNotError
<1>6. EndsWhole'
  BY <1>1 DEF AbsInv, EndsWhole
<1>7. ASSUME Len(out) <= Len(out'), \A i \in 1..Len(out) : out'[i] = out[i]
      PROVE  \A i \in 1..Len(out) : \E l, h \in Nat :
               out'[i] = D!Span("frame", l, h) /\ InTurn(i - 1, l, h)'
  <2> SUFFICES ASSUME NEW i \in 1..Len(out)
      PROVE \E l, h \in Nat :
              out'[i] = D!Span("frame", l, h) /\ InTurn(i - 1, l, h)'
    OBVIOUS
  <2>1. PICK l \in Nat, h \in Nat :
          out[i] = D!Span("frame", l, h) /\ InTurn(i - 1, l, h)
    BY <1>4
  <2>2. i - 1 \in Nat /\ i - 1 <= Len(out)
    BY <1>2
  <2>3. InTurn(i - 1, l, h)'
    BY <1>1, <1>2, <1>7, <2>1, <2>2, InTurnLasts DEF AbsInv
  <2>4. QED
    BY <1>7, <2>1, <2>3
<1>8. CASE D!Close
  <2>1. out' = out
    BY <1>8 DEF D!Close
  <2>2. SentShape'
    BY <1>1, <1>2, <2>1 DEF SentShape
  <2>3. Turns'
    BY <1>7, <2>1, <1>2 DEF Turns
  <2>4. Closes'
    BY <1>1, <1>5, <1>8, <2>1 DEF Closes, D!Close, D!NoneMissing, D!Sent, D!WholeLine
  <2>5. QED
    BY <1>6, <2>2, <2>3, <2>4 DEF AbsInv
<1>9. CASE D!Fail
  <2>1. out' = Append(out, D!Error)
    BY <1>9 DEF D!Fail
  <2>2. /\ Len(out') = Len(out) + 1 /\ Len(out) \in Nat
        /\ \A i \in 1..Len(out) : out'[i] = out[i]
        /\ out'[Len(out) + 1] = D!Error
    BY <1>2, <1>3, <2>1
  <2>3. SentShape'
    <3>1. out' \in Seq([kind : {"frame", "error"}, lo : Nat, hi : Nat])
      BY <1>2, <1>3, <2>1
    <3>2. QED
      BY <1>1, <1>2, <3>1 DEF SentShape
  <2>4. Turns'
    <3>1. \A i \in 1..Len(out') : i \in 1..Len(out) \/ i = Len(out')
      BY <2>2
    <3>2. \A i \in 1..Len(out) : \E l, h \in Nat :
               out'[i] = D!Span("frame", l, h) /\ InTurn(i - 1, l, h)'
      BY <1>7, <2>2
    <3>3. QED
      BY <1>1, <2>2, <3>1, <3>2 DEF Turns
  <2>5. Closes'
    <3>1. SUFFICES ASSUME ctx # "cancelled" PROVE Closes'
      BY <1>1 DEF Closes
    <3>2. feed = "failed" /\ D!NoneMissing(fed)
      BY <1>9, <3>1 DEF D!Fail
    <3>3. D!NoneMissing(fed)'
      BY <1>1, <2>2, <3>2 DEF D!NoneMissing, D!Sent, D!WholeLine
    <3>4. QED
      BY <1>1, <2>2, <3>2, <3>3 DEF Closes
  <2>6. QED
    BY <1>6, <2>3, <2>4, <2>5 DEF AbsInv
<1>10. QED
  BY <1>8, <1>9

LEMMA AbsStepInv == AbsInv /\ [D!Next]_(D!vars) => AbsInv'
<1> SUFFICES ASSUME AbsInv, [D!Next]_(D!vars) PROVE AbsInv'
  OBVIOUS
<1>1. CASE D!Feed \/ D!EndFeed \/ D!Cancel
  BY <1>1, FeedInv
<1>2. ASSUME Open, NEW lo \in 0..Len(body), NEW hi \in 0..Len(body), D!Deliver(lo, hi)
      PROVE  AbsInv'
  BY <1>2, DeliverInv
<1>3. ASSUME Open, D!Close \/ D!Fail PROVE AbsInv'
  BY <1>3, EndInv
<1>4. CASE UNCHANGED D!vars
  <2>1. UNCHANGED <<body, fed, feed, ctx, out>> /\ Open' = Open
    BY <1>4, Zenon DEF D!vars, Open
  <2>2. \A l, h : D!WholeLine(l, h)' <=> D!WholeLine(l, h)
    BY <2>1 DEF D!WholeLine
  <2>3. \A n, l, h : InTurn(n, l, h)' <=> InTurn(n, l, h)
    BY <2>1, <2>2 DEF InTurn, Owed, SentBy
  <2>4. SentShape' /\ EndsWhole'
    BY <2>1 DEF AbsInv, SentShape, EndsWhole
  <2>5. Turns'
    BY <2>1, <2>3 DEF AbsInv, Turns
  <2>6. Closes'
    BY <2>1, <2>2 DEF AbsInv, Closes, D!NoneMissing, D!Sent
  <2>7. QED
    BY <2>4, <2>5, <2>6 DEF AbsInv
<1>5. QED
  BY <1>1, <1>2, <1>3, <1>4 DEF D!Next, Open

\* Whatever keeps FrameDelivery's promise sends every frame in its turn, and
\* closes with all of them sent or with the upstream's error.
THEOREM Promise == Delivers => []AbsInv
BY AbsInitInv, AbsStepInv, PTL DEF Delivers, D!Spec

\* Whatever convertChunks has sent was sent in its turn, and on a live context
\* it closes the channel only behind all the frames or the upstream's error.
THEOREM PromiseKept == Spec => []AbsInv
BY Refinement, Promise, PTL

\* On a live context a close without an error misses no frame of the body.
CloseIsWhole ==
  ~Open /\ ctx # "cancelled" /\ (\A i \in 1..Len(out) : out[i] # D!Error) =>
    feed = "ended" /\ fed = Len(body) /\ D!NoneMissing(Len(body))

LEMMA WholeAtClose == AbsInv => CloseIsWhole
<1> SUFFICES ASSUME AbsInv, ~Open, ctx # "cancelled",
                    \A i \in 1..Len(out) : out[i] # D!Error
             PROVE  feed = "ended" /\ fed = Len(body) /\ D!NoneMissing(Len(body))
  BY DEF CloseIsWhole
<1>1. feed \in {"ended", "failed"} /\ D!NoneMissing(fed)
  BY DEF AbsInv, Closes
<1>2. feed # "failed"
  <2>1. Len(out) > 0 => Len(out) \in 1..Len(out)
    BY DEF AbsInv, SentShape
  <2>2. QED
    BY <2>1 DEF AbsInv, Closes
<1>3. fed = Len(body)
  BY <1>1, <1>2 DEF AbsInv, EndsWhole
<1>4. QED
  BY <1>1, <1>2, <1>3

\* On a live context a stream that convertChunks closes without an error misses
\* no frame of the upstream's body.
THEOREM CompleteWhenClean == Spec => []CloseIsWhole
BY PromiseKept, WholeAtClose, PTL
=============================================================================
