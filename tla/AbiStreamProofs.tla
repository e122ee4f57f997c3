--------------------------- MODULE AbiStreamProofs ---------------------------
(***************************************************************************)
(* Proofs about AbiStream, for every Limit and every set of bodies: its    *)
(* converter behaves as ChunkConverter does alone, a downstream closed     *)
(* without an error is complete, and the whole call keeps FrameDelivery's  *)
(* promise to the host.                                                    *)
(***************************************************************************)
EXTENDS AbiStream, TLAPS

\* What is proved of the converter, in a context that nobody cancels.
P == INSTANCE ChunkConverterProofs WITH ctx <- "live"

\* Each reader offers what it has read to a converter that is ready for it.
ReaderShape ==
  /\ source = "batch" => reader = "done"
  /\ reader = "read" => feed = "open" /\ in = P!Idle
  /\ reader = "send" => feed = "open"
  /\ reader = "last" /\ feed = "open" => fed = Len(body)

\* The first n items have been passed on, and no others.
Relayed(n) ==
  /\ Len(emitted) = n
  /\ \A i \in 1..n : emitted[i] = out[i]

\* What each place of the pump knows of what it has passed on.
PumpShape ==
  /\ pump = "recv" => (sink = "reply" /\ note = "upstream") \/ note = ""
  /\ pump = "emit" => note = "" /\ taken > 0 /\ out[taken].kind = "frame"
  /\ pump \in {"close", "done", "lost"} /\ note = "" => pc = "closed" /\ taken = Len(out)
  /\ note = "upstream" => taken > 0 /\ out[taken].kind = "error"
  /\ note = "emit" => taken > 0
  /\ stream = "closed" => pump = "done"

\* The pump holds at most the item it received last.
Behind ==
  IF pump = "emit" \/ note # "" THEN Relayed(taken - 1) ELSE Relayed(taken)

Places ==
  /\ source \in {"host", "proxy", "batch"} /\ sink \in {"stream", "reply"}
  /\ reader \in {"read", "send", "last", "done"}
  /\ pump \in {"recv", "emit", "close", "done", "lost"}
  /\ note \in {"", "upstream", "emit"}
  /\ emitted \in Seq([kind : {"frame"}, lo : Nat, hi : Nat])
  /\ stream \in {"open", "closed"} /\ host \in {"up", "gone"}

IInv ==
  /\ P!IInv /\ P!AbsInv
  /\ Places
  /\ ReaderShape
  /\ PumpShape
  /\ Behind

-----------------------------------------------------------------------------
(* The converter of the call is ChunkConverter.                            *)

LEMMA SameWords ==
  /\ C!Idle = P!Idle /\ C!Closed = P!Closed /\ C!Error = P!Error
  /\ C!upstream = P!upstream /\ C!pending = P!pending /\ C!channel = P!channel
  /\ C!Room <=> P!Room
  /\ Symbols = P!Symbols
BY DEF C!Idle, P!Idle, C!Closed, P!Closed, C!Error, P!Error, C!Span, P!Span,
   C!upstream, P!upstream, C!pending, P!pending, C!channel, P!channel,
   C!Room, P!Room, Symbols, P!Symbols

LEMMA SameLines ==
  /\ \A b, lo, hi : C!IsFrame(b, lo, hi) <=> P!IsFrame(b, lo, hi)
  /\ \A k : C!Break(k) <=> P!Break(k)
  /\ \A k : C!TextEnd(k) = P!TextEnd(k)
  /\ \A kind, lo, hi : C!Span(kind, lo, hi) = P!Span(kind, lo, hi)
BY DEF C!IsFrame, P!IsFrame, C!Break, P!Break, C!NlFree, P!NlFree, C!TextEnd,
   P!TextEnd, C!Span, P!Span

LEMMA SameInit == C!Init <=> P!Init
BY SameWords DEF C!Init, P!Init

LEMMA SameEnvironment ==
  /\ \A n : C!Offer(n) <=> P!Offer(n)
  /\ C!OfferError <=> P!OfferError
  /\ C!CloseFeed <=> P!CloseFeed
BY SameWords, SameLines DEF C!Offer, P!Offer, C!OfferError, P!OfferError,
   C!CloseFeed, P!CloseFeed, C!upstream, P!upstream, C!pending, P!pending, C!channel, P!channel

LEMMA SameConverter == C!Converter => P!Converter
<1> USE DEF C!upstream, P!upstream, C!pending, P!pending, C!channel, P!channel
<1>1. C!SelectCancelled => P!SelectCancelled
  BY DEF C!SelectCancelled, P!SelectCancelled
<1>2. C!RecvClosed => P!RecvClosed
  BY SameWords DEF C!RecvClosed, P!RecvClosed
<1>3. C!RecvError => P!RecvError
  BY SameWords DEF C!RecvError, P!RecvError
<1>4. C!RecvData => P!RecvData
  BY SameWords DEF C!RecvData, P!RecvData
<1>5. C!TakeLine => P!TakeLine
  <2>1. ASSUME NEW k
        PROVE  /\ C!DropLine(k) => P!DropLine(k)
               /\ C!SendLine(k) => P!SendLine(k)
               /\ C!AbandonLine(k) => P!AbandonLine(k)
    BY SameWords, SameLines DEF C!DropLine, P!DropLine, C!SendLine, P!SendLine,
       C!AbandonLine, P!AbandonLine
  <2>2. QED
    BY SameLines, <2>1 DEF C!TakeLine, P!TakeLine
<1>6. C!NoLineLeft => P!NoLineLeft
  BY SameLines DEF C!NoLineLeft, P!NoLineLeft
<1>7. C!Flush => P!Flush
  BY SameWords, SameLines DEF C!Flush, P!Flush, C!FlushNothing, P!FlushNothing,
     C!FlushFrame, P!FlushFrame, C!FlushAbandoned, P!FlushAbandoned
<1>8. C!Report => P!Report
  BY SameWords DEF C!Report, P!Report, C!ReportError, P!ReportError,
     C!ReportDropped, P!ReportDropped
<1>9. QED
  BY <1>1, <1>2, <1>3, <1>4, <1>5, <1>6, <1>7, <1>8 DEF C!Converter, P!Converter

\* Each step of the call is a step of the converter or of what is around it,
\* or leaves both alone.
LEMMA ConverterView ==
  ASSUME IInv, Next
  PROVE  [P!Next]_(P!vars)
<1> USE DEF call, upstream, converter, delivery, C!upstream, C!pending, C!channel
<1>1. taken < Len(out) \/ C!Room
  BY SameWords DEF IInv, P!IInv, P!TypeOK, P!Room
<1>2. (taken < Len(out) /\ taken' = taken + 1 /\ UNCHANGED <<upstream, converter>>)
      => P!Drain
  BY DEF P!Drain, P!upstream, P!pending
<1>3. UNCHANGED <<upstream, converter, taken>> => UNCHANGED P!vars
  BY DEF P!vars
<1>4. CASE Read
  <2>1. ASSUME NEW n \in (fed + 1)..Len(body), NEW done \in BOOLEAN,
               ReadPayload(n, done)
        PROVE  P!Offer(n)
    BY <2>1 DEF ReadPayload, IInv, ReaderShape, P!Offer, Span, P!Span, P!pending,
       P!channel
  <2>2. CASE ReadEnd
    BY <1>3, <2>2 DEF ReadEnd
  <2>3. CASE ReadError
    BY <2>3, SameWords DEF ReadError, IInv, ReaderShape, P!Next, P!Environment,
       P!OfferError, P!pending, P!channel
  <2>4. QED
    BY <1>4, <2>1, <2>2, <2>3 DEF Read, P!Next, P!Environment
<1>5. CASE SendDone
  BY <1>3, <1>5 DEF SendDone
<1>6. CASE ReaderReturns
  <2>1. CASE feed = "open"
    BY <1>6, <2>1, SameWords DEF ReaderReturns, IInv, ReaderShape, P!Next,
       P!Environment, P!CloseFeed, P!pending, P!channel
  <2>2. CASE feed # "open"
    BY <1>3, <1>6, <2>2 DEF ReaderReturns
  <2>3. QED
    BY <2>1, <2>2
<1>7. CASE BatchItem
  BY <1>7, SameEnvironment DEF BatchItem, P!Next, P!Environment
<1>8. CASE Convert
  BY <1>8, SameConverter DEF Convert, P!Next
<1>9. CASE PumpFrame \/ PumpError \/ Collect
  <2>1. taken < Len(out) /\ taken' = taken + 1 /\ UNCHANGED <<upstream, converter>>
    BY <1>1, <1>9 DEF PumpFrame, PumpError, Collect
  <2>2. QED
    BY <1>2, <2>1 DEF P!Next, P!Environment
<1>10. CASE PumpEnd \/ Emit \/ EmitFails \/ CloseStream \/ Shutdown \/ Over
  BY <1>3, <1>10 DEF PumpEnd, Emit, EmitFails, CloseStream, Close, Shutdown, Over, vars
<1>11. QED
  BY <1>4, <1>5, <1>6, <1>7, <1>8, <1>9, <1>10 DEF Next, Reader, Pump

-----------------------------------------------------------------------------
(* The inductive invariant.                                                *)

\* What the converter has sent: frames, and the error behind them all.
LEMMA OutFacts ==
  ASSUME IInv
  PROVE  /\ body \in Seq(Symbols) /\ fed \in Nat
         /\ out \in Seq(P!Items)
         /\ taken \in Nat /\ Len(out) \in Nat /\ Len(out) - taken \in {0, 1}
         /\ \A i \in 1..Len(out) :
              out[i].kind = "error" => i = Len(out) /\ pc = "closed"
<1>1. P!TypeOK
  BY DEF IInv, P!IInv
<1>2. body \in Seq(Symbols) /\ fed \in Nat
  BY <1>1, BodiesAssumption DEF P!TypeOK
<1>3. out \in Seq(P!Items) /\ taken \in Nat /\ Len(out) - taken \in {0, 1}
  BY <1>1 DEF P!TypeOK
<1>4. ASSUME NEW i \in 1..Len(out), out[i].kind = "error"
      PROVE  i = Len(out) /\ pc = "closed"
  <2>1. \A lo, hi : P!D!Span("frame", lo, hi).kind = "frame"
    BY DEF P!D!Span
  <2>2. QED
    BY <1>4, <2>1 DEF IInv, P!AbsInv, P!Turns, P!Open
<1>5. QED
  BY <1>2, <1>3, <1>4

LEMMA InitInv == Init => IInv
<1> SUFFICES ASSUME Init PROVE IInv
  OBVIOUS
<1>1. P!Init
  BY SameInit DEF Init
<1>2. P!IInv
  BY <1>1, P!InitInv, SameWords, BodiesAssumption, LimitAssumption
<1>3. P!AbsInv
  BY <1>1, P!RefinementInit, P!AbsInitInv, SameWords, BodiesAssumption,
     LimitAssumption
<1>4. Places
  <2>1. emitted = << >> /\ reader \in {"read", "done"}
    BY DEF Init
  <2>2. emitted \in Seq([kind : {"frame"}, lo : Nat, hi : Nat])
    BY <2>1
  <2>3. QED
    BY <2>1, <2>2 DEF Init, Places
<1>5. ReaderShape
  BY <1>1 DEF Init, ReaderShape, P!Init
<1>6. PumpShape
  BY DEF Init, PumpShape
<1>7. Behind
  BY <1>1 DEF Init, Behind, Relayed, P!Init
<1>8. QED
  BY <1>2, <1>3, <1>4, <1>5, <1>6, <1>7 DEF IInv

\* The converter's part of the invariant is kept by every step of the call.
LEMMA ConverterPart ==
  ASSUME IInv, [Next]_vars
  PROVE  P!IInv' /\ P!AbsInv'
<1>1. [P!Next]_(P!vars)
  <2>1. CASE UNCHANGED vars
    BY <2>1 DEF vars, upstream, converter, P!vars
  <2>2. QED
    BY <2>1, ConverterView
<1>2. P!IInv /\ P!AbsInv
  BY DEF IInv
<1>3. QED
  BY <1>1, <1>2, P!StepInv, P!RefinementStep, P!AbsStepInv, SameWords,
     BodiesAssumption, LimitAssumption

-----------------------------------------------------------------------------
(* The readers.                                                            *)

\* The converter goes on sending, and leaves what was relayed as it was.
LEMMA RelayedLasts ==
  ASSUME IInv, Len(out) <= Len(out'), \A i \in 1..Len(out) : out'[i] = out[i],
         UNCHANGED <<emitted, taken, note, pump>>
  PROVE  Behind'
<1>1. taken \in Nat /\ Len(out) \in Nat /\ taken <= Len(out)
  BY OutFacts
<1>2. ASSUME NEW n \in Int, n <= Len(out), Relayed(n) PROVE Relayed(n)'
  BY <1>1, <1>2 DEF Relayed
<1>3. CASE pump = "emit" \/ note # ""
  <2>1. Relayed(taken - 1)
    BY <1>3 DEF IInv, Behind
  <2>2. PICK n \in Int : n = taken - 1
    BY <1>1
  <2>3. Relayed(n)'
    BY <1>1, <1>2, <2>1, <2>2
  <2>4. QED
    BY <1>3, <2>2, <2>3 DEF Behind, Relayed
<1>4. CASE ~ (pump = "emit" \/ note # "")
  <2>1. Relayed(taken)
    BY <1>4 DEF IInv, Behind
  <2>2. PICK n \in Int : n = taken
    BY <1>1
  <2>3. Relayed(n)'
    BY <1>1, <1>2, <2>1, <2>2
  <2>4. QED
    BY <1>4, <2>2, <2>3 DEF Behind, Relayed
<1>5. QED
  BY <1>3, <1>4

\* Nothing of the pump is touched by the upstream.
LEMMA PumpKept ==
  ASSUME IInv, UNCHANGED <<pc, out, taken, delivery, sink>>
  PROVE  PumpShape' /\ Behind'
<1>1. UNCHANGED <<pc, out, taken, pump, note, emitted, stream, sink>>
  BY DEF delivery
<1>2. QED
  BY <1>1 DEF IInv, PumpShape, Behind, Relayed

LEMMA ReadersInv ==
  ASSUME IInv, Read \/ Reader
  PROVE  IInv'
<1> USE DEF call, upstream, converter, delivery
<1>1. UNCHANGED <<source, sink, body, pc, mark, got, out, taken, pump, note,
                  emitted, stream, host>>
  <2>1. CASE BatchItem
    BY <2>1 DEF BatchItem, C!Offer, C!OfferError, C!CloseFeed, C!pending, C!channel
  <2>2. QED
    BY <2>1 DEF Read, Reader, ReadPayload, ReadEnd, ReadError, SendDone, ReaderReturns
<1>2. P!IInv' /\ P!AbsInv'
  BY ConverterPart DEF Next
<1>3. PumpShape' /\ Behind'
  BY <1>1, PumpKept
<1>4. Places' /\ ReaderShape'
  <2>1. ASSUME NEW n \in (fed + 1)..Len(body), NEW done \in BOOLEAN,
               ReadPayload(n, done)
        PROVE  Places' /\ ReaderShape'
    BY <1>1, <2>1 DEF ReadPayload, IInv, Places, ReaderShape
  <2>2. CASE ReadEnd
    BY <1>1, <2>2 DEF ReadEnd, IInv, Places, ReaderShape
  <2>3. CASE ReadError
    BY <1>1, <2>3 DEF ReadError, IInv, Places, ReaderShape
  <2>4. CASE SendDone
    BY <1>1, <2>4, SameWords DEF SendDone, IInv, Places, ReaderShape
  <2>5. CASE ReaderReturns
    BY <1>1, <2>5 DEF ReaderReturns, IInv, Places, ReaderShape
  <2>6. CASE BatchItem
    BY <1>1, <2>6 DEF BatchItem, IInv, Places, ReaderShape
  <2>7. QED
    BY <2>1, <2>2, <2>3, <2>4, <2>5, <2>6 DEF Read, Reader
<1>5. QED
  BY <1>2, <1>3, <1>4 DEF IInv

-----------------------------------------------------------------------------
(* The converter.                                                          *)

\* A step of the converter may send one item, and takes what it is offered.
LEMMA ConverterAppends ==
  ASSUME IInv, Convert
  PROVE  /\ pc # "closed"
         /\ UNCHANGED <<body, fed, feed, taken>>
         /\ in' \in {in, P!Idle}
         /\ Len(out) <= Len(out') /\ \A i \in 1..Len(out) : out'[i] = out[i]
<1>1. P!Converter
  BY SameConverter DEF Convert
<1>2. /\ pc # "closed"
      /\ UNCHANGED <<body, fed, feed, taken>>
      /\ in' \in {in, P!Idle}
      /\ out' = out \/ \E item \in P!Items : out' = Append(out, item)
  <2>1. out \in Seq(P!Items) /\ mark \in Nat /\ got \in Nat
    BY DEF IInv, P!IInv, P!TypeOK
  <2>2. CASE P!SelectCancelled \/ P!RecvClosed \/ P!RecvError \/ P!RecvData \/ P!NoLineLeft
    BY <2>2 DEF P!SelectCancelled, P!RecvClosed, P!RecvError, P!RecvData,
       P!NoLineLeft, P!upstream, P!pending, P!channel
  <2>3. CASE P!TakeLine
    <3>1. PICK k \in (mark + 1)..got :
            P!DropLine(k) \/ P!SendLine(k) \/ P!AbandonLine(k)
      BY <2>3 DEF P!TakeLine
    <3>2. pc = "scan" /\ UNCHANGED <<body, fed, feed, in, taken>>
      BY <2>3 DEF P!TakeLine, P!upstream
    <3>3. CASE P!SendLine(k)
      <4>1. P!Span("frame", mark, P!TextEnd(k)) \in P!Items
        BY <2>1 DEF P!Span, P!Items, P!TextEnd
      <4>2. QED
        BY <3>2, <3>3, <4>1 DEF P!SendLine
    <3>4. CASE P!DropLine(k) \/ P!AbandonLine(k)
      BY <3>2, <3>4 DEF P!DropLine, P!AbandonLine
    <3>5. QED
      BY <3>1, <3>3, <3>4
  <2>4. CASE P!Flush
    <3>1. P!Span("frame", mark, got) \in P!Items
      BY <2>1 DEF P!Span, P!Items
    <3>2. QED
      BY <2>4, <3>1 DEF P!Flush, P!FlushNothing, P!FlushFrame, P!FlushAbandoned,
         P!upstream
  <2>5. CASE P!Report
    <3>1. P!Error \in P!Items
      BY DEF P!Error, P!Span, P!Items
    <3>2. QED
      BY <2>5, <3>1 DEF P!Report, P!ReportError, P!ReportDropped, P!upstream, P!pending
  <2>6. QED
    BY <1>1, <2>2, <2>3, <2>4, <2>5 DEF P!Converter
<1>3. out \in Seq(P!Items)
  BY DEF IInv, P!IInv, P!TypeOK
<1>4. QED
  BY <1>2, <1>3

LEMMA ConvertInv ==
  ASSUME IInv, Convert
  PROVE  IInv'
<1>1. P!IInv' /\ P!AbsInv'
  BY ConverterPart DEF Next
<1>2. UNCHANGED <<source, sink, reader, pump, note, emitted, stream, host>>
  BY DEF Convert, call, delivery
<1>3. /\ pc # "closed"
      /\ UNCHANGED <<body, fed, feed, taken>>
      /\ in' \in {in, P!Idle}
      /\ Len(out) <= Len(out') /\ \A i \in 1..Len(out) : out'[i] = out[i]
  BY ConverterAppends
<1>4. Places'
  BY <1>2 DEF IInv, Places
<1>5. ReaderShape'
  <2>1. P!Idle' = P!Idle
    BY DEF P!Idle, P!Span
  <2>2. QED
    BY <1>2, <1>3, <2>1 DEF IInv, ReaderShape
<1>6. PumpShape'
  <2>1. taken > 0 => taken \in 1..Len(out)
    BY OutFacts
  <2>2. QED
    BY <1>2, <1>3, <2>1 DEF IInv, Places, PumpShape
<1>7. Behind'
  BY <1>2, <1>3, RelayedLasts
<1>8. QED
  BY <1>1, <1>4, <1>5, <1>6, <1>7 DEF IInv

-----------------------------------------------------------------------------
(* The pump.                                                               *)

Frames == [kind : {"frame"}, lo : Nat, hi : Nat]

LEMMA FrameAt ==
  ASSUME IInv, NEW i \in 1..Len(out), out[i].kind = "frame"
  PROVE  out[i] \in Frames
<1>1. out[i] \in P!Items
  BY OutFacts
<1>2. QED
  BY <1>1 DEF Frames, P!Items

\* The item the pump is holding is passed on behind the others.
LEMMA PassOn ==
  ASSUME IInv, NEW n \in Nat, n < Len(out), Relayed(n), out[n + 1].kind = "frame",
         emitted' = Append(emitted, out[n + 1]), out' = out
  PROVE  /\ emitted' \in Seq(Frames)
         /\ Len(emitted') = n + 1
         /\ \A i \in 1..(n + 1) : emitted'[i] = out[i]
<1>1. n + 1 \in 1..Len(out)
  BY OutFacts
<1>2. out[n + 1] \in Frames
  BY <1>1, FrameAt
<1>3. emitted \in Seq(Frames) /\ Len(emitted) = n
  BY DEF IInv, Places, Frames, Relayed
<1>4. /\ emitted' \in Seq(Frames) /\ Len(emitted') = n + 1
      /\ \A i \in 1..n : emitted'[i] = emitted[i]
      /\ emitted'[n + 1] = out[n + 1]
  BY <1>2, <1>3
<1>5. ASSUME NEW i \in 1..(n + 1) PROVE emitted'[i] = out[i]
  <2>1. CASE i \in 1..n
    BY <1>4, <2>1 DEF Relayed
  <2>2. CASE i = n + 1
    BY <1>4, <2>2
  <2>3. i \in 1..n \/ i = n + 1
    OBVIOUS
  <2>4. QED
    BY <2>1, <2>2, <2>3, Zenon
<1>6. QED
  BY <1>4, <1>5

LEMMA PumpInv ==
  ASSUME IInv, Pump
  PROVE  IInv'
<1> USE DEF call, upstream, converter, delivery
<1>1. P!IInv' /\ P!AbsInv'
  BY ConverterPart DEF Next
<1>2. UNCHANGED <<source, sink, reader, body, fed, feed, in, pc, mark, got, out, host>>
  BY DEF Pump, PumpFrame, PumpError, PumpEnd, Emit, EmitFails, CloseStream, Close, Collect
<1>3. ReaderShape'
  BY <1>2 DEF IInv, ReaderShape, P!Idle, P!Span
<1>4. taken \in Nat /\ Len(out) \in Nat /\ taken <= Len(out)
  BY OutFacts
<1>5. Places /\ PumpShape /\ Behind
  BY DEF IInv
<1>6. pump = "recv" => stream = "open"
  BY <1>5 DEF PumpShape, Places
<1>7. CASE PumpFrame
  <2>1. /\ pump = "recv" /\ pump' = "emit" /\ sink = "stream" /\ taken < Len(out)
        /\ taken' = taken + 1 /\ out[taken + 1].kind = "frame"
        /\ UNCHANGED <<note, emitted, stream>>
    BY <1>4, <1>7 DEF PumpFrame, Item, C!Room
  <2>2. note = "" /\ stream = "open"
    BY <1>5, <1>6, <2>1 DEF PumpShape
  <2>3. Places'
    BY <1>2, <1>5, <2>1, <2>2 DEF Places
  <2>4. out'[taken'] = out[taken + 1] /\ taken' > 0 /\ taken' - 1 = taken
    BY <1>2, <1>4, <2>1
  <2>5. PumpShape'
    BY <2>1, <2>2, <2>4 DEF PumpShape
  <2>6. Relayed(taken)
    BY <1>5, <2>1, <2>2 DEF Behind
  <2>7. Behind'
    BY <1>2, <2>1, <2>2, <2>4, <2>6 DEF Behind, Relayed
  <2>8. QED
    BY <1>1, <1>3, <2>3, <2>5, <2>7 DEF IInv
<1>8. CASE PumpError
  <2>1. /\ pump = "recv" /\ pump' = "close" /\ sink = "stream" /\ taken < Len(out)
        /\ taken' = taken + 1 /\ out[taken + 1].kind = "error"
        /\ note' = "upstream" /\ UNCHANGED <<emitted, stream>>
    BY <1>4, <1>8 DEF PumpError, Item, C!Room
  <2>2. note = "" /\ stream = "open"
    BY <1>5, <1>6, <2>1 DEF PumpShape
  <2>3. Places'
    BY <1>2, <1>5, <2>1, <2>2 DEF Places
  <2>4. out'[taken'] = out[taken + 1] /\ taken' > 0 /\ taken' - 1 = taken
    BY <1>2, <1>4, <2>1
  <2>5. PumpShape'
    BY <2>1, <2>2, <2>4 DEF PumpShape
  <2>6. Relayed(taken)
    BY <1>5, <2>1, <2>2 DEF Behind
  <2>7. Behind'
    BY <1>2, <2>1, <2>2, <2>4, <2>6 DEF Behind, Relayed
  <2>8. QED
    BY <1>1, <1>3, <2>3, <2>5, <2>7 DEF IInv
<1>9. CASE PumpEnd
  <2>1. /\ pump = "recv" /\ pump' = "close" /\ pc = "closed" /\ taken = Len(out)
        /\ UNCHANGED <<taken, note, emitted, stream>>
    BY <1>4, <1>9 DEF PumpEnd, C!Room
  <2>2. Places' /\ PumpShape'
    BY <1>2, <1>4, <1>5, <1>6, <2>1 DEF Places, PumpShape
  <2>3. Behind'
    BY <1>2, <1>5, <2>1 DEF Behind, Relayed
  <2>4. QED
    BY <1>1, <1>3, <2>2, <2>3 DEF IInv
<1>10. CASE Emit
  <2>1. /\ pump = "emit" /\ pump' = "recv"
        /\ emitted' = Append(emitted, out[taken])
        /\ UNCHANGED <<taken, note, stream>>
    BY <1>10 DEF Emit
  <2>2. note = "" /\ taken > 0 /\ out[taken].kind = "frame"
    BY <1>5, <2>1 DEF PumpShape
  <2>3. PICK n \in Nat : taken = n + 1
    <3>1. taken > 0
      BY <2>2
    <3>2. taken - 1 \in Nat /\ taken = (taken - 1) + 1
      BY <1>4, <3>1
    <3>3. QED
      BY <3>2
  <2>4. Relayed(n)
    <3>1. Relayed(taken - 1) /\ taken - 1 = n
      BY <1>5, <2>1, <2>3 DEF Behind
    <3>2. QED
      BY <3>1
  <2>5. /\ emitted' \in Seq(Frames)
        /\ Len(emitted') = n + 1
        /\ \A i \in 1..(n + 1) : emitted'[i] = out[i]
    <3>1. n < Len(out) /\ out[n + 1].kind = "frame" /\ out' = out
      <4>1. n < Len(out)
        BY <1>4, <2>3
      <4>2. QED
        BY <1>2, <2>2, <2>3, <4>1
    <3>2. emitted' = Append(emitted, out[n + 1])
      BY <2>1, <2>3
    <3>3. QED
      BY <2>4, <3>1, <3>2, PassOn
  <2>6. Places'
    BY <1>2, <1>5, <2>1, <2>5 DEF Places, Frames
  <2>7. PumpShape'
    BY <1>2, <1>5, <2>1, <2>2 DEF Places, PumpShape
  <2>8. Behind'
    BY <1>2, <2>1, <2>2, <2>3, <2>5 DEF Behind, Relayed
  <2>9. QED
    BY <1>1, <1>3, <2>6, <2>7, <2>8 DEF IInv
<1>11. CASE EmitFails
  <2>1. /\ pump = "emit" /\ pump' = "close" /\ note' = "emit"
        /\ UNCHANGED <<taken, emitted, stream>>
    BY <1>11 DEF EmitFails
  <2>2. Places' /\ PumpShape'
    BY <1>2, <1>4, <1>5, <2>1 DEF Places, PumpShape
  <2>3. Behind'
    BY <1>2, <1>5, <2>1 DEF Behind, Relayed
  <2>4. QED
    BY <1>1, <1>3, <2>2, <2>3 DEF IInv
<1>12. CASE CloseStream
  <2>1. /\ pump = "close"
        /\ \/ pump' = "done" /\ stream' = "closed"
           \/ pump' = "lost" /\ stream' = stream
        /\ UNCHANGED <<taken, note, emitted>>
    BY <1>12 DEF CloseStream, Close
  <2>2. Places' /\ PumpShape'
    BY <1>2, <1>4, <1>5, <2>1 DEF Places, PumpShape
  <2>3. Behind'
    BY <1>2, <1>5, <2>1 DEF Behind, Relayed
  <2>4. QED
    BY <1>1, <1>3, <2>2, <2>3 DEF IInv
<1>13. CASE Collect
  <2>1. /\ pump = "recv" /\ sink = "reply" /\ taken < Len(out)
        /\ taken' = taken + 1 /\ taken + 1 \in 1..Len(out)
        /\ UNCHANGED <<pump, stream>>
    BY <1>4, <1>13 DEF Collect, C!Room
  <2>2. note = "" /\ stream = "open"
    <3>1. note = "" \/ note = "upstream"
      BY <1>5, <2>1 DEF PumpShape
    <3>2. note # "upstream"
      <4>1. SUFFICES ASSUME note = "upstream" PROVE FALSE
        OBVIOUS
      <4>2. taken \in 1..Len(out) /\ out[taken].kind = "error"
        BY <1>4, <1>5, <4>1 DEF PumpShape
      <4>3. taken = Len(out)
        BY <4>2, OutFacts
      <4>4. QED
        BY <1>4, <2>1, <4>3
    <3>3. QED
      BY <1>6, <2>1, <3>1, <3>2
  <2>3. Relayed(taken)
    BY <1>5, <2>1, <2>2 DEF Behind
  <2>4. CASE out[taken + 1].kind = "frame"
    <3>1. emitted' = Append(emitted, out[taken + 1]) /\ note' = ""
      BY <1>13, <2>2, <2>4 DEF Collect, Item
    <3>2. /\ emitted' \in Seq(Frames)
          /\ Len(emitted') = taken + 1
          /\ \A i \in 1..(taken + 1) : emitted'[i] = out[i]
      BY <1>2, <1>4, <2>1, <2>3, <2>4, <3>1, PassOn
    <3>3. Places'
      BY <1>2, <1>5, <2>1, <3>1, <3>2 DEF Places, Frames
    <3>4. PumpShape'
      BY <1>2, <1>5, <2>1, <2>2, <3>1 DEF Places, PumpShape
    <3>5. Behind'
      BY <1>2, <2>1, <3>1, <3>2 DEF Behind, Relayed
    <3>6. QED
      BY <1>1, <1>3, <3>3, <3>4, <3>5 DEF IInv
  <2>5. CASE out[taken + 1].kind # "frame"
    <3>1. note' = "upstream" /\ emitted' = emitted
      BY <1>13, <2>5 DEF Collect, Item
    <3>2. out[taken + 1].kind = "error"
      <4>1. out[taken + 1] \in P!Items
        BY <2>1, OutFacts
      <4>2. QED
        BY <2>5, <4>1 DEF P!Items
    <3>3. Places'
      BY <1>2, <1>5, <2>1, <3>1 DEF Places
    <3>4. out'[taken'] = out[taken + 1] /\ taken' > 0 /\ taken' - 1 = taken
      BY <1>2, <1>4, <2>1
    <3>5. PumpShape'
      BY <1>2, <2>1, <2>2, <3>1, <3>2, <3>4 DEF PumpShape
    <3>6. Behind'
      BY <1>2, <2>1, <2>3, <3>1, <3>4 DEF Behind, Relayed
    <3>7. QED
      BY <1>1, <1>3, <3>3, <3>5, <3>6 DEF IInv
  <2>6. QED
    BY <2>4, <2>5
<1>14. QED
  BY <1>7, <1>8, <1>9, <1>10, <1>11, <1>12, <1>13 DEF Pump

LEMMA StepInv == IInv /\ [Next]_vars => IInv'
<1> SUFFICES ASSUME IInv, [Next]_vars PROVE IInv'
  OBVIOUS
<1> USE DEF call, upstream, converter, delivery
<1>1. CASE Read \/ Reader
  BY <1>1, ReadersInv
<1>2. CASE Convert
  BY <1>2, ConvertInv
<1>3. CASE Pump
  BY <1>3, PumpInv
<1>4. CASE Shutdown \/ Over \/ UNCHANGED vars
  <2>1. UNCHANGED <<source, sink, reader, body, fed, feed, in, pc, mark, got, out,
                    taken, pump, note, emitted, stream>>
    BY <1>4 DEF Shutdown, Over, vars
  <2>2. host' \in {host, "gone"}
    BY <1>4 DEF Shutdown, Over, vars
  <2>3. P!IInv' /\ P!AbsInv'
    BY <1>4, ConverterPart DEF Next
  <2>4. Places'
    BY <2>1, <2>2 DEF IInv, Places
  <2>5. ReaderShape'
    BY <2>1 DEF IInv, ReaderShape, P!Idle, P!Span
  <2>6. PumpShape' /\ Behind'
    BY <2>1 DEF IInv, PumpShape, Behind, Relayed
  <2>7. QED
    BY <2>3, <2>4, <2>5, <2>6 DEF IInv
<1>5. QED
  BY <1>1, <1>2, <1>3, <1>4 DEF Next

\* The invariant holds throughout every streaming call.
THEOREM Invariance == Spec => []IInv
BY InitInv, StepInv, PTL DEF Spec

\* The state keeps its shape; the pump is at most one item behind.
THEOREM TypeCorrect == Spec => []TypeOK
<1>1. IInv => TypeOK
  <2> SUFFICES ASSUME IInv PROVE TypeOK
    OBVIOUS
  <2>1. taken \in Nat
    BY OutFacts
  <2>2. Len(emitted) \in {taken, taken - 1}
    BY DEF IInv, Behind, Relayed
  <2>3. taken - Len(emitted) \in {0, 1}
    BY <2>1, <2>2
  <2>4. QED
    BY <2>3 DEF IInv, Places, TypeOK
<1>2. QED
  BY <1>1, Invariance, PTL

\* The converter of the call is ChunkConverter: all that is proved of it alone,
\* the refinement included, holds of it between these readers and this pump.
THEOREM RunsConverter == Spec => P!Spec
<1>1. Init => P!Init
  BY SameInit DEF Init
<1>2. IInv /\ [Next]_vars => [P!Next]_(P!vars)
  <2>1. UNCHANGED vars => UNCHANGED P!vars
    BY DEF vars, upstream, converter, P!vars
  <2>2. QED
    BY <2>1, ConverterView
<1>3. QED
  BY <1>1, <1>2, Invariance, PTL DEF Spec, P!Spec

-----------------------------------------------------------------------------
(* What the downstream sees.                                               *)

LEMMA SameFrames ==
  /\ \A b, lo, hi : D!IsFrame(b, lo, hi) <=> P!D!IsFrame(b, lo, hi)
  /\ \A b, lo, hi : D!InLongLine(b, lo, hi) <=> P!D!InLongLine(b, lo, hi)
  /\ \A lo, hi : D!WholeLine(lo, hi) <=> P!D!WholeLine(lo, hi)
  /\ \A kind, lo, hi : D!Span(kind, lo, hi) = P!D!Span(kind, lo, hi)
  /\ D!Error = C!Error
BY DEF D!IsFrame, P!D!IsFrame, D!InLongLine, P!D!InLongLine, D!NlFree,
   P!D!NlFree, D!WholeLine, P!D!WholeLine, D!LineStart, P!D!LineStart, D!Span,
   P!D!Span, D!Error, C!Error, C!Span

\* Until the stream is closed the downstream sees what was emitted.
LEMMA ShownOpen == stream = "open" \/ note = "" => Shown = emitted
BY DEF Shown

LEMMA FrameEmitted ==
  ASSUME IInv, NEW i \in 1..Len(emitted)
  PROVE  emitted[i].kind = "frame"
<1>1. emitted \in Seq(Frames)
  BY DEF IInv, Places, Frames
<1>2. emitted[i] \in Frames
  BY <1>1
<1>3. QED
  BY <1>2 DEF Frames

\* A pump that has come to the end without an error has passed on every frame.
LEMMA WholeWhenClean ==
  ASSUME IInv, pump \in {"close", "done", "lost"}, note = ""
  PROVE  feed = "ended" /\ fed = Len(body) /\ D!NoneMissing(Len(body))
<1>1. pc = "closed" /\ taken = Len(out) /\ Relayed(taken)
  BY DEF IInv, PumpShape, Behind
<1>2. \A i \in 1..Len(out) : emitted[i] = out[i] /\ out[i] # P!D!Error
  <2> SUFFICES ASSUME NEW i \in 1..Len(out)
               PROVE  emitted[i] = out[i] /\ out[i] # P!D!Error
    OBVIOUS
  <2>1. emitted[i] = out[i] /\ i \in 1..Len(emitted)
    BY <1>1 DEF Relayed
  <2>2. emitted[i].kind = "frame"
    BY <2>1, FrameEmitted
  <2>3. P!D!Error.kind = "error"
    BY DEF P!D!Error, P!D!Span
  <2>4. QED
    BY <2>1, <2>2, <2>3
<1>3. feed = "ended" /\ fed = Len(body) /\ P!D!NoneMissing(Len(body))
  <2>1. P!CloseIsWhole
    BY P!WholeAtClose, SameWords, BodiesAssumption, LimitAssumption DEF IInv
  <2>2. QED
    BY <1>1, <1>2, <2>1, Zenon DEF P!CloseIsWhole, P!Open
<1>4. ASSUME NEW lo, NEW hi, P!D!Sent(lo, hi) PROVE D!Sent(lo, hi)
  <2>1. PICK i \in 1..Len(out) : out[i] = P!D!Span("frame", lo, hi)
    BY <1>4 DEF P!D!Sent
  <2>2. i \in 1..Len(emitted) /\ emitted[i] = D!Span("frame", lo, hi)
    BY <1>1, <1>2, <2>1, SameFrames DEF Relayed
  <2>3. QED
    BY <2>2, ShownOpen DEF D!Sent
<1>5. QED
  BY <1>3, <1>4, SameFrames DEF P!D!NoneMissing, D!NoneMissing

\* A downstream that is closed without an error has every frame of the body.
THEOREM CompleteWhenClean == Spec => []CleanCloseComplete
<1>1. IInv => CleanCloseComplete
  BY WholeWhenClean DEF CleanCloseComplete, IInv, PumpShape
<1>2. QED
  BY <1>1, Invariance, PTL

-----------------------------------------------------------------------------
(* The call keeps FrameDelivery's promise.                                 *)

\* A frame passed on is one the promise allows next.
LEMMA FrameShown ==
  ASSUME IInv, NEW n \in Nat, n < Len(out), Relayed(n), out[n + 1].kind = "frame",
         emitted' = Append(emitted, out[n + 1]), stream = "open",
         UNCHANGED <<body, fed, feed, note, host, stream>>
  PROVE  D!Next
<1>1. n + 1 \in 1..Len(out) /\ (n + 1) - 1 = n
  BY OutFacts
<1>2. PICK lo \in Nat, hi \in Nat :
        out[n + 1] = P!D!Span("frame", lo, hi) /\ P!InTurn(n, lo, hi)
  <2>1. out[n + 1] # P!D!Error
    BY DEF P!D!Error, P!D!Span
  <2>2. P!Turns
    BY DEF IInv, P!AbsInv
  <2>3. QED
    BY <1>1, <2>1, <2>2 DEF P!Turns
<1>3. Shown = emitted /\ Shown' = emitted'
  BY DEF Shown
<1>4. lo \in 0..Len(body) /\ hi \in 0..Len(body) /\ hi <= fed
  <2>1. lo < hi /\ hi <= fed
    BY <1>2 DEF P!InTurn, P!D!IsFrame
  <2>2. fed <= Len(body) /\ fed \in Nat /\ Len(body) \in Nat
    BY OutFacts DEF IInv, P!IInv, P!Windows
  <2>3. QED
    BY <2>1, <2>2
<1>5. /\ D!IsFrame(body, lo, hi)
      /\ D!WholeLine(lo, hi) \/ D!InLongLine(body, lo, hi)
  BY <1>2, SameFrames DEF P!InTurn
<1>6. \A i \in 1..Len(Shown) : Shown[i].hi <= lo
  BY <1>2, <1>3 DEF Relayed, P!InTurn
<1>7. D!NoneMissing(lo)
  <2> SUFFICES ASSUME NEW h \in 0..lo, NEW l \in 0..h, D!IsFrame(body, l, h),
                      D!WholeLine(l, h), h - l <= Limit
               PROVE  D!Sent(l, h)
    BY DEF D!NoneMissing
  <2>1. P!Owed(l, h)
    BY SameFrames DEF P!Owed
  <2>2. PICK i \in 1..n : out[i] = P!D!Span("frame", l, h)
    BY <1>2, <2>1 DEF P!InTurn, P!SentBy
  <2>3. i \in 1..Len(Shown) /\ Shown[i] = D!Span("frame", l, h)
    BY <1>3, <2>2, SameFrames DEF Relayed
  <2>4. QED
    BY <2>3 DEF D!Sent
<1>8. Shown' = Append(Shown, D!Span("frame", lo, hi))
  BY <1>2, <1>3, SameFrames
<1>9. D!Deliver(lo, hi)
  BY <1>4, <1>5, <1>6, <1>7, <1>8 DEF D!Deliver, GaveUp
<1>10. QED
  BY <1>4, <1>9 DEF D!Next

\* The close carries the error, if there was one.
LEMMA CloseShown ==
  ASSUME IInv, CloseStream
  PROVE  [D!Next]_(D!vars)
<1> USE DEF call, upstream, converter, delivery
<1>1. /\ pump = "close" /\ stream = "open"
      /\ UNCHANGED <<body, fed, feed, note, emitted, host>>
  BY DEF CloseStream, IInv, Places, PumpShape
<1>2. Shown = emitted
  BY <1>1, ShownOpen
<1>3. CASE stream' = stream
  BY <1>1, <1>3 DEF D!vars, Shown, GaveUp
<1>4. CASE stream' = "closed" /\ note = ""
  <2>1. Shown' = Shown
    BY <1>1, <1>2, <1>4 DEF Shown
  <2>2. feed = "ended" /\ D!NoneMissing(fed)
    BY <1>1, <1>4, WholeWhenClean
  <2>3. D!Close
    BY <1>1, <1>4, <2>1, <2>2 DEF D!Close, GaveUp
  <2>4. QED
    BY <1>1, <2>3 DEF D!Next
<1>5. CASE stream' = "closed" /\ note # ""
  <2>1. Shown' = Append(Shown, D!Error)
    BY <1>1, <1>2, <1>5, SameFrames DEF Shown, C!Error, C!Span
  <2>2. CASE note = "emit"
    BY <1>1, <1>5, <2>1, <2>2 DEF D!Next, D!Fail, GaveUp
  <2>3. CASE note = "upstream"
    <3>1. taken \in 1..Len(out) /\ out[taken].kind = "error" /\ Relayed(taken - 1)
      BY <2>3, OutFacts DEF IInv, PumpShape, Behind
    <3>2. taken = Len(out) /\ pc = "closed"
      BY <3>1, OutFacts
    <3>3. out[taken] = P!D!Error
      <4>1. \A lo, hi : P!D!Span("frame", lo, hi).kind = "frame"
        BY DEF P!D!Span
      <4>2. QED
        BY <3>1, <4>1 DEF IInv, P!AbsInv, P!Turns, P!Open
    <3>4. feed = "failed" /\ P!D!NoneMissing(fed)
      BY <3>1, <3>2, <3>3 DEF IInv, P!AbsInv, P!Closes, P!Open
    <3>5. ASSUME NEW lo, NEW hi, P!D!Sent(lo, hi) PROVE D!Sent(lo, hi)
      <4>1. PICK i \in 1..Len(out) : out[i] = P!D!Span("frame", lo, hi)
        BY <3>5 DEF P!D!Sent
      <4>2. i # taken
        BY <3>3, <4>1 DEF P!D!Span, P!D!Error
      <4>3. i \in 1..(taken - 1)
        BY <3>2, <4>1, <4>2, OutFacts
      <4>4. i \in 1..Len(Shown) /\ Shown[i] = D!Span("frame", lo, hi)
        BY <1>2, <3>1, <4>1, <4>3, SameFrames DEF Relayed
      <4>5. QED
        BY <4>4 DEF D!Sent
    <3>6. D!NoneMissing(fed)
      BY <3>4, <3>5, SameFrames DEF P!D!NoneMissing, D!NoneMissing
    <3>7. D!Fail
      BY <1>1, <1>5, <2>1, <3>4, <3>6 DEF D!Fail, GaveUp
    <3>8. QED
      BY <1>1, <3>7 DEF D!Next
  <2>4. QED
    BY <1>5, <2>2, <2>3 DEF IInv, Places
<1>6. QED
  BY <1>1, <1>3, <1>4, <1>5 DEF CloseStream, Close

LEMMA EndToEndStep == IInv /\ [Next]_vars => [D!Next]_(D!vars)
<1> SUFFICES ASSUME IInv, [Next]_vars PROVE [D!Next]_(D!vars)
  OBVIOUS
<1> USE DEF call, upstream, converter, delivery
<1>1. ASSUME UNCHANGED <<body, fed, feed, note, emitted, stream, host>>
      PROVE  UNCHANGED D!vars
  BY <1>1 DEF D!vars, Shown, GaveUp
<1>2. ASSUME UNCHANGED <<body, note, emitted, stream, host>>,
             \/ feed = "open" /\ feed' = feed /\ fed' \in (fed + 1)..Len(body)
             \/ feed = "open" /\ fed' = fed /\ feed' = "failed"
             \/ feed = "open" /\ fed' = fed /\ feed' = "ended" /\ fed = Len(body)
      PROVE  D!Next
  <2>1. UNCHANGED <<Shown, GaveUp>>
    BY <1>2 DEF Shown, GaveUp
  <2>2. QED
    BY <1>2, <2>1 DEF D!Next, D!Feed, D!EndFeed
<1>3. CASE Read
  <2>1. ASSUME NEW n \in (fed + 1)..Len(body), NEW done \in BOOLEAN,
               ReadPayload(n, done)
        PROVE  D!Next
    BY <1>2, <2>1 DEF ReadPayload, IInv, ReaderShape
  <2>2. CASE ReadEnd
    BY <1>1, <2>2 DEF ReadEnd
  <2>3. CASE ReadError
    BY <1>2, <2>3 DEF ReadError, IInv, ReaderShape
  <2>4. QED
    BY <1>3, <2>1, <2>2, <2>3 DEF Read
<1>4. CASE SendDone
  BY <1>1, <1>4 DEF SendDone
<1>5. CASE ReaderReturns
  BY <1>1, <1>2, <1>5 DEF ReaderReturns, IInv, ReaderShape
<1>6. CASE BatchItem
  BY <1>2, <1>6 DEF BatchItem, C!Offer, C!OfferError, C!CloseFeed
<1>7. CASE Convert
  BY <1>1, <1>7, ConverterAppends DEF Convert
<1>8. CASE PumpFrame
  BY <1>1, <1>8 DEF PumpFrame
<1>9. CASE PumpError
  <2>1. stream = "open" /\ note = ""
    BY <1>9 DEF PumpError, IInv, PumpShape, Places
  <2>2. QED
    BY <1>9, <2>1 DEF PumpError, D!vars, Shown, GaveUp
<1>10. CASE PumpEnd
  BY <1>1, <1>10 DEF PumpEnd
<1>11. CASE Emit
  <2>1. /\ pump = "emit" /\ emitted' = Append(emitted, out[taken])
        /\ UNCHANGED <<body, fed, feed, note, host, stream>>
    BY <1>11 DEF Emit
  <2>2. taken \in 1..Len(out) /\ out[taken].kind = "frame" /\ stream = "open"
    <3>1. taken > 0 /\ out[taken].kind = "frame" /\ stream = "open"
      BY <2>1 DEF IInv, PumpShape, Places
    <3>2. QED
      BY <3>1, OutFacts
  <2>3. PICK n \in Nat : n = taken - 1
    BY <2>2
  <2>4. Relayed(n)
    BY <2>1, <2>3 DEF IInv, Behind
  <2>5. n < Len(out) /\ taken = n + 1
    BY <2>2, <2>3
  <2>6. QED
    BY <2>1, <2>2, <2>4, <2>5, FrameShown
<1>12. CASE EmitFails
  <2>1. stream = "open" /\ note = "" /\ note' = "emit"
    BY <1>12 DEF EmitFails, IInv, PumpShape, Places
  <2>2. QED
    BY <1>12, <2>1 DEF EmitFails, D!Next, D!Cancel, Shown, GaveUp
<1>13. CASE CloseStream
  BY <1>13, CloseShown
<1>14. CASE Collect
  <2>1. stream = "open" /\ pump = "recv" /\ taken < Len(out) /\ taken \in Nat
    <3>1. stream = "open" /\ pump = "recv" /\ taken # Len(out)
      BY <1>14 DEF Collect, IInv, PumpShape, Places, C!Room
    <3>2. QED
      BY <3>1, OutFacts
  <2>2. note = ""
    <3>1. SUFFICES ASSUME note = "upstream" PROVE FALSE
      BY <2>1 DEF IInv, PumpShape
    <3>2. taken \in 1..Len(out) /\ out[taken].kind = "error"
      BY <2>1, <3>1 DEF IInv, PumpShape
    <3>3. taken = Len(out)
      BY <3>2, OutFacts
    <3>4. QED
      BY <2>1, <3>3
  <2>3. CASE out[taken + 1].kind = "frame"
    <3>1. /\ emitted' = Append(emitted, out[taken + 1])
          /\ UNCHANGED <<body, fed, feed, note, host, stream>>
      BY <1>14, <2>3 DEF Collect, Item
    <3>2. Relayed(taken)
      BY <2>1, <2>2 DEF IInv, Behind
    <3>3. QED
      BY <2>1, <2>3, <3>1, <3>2, FrameShown
  <2>4. CASE out[taken + 1].kind # "frame"
    BY <1>14, <2>1, <2>2, <2>4 DEF Collect, Item, D!vars, Shown, GaveUp
  <2>5. QED
    BY <2>3, <2>4
<1>15. CASE Shutdown
  BY <1>15 DEF Shutdown, D!Next, D!Cancel, Shown, GaveUp
<1>16. CASE Over \/ UNCHANGED vars
  BY <1>1, <1>16 DEF Over, vars
<1>17. QED
  BY <1>3, <1>4, <1>5, <1>6, <1>7, <1>8, <1>9, <1>10, <1>11, <1>12, <1>13, <1>14,
     <1>15, <1>16 DEF Next, Reader, Pump

\* From the upstream's reads to the host's emits, and to the error of the
\* close, the call does only what FrameDelivery allows; a failed emit or the
\* shutdown counts as its cancellation.
THEOREM KeepsPromise == Spec => EndToEnd
<1>1. Init => D!Init
  BY DEF Init, C!Init, D!Init, Shown, GaveUp
<1>2. QED
  BY <1>1, EndToEndStep, Invariance, PTL DEF Spec, EndToEnd, D!Spec
=============================================================================
