--------------------------- MODULE ChunkConverter ---------------------------
(***************************************************************************)
(* convertChunks (executor.go): the goroutine between the upstream chunk   *)
(* channel and the caller's channel of payloads.  The upstream hands over  *)
(* a body in chunks cut anywhere; the goroutine buffers until a newline    *)
(* completes a line, drops what is not a data line, sends the rest over a  *)
(* channel of one slot and selects on the context at every wait.           *)
(*                                                                         *)
(* Chunks and payloads are spans of the body.  The pending buffer is the   *)
(* span (mark, got].  out is everything ever sent on the caller's channel, *)
(* taken how much of it the caller has received.                           *)
(***************************************************************************)
EXTENDS SseBody

CONSTANT Bodies  \* the bodies the upstream may send

ASSUME BodiesAssumption == Bodies \subseteq Seq(Symbols)

VARIABLES
  body, fed, feed,  \* upstream: what it sends, how far it is, how it ended
  ctx,              \* the request context: "live" or "cancelled"
  in,               \* the item the upstream is offering on its channel
  pc,               \* "select", "scan", "flush", "report", "closed"
  mark, got,        \* the pending buffer
  out, taken        \* the caller's channel

vars == <<body, fed, feed, ctx, in, pc, mark, got, out, taken>>

upstream == <<body, fed, feed>>
pending  == <<mark, got>>
channel  == <<out, taken>>

Idle   == Span("idle", 0, 0)
Closed == Span("closed", 0, 0)
Error  == Span("error", 0, 0)

\* Mutant of Room: a channel of two slots.
RoomForTwo == Len(out) - taken <= 1

\* The caller's channel has one slot.
Room == Len(out) = taken

\* Mutants of Break: the last newline instead of the first; no guard against a
\* line that never ends.
BreakAtLast(k) ==
  \/ body[k] = "nl" /\ NlFree(body, k, got)
  \/ k = got /\ NlFree(body, mark, k) /\ got - mark > Limit

BreakUnbounded(k) == body[k] = "nl" /\ NlFree(body, mark, k - 1)

\* The next line to take off the buffer ends at k: at the first newline or,
\* in a buffer over the limit without one, at its end.
Break(k) ==
  \/ body[k] = "nl" /\ NlFree(body, mark, k - 1)
  \/ k = got /\ NlFree(body, mark, k) /\ got - mark > Limit

\* The line's text, without its newline.
TextEnd(k) == IF body[k] = "nl" THEN k - 1 ELSE k

Init ==
  /\ body \in Bodies
  /\ fed = 0 /\ feed = "open"
  /\ ctx = "live"
  /\ in = Idle
  /\ pc = "select"
  /\ mark = 0 /\ got = 0
  /\ out = << >> /\ taken = 0

-----------------------------------------------------------------------------
(* The channel's other ends: the upstream, the caller and its context.     *)

Offer(n) ==
  /\ feed = "open" /\ in = Idle
  /\ in' = Span("data", fed, n)
  /\ fed' = n
  /\ UNCHANGED <<body, feed, ctx, pc, pending, channel>>

OfferError ==
  /\ feed = "open" /\ in = Idle
  /\ in' = Error
  /\ feed' = "failed"
  /\ UNCHANGED <<body, fed, ctx, pc, pending, channel>>

\* A reader that sees the cancellation closes its channel early.
CloseFeed ==
  /\ feed = "open" /\ in = Idle
  /\ fed = Len(body) \/ ctx = "cancelled"
  /\ in' = Closed
  /\ feed' = "ended"
  /\ UNCHANGED <<body, fed, ctx, pc, pending, channel>>

Cancel ==
  /\ ctx = "live"
  /\ ctx' = "cancelled"
  /\ UNCHANGED <<upstream, in, pc, pending, channel>>

Drain ==
  /\ taken < Len(out)
  /\ taken' = taken + 1
  /\ UNCHANGED <<upstream, ctx, in, pc, pending, out>>

-----------------------------------------------------------------------------
(* The main select.                                                        *)

SelectCancelled ==
  /\ pc = "select" /\ ctx = "cancelled"
  /\ pc' = "report"
  /\ UNCHANGED <<upstream, ctx, in, pending, channel>>

\* Mutant of RecvClosed: the closed channel is read as an empty chunk.
RecvClosedAsEmpty ==
  /\ pc = "select" /\ in = Closed
  /\ pc' = "scan"
  /\ UNCHANGED <<upstream, ctx, in, pending, channel>>

RecvClosed ==
  /\ pc = "select" /\ in = Closed
  /\ pc' = "flush"
  /\ UNCHANGED <<upstream, ctx, in, pending, channel>>

RecvError ==
  /\ pc = "select" /\ in.kind = "error"
  /\ pc' = "report"
  /\ in' = Idle
  /\ UNCHANGED <<upstream, ctx, pending, channel>>

RecvData ==
  /\ pc = "select" /\ in.kind = "data"
  /\ pc' = "scan"
  /\ got' = in.hi
  /\ in' = Idle
  /\ UNCHANGED <<upstream, ctx, mark, channel>>

-----------------------------------------------------------------------------
(* Taking the complete lines off the buffer; emit selects on the context.  *)

DropLine(k) ==
  /\ ~IsFrame(body, mark, TextEnd(k))
  /\ mark' = k
  /\ UNCHANGED <<pc, out>>

SendLine(k) ==
  /\ IsFrame(body, mark, TextEnd(k))
  /\ Room
  /\ out' = Append(out, Span("frame", mark, TextEnd(k)))
  /\ mark' = k
  /\ UNCHANGED pc

AbandonLine(k) ==
  /\ IsFrame(body, mark, TextEnd(k))
  /\ ctx = "cancelled"
  /\ pc' = "closed"
  /\ UNCHANGED <<mark, out>>

TakeLine ==
  /\ pc = "scan"
  /\ \E k \in (mark + 1)..got :
       /\ Break(k)
       /\ DropLine(k) \/ SendLine(k) \/ AbandonLine(k)
  /\ UNCHANGED <<upstream, ctx, in, got, taken>>

NoLineLeft ==
  /\ pc = "scan"
  /\ ~\E k \in (mark + 1)..got : Break(k)
  /\ pc' = "select"
  /\ UNCHANGED <<upstream, ctx, in, pending, channel>>

-----------------------------------------------------------------------------
(* The end of the stream: the remainder, or the terminal error.            *)

FlushNothing ==
  /\ ~IsFrame(body, mark, got)
  /\ UNCHANGED <<mark, out>>

FlushFrame ==
  /\ IsFrame(body, mark, got)
  /\ Room
  /\ out' = Append(out, Span("frame", mark, got))
  /\ mark' = got

FlushAbandoned ==
  /\ IsFrame(body, mark, got)
  /\ ctx = "cancelled"
  /\ UNCHANGED <<mark, out>>

Flush ==
  /\ pc = "flush"
  /\ FlushNothing \/ FlushFrame \/ FlushAbandoned
  /\ pc' = "closed"
  /\ UNCHANGED <<upstream, ctx, in, got, taken>>

\* emitError: the slot is tried once more after a cancellation.
ReportError ==
  /\ Room
  /\ out' = Append(out, Error)

\* Mutant of ReportDropped: a bare send after the cancellation.
ReportBlocks == FALSE

ReportDropped ==
  /\ ~Room
  /\ ctx = "cancelled"
  /\ UNCHANGED out

Report ==
  /\ pc = "report"
  /\ ReportError \/ ReportDropped
  /\ pc' = "closed"
  /\ UNCHANGED <<upstream, ctx, in, pending, taken>>

-----------------------------------------------------------------------------

Environment ==
  \/ \E n \in (fed + 1)..Len(body) : Offer(n)
  \/ OfferError
  \/ CloseFeed
  \/ Cancel
  \/ Drain

Converter ==
  \/ SelectCancelled \/ RecvClosed \/ RecvError \/ RecvData
  \/ TakeLine \/ NoLineLeft
  \/ Flush \/ Report

\* The goroutine has returned and the caller has read its channel empty.
Terminated == pc = "closed" /\ Room /\ UNCHANGED vars

Next == Environment \/ Converter \/ Terminated

Spec == Init /\ [][Next]_vars

\* The Go scheduler runs a goroutine that can run; the upstream may stall
\* and the caller may stop reading.
FairSpec == Spec /\ WF_vars(Converter)

\* A caller that keeps reading, as pumpABIStream's loop does.
KeepsReading == WF_vars(Drain)

-----------------------------------------------------------------------------
(* Properties.                                                             *)

Items == [kind : {"frame", "error"}, lo : Nat, hi : Nat]

\* The shape of the state; the caller's channel never holds two items.
TypeOK ==
  /\ body \in Bodies
  /\ fed \in 0..Len(body) /\ feed \in {"open", "ended", "failed"}
  /\ ctx \in {"live", "cancelled"}
  /\ in \in [kind : {"idle", "data", "closed", "error"}, lo : Nat, hi : Nat]
  /\ pc \in {"select", "scan", "flush", "report", "closed"}
  /\ mark \in Nat /\ got \in Nat
  /\ out \in Seq(Items)
  /\ taken \in Nat /\ Len(out) - taken \in {0, 1}

\* While the goroutine waits for more bytes it holds no complete line back
\* and no more than Limit fragments of an incomplete one (executor.go:273-290).
NothingHeldBack ==
  pc = "select" =>
    /\ NlFree(body, mark, got)
    /\ got - mark <= Limit

\* convertChunks delivers the frames of the body as FrameDelivery says,
\* whatever the chunking, the caller's pace and the moment of cancellation.
D == INSTANCE FrameDelivery WITH open <- (pc # "closed")

Delivers == D!Spec

\* "cancellation must still let this goroutine terminate rather than block on
\* error delivery" (executor.go:236-237), even if the caller stopped reading.
CancelTerminates == (ctx = "cancelled") ~> (pc = "closed")

\* Once the upstream is over, a caller that keeps reading sees the close.
EndTerminates ==
  KeepsReading => ((feed # "open") ~> (pc = "closed" /\ Room))

\* The one slot "lets a terminal cancellation error be reported even when the
\* caller stops draining the stream" (executor.go:225-226): a stream that ends
\* before its upstream did, with the slot free, ends in an error.
CancellationReported ==
  [][pc # "closed" /\ pc' = "closed" /\ in # Closed /\ Room
       => Len(out') > Len(out) /\ out'[Len(out')] = Error]_vars
=============================================================================
