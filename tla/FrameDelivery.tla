--------------------------- MODULE FrameDelivery ---------------------------
(***************************************************************************)
(* What convertChunks promises its caller, whatever the way the upstream   *)
(* cuts the body into chunks: the JSON payloads of the body's data lines,  *)
(* each once and in order, as soon as their line is complete; then a       *)
(* close.  A close without an error means that nothing is missing, unless  *)
(* the context was cancelled.                                              *)
(***************************************************************************)
EXTENDS SseBody

CONSTANT Bodies

VARIABLES
  body,   \* what the upstream sends
  fed,    \* how much of it the upstream has handed over
  feed,   \* "open", "ended" (channel closed) or "failed" (error chunk)
  ctx,    \* "live" or "cancelled"
  out,    \* every item sent to the caller
  open    \* the caller's channel is not closed

vars == <<body, fed, feed, ctx, out, open>>

Error == Span("error", 0, 0)

Sent(lo, hi) == \E i \in 1..Len(out) : out[i] = Span("frame", lo, hi)

\* (lo, hi] is a whole line of what has been received.
WholeLine(lo, hi) ==
  /\ LineStart(body, lo)
  /\ IF hi < fed THEN body[hi + 1] = "nl" ELSE hi = fed /\ feed = "ended"

\* Every frame up to n whose line fits the buffer has been sent.
NoneMissing(n) ==
  \A hi \in 0..n : \A lo \in 0..hi :
    IsFrame(body, lo, hi) /\ WholeLine(lo, hi) /\ hi - lo <= Limit => Sent(lo, hi)

Init ==
  /\ body \in Bodies
  /\ fed = 0 /\ feed = "open"
  /\ ctx = "live"
  /\ out = << >> /\ open = TRUE

Feed ==
  /\ feed = "open"
  /\ fed' \in (fed + 1)..Len(body)
  /\ UNCHANGED <<body, feed, ctx, out, open>>

EndFeed ==
  /\ feed = "open"
  /\ \/ feed' = "failed"
     \/ feed' = "ended" /\ (fed = Len(body) \/ ctx = "cancelled")
  /\ UNCHANGED <<body, fed, ctx, out, open>>

Cancel ==
  /\ ctx' = "cancelled"
  /\ UNCHANGED <<body, fed, feed, out, open>>

\* (lo, hi] is sent once it has arrived, after everything before it.
Deliver(lo, hi) ==
  /\ hi <= fed
  /\ IsFrame(body, lo, hi)
  /\ WholeLine(lo, hi) \/ InLongLine(body, lo, hi)
  /\ \A i \in 1..Len(out) : out[i].hi <= lo
  /\ NoneMissing(lo)
  /\ out' = Append(out, Span("frame", lo, hi))
  /\ \/ open' = open
     \/ open' = FALSE /\ feed = "ended" /\ hi = fed
  /\ UNCHANGED <<body, fed, feed, ctx>>

Close ==
  /\ ctx = "cancelled" \/ (feed = "ended" /\ NoneMissing(fed))
  /\ open' = FALSE
  /\ UNCHANGED <<body, fed, feed, ctx, out>>

Fail ==
  /\ ctx = "cancelled" \/ (feed = "failed" /\ NoneMissing(fed))
  /\ out' = Append(out, Error)
  /\ open' = FALSE
  /\ UNCHANGED <<body, fed, feed, ctx>>

Next ==
  \/ Feed \/ EndFeed \/ Cancel
  \/ /\ open
     /\ \/ \E lo, hi \in 0..Len(body) : Deliver(lo, hi)
        \/ Close
        \/ Fail

Spec == Init /\ [][Next]_vars
=============================================================================
