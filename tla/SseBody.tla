------------------------------ MODULE SseBody ------------------------------
(***************************************************************************)
(* The bytes of one upstream event stream, and what normalizeStreamLine    *)
(* (executor.go) makes of a run of them.                                   *)
(*                                                                         *)
(* A body is a sequence of fragments, the pieces at which a read may split *)
(* the bytes.  "head" opens a data line with the start of a JSON object,   *)
(* "mid" continues it, "tail" completes it; "ctl" is any other text on a   *)
(* line (a comment, an event: line, [DONE], malformed JSON), "nl" is the   *)
(* newline.  A span (lo, hi] of a body b is the fragments b[lo+1]..b[hi].  *)
(***************************************************************************)
EXTENDS Integers, Sequences

CONSTANT Limit  \* pending fragments held without a newline (4<<20 bytes)

ASSUME LimitAssumption == Limit \in Nat

Symbols == {"head", "mid", "tail", "ctl", "nl"}

Span(kind, lo, hi) == [kind |-> kind, lo |-> lo, hi |-> hi]

NlFree(b, lo, hi) == \A k \in (lo + 1)..hi : b[k] # "nl"

\* normalizeStreamLine returns a payload: a data: prefix and one complete
\* JSON object, nothing else.  An object cut short is not valid JSON.
IsFrame(b, lo, hi) ==
  /\ lo < hi
  /\ b[lo + 1] = "head"
  /\ b[hi] = "tail"
  /\ \A k \in (lo + 2)..(hi - 1) : b[k] = "mid"

LineStart(b, lo) == lo = 0 \/ b[lo] = "nl"

\* Some line of b reaching around (lo, hi] has more than Limit fragments.
InLongLine(b, lo, hi) ==
  \E s \in 0..lo : \E e \in hi..Len(b) : e - s > Limit /\ NlFree(b, s, e)
=============================================================================
