----------------------------- MODULE ErrorBody -----------------------------
(***************************************************************************)
(* The body of a streaming call that the upstream refused: readStreamError *)
(* Body (executor.go) takes chunks until the channel closes, an error, the *)
(* cap or the context's end, while the goroutine behind the channel reads  *)
(* the upstream.  The next member is not tried before it returns (KeyPool, *)
(* where this is the step ReadErrorBody).                                  *)
(*                                                                         *)
(* The channel is fed by readHostHTTPStream ("host"), was filled before by *)
(* the host ("batch") or by stdDoer.doStream, which reads the whole body   *)
(* first ("proxy"), or is nil ("none").                                    *)
(*                                                                         *)
(* A byte is its place in the body.  A script is what the upstream does:   *)
(* item i brings bytes and says "more", "done" (the last read), "error" (a *)
(* report of the upstream) or "fail" (the call itself failed).  Where it   *)
(* stops without an end the upstream stalls: the next read never returns.  *)
(***************************************************************************)
EXTENDS Integers, FiniteSetsExt, SequencesExt

CONSTANTS
  Cap,     \* bytes of the body that are kept
  Scripts  \* what upstreams do: sequences of [n, says]

Endings == {"done", "error", "fail"}

ASSUME ErrorBodyAssumption ==
  /\ Cap \in Nat \ {0}
  /\ Scripts \subseteq Seq([n : Nat, says : {"more"} \cup Endings])
  /\ \A s \in Scripts : \A i \in 1..(Len(s) - 1) : s[i].says # "done"

VARIABLES
  source,  \* what feeds the channel
  script,  \* what its upstream does
  at,      \* items of the script that were read
  live,    \* the context is not cancelled
  reader,  \* "top", "read", "send", "last" (send, then return), "done"
  chan,    \* chunks in the channel, or in the hands of a blocked sender
  stream,  \* the host's stream: "none", "open", "over", "closed" by the plugin
  held,    \* bytes of a proxied body read so far
  body,    \* bytes readStreamErrorBody has
  why      \* why it returned, or "reading"

vars == <<source, script, at, live, reader, chan, stream, held, body, why>>

\* How many bytes the first k items bring.
Before ==
  LET sum[k \in 0..Len(script)] == IF k = 0 THEN 0 ELSE sum[k - 1] + script[k].n
  IN  sum

\* The places of the bytes items i..j bring.
Bytes(i, j) == [b \in 1..(Before[j] - Before[i - 1]) |-> Before[i - 1] + b]

Chunk(payload, err) == [payload |-> payload, err |-> err]

Failed(item) == item.says \in {"error", "fail"}

Init ==
  /\ source \in {"host", "batch", "proxy", "none"}
  /\ script \in Scripts
  /\ at = 0
  /\ live = TRUE
  /\ reader = CASE source = "host" -> "top" [] source = "proxy" -> "read" [] OTHER -> "done"
  /\ chan = IF source = "batch"
            THEN [i \in 1..Len(script) |-> Chunk(Bytes(i, i), Failed(script[i]))]
            ELSE << >>
  /\ stream = IF source = "host" THEN "open" ELSE "none"
  /\ held = << >>
  /\ body = << >>
  /\ why = "reading"

Cancel ==
  /\ live
  /\ live' = FALSE
  /\ UNCHANGED <<source, script, at, reader, chan, stream, held, body, why>>

-----------------------------------------------------------------------------
(* readHostHTTPStream.                                                     *)

\* The top of the loop: a cancelled context closes the host's stream.
ReaderTop ==
  /\ reader = "top"
  /\ IF live THEN reader' = "read" /\ UNCHANGED stream
     ELSE reader' = "done" /\ stream' = "closed"
  /\ UNCHANGED <<source, script, at, live, chan, held, body, why>>

Item == script[at + 1]

\* Mutant of StreamAfter: a read that failed leaves the host's stream open.
StreamAfterForgotten(says) == IF says \in {"error", "done"} THEN "over" ELSE "open"

\* The host's stream after a read.
StreamAfter(says) ==
  CASE says = "more" -> "open" [] says = "fail" -> "closed" [] OTHER -> "over"

\* A read returns: an error wins over the bytes that came with it.
ReadHost ==
  /\ source = "host" /\ reader = "read" /\ at < Len(script)
  /\ at' = at + 1
  /\ stream' = StreamAfter(Item.says)
  /\ IF Failed(Item) THEN reader' = "last" /\ chan' = <<Chunk(<< >>, TRUE)>>
     ELSE IF Item.n = 0
     THEN reader' = (IF Item.says = "done" THEN "done" ELSE "top") /\ UNCHANGED chan
     ELSE /\ reader' = (IF Item.says = "done" THEN "last" ELSE "send")
          /\ chan' = <<Chunk(Bytes(at + 1, at + 1), FALSE)>>
  /\ UNCHANGED <<source, script, live, held, body, why>>

\* The channel has no buffer and the send no other way out.
Sent ==
  /\ reader \in {"send", "last"} /\ chan = << >>
  /\ reader' = IF reader = "send" THEN "top" ELSE "done"
  /\ UNCHANGED <<source, script, at, live, chan, stream, held, body, why>>

-----------------------------------------------------------------------------
(* stdDoer.doStream: io.ReadAll, its error dropped, then a filled channel. *)

Fill(bytes) ==
  /\ reader' = "done"
  /\ chan' = IF bytes = << >> THEN << >> ELSE <<Chunk(bytes, FALSE)>>

ReadProxy ==
  /\ source = "proxy" /\ reader = "read" /\ at < Len(script)
  /\ at' = at + 1
  /\ held' = held \o Bytes(at + 1, at + 1)
  /\ IF Item.says = "more" THEN UNCHANGED <<reader, chan>> ELSE Fill(held')
  /\ UNCHANGED <<source, script, live, stream, body, why>>

\* The transport gives up a body whose context is over.
ProxyCancelled ==
  /\ source = "proxy" /\ reader = "read" /\ ~live
  /\ Fill(held)
  /\ UNCHANGED <<source, script, at, live, stream, held, body, why>>

-----------------------------------------------------------------------------
(* readStreamErrorBody.                                                    *)

\* A proxied call returns its channel only when the body has been read.
Waiting == why = "reading" /\ (source = "proxy" => reader = "done")

NoChannel ==
  /\ Waiting /\ source = "none"
  /\ why' = "closed"
  /\ UNCHANGED <<source, script, at, live, reader, chan, stream, held, body>>

SeeCancelled ==
  /\ Waiting /\ source # "none" /\ ~live
  /\ why' = "cancelled"
  /\ UNCHANGED <<source, script, at, live, reader, chan, stream, held, body>>

\* Mutant of SeeClosed: a closed channel is taken for an empty chunk.
SeeClosedAsEmpty == UNCHANGED vars

SeeClosed ==
  /\ Waiting /\ source # "none" /\ chan = << >> /\ reader = "done"
  /\ why' = "closed"
  /\ UNCHANGED <<source, script, at, live, reader, chan, stream, held, body>>

\* Mutants of Kept: a payload is kept whole; one beyond the cap is dropped.
KeptWhole(payload) == payload

KeptIfFits(payload) == IF Len(payload) <= Cap - Len(body) THEN payload ELSE << >>

Kept(payload) == SubSeq(payload, 1, Min({Len(payload), Cap - Len(body)}))

Take ==
  /\ Waiting /\ chan # << >>
  /\ chan' = Tail(chan)
  /\ body' = body \o Kept(Head(chan).payload)
  /\ CASE Len(Head(chan).payload) > Cap - Len(body) -> why' = "cap"
       [] Len(Head(chan).payload) <= Cap - Len(body) /\ Head(chan).err -> why' = "error"
       [] Len(Head(chan).payload) = Cap - Len(body) /\ ~Head(chan).err -> why' = "cap"
       [] OTHER -> UNCHANGED why
  /\ UNCHANGED <<source, script, at, live, reader, stream, held>>

-----------------------------------------------------------------------------

Reader == ReaderTop \/ ReadHost \/ Sent \/ ReadProxy \/ ProxyCancelled

Body == NoChannel \/ SeeCancelled \/ SeeClosed \/ Take

\* It has returned; the reader may be done or blocked for good.
Returned == why # "reading" /\ UNCHANGED vars

Next == Reader \/ Body \/ Cancel \/ Returned

Spec == Init /\ [][Next]_vars

\* Both goroutines run; what the upstream does not do is not in the script.
FairSpec == Spec /\ WF_vars(Reader) /\ WF_vars(Body)

-----------------------------------------------------------------------------
(* Properties.                                                             *)

\* The first item that fails, or the last: nothing after it is taken.
LastItem ==
  LET failing == {i \in 1..Len(script) : Failed(script[i])}
  IN  IF failing = {} THEN Len(script) ELSE Min(failing)

\* The bytes the channel brings before it ends, in their order.
Offered ==
  IF source = "none" THEN << >>
  ELSE IF source = "host" /\ LastItem > 0 /\ Failed(script[LastItem])
  THEN Bytes(1, LastItem - 1)
  ELSE Bytes(1, LastItem)

\* The shape of the state: the body never grows beyond its cap, and an
\* unbuffered channel holds one chunk (executor.go:458, abi.go:367).
TypeOK ==
  /\ source \in {"host", "batch", "proxy", "none"}
  /\ script \in Scripts /\ at \in 0..Len(script)
  /\ live \in BOOLEAN
  /\ reader \in {"top", "read", "send", "last", "done"}
  /\ stream \in {"none", "open", "over", "closed"}
  /\ source # "batch" => Len(chan) <= 1
  /\ Len(held) <= Len(Bytes(1, at))
  /\ Len(body) <= Cap
  /\ why \in {"reading", "closed", "error", "cap", "cancelled"}

\* The body is the beginning of what the upstream sent, each byte once; and
\* under a live context all of it, the bytes of a chunk that carries the error
\* too, or as much as the cap allows (executor.go:463-483).
BodyComplete ==
  /\ IsPrefix(body, Offered)
  /\ why # "reading" /\ live => Len(body) = Cap \/ body = Offered

\* The upstream ends, or it has sent the whole cap through the channel.
Enough ==
  \/ source \in {"batch", "none"}
  \/ \E i \in 1..Len(script) : script[i].says \in Endings
  \/ source = "host" /\ Len(Offered) >= Cap

\* The failover waits for a refusal's body no longer than the upstream sends it
\* or the cap lasts, and not at all once the context is over; it does wait, for
\* want of a timeout, on an upstream that stalls (executor.go:464-466).
ReturnsInTime == (why = "reading" /\ (Enough \/ ~live)) ~> why # "reading"

\* A body read to its end or its error leaves no goroutine and no stream of the
\* host's open behind (abi.go:380-404).  One given up at the cap or by the
\* context does: nobody takes the next chunk.
NothingLeftBehind ==
  why \in {"closed", "error"} ~> (reader = "done" /\ stream # "open")
=============================================================================
