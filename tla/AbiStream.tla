----------------------------- MODULE AbiStream -----------------------------
(***************************************************************************)
(* One streaming call through the plugin's C ABI, from the moment the      *)
(* upstream has answered 2xx (cmd/commandcode/abi.go): the reader of the   *)
(* upstream stream, convertChunks (ChunkConverter) and the pump that hands *)
(* the payloads to the host, each a goroutine; and the shutdown that takes *)
(* the host callbacks away under them.                                     *)
(*                                                                         *)
(* Every call enters with context.Background(), which is never cancelled.  *)
(*                                                                         *)
(* The reader is readHostHTTPStream for a stream the host holds ("host"),  *)
(* the goroutine of stdDoer.doStream for a member with a proxy ("proxy"),  *)
(* or there is none and a filled channel takes its place ("batch").  With  *)
(* a stream id the pump emits to the host ("stream"); without one the      *)
(* chunks are collected into the reply ("reply").                          *)
(***************************************************************************)
EXTENDS SseBody

CONSTANT Bodies

ASSUME BodiesAssumption == Bodies \subseteq Seq(Symbols)

VARIABLES
  source, sink,     \* how this call reads, and where it writes
  reader,           \* "read", "send", "last" (send, then return), "done"
  body, fed, feed,  \* as in ChunkConverter
  in, pc, mark, got, out, taken,
  pump,             \* "recv", "emit", "close"; returned: "done", or "lost" if
                    \* its close failed
  note,             \* the error the pump closes with: "", "upstream", "emit"
  emitted,          \* what the host or the reply has received
  stream,           \* the downstream: "open" or "closed"
  host              \* the host callbacks: "up" or "gone"

C == INSTANCE ChunkConverter WITH ctx <- "live"

call      == <<source, sink>>
upstream  == <<body, fed, feed, in>>
converter == <<pc, mark, got, out>>
delivery  == <<pump, note, emitted, stream>>

vars == <<call, reader, upstream, converter, taken, delivery, host>>

Init ==
  /\ C!Init
  /\ source \in {"host", "proxy", "batch"}
  /\ sink \in {"stream", "reply"}
  /\ reader = IF source = "batch" THEN "done" ELSE "read"
  /\ pump = "recv" /\ note = "" /\ emitted = << >> /\ stream = "open"
  /\ host = "up"

-----------------------------------------------------------------------------
(* readHostHTTPStream and stdDoer.doStream's goroutine.  The sends of both *)
(* wait for the converter: the context offers no way out.                  *)

\* A host read needs the callbacks; a proxied body does not.
Reachable == source = "host" => host = "up"

\* Mutant of ReadPayload: a read that carries the last bytes and Done returns
\* before it sends them.
ReadPayloadLosesLast(n, done) ==
  /\ reader = "read" /\ Reachable
  /\ done => n = Len(body)
  /\ in' = IF done THEN in ELSE Span("data", fed, n)
  /\ fed' = n
  /\ reader' = IF done THEN "last" ELSE "send"
  /\ UNCHANGED <<call, body, feed, converter, taken, delivery, host>>

\* A read brings bytes, and perhaps the news that they are the last.
ReadPayload(n, done) ==
  /\ reader = "read" /\ Reachable
  /\ done => n = Len(body)
  /\ in' = Span("data", fed, n)
  /\ fed' = n
  /\ reader' = IF done THEN "last" ELSE "send"
  /\ UNCHANGED <<call, body, feed, converter, taken, delivery, host>>

\* A read finds the body over.
ReadEnd ==
  /\ reader = "read" /\ Reachable
  /\ fed = Len(body)
  /\ reader' = "last"
  /\ UNCHANGED <<call, upstream, converter, taken, delivery, host>>

\* Mutant of ReadError: the reader goes on after it has sent the error.
ReadErrorContinues ==
  /\ reader = "read"
  /\ in' = C!Error
  /\ feed' = "failed"
  /\ reader' = "send"
  /\ UNCHANGED <<call, body, fed, converter, taken, delivery, host>>

\* A read fails: the upstream broke, or the host callbacks are gone.
ReadError ==
  /\ reader = "read"
  /\ in' = C!Error
  /\ feed' = "failed"
  /\ reader' = "last"
  /\ UNCHANGED <<call, body, fed, converter, taken, delivery, host>>

\* The converter took the chunk: read on.
SendDone ==
  /\ reader = "send" /\ in = C!Idle
  /\ reader' = "read"
  /\ UNCHANGED <<call, upstream, converter, taken, delivery, host>>

\* The converter took the last item: close the channel and return.
ReaderReturns ==
  /\ reader = "last" /\ in = C!Idle
  /\ reader' = "done"
  /\ IF feed = "open"
     THEN in' = C!Closed /\ feed' = "ended"
     ELSE UNCHANGED <<in, feed>>
  /\ UNCHANGED <<call, body, fed, converter, taken, delivery, host>>

\* A batch: the next chunk, an error or the end of a channel filled beforehand.
BatchItem ==
  /\ source = "batch"
  /\ \/ \E n \in (fed + 1)..Len(body) : C!Offer(n)
     \/ C!OfferError
     \/ C!CloseFeed
  /\ UNCHANGED <<call, reader, delivery, host>>

Read ==
  \/ \E n \in (fed + 1)..Len(body) : \E done \in BOOLEAN : ReadPayload(n, done)
  \/ ReadEnd
  \/ ReadError

Reader == SendDone \/ ReaderReturns \/ BatchItem

-----------------------------------------------------------------------------
(* convertChunks.                                                          *)

Convert ==
  /\ C!Converter
  /\ UNCHANGED <<call, reader, delivery, host>>

-----------------------------------------------------------------------------
(* pumpABIStream, or the loop of marshalABIStreamResponse.                 *)

Item == out[taken + 1]

PumpFrame ==
  /\ sink = "stream" /\ pump = "recv"
  /\ ~C!Room /\ Item.kind = "frame"
  /\ taken' = taken + 1
  /\ pump' = "emit"
  /\ UNCHANGED <<call, reader, upstream, converter, note, emitted, stream, host>>

PumpError ==
  /\ sink = "stream" /\ pump = "recv"
  /\ ~C!Room /\ Item.kind = "error"
  /\ taken' = taken + 1
  /\ note' = "upstream"
  /\ pump' = "close"
  /\ UNCHANGED <<call, reader, upstream, converter, emitted, stream, host>>

PumpEnd ==
  /\ pump = "recv"
  /\ C!Room /\ pc = "closed"
  /\ pump' = "close"
  /\ UNCHANGED <<call, reader, upstream, converter, taken, note, emitted, stream, host>>

\* Mutant of Emit: the payload is emitted again.
EmitAgain ==
  /\ pump = "emit" /\ host = "up" /\ Len(emitted) < 5
  /\ emitted' = Append(emitted, out[taken])
  /\ UNCHANGED <<call, reader, upstream, converter, taken, pump, note, stream, host>>

Emit ==
  /\ pump = "emit" /\ host = "up"
  /\ emitted' = Append(emitted, out[taken])
  /\ pump' = "recv"
  /\ UNCHANGED <<call, reader, upstream, converter, taken, note, stream, host>>

\* Mutant of EmitFails: the failure is not noted for the close.
EmitFailsQuietly ==
  /\ pump = "emit"
  /\ pump' = "close"
  /\ UNCHANGED <<call, reader, upstream, converter, taken, note, emitted, stream, host>>

\* The client is gone, or the host is: the pump gives up.
EmitFails ==
  /\ pump = "emit"
  /\ note' = "emit"
  /\ pump' = "close"
  /\ UNCHANGED <<call, reader, upstream, converter, taken, emitted, stream, host>>

\* The close of a stream reaches the host, or fails.
Close ==
  \/ /\ sink = "stream" => host = "up"
     /\ stream' = "closed" /\ pump' = "done"
  \/ /\ sink = "stream"
     /\ pump' = "lost" /\ UNCHANGED stream

\* Mutant of CloseStream: the close is made only when there is an error.
CloseStreamOnError ==
  /\ pump = "close" /\ (sink = "stream" => note # "")
  /\ Close
  /\ UNCHANGED <<call, reader, upstream, converter, taken, note, emitted, host>>

\* The deferred host.stream.close, once; an error of it is ignored.
CloseStream ==
  /\ pump = "close"
  /\ Close
  /\ UNCHANGED <<call, reader, upstream, converter, taken, note, emitted, host>>

\* Without a stream id every item is kept for the reply.
Collect ==
  /\ sink = "reply" /\ pump = "recv"
  /\ ~C!Room
  /\ taken' = taken + 1
  /\ IF Item.kind = "frame"
     THEN emitted' = Append(emitted, Item) /\ UNCHANGED note
     ELSE note' = "upstream" /\ UNCHANGED emitted
  /\ UNCHANGED <<call, reader, upstream, converter, pump, stream, host>>

Pump ==
  \/ PumpFrame \/ PumpError \/ PumpEnd
  \/ Emit \/ EmitFails \/ CloseStream
  \/ Collect

-----------------------------------------------------------------------------

\* CommandCodePluginShutdown, whatever is in flight.
Shutdown ==
  /\ host = "up"
  /\ host' = "gone"
  /\ UNCHANGED <<call, reader, upstream, converter, taken, delivery>>

\* The pump has returned: the call is over, its goroutines done or stuck.
Over == pump \in {"done", "lost"} /\ UNCHANGED vars

Next == Read \/ Reader \/ Convert \/ Pump \/ Shutdown \/ Over

Spec == Init /\ [][Next]_vars

\* Goroutines that can run do, and an emit and a close succeed or fail; the
\* upstream may be silent forever.
FairSpec ==
  /\ Spec
  /\ WF_vars(SendDone \/ ReaderReturns)
  /\ WF_vars(Convert)
  /\ WF_vars(Pump)

-----------------------------------------------------------------------------
(* Properties.                                                             *)

TypeOK ==
  /\ source \in {"host", "proxy", "batch"} /\ sink \in {"stream", "reply"}
  /\ reader \in {"read", "send", "last", "done"}
  /\ pump \in {"recv", "emit", "close", "done", "lost"}
  /\ note \in {"", "upstream", "emit"}
  /\ emitted \in Seq([kind : {"frame"}, lo : Nat, hi : Nat])
  /\ stream \in {"open", "closed"} /\ host \in {"up", "gone"}
  /\ taken - Len(emitted) \in {0, 1}

\* What the downstream sees: the payloads, and the error of its close.
Shown ==
  IF stream = "closed" /\ note # "" THEN Append(emitted, C!Error) ELSE emitted

GaveUp == note = "emit"

D == INSTANCE FrameDelivery WITH
       out <- Shown,
       open <- (stream = "open"),
       ctx <- IF GaveUp \/ host = "gone" THEN "cancelled" ELSE "live"

\* From the upstream's reads to the host's emits the call keeps the promise of
\* FrameDelivery; only a failed emit or the shutdown releases it from it.
EndToEnd == D!Spec

\* A downstream that is closed without an error has every frame of the whole
\* body (abi.go:425-428: the deferred close carries whatever went wrong).
CleanCloseComplete ==
  stream = "closed" /\ note = "" =>
    feed = "ended" /\ fed = Len(body) /\ D!NoneMissing(Len(body))

\* Once the upstream is over, the call is, and the downstream closed, unless the
\* pump's one close failed (abi.go:424-457).
CallEnds == (feed # "open") ~> ((pump = "done" /\ stream = "closed") \/ pump = "lost")

\* A call that is over leaves no goroutine behind, unless the pump gave up on
\* an emit: then nobody drains the converter (abi.go:447-454, 392-400).
NothingLeftBehind ==
  pump \in {"done", "lost"} ~> (GaveUp \/ (reader = "done" /\ pc = "closed"))
=============================================================================
