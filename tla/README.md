# Verification of cpa-plugin-commandcode

TLA+ models of the plugin, model-checked with TLC on small instances, and
theorems about them checked with TLAPS for every value of their constants.

## The system

The plugin is a C shared library in the process of CLIProxyAPI (the *host*). The
host calls it through one C entry point; the plugin calls back for HTTP and for
streaming its answer. A chat request is claimed by model name, its model is
rewritten to the vendor's name, a key is drawn from a pool, the request is POSTed
(by the host's HTTP client or through the key's own proxy), and the answer is
normalized and handed back, whole or as a stream.

| Component | State | Operations | Correct means |
|---|---|---|---|
| Stream converter (`executor.go` `convertChunks`, `normalizeStreamLine`) | pending buffer, channel of one slot | receive a chunk, take lines, emit, report an error, flush, stop on cancellation | every payload once, whole, in order, as soon as its line is complete; a clean close only when nothing is missing; bounded buffer; never stuck after a cancellation |
| ABI streaming call (`cmd/commandcode/abi.go`, reader of `pool.go`) | reader, converter and pump goroutines; host pointer | read, emit, close, shutdown | the same promise end to end; the downstream closed once, with the error if there was one; no goroutine left behind |
| Key pool and failover (`pool.go`, `executor.go` `Execute`, `ExecuteStream`, `HttpRequest`) | cached proxy clients, one loop per request | resolve members, draw an order, obtain a client, call, fail over | no member twice, no useless retry, no member forgotten; a key only by its own proxy; disabled keys never |
| Weighted order (`pool.go` `order`) | members drawn and remaining | draw | a permutation, with the odds of the weights |
| Model mapping (`config.go`, `router.go`, `translator.go`, `models.go`, `setStreamFlag`) | tables `claimed`, `rewrites` | index, route, translate, set the stream flags, advertise | a model with a vendor name leaves with it, the rest of the body as it came but for the flags; what is advertised and has a stem is routed |
| ABI lifecycle (`abi.go`) | current plugin, host | init, register, reconfigure, shutdown, callbacks | calls use the newest configuration installed before them; a host that is gone is called at most once more by each thread and goroutine |
| Stream error body (`executor.go` `readStreamErrorBody`, the readers behind it) | body so far, channel, reader, host stream | take a chunk, cap, give up | the body complete or capped; the failover not held longer than the upstream sends; nothing left behind by a body read to its end |
| Reasoning backfill and framing (`reasoning.go`, `normalizeStreamLine`, `TranslateResponse`) | none; the payloads handed out | strip, backfill, frame, translate again | each document once, framed for its route, every message with its own thinking once, however often it is mapped |
| Token estimate, usage probe, envelopes, YAML, packaging | none, or a file | pure conversions and I/O | see "Not modelled" |

Interaction: `ExecuteStream` (key pool) ends with a 2xx stream, whose chunks go
reader → converter → pump → host, over an unbuffered channel and a channel of one
slot. Requests run at the same time and share the cached clients. The host
pointer is shared by every goroutine and taken away by the shutdown.

A streaming POST that is refused (not 2xx) ends in `readStreamErrorBody` before
the next member is tried. A reconfiguration replaces plugin, tables and pool at
once; calls that began before it go on with theirs.

Hard behaviour: the cutting of the body into chunks; `select` with several cases
ready; the error against the full slot; a consumer that stops; `context.Background()`
as the context of every ABI call; the shutdown under running goroutines; the
cache shared by requests; failover over failures of different kinds. The list,
with lines, is in `PROJECT.json` under `hazards`.

## Modules

| Module | Models | Correspondence |
|---|---|---|
| `SseBody` | bytes of a body | A body is a sequence of fragments: a data line is `head mid* tail` (an object opened, continued, completed), `ctl` is any other text, `nl` the newline. A chunk, a buffer and a payload are spans of the body. `IsFrame` says when `normalizeStreamLine` returns a payload |
| `FrameDelivery` | the promise (abstract) | frames are delivered in order, none before its line is complete unless the line is over the limit, none skipped that fits the limit; `Close` only when nothing is missing, `Fail` after a failed feed, both at any time once the context is over |
| `ChunkConverter` | `convertChunks` | `pc` is the place in the goroutine (`select`, `scan` the inner loop, `flush`, `report`), `(mark, got]` is `pending`, `in` the item offered on the upstream channel, `out` everything ever sent and `taken` how much of it was received: the slot is free when they agree. One action per case of each `select` |
| `AbiStream` | one streaming ABI call | INSTANCEs `ChunkConverter` with a context that is never cancelled; adds the reader (`reader`), the pump (`pump`, "lost" after a close that failed), the downstream (`stream`, `emitted`, `note` the error to close with) and the host pointer (`host`). `source` chooses host stream, proxied body or batch, `sink` a stream id or a collected reply |
| `KeyPool` | `members`, `clientFor`, `retryable`, the loops, the envelope | one request per name in `Requests`; `log` is the history of its attempts with key, route and outcome; `pools` holds for each configuration so far its keys and the clients cached under its lock (`Blank`, the empty string, where none is), `mine` the one a request began with; `Reply` is what the host reads |
| `ErrorBody` | `readStreamErrorBody` and what feeds it | `source` is the kind of channel; `reader` the place in `readHostHTTPStream` or in `stdDoer.doStream`; `chan` the channel, or the chunk a blocked sender holds; `script` what the upstream does and `at` how far it has come; `why` the way out taken |
| `Payload` | `mapReasoningBody`, `normalizeStreamLine`, `apply`, `TranslateResponse` | `sent` the lines of the upstream, `frames` what the host has; a document is its choices, a text its tokens |
| `AbiLifecycle` | `abiState`: init, register, shutdown, `currentPlugin`, `callHost` | one call of the host per name in `Inits`, `Registers`, `Uses`, `Shutdowns`, and in `Goroutines` the readers and pumps the uses start (`Go`), each with a place `pc`; uses and goroutines are the *callers* of the host; the `RWMutex` is explicit (`readers`, `writer`, `queued`); `before` records which calls had been answered when one began, `parent` the caller in whose callback the host made it, until it returns; `mine` is the plugin a use took (`Unread` before), `via` the host a caller has read and is about to call, `late` counts for each caller and host the callbacks made to a host that had seen its shutdown return |
| `WeightedOrder` | `order` | a round of the outer loop is a step, the random number a free choice below the total |
| `ModelMap` | `buildIndexes`, `owned`, `modelFromBody`, `normalizeRequestModel`, `setStreamFlag`, `registryModels` | an entry a step; then a request, its body whole or cut off, is routed, translated any number of times, sent for a stream or not (`streams`); `came` is the body as it came |
| `NaturalLemmas` | | the least-number principle, induction up to a bound, "n different numbers of `1..n` are all of them": shared by the proofs |
| `ChunkConverterProofs` (with `FrameDelivery`), `AbiStreamProofs`, `KeyPoolProofs`, `AbiLifecycleProofs`, `WeightedOrderProofs`, `ErrorBodyProofs`, `TranslatorProofs` (`ModelMap` and `Payload`) | | theorems, see "Proofs" |

`MC*` modules only give constants their values. A definition named "Mutant of X"
is X with a plausible bug; `PROJECT.json` pairs it with the property it breaks.

### Abstractions

* Fragments, not bytes. A chunk may end between any two fragments, so an object
  can be cut inside. White space, stacked `data:` prefixes and the reasoning
  backfill do not change whether a line is a payload and are left out. Empty
  chunks change nothing and are left out. `[DONE]` and comments are `ctl`.
* The upstream of `ChunkConverter` may offer anything in any pieces, fail at any
  time, or close early after a cancellation, as the reader of `stdDoer.doStream`
  does.
* In `AbiStream` an emit, and the one close of the downstream, is a step that
  succeeds or fails, the host up or gone. The pointer to the host is read at that
  step: the window between the read and the call is `AbiLifecycle`'s, which says
  how often a host that is gone may be called. What happens inside a host call that
  overlaps the shutdown is the host's.
* In `AbiLifecycle` any method that takes the plugin is a *use*: what it does in
  between is `KeyPool`'s and `AbiStream`'s matter; here its thread makes callbacks one
  at a time, may start goroutines at any point that make theirs beside it, and ends
  at any point, with a result or an error. A goroutine outlives it, and ends at any
  point or never. How many a use starts is left open (a reader for each stream the
  host opens, at most one pump). A request that does not
  decode inside a use is one of these ends. Quiesce and the method named shutdown
  answer at once and touch nothing; only the exported shutdown function clears the
  state.
* In `KeyPool` an upstream answer is a status or `Transport`; a body that fails to
  be read is `Transport`, as in `stdDoer.do`. `HttpRequest` takes the first member
  of the pool and no order. Keys from the request's attributes and from its
  metadata are one case.
* In `KeyPool` a reconfiguration is one step: `AbiLifecycle` shows that a call finds
  the newest plugin. Malformed YAML is the empty configuration, as `parseConfig`
  drops the error. Over the ABI no context is ever cancelled and the host always
  gives a client; both are kept for callers of the package.
* In `ErrorBody` a byte is its place in the body. Closing the host's stream and
  handing on the error are one step. An upstream that stalls is a script without
  an end. A chunk of a batch may carry an error, which a host could send.
* In `Payload` white space is one token. A field that is null, and details or a
  `reasoning` of another type, count as absent; a `reasoning_content` of another
  type is a text that shows something (its JSON), so it is kept. `strings.Contains "reasoning"` and the
  validity checks only skip documents the mapping leaves alone. Where details and
  string both carry thinking they mirror each other, as `reasoning.go:17` says was
  observed: an assumption on the documents. A key that occurs twice is left out.
* In `ModelMap` a name is a directory, a stem, a tag and a case. The body of no
  bytes passes everywhere untouched; an object of no members, and one that is not
  the body of a chat (an array, a number), is left out. Of `stream_options` only
  that it asks for the usage is followed: what else the client wrote in an object
  there stays beside it. Only formats that
  are rewritten are followed; `TranslateRequest` passes others through. The
  scanned bytes are the strings and the marks between them, and a cut falls between
  two of these: a string cut open yields nothing, as its absence does. A string
  with an escaped quote is left out. The executor is asked for the model the
  router was.

## Runs

| Run | Question | Bounds | Result |
|---|---|---|---|
| `converter` | does `convertChunks` implement `FrameDelivery`, with its buffer and channel in bounds? does a cancellation end it, and a caller that keeps reading get to the close? | `Limit` 2; all 156 bodies of at most 3 fragments and 5 of 6 or 7 | holds |
| `converter_cancel_report` | is a cancellation reported when the slot is free? | the 5 long bodies | violated, see "Findings" |
| `abi_stream` | is the promise kept end to end, is a clean close complete, does a call end, and what does it leave behind? | 4 bodies, all sources and sinks, a shutdown anywhere | holds |
| `key_pool` | who is tried, how, what does the host read, and is every request answered? | 2 requests, one of 6 kinds of call, 6 configurations of at most 3 members, 1 reconfiguration to one of 3, 3 statuses | holds |
| `abi_lifecycle` | which configuration does a call run on, what does a host hear after the shutdown, is the lock ever held across a callback? | 2 inits, 2 registers, 1 use, 2 goroutines, 1 shutdown; any number of callbacks | holds |
| `abi_lifecycle_live` | is every call answered, nested ones too? | 1 init, 1 register, 2 uses, 1 goroutine, 1 shutdown; any number of callbacks | holds |
| `weighted_order` | is the draw a permutation, and fair? | at most 3 members, weights -1, 0, 1, 2, 5 | holds |
| `model_map` | is a request taken for a name it holds, does it leave with a served name, its flags set and the rest as it came, and is what is advertised routed? | all lists of at most 2 of 15 entries, 7 names asked, 26 bodies cut anywhere, sent for a stream or not | holds |
| `model_spellings` | is a vendor name sent as itself? | the same lists, bodies that name one model | violated |
| `model_defaults` | are the documented default aliases routed? | the built-in list | violated |
| `error_body` | is the body complete or capped, is the failover held, what is left behind? | cap 3, chunks of 0, 1, 2 or 4 bytes, all scripts of 2 items and those of 3 that go on | holds |
| `payload` | does the thinking arrive, once, in its place and frame, translated again or not? | 2 lines, 2 prefixes, documents of one choice with any message over 4 texts, of two with few | holds |

Why the bounds are enough. With `Limit` 2 a frame can be exactly at the limit
(`head tail`), over it (`head mid tail`) or follow an overlong run in its own line,
and a line over the limit needs only three fragments; the short bodies hold every
malformed line of that size, the long ones two frames in one chunk, a frame
without its newline, a cut before, inside and after a frame. Three frames in
`AbiStream` fill slot, converter and reader at once, which is where a pump that
gave up leaves them stuck. In `KeyPool` two requests are what it takes for one to
build the client another finds; the configurations put a disabled entry before
two proxied ones (so that the index of a member and of its entry differ), mix
host and proxy, and cover the unusable, disabled, blank and absent pool. In
`AbiLifecycle` two registers are what it takes for one to supersede the other, two
goroutines beside the thread of the call for a reader and a pump that are both
about to call when the shutdown returns, and two uses for a call nested in a
callback of another. Two entries in `ModelMap` are what
it takes for one to overwrite the other; the bodies put a nested `model`, or the
word as a value, before and after the model, and flags the client has set, wrongly,
twice or as another type. Of the statuses in `KeyPool` 401 stands
for those that fail over (401, 429, 5xx), 400 for those that do not. One
reconfiguration is what it takes to leave a request with the pool of another; it
goes to a pool whose second member has another proxy than the cached client of the
old one's, to a disabled key and to no pool. In `ErrorBody` the sizes reach the cap exactly, by one
too many and with a single chunk. In `Payload` two choices with two fields are what
it takes to mistake one message for another.

`Over`, `Stops`, `Terminated`, `Quiet` and `Returned` are the states where the system may stop;
every run checks for deadlocks elsewhere (in `Payload` the upstream may stop
anywhere, so there the check says nothing).

### Fairness

`FairSpec` of `ChunkConverter` assumes only that its goroutine runs when it can:
the upstream may be silent and the caller gone. `EndTerminates` assumes in addition
(`KeepsReading`) a caller that keeps reading, as the loop of `pumpABIStream` does.
`AbiStream` assumes fair goroutines and a host that returns from an emit and a
close; it does not assume that the upstream ever speaks, so its liveness starts
when the upstream is over. `KeyPool` assumes that a request's goroutine runs, that each call to the
upstream or its transport returns, and that a refusal's body comes to an end. `ErrorBody`
is where that last assumption is taken apart: it assumes only that both goroutines
run, and what the upstream does not do is not in its script. `AbiLifecycle` assumes that threads run and
that the host answers a callback once the calls it made in it are answered; it
never has to make a call. It assumes strongly that a method finishes: none makes
callbacks without end (its failover has finitely many members and its streams are
read by goroutines). Of a goroutine no such thing is assumed.

## Findings

* `CancellationReported` — `executor.go:225-226` says the slot lets a cancellation
  be reported even when the caller stops draining. That is so when the main
  `select` sees the cancellation. When `emit` sees it (249-251), the goroutine
  returns (280-282) without reporting, and the stream closes as a complete one
  does, with the slot free.
* `BothSpellings` — `config.go:168-169` says a request by the upstream name
  resolves to it. The table is keyed by the normalized name, so of two entries
  that share a stem or an alias the later one rewrites the earlier one's name.
* `DefaultAliasesRouted` — `README.md:23-24` lists `deepseek-vision` among the
  default aliases; `defaultModelEntries` has no such entry.

A behaviour the models show and no document denies: when the pump gives up on a
failed emit, converter and reader may stay blocked for good, since no context is
ever cancelled (`NothingLeftBehind` states exactly this exception).

More of this kind:

* `readStreamErrorBody` gives up at its cap, or with its context, and nobody takes
  the next chunk: the reader of the host's stream stays blocked and the stream
  open (the exception in `ErrorBody`'s `NothingLeftBehind`). There is no timeout: an error
  status whose body stalls holds the failover for as long (`ReturnsInTime`).
* A proxied refusal is read whole before the cap applies (`held` in `ErrorBody`).
* The router takes the first `"model"` in the bytes: a nested one before the model
  draws a request for an unclaimed model to this plugin, and a value that is the
  word `model` hides the model that follows (`RoutedAsNamed` holds of the rest). A
  request drawn by its body while its requested name has no entry leaves with the
  body's alias, which the vendor rejects (`translator.go:61-66`): `BodyAsCame` says
  that it stays, and `SentIsServed` speaks only of a request whose own name has an
  entry. `config.go:44` tells of the entry without a name, not of this case.
* An entry whose name, or else whose alias, ends in a slash (`x/`) is advertised but
  claims nothing, so the router refuses it, though `models.go:12-13` says routing and
  advertising stay "in step automatically". `AdvertisedRoutedByStem` says that this
  is the only way they differ.
* A close of the downstream that fails is ignored (`abi.go:427`) and not made again:
  whether the client's stream then ends is the host's matter (`CallEnds`).
* Details and strings of white space alone are dropped, so thinking streamed token
  by token loses the blanks that come alone (`ThinkingArrives` is about the rest).
* The executor's own 502 (`executor.go:165`, 209) is never sent: with a member there
  is a last error (`HonestAnswer` allows no such status).
* `config.go:112-114` shows the key `upstream:`; the field's key is `name` (50).
  `config.go:142-143` says `buildIndexes` is called from `parseConfig` only;
  `ensureIndexes` calls it too.

## Proofs

Every invariant and step property the passing runs check is a theorem, for all
values of the constants, and so are the refinements `Delivers` and `EndToEnd`: what
is left to TLC is liveness. `PROJECT.json` lists the theorems.

### What is assumed

Only the assumptions the modules state about their constants, which TLC evaluates
on every run: `LimitAssumption` (`Limit` is a natural number), `BodiesAssumption`
(bodies are sequences of fragments), `PoolAssumption` (entries and calls have the
fields the code reads; the empty string is no key and no proxy; a proxy that
parses is not one that does not; statuses are 100 and above, so that none is
mistaken for a failure without one), `CallsAssumption` (finitely many calls, each of one kind; goroutines are no calls),
`PoolsAssumption` (weights are integers), `ErrorBodyAssumption` (the cap is
positive; nothing follows the last read), `ModelAssumption` (lists and bodies are
sequences of entries and members) and `PayloadAssumption` (documents have the
fields the code reads, an absent field is no text, and where details and string
both carry thinking they mirror each other). Sizes are nowhere bounded: any number
of requests, members, entries, reconfigurations, hosts, callbacks, lines, choices,
chunks and bytes. `TranslatorProofs` extends the models of both, so the formulas of
`Payload` have names of their own (`PayloadSpec` and so on).

### Stream converter and the promise

None of the properties of `ChunkConverter` is inductive alone. Its `IInv` adds: the windows (`mark <= got <= fed`,
and the chunk on offer begins where the buffer ends); what each place knows (no
newline in the buffer while selecting, flushing or reporting; flushing only after
an ended feed, reporting only after a cancellation or a failed feed that was read
to its end); that what was sent lies before the mark; that every short frame whose
line ended before the mark was sent (`AllSent`); and `MarkShape`: the mark is at
the start of a line or behind a run longer than `Limit` in the same line. The last
is what makes the rest go through. After the guard has cut a line, the mark is in
the middle of one, and a frame may straddle it; `StraddlingFrameIsLong` shows that
such a frame is longer than `Limit`, so it is not owed. `NothingToTake` finds the
first newline of a buffer by the least-number principle (`LeastNatural`), obtained
from the library's well-founded orders.

The refinement maps `open` to `pc # "closed"` and every other variable to itself.
A line sent is a `Deliver`, the flush of a remainder a `Deliver` that also closes,
an abandoned line or flush a `Close` under a cancelled context, a report a `Fail`;
receiving, dropping a line and returning to the select are stutters. `OwedFrame`
and `NothingMissing` show that nothing is owed at a close or a failure.

`Promise` says what the abstract steps amount to in the end, since a promise
stated by steps alone can hide a hole: each item is a frame which no owed frame
before it was passed over for, or the error, last. By `PromiseKept` so is each item
`convertChunks` sends, and by `CompleteWhenClean` a stream it closes without an error
on a live context has every frame of the whole body.

### ABI streaming call

`AbiStreamProofs` takes `ChunkConverterProofs` for a context nobody cancels.
Its `IInv` is the converter's, `FrameDelivery`'s, and three parts of its own: what each
reader still has to offer (`ReaderShape`; a reader that sends its last chunk has
read all), what each place of the pump knows (`PumpShape`), and that the pump has
passed on exactly the first `taken` items, or all but the one in its hands
(`Behind`). `RunsConverter` is the reason why the converter's theorems can be used:
between readers and pump it makes only steps of `ChunkConverter`. `KeepsPromise` is
`Spec => EndToEnd`: the host's emits are the abstract deliveries, a close after a
failed emit or the shutdown is a close under a cancelled context; the reads of the
upstream map to feeds and the inner steps to stutters. `CompleteWhenClean` does not
follow from it, as it speaks of the whole body: it needs `ReaderShape`.

### Key pool

`IInv` says, for each request, what its loop knows at each place. Of the members:
each is left (`Held`), was asked, or has no client (`Covered`; this is what
`NoneLeftUntried` needs, and it holds whatever order was drawn); those left are
different and none was asked (`LeftFresh`, for `TrailSound`). Of the attempts: each
is of a member of the request's own pool by that member's own proxy
(`AttemptsSound`), and all but the last failed in a way worth another
(`EarlierFailed`). Between two members, `lastErr` is that of the last attempt, or
says that some member has no client (`Between`, for `HonestAnswer`). `CacheSound`
is the part about shared state: the client cached at an index is of the proxy of
the enabled member at that index, in every pool there has been. `members` drops
entries in a loop, so its operator is a recursive function; `KeptIsChosen` proves
by induction up to its length that what it keeps are usable entries.
`RequestKept` shows once that a request is not disturbed by the others' steps.

### ABI lifecycle

`Newest` and `HostPresent` are the core: what is stored was stored by a call that
is over, and no call that replaced it since began after that one was answered; the
host stored has not seen a shutdown that is over. They need `Order`, which relates
`before`, `answered` and the places, and `LockDiscipline`, without which a reader could
meet a writer half way. `Dialling` says that a caller about to call has made no late
callback to that host before: it read the pointer since. It holds of each caller
alone, so a use may have its thread, its readers and its pump all about to call,
and each is late once (`CallbacksAreLateOnce`): for any number of goroutines, and of
hosts that come and go, which a run cannot cover. `Taking` is what keeps a use from
taking a second plugin: one that took its own is past the place where it does.

### Weighted order

`Split`: drawn and remaining members are different ones and add up to the pool.
`DrawnFairly` is about the sums: `UpToGrows` and `UpToSteps` prove by induction up to a
bound that they grow by each weight, so that `OwnedNumbers` are the numbers from one
sum to the next. `OrderIsComplete` shows that the finished order is a bijection of
`1..n`: the orders `KeyPool` lets a request walk are the ones this draw makes.

### Stream error body

A byte is its place in the body, so "the beginning of what was sent, each once" is
`body = UpTo(Len(body))`, and the rest is counting: `Before[k]` bytes come with the
first `k` items (`BeforeSteps`, `BeforeGrows`), and `Due` is how many are offered before
the channel ends (`OfferedIsDue`; for the host an error drops the bytes it came
with). `IInv` says for each source where the bytes are that the body does not have
yet: with the host's reader, which passes on one item at a time (`HostShape`); in
the items still in the channel (`BatchShape`); in the proxied body, held whole and
handed on at once (`ProxyShape`). `Outcome` says what each way out means for the
length of the body, and `Types` bounds nothing but by the cap.

### Model mapping

`IInv` has four parts. `Tables`: `claimed` is the union of what the entries before
`next` claim, and a rewriting is that of one of them (of the last that names it, but
no property needs which). `Shape`: the body is a sequence of members. `Rewriting`:
until it leaves, the body is as it came or as one translation makes it, since
a second gives the same (`RewrittenOnce`), which is why `SentIsServed` does not
depend on how often the host translates; then it is that with its flags set. What
setting a member does to a body is stated once (`GivenFirst`: it is the first of its
key; `GivenOther`: the first of any other key stays; `SetIn`, `SetInMore`: every
member is as it was, or the one set in the place of the first of its key, or at
the end), and `OtherwiseAsCame` applies it three times, for the model, the flag and
the options (`FlagsSet`), whose keys differ. `AdvertisedByStem` is a matter of
`Tables`: a name without a stem is in no claim.
`Routing`: the verdict was reached on the first `n` bytes of what came. From it
`RoutedByName` is a matter of the scan: `BytesGrow` says that the bytes of the first
`k` members are a prefix of the bytes of all, `ScanFindsName` that a string which the
scan returns, of a body cut off anywhere, is the value of a `model` in it
(`Bracketed` is the case of a model inside an object), and `ScanFindsModel` that a
body whose first string of that name is its model is taken for that model.

### Payloads

`AllAnswered` relates the frames to the lines that carry a document: as many, and
each the answer to the line at its place. It is inductive since an answer mapped
again is the answer (`AnswerStays`), and that is `MessageArrives`: a message that was
given a text has one that shows something, so it is passed over the next time. The
text given is not always the one `ThinkingArrives` speaks of: `reasoningText` drops
blank details and prefers the details to the string. `BlanksDropped` proves by
induction over the details that dropping shows the same words and leaves a text
exactly where one shows; that the preference makes no difference is where the
assumption that the two mirror each other is used (`TextShows`).

### What only TLC checks

* Liveness (`CancelTerminates`, `EndTerminates`, `CallEnds`, both
  `NothingLeftBehind`, `Answered`, `EveryCallAnswered`, `ReturnsInTime`): the prover has no rules for
  fairness.
* The three violations, which are counterexamples of an instance.

`SelectSeq` is beyond the provers, so a filter is a recursive function (`members` in
`KeyPool`, `Kept` in `Payload`) with a lemma that unrolls it (`KeptLoop`), and the bodies of
`BodyAsCame` are compared by positions. `Flattened` does the same for `FlattenSeq`.

## Not modelled

Token estimate (a length divided by four); usage probe (appends to a file); YAML
decoding and the wording of errors; JSON envelopes and C buffers but for the status
they carry; packaging. Closing the host's stream may itself block in the host; what
happens inside a host call is the host's.

## Plan

Done: every component above is modelled, checked and, but for liveness, proved.
What could be added: a model of the JSON envelopes, to bind the `ok` and the status
the host reads to the bytes it gets; a chunking of `ModelMap`'s bytes inside
strings; and, with a prover for it, the liveness properties.
