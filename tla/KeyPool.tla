------------------------------ MODULE KeyPool ------------------------------
(***************************************************************************)
(* The executor's key pool (executor.go, pool.go): requests that run at    *)
(* the same time resolve the members of the pool, draw an order, and try   *)
(* one member after the other until one serves, the error is the request's *)
(* own fault or no member is left.  A member with a proxy uses a client of *)
(* its own, built on first use and cached by the member's index; the rest  *)
(* use the host's client.  A reconfiguration builds a pool of its own; a   *)
(* request keeps the pool it began with.  AbiLifecycle shows how the newest *)
(* is found, which is one step here.                                       *)
(*                                                                         *)
(* A proxy is named by what it is, a key is opaque; Blank, the empty       *)
(* string, is no proxy and a blank key.  What the upstream answers is      *)
(* chosen freely: a failed transport or an HTTP status.  Up to here a      *)
(* stream is its first byte; AbiStream models the rest.                    *)
(***************************************************************************)
EXTENDS Integers, Sequences, FiniteSets, Functions

CONSTANTS
  Requests,    \* names of the requests in flight
  Asks,        \* what each request may ask: [kind, auth, bearer, hosted]
  Configs,     \* configurations: [keys : Seq(Entries), legacy : key or Blank]
  Reconfigs,   \* those a reconfiguration brings
  MaxPools,    \* bounds the (re)configurations
  Keys,        \* API keys
  Proxies,     \* proxy URLs that can be used
  BadProxies,  \* proxy URLs that cannot
  Blank,       \* the empty string
  Statuses     \* HTTP statuses the upstream answers with

Entries ==
  [key : Keys \cup {Blank}, proxy : Proxies \cup BadProxies \cup {Blank}, disabled : BOOLEAN]

\* bearer: the caller brings its own Authorization; hosted: the host gave a client.
AnyCall ==
  [kind : {"execute", "stream", "http"}, auth : Keys \cup {Blank},
   bearer : BOOLEAN, hosted : BOOLEAN]

ASSUME PoolAssumption ==
  /\ Configs \subseteq [keys : Seq(Entries), legacy : Keys \cup {Blank}]
  /\ Reconfigs \subseteq Configs
  /\ \A r \in Requests : Asks[r] # {} /\ Asks[r] \subseteq AnyCall
  /\ Blank \notin Keys \cup Proxies \cup BadProxies
  /\ Proxies \cap BadProxies = {}
  /\ Statuses \subseteq Nat \ (0..99)

VARIABLES
  pools,    \* a pool for each configuration so far: [cfg, clients], where
            \* clients[i] is the proxy client cached for member i, or Blank
  mine,     \* the pool a request began with, once it has come
  req,      \* the request, once it has come
  live,     \* its context is not cancelled
  phase,    \* "idle", "next", "calling", "errbody", "done"
  left,     \* indices of the members still to try, in their order
  lastErr,  \* the last failure
  answer,   \* what the caller gets
  log       \* attempts made: [member, key, via, got]

vars == <<pools, mine, req, live, phase, left, lastErr, answer, log>>

\* Outcomes that are not HTTP statuses.  A proxied attempt goes via its proxy,
\* one by the host via Blank; the caller's own key is logged as Blank.
Pending    == -1
Transport  == 0  \* the call failed without a status
NoClient   == 1  \* the member has no client
MissingKey == 2  \* the executor's own 401
AllFailed  == 3  \* the executor's own 502
NoUrl      == 4  \* HttpRequest without a URL
None       == 5

Success(got) == got \in 200..299

Single(key) == <<[key |-> key, proxy |-> Blank, disabled |-> FALSE]>>

Usable(e) == e.key # Blank /\ ~e.disabled

\* The usable entries, taken one after the other.
Enabled(cfg) ==
  LET kept[n \in 0..Len(cfg.keys)] ==
        IF n = 0 THEN << >>
        ELSE IF Usable(cfg.keys[n]) THEN Append(kept[n - 1], cfg.keys[n])
        ELSE kept[n - 1]
  IN  kept[Len(cfg.keys)]

Fallback(cfg, auth) ==
  IF cfg.legacy # Blank THEN Single(cfg.legacy)
  ELSE IF auth # Blank THEN Single(auth)
  ELSE << >>

\* Mutant of Members: a pool whose keys are all disabled falls back.
MembersOrFallback(cfg, auth) ==
  IF Enabled(cfg) # << >> THEN Enabled(cfg) ELSE Fallback(cfg, auth)

\* The pool if it defines any key, else the legacy key, else the request's.
Members(cfg, auth) ==
  IF \E i \in 1..Len(cfg.keys) : cfg.keys[i].key # Blank
  THEN Enabled(cfg) ELSE Fallback(cfg, auth)

\* The members of a request that has come.
Own(r) == Members(pools[mine[r]].cfg, req[r].auth)

\* The orders the weighted draw can produce.
Orders(n) == {s \in [1..n -> 1..n] : \A i, j \in 1..n : s[i] = s[j] => i = j}

\* Mutants of Retryable: a bad request is retried; a rejected key is not.
RetryableAny4xx(got) == got = Transport \/ got \in 400..599

RetryableNot401(got) == got = Transport \/ got = 429 \/ got \in 500..599

Retryable(got) == got = Transport \/ got \in {401, 429} \/ got \in 500..599

\* Mutant of NewPool: the clients that were built are kept.
NewPoolKeeps(cfg, old) ==
  [cfg |-> cfg,
   clients |-> [i \in 1..Len(cfg.keys) |-> IF i \in DOMAIN old THEN old[i] ELSE Blank]]

\* The pool of a new configuration, old being the clients of the last.
NewPool(cfg, old) == [cfg |-> cfg, clients |-> [i \in 1..Len(cfg.keys) |-> Blank]]

Init ==
  /\ \E cfg \in Configs : pools = <<NewPool(cfg, << >>)>>
  /\ mine = [r \in Requests |-> 0]
  /\ req = [r \in Requests |-> CHOOSE c \in Asks[r] : TRUE]
  /\ live = [r \in Requests |-> TRUE]
  /\ phase = [r \in Requests |-> "idle"]
  /\ left = [r \in Requests |-> << >>]
  /\ lastErr = [r \in Requests |-> None]
  /\ answer = [r \in Requests |-> None]
  /\ log = [r \in Requests |-> << >>]

Reconfigure ==
  /\ Len(pools) < MaxPools
  /\ \E cfg \in Reconfigs :
       pools' = Append(pools, NewPool(cfg, pools[Len(pools)].clients))
  /\ UNCHANGED <<mine, req, live, phase, left, lastErr, answer, log>>

-----------------------------------------------------------------------------
(* The request comes in: resolve the members, draw the order.  HttpRequest *)
(* takes the first member; with a caller's Authorization it needs none.    *)

Attempt(member, key, via) ==
  [member |-> member, key |-> key, via |-> via, got |-> Pending]

Finish(r, result) ==
  /\ answer' = [answer EXCEPT ![r] = result]
  /\ phase' = [phase EXCEPT ![r] = "done"]

NeedsKey(c) == ~(c.kind = "http" /\ c.bearer)

StartWithoutUrl(r, c) ==
  /\ c.kind = "http"
  /\ Finish(r, NoUrl)
  /\ UNCHANGED <<left, log>>

StartRefused(r, c, ms) ==
  /\ ms = << >>
  /\ \/ NeedsKey(c) /\ Finish(r, MissingKey)
     \/ ~NeedsKey(c) /\ ~c.hosted /\ Finish(r, NoClient)
  /\ UNCHANGED <<left, log>>

StartWithoutMember(r, c, ms) ==
  /\ ms = << >>
  /\ ~NeedsKey(c) /\ c.hosted
  /\ log' = [log EXCEPT ![r] = <<Attempt(0, Blank, Blank)>>]
  /\ phase' = [phase EXCEPT ![r] = "calling"]
  /\ UNCHANGED <<left, answer>>

StartWithMembers(r, c, ms) ==
  /\ ms # << >>
  /\ IF c.kind = "http"
     THEN left' = [left EXCEPT ![r] = <<1>>]
     ELSE \E order \in Orders(Len(ms)) : left' = [left EXCEPT ![r] = order]
  /\ phase' = [phase EXCEPT ![r] = "next"]
  /\ UNCHANGED <<answer, log>>

Start(r) ==
  /\ phase[r] = "idle"
  /\ mine' = [mine EXCEPT ![r] = Len(pools)]
  /\ \E c \in Asks[r] :
       LET ms == Members(pools[Len(pools)].cfg, c.auth)
       IN  /\ req' = [req EXCEPT ![r] = c]
           /\ \/ StartWithoutUrl(r, c) \/ StartRefused(r, c, ms)
              \/ StartWithoutMember(r, c, ms) \/ StartWithMembers(r, c, ms)
  /\ UNCHANGED <<pools, live, lastErr>>

Cancel(r) ==
  /\ live[r] /\ phase[r] # "done"
  /\ live' = [live EXCEPT ![r] = FALSE]
  /\ UNCHANGED <<pools, mine, req, phase, left, lastErr, answer, log>>

-----------------------------------------------------------------------------
(* clientFor, under the pool's lock.                                       *)

\* Mutant of Slot: the cache is keyed by the place in the drawn order.
SlotByTry(r, idx) == Len(log[r]) + 1

\* Where the client of a member is cached.
Slot(r, idx) == idx

\* Mutant of Buildable: the proxy's URL is not looked at.
AlwaysBuildable(proxy) == TRUE

Buildable(proxy) == proxy \in Proxies

Clients(r) == pools[mine[r]].clients

HasClient(r, idx, m) ==
  IF m.proxy = Blank THEN req[r].hosted
  ELSE Clients(r)[Slot(r, idx)] # Blank \/ Buildable(m.proxy)

Via(r, idx, m) ==
  IF m.proxy # Blank /\ Clients(r)[Slot(r, idx)] # Blank THEN Clients(r)[Slot(r, idx)]
  ELSE m.proxy

Cached(r, idx, m) ==
  IF m.proxy = Blank THEN pools
  ELSE [pools EXCEPT ![mine[r]].clients[Slot(r, idx)] = Via(r, idx, m)]

-----------------------------------------------------------------------------
(* The loop over the members.                                              *)

Call(r) ==
  /\ phase[r] = "next" /\ left[r] # << >>
  /\ LET idx == Head(left[r])
         m   == Own(r)[idx]
         key == IF NeedsKey(req[r]) THEN m.key ELSE Blank
     IN  /\ HasClient(r, idx, m)
         /\ pools' = Cached(r, idx, m)
         /\ log' = [log EXCEPT ![r] = Append(@, Attempt(idx, key, Via(r, idx, m)))]
  /\ left' = [left EXCEPT ![r] = Tail(@)]
  /\ phase' = [phase EXCEPT ![r] = "calling"]
  /\ UNCHANGED <<mine, req, live, lastErr, answer>>

\* Mutant of Skip: the member without a client stays at the head.
SkipStays(r) ==
  /\ phase[r] = "next" /\ left[r] # << >>
  /\ ~HasClient(r, Head(left[r]), Own(r)[Head(left[r])])
  /\ lastErr' = [lastErr EXCEPT ![r] = NoClient]
  /\ UNCHANGED <<pools, mine, req, live, phase, left, answer, log>>

Skip(r) ==
  /\ phase[r] = "next" /\ left[r] # << >>
  /\ ~HasClient(r, Head(left[r]), Own(r)[Head(left[r])])
  /\ lastErr' = [lastErr EXCEPT ![r] = NoClient]
  /\ left' = [left EXCEPT ![r] = Tail(@)]
  /\ UNCHANGED <<pools, mine, req, live, phase, answer, log>>

\* Mutant of Exhausted: the last failure is not kept.
ExhaustedBadGateway(r) ==
  /\ phase[r] = "next" /\ left[r] = << >>
  /\ Finish(r, AllFailed)
  /\ UNCHANGED <<pools, mine, req, live, left, lastErr, log>>

Exhausted(r) ==
  /\ phase[r] = "next" /\ left[r] = << >>
  /\ Finish(r, IF lastErr[r] # None THEN lastErr[r] ELSE AllFailed)
  /\ UNCHANGED <<pools, mine, req, live, left, lastErr, log>>

\* The failure got: on to the next member, or out with it.
FailOver(r, got) ==
  /\ lastErr' = [lastErr EXCEPT ![r] = got]
  /\ IF Retryable(got) /\ live[r]
     THEN phase' = [phase EXCEPT ![r] = "next"] /\ UNCHANGED answer
     ELSE Finish(r, got)

Got(r) == log[r][Len(log[r])].got

\* The upstream, or the transport, answers.  The error body of a stream is
\* still to be read.
Respond(r, got) ==
  /\ phase[r] = "calling"
  /\ log' = [log EXCEPT ![r][Len(log[r])].got = got]
  /\ \/ /\ req[r].kind = "http" \/ Success(got)
        /\ Finish(r, got)
        /\ UNCHANGED lastErr
     \/ /\ req[r].kind = "stream" /\ ~Success(got) /\ got # Transport
        /\ phase' = [phase EXCEPT ![r] = "errbody"]
        /\ UNCHANGED <<lastErr, answer>>
     \/ /\ \/ req[r].kind = "execute" /\ ~Success(got)
           \/ req[r].kind = "stream" /\ got = Transport
        /\ FailOver(r, got)
  /\ UNCHANGED <<pools, mine, req, live, left>>

ReadErrorBody(r) ==
  /\ phase[r] = "errbody"
  /\ FailOver(r, Got(r))
  /\ UNCHANGED <<pools, mine, req, live, left, log>>

Step(r) ==
  \/ Call(r) \/ Skip(r) \/ Exhausted(r)
  \/ \E got \in Statuses \cup {Transport} : Respond(r, got)
  \/ ReadErrorBody(r)

\* The envelope the host reads (cmd/commandcode/abi.go): the http_status of the
\* error, 0 for one that carries none, or the status behind the result.
HttpStatus(err) ==
  CASE err \in Statuses  -> err
    [] err = MissingKey  -> 401
    [] err = AllFailed   -> 502
    [] OTHER             -> 0

Reply(r) ==
  LET ok == Success(answer[r]) \/ (req[r].kind = "http" /\ answer[r] \in Statuses)
  IN  [ok |-> ok, status |-> HttpStatus(answer[r])]

Terminated == (\A r \in Requests : phase[r] = "done") /\ UNCHANGED vars

Next ==
  \/ \E r \in Requests : Start(r) \/ Cancel(r) \/ Step(r)
  \/ Reconfigure \/ Terminated

Spec == Init /\ [][Next]_vars

\* A request that has come is worked on, and the upstream or its transport
\* answers in the end.
FairSpec == Spec /\ \A r \in Requests : WF_vars(Step(r))

-----------------------------------------------------------------------------
(* Properties.                                                             *)

Outcomes == Statuses \cup {Transport}

\* The shape of the state: a cached client is one that could be built.
TypeOK ==
  /\ \A p \in 1..Len(pools) :
       /\ pools[p].cfg \in Configs
       /\ pools[p].clients \in [1..Len(pools[p].cfg.keys) -> Proxies \cup {Blank}]
  /\ mine \in [Requests -> 0..Len(pools)]
  /\ req \in [Requests -> AnyCall]
  /\ live \in [Requests -> BOOLEAN]
  /\ phase \in [Requests -> {"idle", "next", "calling", "errbody", "done"}]
  /\ left \in [Requests -> Seq(Nat)]
  /\ lastErr \in [Requests -> Outcomes \cup {NoClient, None}]
  /\ answer \in [Requests -> Outcomes \cup {MissingKey, NoClient, AllFailed, NoUrl, None}]
  /\ \A r \in Requests : \A i \in 1..Len(log[r]) :
       log[r][i] \in [member : Nat, key : Keys \cup {Blank}, via : Proxies \cup {Blank},
                      got : Outcomes \cup {Pending}]

\* Worth another member (README.md:97-98): transport errors, 401, 429, 5xx.
Worthwhile(got) == got \in {Transport, 401, 429} \/ got \in 500..599

\* No member is asked twice by a request, and none after a failure that is the
\* request's own or after a success (pool.go:262-266).
TrailSound ==
  \A r \in Requests : \A i \in 1..Len(log[r]) : \A j \in 1..(i - 1) :
    /\ log[r][i].member # log[r][j].member
    /\ Worthwhile(log[r][j].got)

\* A member of the request that cannot be called.
Unusable(r, idx) ==
  LET proxy == Own(r)[idx].proxy
  IN  IF proxy = Blank THEN ~req[r].hosted ELSE proxy \in BadProxies

\* A member the request has called.
Asked(r, idx) == \E i \in 1..Len(log[r]) : log[r][i].member = idx

\* A failure comes back only when it is the request's own, the context is over,
\* or every member that has a client was asked.
NoneLeftUntried ==
  \A r \in Requests :
    phase[r] = "done" /\ live[r] /\ req[r].kind # "http"
    /\ (answer[r] = NoClient \/ Worthwhile(answer[r])) =>
         \A idx \in 1..Len(Own(r)) : Unusable(r, idx) \/ Asked(r, idx)

\* told is what the last member tried brought.
Honest(told, r) ==
  LET last == IF log[r] = << >> THEN None ELSE Got(r)
  IN  \/ told.ok /\ told.status = last /\ (Success(last) \/ req[r].kind = "http")
      \/ ~told.ok /\ told.status = last /\ ~Success(last)
      \/ /\ ~told.ok /\ told.status = 0
         /\ \/ last = Transport
            \/ \E idx \in 1..Len(Own(r)) : Unusable(r, idx)
            \/ req[r].kind = "http" /\ last = None
      \/ ~told.ok /\ told.status = 401 /\ last = None /\ Own(r) = << >>

\* What the host reads is what the last member tried brought: its status,
\* "preserved as http_status for retry classification" (executor.go:409-410),
\* ok for a success only, or for any status an HttpRequest got; no status
\* after a transport error, or where a member could not be called; and 401
\* without a call for a request that has no member.  A status is never made up:
\* "401 from ALL members surfaces as 401" (pool.go:264).
HonestAnswer == \A r \in Requests : phase[r] = "done" => Honest(Reply(r), r)

\* A key leaves only by its own entry's proxy, or by the host if it has none,
\* in the configuration the request began with: whichever request built the
\* client in the cache, and whatever came since (pool.go:114-136).
KeyGoesItsOwnWay ==
  \A r \in Requests : \A i \in 1..Len(log[r]) :
    LET try == log[r][i]
        own == {e \in Range(pools[mine[r]].cfg.keys) : e.key = try.key}
    IN  try.key # Blank =>
          try.via \in (IF own # {} THEN {e.proxy : e \in own} ELSE {Blank})

\* A key that was disabled when the request began is not sent, and a pool that
\* defines keys never lends the request to the legacy key or to the request's
\* own (pool.go:60-64).
PoolFailsClosed ==
  \A r \in Requests : \A i \in 1..Len(log[r]) :
    log[r][i].key # Blank =>
      LET cfg     == pools[mine[r]].cfg
          defined == {e \in Range(cfg.keys) : e.key # Blank}
      IN  IF defined = {} THEN log[r][i].key \in {cfg.legacy, req[r].auth}
          ELSE \E e \in defined : e.key = log[r][i].key /\ ~e.disabled

\* Every request is answered, whatever the members do and however often the
\* plugin is reconfigured meanwhile.
Answered == \A r \in Requests : (phase[r] # "idle") ~> (phase[r] = "done")
=============================================================================
