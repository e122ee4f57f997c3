--------------------------- MODULE KeyPoolProofs ---------------------------
(***************************************************************************)
(* Proofs about KeyPool, for every set of requests, configurations, keys,  *)
(* proxies and statuses, and any number of reconfigurations: its type, who *)
(* is tried, with which key, by which proxy, and what the host reads.      *)
(***************************************************************************)
EXTENDS KeyPool, NaturalLemmas, SequenceTheorems, TLAPS

-----------------------------------------------------------------------------
(* The members of a configuration.                                         *)

\* The loop of members: what is kept of the first i entries, and of all n.
Grown(keys, kept, i) ==
  IF i = 0 THEN << >>
  ELSE IF Usable(keys[i]) THEN Append(kept[i - 1], keys[i])
  ELSE kept[i - 1]

Kept(keys, n, kept) == kept = [i \in 0..n |-> Grown(keys, kept, i)]

\* A sequence of usable entries of keys, no longer than the first n.
Chosen(keys, n, s) ==
  /\ s \in Seq(Entries) /\ Len(s) <= n
  /\ \A i \in 1..Len(s) : Usable(s[i]) /\ \E j \in 1..Len(keys) : s[i] = keys[j]

LEMMA KeptExists ==
  ASSUME NEW keys \in Seq(Entries)
  PROVE  \A n \in 0..Len(keys) : \E kept : Kept(keys, n, kept)
<1> DEFINE S == {n \in 0..Len(keys) : \E kept : Kept(keys, n, kept)}
<1>1. Len(keys) \in Nat
  BY LenProperties
<1>2. 0 \in S
  <2> DEFINE none == [i \in 0..0 |-> << >>]
  <2>1. Kept(keys, 0, none)
    BY DEF Kept, Grown
  <2>2. QED
    BY <1>1, <2>1
<1>3. ASSUME NEW n \in 0..(Len(keys) - 1), n \in S
      PROVE  n + 1 \in S
  <2>1. PICK kept : Kept(keys, n, kept)
    BY <1>3
  <2> DEFINE more == [i \in 0..(n + 1) |-> Grown(keys, kept, i)]
  <2>2. \A i \in 0..n : more[i] = kept[i]
    <3>1. \A i \in 0..n : kept[i] = Grown(keys, kept, i)
      BY <2>1 DEF Kept
    <3>2. QED
      BY <1>1, <3>1
  <2>3. ASSUME NEW i \in 0..(n + 1)
        PROVE  Grown(keys, kept, i) = Grown(keys, more, i)
    <3>1. i # 0 => i - 1 \in 0..n
      BY <1>1
    <3>2. QED
      BY <2>2, <3>1, Zenon DEF Grown
  <2> HIDE DEF more
  <2>4. Kept(keys, n + 1, more)
    BY <2>3, Zenon DEF Kept, more
  <2>5. QED
    BY <1>1, <2>4
<1>4. \A n \in 0..Len(keys) : n \in S
  BY <1>1, <1>2, <1>3, UpToByInduction
<1>5. QED
  BY <1>4

LEMMA KeptIsChosen ==
  ASSUME NEW keys \in Seq(Entries), NEW kept, Kept(keys, Len(keys), kept)
  PROVE  Chosen(keys, Len(keys), kept[Len(keys)])
<1> DEFINE S == {n \in 0..Len(keys) : Chosen(keys, n, kept[n])}
<1>1. Len(keys) \in Nat
  BY LenProperties
<1>2. 0 \in S
  BY <1>1 DEF Kept, Grown, Chosen
<1>3. ASSUME NEW n \in 0..(Len(keys) - 1), n \in S
      PROVE  n + 1 \in S
  <2>1. n + 1 \in 1..Len(keys) /\ keys[n + 1] \in Entries
    BY <1>1, ElementOfSeq
  <2>2. kept[n + 1] = IF Usable(keys[n + 1]) THEN Append(kept[n], keys[n + 1]) ELSE kept[n]
    <3>1. kept[n + 1] = Grown(keys, kept, n + 1)
      BY <1>1, <2>1 DEF Kept
    <3>2. n + 1 # 0 /\ (n + 1) - 1 = n
      BY <1>1
    <3>3. QED
      BY <3>1, <3>2, Zenon DEF Grown
  <2>3. Chosen(keys, n, kept[n])
    BY <1>3
  <2>4. Chosen(keys, n + 1, kept[n + 1])
    <3>1. CASE Usable(keys[n + 1])
      BY <2>1, <2>2, <2>3, <3>1, AppendProperties DEF Chosen
    <3>2. CASE ~Usable(keys[n + 1])
      BY <2>1, <2>2, <2>3, <3>2, LenProperties DEF Chosen
    <3>3. QED
      BY <3>1, <3>2
  <2>5. QED
    BY <1>1, <2>4
<1>4. \A n \in 0..Len(keys) : n \in S
  BY <1>1, <1>2, <1>3, UpToByInduction
<1>5. QED
  BY <1>1, <1>4

\* What members keeps of a pool: usable entries of it, no more than it has.
LEMMA EnabledIsChosen ==
  ASSUME NEW cfg \in Configs
  PROVE  Chosen(cfg.keys, Len(cfg.keys), Enabled(cfg))
<1>1. cfg.keys \in Seq(Entries) /\ Len(cfg.keys) \in Nat
  BY PoolAssumption, LenProperties
<1>2. PICK kept : Kept(cfg.keys, Len(cfg.keys), kept)
  BY <1>1, KeptExists
<1> DEFINE loop == CHOOSE kept2 : Kept(cfg.keys, Len(cfg.keys), kept2)
<1>3. Kept(cfg.keys, Len(cfg.keys), loop)
  BY <1>2
<1>4. Enabled(cfg) = loop[Len(cfg.keys)]
  BY DEF Enabled, Kept, Grown
<1>5. QED
  BY <1>1, <1>3, <1>4, KeptIsChosen

\* A member is a usable entry of its configuration; or the configuration
\* defines no key, and it is the legacy key or the request's, without a proxy.
MemberOf(cfg, auth, m) ==
  \/ /\ Usable(m)
     /\ \E j \in 1..Len(cfg.keys) : m = cfg.keys[j]
  \/ /\ \A j \in 1..Len(cfg.keys) : cfg.keys[j].key = Blank
     /\ m.proxy = Blank /\ m.key # Blank /\ m.key \in {cfg.legacy, auth}

LEMMA SingleIsEntry ==
  ASSUME NEW key \in Keys \cup {Blank}
  PROVE  /\ Single(key) \in Seq(Entries) /\ Len(Single(key)) = 1
         /\ Single(key)[1].key = key /\ Single(key)[1].proxy = Blank
<1> DEFINE e == [key |-> key, proxy |-> Blank, disabled |-> FALSE]
<1>1. e \in Entries
  BY DEF Entries
<1>2. e.key = key /\ e.proxy = Blank
  OBVIOUS
<1> HIDE DEF e
<1>3. <<e>> \in Seq(Entries)
  BY <1>1
<1>4. Len(<<e>>) = 1 /\ <<e>>[1] = e
  OBVIOUS
<1>5. Single(key) = <<e>>
  BY Zenon DEF Single, e
<1>6. QED
  BY <1>2, <1>3, <1>4, <1>5, Zenon

LEMMA MembersAreSound ==
  ASSUME NEW cfg \in Configs, NEW auth \in Keys \cup {Blank}
  PROVE  /\ Members(cfg, auth) \in Seq(Entries)
         /\ \A i \in 1..Len(Members(cfg, auth)) : MemberOf(cfg, auth, Members(cfg, auth)[i])
<1>1. /\ cfg.keys \in Seq(Entries) /\ Len(cfg.keys) \in Nat
      /\ cfg.legacy \in Keys \cup {Blank}
  BY PoolAssumption, LenProperties
<1>2. CASE \E j \in 1..Len(cfg.keys) : cfg.keys[j].key # Blank
  <2>1. Members(cfg, auth) = Enabled(cfg)
    BY <1>2 DEF Members
  <2>2. Chosen(cfg.keys, Len(cfg.keys), Members(cfg, auth))
    BY <2>1, EnabledIsChosen, Zenon
  <2>3. ASSUME NEW i \in 1..Len(Members(cfg, auth))
        PROVE  MemberOf(cfg, auth, Members(cfg, auth)[i])
    BY <2>2, Zenon DEF Chosen, MemberOf
  <2>4. QED
    BY <2>2, <2>3, Zenon DEF Chosen
<1>3. CASE ~\E j \in 1..Len(cfg.keys) : cfg.keys[j].key # Blank
  <2>1. Members(cfg, auth) = Fallback(cfg, auth)
    BY <1>3 DEF Members
  <2>2. \A key \in (Keys \cup {Blank}) \ {Blank} :
          /\ Single(key) \in Seq(Entries) /\ Len(Single(key)) = 1
          /\ Single(key)[1].key = key /\ Single(key)[1].proxy = Blank
    BY SingleIsEntry
  <2>3. CASE Fallback(cfg, auth) = << >>
    <3>1. Members(cfg, auth) = << >>
      BY <2>1, <2>3
    <3>2. \A i \in 1..Len(Members(cfg, auth)) : FALSE
      BY <3>1
    <3>3. QED
      BY <3>1, <3>2, EmptySeq, Zenon
  <2>4. ASSUME NEW key \in {cfg.legacy, auth}, key # Blank, Fallback(cfg, auth) = Single(key)
        PROVE  /\ Members(cfg, auth) \in Seq(Entries)
               /\ \A i \in 1..Len(Members(cfg, auth)) :
                    MemberOf(cfg, auth, Members(cfg, auth)[i])
    <3>1. /\ Members(cfg, auth) \in Seq(Entries) /\ Len(Members(cfg, auth)) = 1
          /\ Members(cfg, auth)[1].key = key /\ Members(cfg, auth)[1].proxy = Blank
      <4>1. key \in (Keys \cup {Blank}) \ {Blank}
        BY <1>1, <2>4
      <4>2. Members(cfg, auth) = Single(key)
        BY <2>1, <2>4, Zenon
      <4>3. QED
        BY <2>2, <4>1, <4>2, Zenon
    <3>2. MemberOf(cfg, auth, Members(cfg, auth)[1])
      BY <1>3, <2>4, <3>1 DEF MemberOf
    <3>3. \A i \in 1..Len(Members(cfg, auth)) : i = 1
      BY <3>1
    <3>4. QED
      BY <3>1, <3>2, <3>3, Zenon
  <2>5. QED
    BY <2>3, <2>4, Zenon DEF Fallback
<1>4. QED
  BY <1>2, <1>3

\* Only a pool has members with a proxy.
LEMMA ProxiedIsEnabled ==
  ASSUME NEW cfg \in Configs, NEW auth \in Keys \cup {Blank},
         NEW i \in 1..Len(Members(cfg, auth)), Members(cfg, auth)[i].proxy # Blank
  PROVE  Members(cfg, auth) = Enabled(cfg)
<1>1. CASE Members(cfg, auth) = Enabled(cfg)
  BY <1>1
<1>2. CASE Members(cfg, auth) = Fallback(cfg, auth)
  <2>1. PICK key : Members(cfg, auth) = Single(key) /\ key \in Keys \cup {Blank}
    BY <1>2, PoolAssumption DEF Fallback
  <2>2. QED
    BY <2>1, SingleIsEntry
<1>3. QED
  BY <1>1, <1>2 DEF Members

-----------------------------------------------------------------------------
(* The inductive invariant.                                                *)

AnyPool == [cfg : Configs, clients : Seq(Proxies \cup {Blank})]

AnyAttempt ==
  [member : Nat, key : Keys \cup {Blank}, via : Proxies \cup {Blank}, got : Outcomes \cup {Pending}]

Types ==
  /\ pools \in Seq(AnyPool) /\ pools # << >>
  /\ mine \in [Requests -> Nat]
  /\ req \in [Requests -> AnyCall]
  /\ live \in [Requests -> BOOLEAN]
  /\ phase \in [Requests -> {"idle", "next", "calling", "errbody", "done"}]
  /\ left \in [Requests -> Seq(Nat)]
  /\ lastErr \in [Requests -> Outcomes \cup {NoClient, None}]
  /\ answer \in [Requests -> Outcomes \cup {MissingKey, NoClient, AllFailed, NoUrl, None}]
  /\ log \in [Requests -> Seq(AnyAttempt)]

\* A client in the cache of a pool is that of the member with its index.
Sound(pool) ==
  /\ Len(pool.clients) = Len(pool.cfg.keys)
  /\ \A i \in 1..Len(pool.clients) :
       pool.clients[i] # Blank =>
         /\ i \in 1..Len(Enabled(pool.cfg))
         /\ pool.clients[i] = Enabled(pool.cfg)[i].proxy

CacheSound == \A p \in 1..Len(pools) : Sound(pools[p])

Waiting(r) ==
  /\ mine[r] = 0
  /\ log[r] = << >> /\ left[r] = << >> /\ lastErr[r] = None

\* An attempt is one of a member of the request, by its own proxy, or the
\* single one of an HttpRequest that brings its own key.
AttemptsSound(r) ==
  \A i \in 1..Len(log[r]) :
    \/ log[r][i].member = 0 /\ log[r][i].key = Blank /\ Own(r) = << >>
    \/ /\ log[r][i].member \in 1..Len(Own(r))
       /\ log[r][i].via = Own(r)[log[r][i].member].proxy
       /\ log[r][i].key \in {Blank, Own(r)[log[r][i].member].key}

AttemptsDiffer(r) ==
  \A i, j \in 1..Len(log[r]) : log[r][i].member = log[r][j].member => i = j

\* The members left are members, each once, and none was asked.
LeftFresh(r) ==
  /\ \A i \in 1..Len(left[r]) : left[r][i] \in 1..Len(Own(r)) /\ ~Asked(r, left[r][i])
  /\ \A i, j \in 1..Len(left[r]) : left[r][i] = left[r][j] => i = j

\* Every attempt but the last has failed in a way that is worth another.
EarlierFailed(r) == \A i \in 1..(Len(log[r]) - 1) : Worthwhile(log[r][i].got)

SomeUnusable(r) == \E idx \in 1..Len(Own(r)) : Unusable(r, idx)

\* What the loop knows between two members: nothing was tried yet, or what
\* lastErr comes from.
Between(r) ==
  /\ log[r] # << >> => Worthwhile(Got(r))
  /\ \/ lastErr[r] = None /\ log[r] = << >> /\ left[r] # << >>
     \/ lastErr[r] = NoClient /\ SomeUnusable(r)
     \/ log[r] # << >> /\ lastErr[r] = Got(r) /\ ~Success(Got(r))

Held(r, idx) == \E i \in 1..Len(left[r]) : left[r][i] = idx

\* Each member of a request for a completion is left, was asked or cannot be.
Covered(r) ==
  req[r].kind # "http" =>
    \A idx \in 1..Len(Own(r)) : Held(r, idx) \/ Unusable(r, idx) \/ Asked(r, idx)

Tried(r) ==
  live[r] /\ req[r].kind # "http" /\ (answer[r] = NoClient \/ Worthwhile(answer[r])) =>
    \A idx \in 1..Len(Own(r)) : Unusable(r, idx) \/ Asked(r, idx)

Working(r) ==
  /\ mine[r] \in 1..Len(pools)
  /\ AttemptsSound(r) /\ AttemptsDiffer(r) /\ LeftFresh(r) /\ EarlierFailed(r)
  /\ phase[r] = "next" => Between(r)
  /\ phase[r] = "calling" => log[r] # << >>
  /\ phase[r] = "errbody" =>
       /\ log[r] # << >> /\ Got(r) \in Statuses /\ ~Success(Got(r))
       /\ req[r].kind = "stream"
  /\ phase[r] # "done" => Covered(r)
  /\ phase[r] = "done" => Tried(r) /\ Honest(Reply(r), r)

Request(r) == IF phase[r] = "idle" THEN Waiting(r) ELSE Working(r)

IInv == Types /\ CacheSound /\ \A r \in Requests : Request(r)

-----------------------------------------------------------------------------
(* What a step leaves alone.                                               *)

\* Pools are never taken away, and keep their configuration.
PoolsKept ==
  /\ Len(pools) <= Len(pools')
  /\ \A p \in 1..Len(pools) : pools'[p].cfg = pools[p].cfg

\* A step leaves request r alone, but for a cancellation.
Alone(r) ==
  /\ mine'[r] = mine[r] /\ req'[r] = req[r] /\ phase'[r] = phase[r]
  /\ left'[r] = left[r] /\ lastErr'[r] = lastErr[r]
  /\ answer'[r] = answer[r] /\ log'[r] = log[r]
  /\ live'[r] => live[r]

\* The members of a request are fixed when it comes.
LEMMA OwnKept ==
  ASSUME Types, PoolsKept, NEW r \in Requests, mine[r] \in 1..Len(pools),
         mine'[r] = mine[r], req'[r] = req[r]
  PROVE  Own(r)' = Own(r)
BY DEF PoolsKept, Own

LEMMA OwnIsSound ==
  ASSUME Types, NEW r \in Requests, mine[r] \in 1..Len(pools)
  PROVE  /\ pools[mine[r]] \in AnyPool /\ pools[mine[r]].cfg \in Configs
         /\ req[r] \in AnyCall /\ req[r].auth \in Keys \cup {Blank}
         /\ Own(r) = Members(pools[mine[r]].cfg, req[r].auth)
         /\ Own(r) \in Seq(Entries)
         /\ \A i \in 1..Len(Own(r)) :
              /\ Own(r)[i] \in Entries
              /\ MemberOf(pools[mine[r]].cfg, req[r].auth, Own(r)[i])
<1>1. pools[mine[r]] \in AnyPool
  BY ElementOfSeq DEF Types
<1>2. pools[mine[r]].cfg \in Configs
  BY <1>1 DEF AnyPool
<1>3. req[r] \in AnyCall
  BY DEF Types
<1>4. req[r].auth \in Keys \cup {Blank}
  BY <1>3 DEF AnyCall
<1>5. Own(r) = Members(pools[mine[r]].cfg, req[r].auth)
  BY DEF Own
<1>6. Own(r) \in Seq(Entries)
  BY <1>2, <1>4, <1>5, MembersAreSound
<1>7. \A i \in 1..Len(Own(r)) : MemberOf(pools[mine[r]].cfg, req[r].auth, Own(r)[i])
  BY <1>2, <1>4, <1>5, MembersAreSound, Zenon
<1>8. QED
  BY <1>1, <1>2, <1>3, <1>4, <1>5, <1>6, <1>7, ElementOfSeq

LEMMA RequestKept ==
  ASSUME Types, PoolsKept, NEW r \in Requests, Alone(r), Request(r)
  PROVE  Request(r)'
<1>1. CASE phase[r] = "idle"
  BY <1>1 DEF Alone, Request, Waiting
<1>2. CASE phase[r] # "idle"
  <2>1. Working(r)
    BY <1>2 DEF Request
  <2>2. mine[r] \in 1..Len(pools) /\ mine'[r] \in 1..Len(pools')
    BY <2>1, LenProperties DEF Working, Alone, PoolsKept, Types
  <2>3. Own(r)' = Own(r)
    BY <2>2, OwnKept DEF Alone
  <2>4. Got(r)' = Got(r)
    BY DEF Alone, Got
  <2>5. \A idx : (Asked(r, idx)' <=> Asked(r, idx)) /\ (Held(r, idx)' <=> Held(r, idx))
    BY DEF Alone, Asked, Held
  <2>6. \A idx : Unusable(r, idx)' <=> Unusable(r, idx)
    BY <2>3 DEF Alone, Unusable
  <2>7. /\ AttemptsSound(r)' /\ AttemptsDiffer(r)' /\ LeftFresh(r)' /\ EarlierFailed(r)'
    BY <2>1, <2>3, <2>5 DEF Alone, Working, AttemptsSound, AttemptsDiffer, LeftFresh, EarlierFailed
  <2>8. Between(r) => Between(r)'
    BY <2>3, <2>4, <2>6 DEF Alone, Between, SomeUnusable
  <2>9. Covered(r) => Covered(r)'
    BY <2>3, <2>5, <2>6 DEF Alone, Covered
  <2>10. Tried(r) => Tried(r)'
    BY <2>3, <2>5, <2>6 DEF Alone, Tried
  <2>11. Reply(r)' = Reply(r)
    BY DEF Alone, Reply
  <2>12. Honest(Reply(r), r) => Honest(Reply(r), r)'
    BY <2>3, <2>4, <2>6, <2>11 DEF Alone, Honest
  <2>13. Working(r)'
    BY <2>1, <2>2, <2>4, <2>7, <2>8, <2>9, <2>10, <2>12 DEF Alone, Working
  <2>14. QED
    BY <1>2, <2>13 DEF Request, Alone
<1>3. QED
  BY <1>1, <1>2

\* A step of one request.
LEMMA OneRequest ==
  ASSUME IInv, NEW r \in Requests, PoolsKept,
         \A s \in Requests \ {r} : Alone(s),
         Types', CacheSound', Request(r)'
  PROVE  IInv'
<1>1. \A s \in Requests : Request(s)'
  BY RequestKept DEF IInv
<1>2. QED
  BY <1>1 DEF IInv

-----------------------------------------------------------------------------
(* The initial states, a reconfiguration and a cancellation.               *)

LEMMA NewPoolIsBlank ==
  ASSUME NEW cfg \in Configs, NEW old
  PROVE  /\ NewPool(cfg, old) \in AnyPool /\ NewPool(cfg, old).cfg = cfg
         /\ Len(NewPool(cfg, old).clients) = Len(cfg.keys)
         /\ \A i \in 1..Len(cfg.keys) : NewPool(cfg, old).clients[i] = Blank
<1>1. Len(cfg.keys) \in Nat
  BY PoolAssumption, LenProperties
<1> DEFINE blank == [i \in 1..Len(cfg.keys) |-> Blank]
<1>2. blank \in Seq(Proxies \cup {Blank}) /\ Len(blank) = Len(cfg.keys)
  BY <1>1
<1>3. \A i \in 1..Len(cfg.keys) : blank[i] = Blank
  OBVIOUS
<1>4. NewPool(cfg, old) = [cfg |-> cfg, clients |-> blank]
  BY DEF NewPool
<1> HIDE DEF blank
<1>5. QED
  BY <1>2, <1>3, <1>4 DEF AnyPool

LEMMA InitHolds == Init => IInv
<1> SUFFICES ASSUME Init PROVE IInv
  OBVIOUS
<1>1. PICK cfg \in Configs : pools = <<NewPool(cfg, << >>)>>
  BY DEF Init
<1> DEFINE pool == NewPool(cfg, << >>)
<1>2. /\ pool \in AnyPool /\ pool.cfg = cfg /\ Len(pool.clients) = Len(cfg.keys)
      /\ \A i \in 1..Len(cfg.keys) : pool.clients[i] = Blank
  BY NewPoolIsBlank
<1> HIDE DEF pool
<1>3. pools = <<pool>>
  BY <1>1 DEF pool
<1>4. pools \in Seq(AnyPool) /\ Len(pools) = 1 /\ pools[1] = pool
  BY <1>2, <1>3
<1>5. \A r \in Requests : (CHOOSE c \in Asks[r] : TRUE) \in AnyCall
  BY PoolAssumption
<1>6. Types
  BY <1>4, <1>5 DEF Init, Types
<1>7. CacheSound
  BY <1>2, <1>4 DEF CacheSound, Sound
<1>8. \A r \in Requests : Request(r)
  BY DEF Init, Request, Waiting
<1>9. QED
  BY <1>6, <1>7, <1>8 DEF IInv

LEMMA ReconfigureKeeps == ASSUME IInv, Reconfigure PROVE IInv'
<1>1. Types /\ CacheSound
  BY DEF IInv
<1>2. PICK cfg \in Reconfigs :
        pools' = Append(pools, NewPool(cfg, pools[Len(pools)].clients))
  BY DEF Reconfigure
<1>3. cfg \in Configs
  BY PoolAssumption
<1> DEFINE pool == NewPool(cfg, pools[Len(pools)].clients)
<1>4. /\ pool \in AnyPool /\ pool.cfg = cfg /\ Len(pool.clients) = Len(cfg.keys)
      /\ \A i \in 1..Len(cfg.keys) : pool.clients[i] = Blank
  BY <1>3, NewPoolIsBlank
<1> HIDE DEF pool
<1>5. pools' = Append(pools, pool) /\ pools \in Seq(AnyPool)
  BY <1>1, <1>2 DEF pool, Types
<1>6. /\ pools' \in Seq(AnyPool) /\ pools' # << >> /\ Len(pools') = Len(pools) + 1
      /\ \A p \in 1..Len(pools) : pools'[p] = pools[p]
      /\ pools'[Len(pools) + 1] = pool /\ Len(pools) \in Nat
  BY <1>4, <1>5, AppendProperties
<1>7. PoolsKept
  BY <1>6 DEF PoolsKept
<1>8. Types'
  BY <1>1, <1>6 DEF Reconfigure, Types
<1>9. CacheSound'
  <2>1. Sound(pool)
    BY <1>4 DEF Sound
  <2>2. ASSUME NEW p \in 1..Len(pools') PROVE Sound(pools'[p])
    <3>1. p \in 1..Len(pools) \/ p = Len(pools) + 1
      BY <1>6
    <3>2. QED
      BY <1>1, <1>6, <2>1, <3>1, Zenon DEF CacheSound
  <2>3. QED
    BY <2>2, Zenon DEF CacheSound
<1>10. \A r \in Requests : Alone(r)
  BY DEF Reconfigure, Alone
<1>11. \A r \in Requests : Request(r)'
  BY <1>1, <1>7, <1>10, RequestKept DEF IInv
<1>12. QED
  BY <1>8, <1>9, <1>11 DEF IInv

LEMMA CancelKeeps == ASSUME IInv, NEW r \in Requests, Cancel(r) PROVE IInv'
<1>1. Types /\ CacheSound
  BY DEF IInv
<1>2. PoolsKept
  BY <1>1, LenProperties DEF Cancel, PoolsKept, Types
<1>3. Types'
  BY <1>1 DEF Cancel, Types
<1>4. CacheSound'
  BY <1>1 DEF Cancel, CacheSound
<1>5. \A s \in Requests : Alone(s)
  BY <1>1 DEF Cancel, Alone, Types
<1>6. \A s \in Requests : Request(s)'
  BY <1>1, <1>2, <1>5, RequestKept DEF IInv
<1>7. QED
  BY <1>3, <1>4, <1>6 DEF IInv

-----------------------------------------------------------------------------
(* A request comes in.                                                     *)

LEMMA StatusTold ==
  /\ \A got \in Statuses : HttpStatus(got) = got /\ got \in Nat \ (0..99)
  /\ HttpStatus(Transport) = 0 /\ HttpStatus(NoClient) = 0 /\ HttpStatus(NoUrl) = 0
  /\ HttpStatus(MissingKey) = 401 /\ HttpStatus(AllFailed) = 502
<1> USE DEF Transport, NoClient, NoUrl, MissingKey, AllFailed
<1>1. Statuses \subseteq Nat \ (0..99)
  BY PoolAssumption
<1>2. 0 \notin Statuses /\ 1 \notin Statuses /\ 4 \notin Statuses
  BY <1>1
<1>3. 2 \notin Statuses /\ 3 \notin Statuses
  BY <1>1
<1>4. HttpStatus(Transport) = 0 /\ HttpStatus(NoClient) = 0 /\ HttpStatus(NoUrl) = 0
  BY <1>2 DEF HttpStatus
<1>5. HttpStatus(MissingKey) = 401 /\ HttpStatus(AllFailed) = 502
  BY <1>3 DEF HttpStatus
<1>6. ASSUME NEW got \in Statuses PROVE HttpStatus(got) = got
  <2>1. got # MissingKey /\ got # AllFailed
    BY <1>3
  <2>2. QED
    BY <2>1, Zenon DEF HttpStatus
<1>7. QED
  BY <1>1, <1>4, <1>5, <1>6

\* The plugin's own failures are neither statuses nor successes.
LEMMA OwnFailures ==
  ASSUME NEW got \in {Transport, NoClient, MissingKey, AllFailed, NoUrl, None}
  PROVE  got \notin Statuses /\ ~Success(got) /\ got \in 0..5
<1>1. got \in 0..5
  BY DEF Transport, NoClient, MissingKey, AllFailed, NoUrl, None
<1>2. QED
  BY <1>1, PoolAssumption DEF Success

\* What a request finds when it comes.
LEMMA StartFacts ==
  ASSUME IInv, NEW r \in Requests, Start(r)
  PROVE  /\ Types /\ CacheSound /\ Waiting(r)
         /\ PoolsKept /\ \A s \in Requests \ {r} : phase'[s] = phase[s] /\ left'[s] = left[s] /\ answer'[s] = answer[s] /\ log'[s] = log[s] => Alone(s)
         /\ req'[r] \in Asks[r] /\ req'[r] \in AnyCall
         /\ mine'[r] = Len(pools) /\ mine'[r] \in 1..Len(pools')
         /\ Own(r)' = Members(pools[Len(pools)].cfg, req'[r].auth)
         /\ Own(r)' \in Seq(Entries)
         /\ mine' \in [Requests -> Nat] /\ req' \in [Requests -> AnyCall]
         /\ UNCHANGED <<pools, live, lastErr>>
<1>1. Types /\ CacheSound /\ Waiting(r)
  BY DEF IInv, Start, Request
<1>2. Len(pools) \in Nat \ {0} /\ pools[Len(pools)] \in AnyPool
  BY <1>1, EmptySeq, ElementOfSeq DEF Types
<1>3. UNCHANGED <<pools, live, lastErr>> /\ mine' = [mine EXCEPT ![r] = Len(pools)]
  BY DEF Start
<1>4. PICK c \in Asks[r] : req' = [req EXCEPT ![r] = c]
  BY DEF Start
<1>5. c \in AnyCall
  BY PoolAssumption
<1>6. /\ req'[r] = c /\ mine'[r] = Len(pools)
      /\ mine' \in [Requests -> Nat] /\ req' \in [Requests -> AnyCall]
  BY <1>1, <1>2, <1>3, <1>4, <1>5 DEF Types
<1>7. Own(r)' = Members(pools[Len(pools)].cfg, c.auth)
  BY <1>3, <1>6 DEF Own
<1>8. Own(r)' \in Seq(Entries)
  BY <1>2, <1>5, <1>7, MembersAreSound DEF AnyPool, AnyCall
<1>9. PoolsKept
  BY <1>2, <1>3 DEF PoolsKept
<1>10. ASSUME NEW s \in Requests \ {r},
              phase'[s] = phase[s], left'[s] = left[s], answer'[s] = answer[s], log'[s] = log[s]
       PROVE  Alone(s)
  BY <1>1, <1>3, <1>4, <1>10 DEF Alone, Types
<1>11. QED
  BY <1>1, <1>2, <1>3, <1>4, <1>5, <1>6, <1>7, <1>8, <1>9, <1>10

LEMMA StartWithoutUrlKeeps ==
  ASSUME IInv, NEW r \in Requests, Start(r), StartWithoutUrl(r, req'[r])
  PROVE  IInv'
<1>1. /\ Types /\ CacheSound /\ Waiting(r) /\ UNCHANGED <<pools, live, lastErr, left, log>>
      /\ req'[r].kind = "http" /\ answer' = [answer EXCEPT ![r] = NoUrl]
      /\ phase' = [phase EXCEPT ![r] = "done"]
  BY StartFacts DEF StartWithoutUrl, Finish
<1>2. /\ answer'[r] = NoUrl /\ phase'[r] = "done"
      /\ left'[r] = << >> /\ log'[r] = << >>
  BY <1>1 DEF Types, Waiting
<1>3. Types'
  BY <1>1, StartFacts DEF Types
<1>4. CacheSound'
  BY <1>1 DEF CacheSound
<1>5. Working(r)'
  <2>1. /\ AttemptsSound(r)' /\ AttemptsDiffer(r)' /\ LeftFresh(r)' /\ EarlierFailed(r)'
    BY <1>2 DEF AttemptsSound, AttemptsDiffer, LeftFresh, EarlierFailed
  <2>2. Tried(r)'
    BY <1>1 DEF Tried
  <2>3. Honest(Reply(r), r)'
    <3>1. Reply(r)' = [ok |-> FALSE, status |-> 0]
      BY <1>2, StatusTold, OwnFailures DEF Reply
    <3>2. QED
      BY <1>1, <1>2, <3>1 DEF Honest
  <2>4. QED
    BY <1>2, <2>1, <2>2, <2>3, StartFacts DEF Working
<1>6. \A s \in Requests \ {r} : Alone(s)
  BY <1>1, StartFacts DEF Types
<1>7. QED
  BY <1>2, <1>3, <1>4, <1>5, <1>6, OneRequest, StartFacts DEF Request

LEMMA StartRefusedKeeps ==
  ASSUME IInv, NEW r \in Requests, Start(r), StartRefused(r, req'[r], Own(r)')
  PROVE  IInv'
<1>1. /\ Types /\ CacheSound /\ Waiting(r) /\ UNCHANGED <<pools, live, lastErr, left, log>>
      /\ Own(r)' = << >> /\ phase' = [phase EXCEPT ![r] = "done"]
      /\ \/ answer' = [answer EXCEPT ![r] = MissingKey]
         \/ answer' = [answer EXCEPT ![r] = NoClient] /\ req'[r].kind = "http"
  BY StartFacts DEF StartRefused, Finish, NeedsKey
<1>2. /\ \/ answer'[r] = MissingKey
         \/ answer'[r] = NoClient /\ req'[r].kind = "http"
      /\ phase'[r] = "done" /\ left'[r] = << >> /\ log'[r] = << >>
  BY <1>1 DEF Types, Waiting
<1>3. Types'
  BY <1>1, StartFacts DEF Types
<1>4. CacheSound'
  BY <1>1 DEF CacheSound
<1>5. Working(r)'
  <2>1. /\ AttemptsSound(r)' /\ AttemptsDiffer(r)' /\ LeftFresh(r)' /\ EarlierFailed(r)'
    BY <1>2 DEF AttemptsSound, AttemptsDiffer, LeftFresh, EarlierFailed
  <2>2. Tried(r)'
    BY <1>1 DEF Tried
  <2>3. Honest(Reply(r), r)'
    <3>1. CASE answer'[r] = MissingKey
      <4>1. Reply(r)' = [ok |-> FALSE, status |-> 401]
        BY <3>1, StatusTold, OwnFailures DEF Reply
      <4>2. QED
        BY <1>1, <1>2, <4>1 DEF Honest
    <3>2. CASE answer'[r] = NoClient /\ req'[r].kind = "http"
      <4>1. Reply(r)' = [ok |-> FALSE, status |-> 0]
        BY <3>2, StatusTold, OwnFailures DEF Reply
      <4>2. QED
        BY <1>2, <3>2, <4>1 DEF Honest
    <3>3. QED
      BY <1>2, <3>1, <3>2
  <2>4. QED
    BY <1>2, <2>1, <2>2, <2>3, StartFacts DEF Working
<1>6. \A s \in Requests \ {r} : Alone(s)
  BY <1>1, StartFacts DEF Types
<1>7. QED
  BY <1>2, <1>3, <1>4, <1>5, <1>6, OneRequest, StartFacts DEF Request

LEMMA StartWithoutMemberKeeps ==
  ASSUME IInv, NEW r \in Requests, Start(r), StartWithoutMember(r, req'[r], Own(r)')
  PROVE  IInv'
<1> DEFINE try == Attempt(0, Blank, Blank)
<1>1. /\ Types /\ CacheSound /\ Waiting(r) /\ UNCHANGED <<pools, live, lastErr, left, answer>>
      /\ Own(r)' = << >> /\ phase' = [phase EXCEPT ![r] = "calling"]
      /\ req'[r].kind = "http" /\ log' = [log EXCEPT ![r] = <<try>>]
  BY StartFacts DEF StartWithoutMember, NeedsKey
<1>2. try \in AnyAttempt /\ try.member = 0 /\ try.key = Blank
  BY DEF Attempt, AnyAttempt
<1> HIDE DEF try
<1>3. /\ phase'[r] = "calling" /\ left'[r] = << >> /\ log'[r] = <<try>>
      /\ Len(log'[r]) = 1 /\ log'[r][1] = try /\ log'[r] # << >>
  BY <1>1 DEF Types, Waiting
<1>4. Types'
  <2>1. <<try>> \in Seq(AnyAttempt)
    BY <1>2
  <2>2. QED
    BY <1>1, <2>1, StartFacts DEF Types
<1>5. CacheSound'
  BY <1>1 DEF CacheSound
<1>6. Working(r)'
  <2>1. AttemptsSound(r)'
    BY <1>1, <1>2, <1>3 DEF AttemptsSound
  <2>2. AttemptsDiffer(r)' /\ LeftFresh(r)' /\ EarlierFailed(r)'
    BY <1>3 DEF AttemptsDiffer, LeftFresh, EarlierFailed
  <2>3. Covered(r)'
    BY <1>1 DEF Covered
  <2>4. QED
    BY <1>3, <2>1, <2>2, <2>3, StartFacts DEF Working
<1>7. \A s \in Requests \ {r} : Alone(s)
  BY <1>1, StartFacts DEF Types
<1>8. QED
  BY <1>3, <1>4, <1>5, <1>6, <1>7, OneRequest, StartFacts DEF Request

LEMMA StartWithMembersKeeps ==
  ASSUME IInv, NEW r \in Requests, Start(r), StartWithMembers(r, req'[r], Own(r)')
  PROVE  IInv'
<1> DEFINE n == Len(Own(r)')
<1>1. /\ Types /\ CacheSound /\ Waiting(r) /\ UNCHANGED <<pools, live, lastErr, answer, log>>
      /\ Own(r)' # << >> /\ phase' = [phase EXCEPT ![r] = "next"]
  BY StartFacts DEF StartWithMembers
<1>2. n \in Nat /\ n >= 1
  BY <1>1, StartFacts, LenProperties, EmptySeq
<1>3. PICK first : /\ left' = [left EXCEPT ![r] = first]
                   /\ (first = <<1>> /\ req'[r].kind = "http") \/ first \in Orders(n)
  BY DEF StartWithMembers
<1> HIDE DEF n
<1>4. /\ first \in Seq(Nat) /\ first # << >>
      /\ \A i \in 1..Len(first) : first[i] \in 1..n
      /\ \A i, j \in 1..Len(first) : first[i] = first[j] => i = j
      /\ req'[r].kind # "http" => \A k \in 1..n : \E i \in 1..Len(first) : first[i] = k
  <2>1. CASE first = <<1>> /\ req'[r].kind = "http"
    BY <1>2, <2>1
  <2>2. CASE first \in Orders(n)
    <3>1. first \in [1..n -> 1..n] /\ \A i, j \in 1..n : first[i] = first[j] => i = j
      BY <2>2 DEF Orders
    <3>2. first \in Seq(Nat) /\ Len(first) = n
      BY <1>2, <3>1
    <3>3. \A k \in 1..n : \E i \in 1..n : first[i] = k
      BY <1>2, <3>1, OrderHoldsAll
    <3>4. first # << >>
      BY <1>2, <3>2
    <3>5. \A i \in 1..n : first[i] \in 1..n
      BY <3>1
    <3>6. QED
      BY <3>1, <3>2, <3>3, <3>4, <3>5, Zenon
  <2>3. QED
    BY <1>3, <2>1, <2>2
<1>5. phase'[r] = "next" /\ left'[r] = first /\ log'[r] = << >> /\ lastErr'[r] = None
  BY <1>1, <1>3 DEF Types, Waiting
<1>6. Types'
  BY <1>1, <1>3, <1>4, StartFacts DEF Types
<1>7. CacheSound'
  BY <1>1 DEF CacheSound
<1>8. Working(r)'
  <2>1. AttemptsSound(r)' /\ AttemptsDiffer(r)' /\ EarlierFailed(r)'
    BY <1>5 DEF AttemptsSound, AttemptsDiffer, EarlierFailed
  <2>2. LeftFresh(r)'
    BY <1>4, <1>5 DEF LeftFresh, Asked, n
  <2>3. Between(r)'
    BY <1>4, <1>5 DEF Between
  <2>4. Covered(r)'
    BY <1>4, <1>5 DEF Covered, Held, n
  <2>5. QED
    BY <1>5, <2>1, <2>2, <2>3, <2>4, StartFacts DEF Working
<1>9. \A s \in Requests \ {r} : Alone(s)
  BY <1>1, <1>3, StartFacts DEF Types
<1>10. QED
  BY <1>5, <1>6, <1>7, <1>8, <1>9, OneRequest, StartFacts DEF Request

LEMMA StartKeeps == ASSUME IInv, NEW r \in Requests, Start(r) PROVE IInv'
<1>1. Types /\ mine'[r] = Len(pools) /\ UNCHANGED pools
  BY StartFacts
<1>2. PICK c \in Asks[r] :
        /\ req' = [req EXCEPT ![r] = c]
        /\ \/ StartWithoutUrl(r, c)
           \/ StartRefused(r, c, Members(pools[Len(pools)].cfg, c.auth))
           \/ StartWithoutMember(r, c, Members(pools[Len(pools)].cfg, c.auth))
           \/ StartWithMembers(r, c, Members(pools[Len(pools)].cfg, c.auth))
  BY Zenon DEF Start
<1>3. req'[r] = c
  BY <1>1, <1>2 DEF Types
<1>4. Own(r)' = Members(pools[Len(pools)].cfg, c.auth)
  BY <1>3, StartFacts
<1>5. \/ StartWithoutUrl(r, req'[r]) \/ StartRefused(r, req'[r], Own(r)')
      \/ StartWithoutMember(r, req'[r], Own(r)') \/ StartWithMembers(r, req'[r], Own(r)')
  BY <1>2, <1>3, <1>4, Zenon
<1>6. QED
  BY <1>5, StartWithoutUrlKeeps, StartRefusedKeeps, StartWithoutMemberKeeps,
     StartWithMembersKeeps, Zenon

-----------------------------------------------------------------------------
(* The loop over the members.                                              *)

\* What the loop knows of the member it comes to.
LEMMA NextMember ==
  ASSUME IInv, NEW r \in Requests, phase[r] = "next", left[r] # << >>
  PROVE  LET idx == Head(left[r])
         IN  /\ Types /\ CacheSound /\ Working(r) /\ Between(r) /\ Covered(r)
             /\ mine[r] \in 1..Len(pools)
             /\ idx \in 1..Len(Own(r)) /\ ~Asked(r, idx) /\ Own(r)[idx] \in Entries
             /\ Tail(left[r]) \in Seq(Nat) /\ Len(left[r]) \in Nat \ {0}
             /\ idx = left[r][1]
             /\ Len(Tail(left[r])) = Len(left[r]) - 1
             /\ \A i \in 1..(Len(left[r]) - 1) : Tail(left[r])[i] = left[r][i + 1]
<1>1. /\ Types /\ CacheSound /\ Working(r)
  BY DEF IInv, Request
<1>2. Between(r) /\ Covered(r) /\ LeftFresh(r) /\ mine[r] \in 1..Len(pools)
  BY <1>1 DEF Working
<1>3. left[r] \in Seq(Nat)
  BY <1>1 DEF Types
<1>4. /\ Tail(left[r]) \in Seq(Nat) /\ Len(left[r]) \in Nat \ {0}
      /\ Head(left[r]) = left[r][1]
      /\ Len(Tail(left[r])) = Len(left[r]) - 1
      /\ \A i \in 1..(Len(left[r]) - 1) : Tail(left[r])[i] = left[r][i + 1]
  BY <1>3, HeadTailProperties, EmptySeq
<1>5. Head(left[r]) \in 1..Len(Own(r)) /\ ~Asked(r, Head(left[r]))
  BY <1>2, <1>4 DEF LeftFresh
<1>6. Own(r)[Head(left[r])] \in Entries
  BY <1>1, <1>2, <1>5, OwnIsSound
<1>7. QED
  BY <1>1, <1>2, <1>4, <1>5, <1>6

\* A member goes by its own proxy, whoever built its client.
LEMMA ViaOwnProxy ==
  ASSUME IInv, NEW r \in Requests, mine[r] \in 1..Len(pools), NEW idx \in 1..Len(Own(r)),
         HasClient(r, idx, Own(r)[idx])
  PROVE  /\ Via(r, idx, Own(r)[idx]) = Own(r)[idx].proxy
         /\ Own(r)[idx].proxy \in Proxies \cup {Blank}
         /\ Own(r)[idx].proxy # Blank =>
              /\ idx \in 1..Len(Clients(r)) /\ idx \in 1..Len(Enabled(pools[mine[r]].cfg))
              /\ Own(r)[idx] = Enabled(pools[mine[r]].cfg)[idx]
<1>1. Types /\ CacheSound
  BY DEF IInv
<1> DEFINE m == Own(r)[idx]
           cfg == pools[mine[r]].cfg
<1>2. /\ cfg \in Configs /\ req[r].auth \in Keys \cup {Blank} /\ m \in Entries
      /\ Own(r) = Members(cfg, req[r].auth) /\ pools[mine[r]] \in AnyPool
  BY <1>1, OwnIsSound
<1>3. CASE m.proxy = Blank
  BY <1>3 DEF Via
<1>4. CASE m.proxy # Blank
  <2>1. Own(r) = Enabled(cfg)
    BY <1>2, <1>4, ProxiedIsEnabled
  <2>2. Len(Own(r)) <= Len(cfg.keys) /\ Len(cfg.keys) \in Nat /\ Len(Own(r)) \in Nat
    BY <1>2, <2>1, EnabledIsChosen, LenProperties, PoolAssumption DEF Chosen
  <2>3. Len(Clients(r)) = Len(cfg.keys) /\ idx \in 1..Len(Clients(r))
    BY <1>1, <2>2 DEF CacheSound, Sound, Clients
  <2>4. CASE Clients(r)[idx] # Blank
    <3>1. Clients(r)[idx] = m.proxy
      BY <1>1, <2>1, <2>3, <2>4 DEF CacheSound, Sound, Clients
    <3>2. Clients(r)[idx] \in Proxies \cup {Blank}
      BY <1>2, <2>3, ElementOfSeq DEF AnyPool, Clients
    <3>3. QED
      BY <1>4, <2>1, <2>3, <2>4, <3>1, <3>2 DEF Via, Slot
  <2>5. CASE Clients(r)[idx] = Blank
    <3>1. m.proxy \in Proxies
      BY <1>4, <2>5 DEF HasClient, Slot, Buildable
    <3>2. QED
      BY <1>4, <2>1, <2>3, <2>5, <3>1 DEF Via, Slot
  <2>6. QED
    BY <2>4, <2>5
<1>5. QED
  BY <1>3, <1>4

\* Without a client a member cannot be called by anyone.
LEMMA NoClientIsUnusable ==
  ASSUME IInv, NEW r \in Requests, NEW idx, Own(r)[idx] \in Entries,
         ~HasClient(r, idx, Own(r)[idx])
  PROVE  Unusable(r, idx)
<1>1. Own(r)[idx].proxy \in Proxies \cup BadProxies \cup {Blank}
  BY DEF Entries
<1>2. QED
  BY <1>1 DEF HasClient, Buildable, Unusable

LEMMA CallKeepsCache ==
  ASSUME IInv, NEW r \in Requests, mine[r] \in 1..Len(pools), NEW idx \in 1..Len(Own(r)),
         HasClient(r, idx, Own(r)[idx]), pools' = Cached(r, idx, Own(r)[idx])
  PROVE  PoolsKept /\ CacheSound' /\ pools' \in Seq(AnyPool) /\ pools' # << >>
<1> DEFINE m == Own(r)[idx]
           n == mine[r]
<1>1. Types /\ CacheSound /\ Len(pools) \in Nat
  BY LenProperties DEF IInv, Types
<1>2. CASE m.proxy = Blank
  <2>1. pools' = pools
    BY <1>2 DEF Cached
  <2>2. QED
    BY <1>1, <2>1 DEF PoolsKept, CacheSound, Types
<1>3. CASE m.proxy # Blank
  <2>1. /\ pools[n] \in AnyPool /\ idx \in 1..Len(pools[n].clients)
        /\ idx \in 1..Len(Enabled(pools[n].cfg)) /\ m = Enabled(pools[n].cfg)[idx]
        /\ m.proxy \in Proxies \cup {Blank}
    BY <1>1, <1>3, ViaOwnProxy, OwnIsSound DEF Clients
  <2>2. pools' = [pools EXCEPT ![n].clients[idx] = m.proxy]
    BY <1>3, ViaOwnProxy DEF Cached, Slot
  <2> DEFINE clients == [pools[n].clients EXCEPT ![idx] = m.proxy]
             pool == [pools[n] EXCEPT !.clients = clients]
  <2>3. /\ clients \in Seq(Proxies \cup {Blank}) /\ Len(clients) = Len(pools[n].clients)
        /\ \A i \in 1..Len(clients) :
             clients[i] = IF i = idx THEN m.proxy ELSE pools[n].clients[i]
    BY <2>1, ExceptSeq DEF AnyPool
  <2> HIDE DEF clients
  <2>4. pool \in AnyPool /\ pool.cfg = pools[n].cfg /\ pool.clients = clients
    BY <2>1, <2>3 DEF AnyPool
  <2>5. pools' = [pools EXCEPT ![n] = pool]
    BY <2>2 DEF clients
  <2> HIDE DEF pool
  <2>6. /\ pools' \in Seq(AnyPool) /\ Len(pools') = Len(pools)
        /\ \A p \in 1..Len(pools) : pools'[p] = IF p = n THEN pool ELSE pools[p]
    BY <1>1, <2>4, <2>5, ExceptSeq DEF Types
  <2>7. PoolsKept
    BY <1>1, <2>4, <2>6 DEF PoolsKept
  <2>8. CacheSound'
    <3>1. Sound(pools[n])
      BY <1>1, Zenon DEF CacheSound
    <3>2. Len(pool.clients) = Len(pool.cfg.keys)
      BY <2>3, <2>4, <3>1 DEF Sound
    <3>3. ASSUME NEW i \in 1..Len(pool.clients), pool.clients[i] # Blank
          PROVE  i \in 1..Len(Enabled(pool.cfg)) /\ pool.clients[i] = Enabled(pool.cfg)[i].proxy
      <4>1. i \in 1..Len(clients) /\ i \in 1..Len(pools[n].clients)
        BY <2>3, <2>4, <3>3
      <4>2. clients[i] = IF i = idx THEN m.proxy ELSE pools[n].clients[i]
        BY <2>3, <4>1
      <4>3. CASE i = idx
        BY <2>1, <2>4, <4>2, <4>3, Zenon
      <4>4. CASE i # idx
        <5>1. pools[n].clients[i] = pool.clients[i]
          BY <2>4, <4>2, <4>4, Zenon
        <5>2. QED
          BY <2>4, <3>1, <3>3, <4>1, <5>1, Zenon DEF Sound
      <4>5. QED
        BY <4>3, <4>4
    <3>4. Sound(pool)
      BY <3>2, <3>3, Zenon DEF Sound
    <3>5. ASSUME NEW p \in 1..Len(pools') PROVE Sound(pools'[p])
      <4>1. p \in 1..Len(pools) /\ pools'[p] = IF p = n THEN pool ELSE pools[p]
        BY <2>6
      <4>2. QED
        BY <1>1, <3>4, <4>1, Zenon DEF CacheSound
    <3>6. QED
      BY <3>5, Zenon DEF CacheSound
  <2>9. QED
    BY <1>1, <2>6, <2>7, <2>8, EmptySeq DEF Types
<1>4. QED
  BY <1>2, <1>3

LEMMA CallKeeps == ASSUME IInv, NEW r \in Requests, Call(r) PROVE IInv'
<1> DEFINE idx == Head(left[r])
           key == IF NeedsKey(req[r]) THEN Own(r)[idx].key ELSE Blank
           try == Attempt(idx, key, Own(r)[idx].proxy)
<1>1. phase[r] = "next" /\ left[r] # << >>
  BY DEF Call
<1>2. /\ Types /\ CacheSound /\ Working(r) /\ Between(r) /\ Covered(r)
      /\ mine[r] \in 1..Len(pools) /\ idx \in 1..Len(Own(r)) /\ ~Asked(r, idx)
      /\ Own(r)[idx] \in Entries /\ Tail(left[r]) \in Seq(Nat) /\ Len(left[r]) \in Nat \ {0}
      /\ idx = left[r][1] /\ Len(Tail(left[r])) = Len(left[r]) - 1
      /\ \A i \in 1..(Len(left[r]) - 1) : Tail(left[r])[i] = left[r][i + 1]
  BY <1>1, NextMember, Zenon
<1>3. /\ HasClient(r, idx, Own(r)[idx])
      /\ pools' = Cached(r, idx, Own(r)[idx])
      /\ log' = [log EXCEPT ![r] =
                   Append(@, Attempt(idx, key, Via(r, idx, Own(r)[idx])))]
      /\ left' = [left EXCEPT ![r] = Tail(@)]
      /\ phase' = [phase EXCEPT ![r] = "calling"]
      /\ UNCHANGED <<mine, req, live, lastErr, answer>>
  BY Zenon DEF Call
<1>4. Via(r, idx, Own(r)[idx]) = Own(r)[idx].proxy /\ Own(r)[idx].proxy \in Proxies \cup {Blank}
  BY <1>2, <1>3, ViaOwnProxy
<1>5. PoolsKept /\ CacheSound' /\ pools' \in Seq(AnyPool) /\ pools' # << >>
  BY <1>2, <1>3, CallKeepsCache
<1>6. /\ try \in AnyAttempt /\ try.member = idx /\ try.via = Own(r)[idx].proxy
      /\ try.key \in {Blank, Own(r)[idx].key} /\ try.got = Pending
  <2>1. key \in Keys \cup {Blank} /\ key \in {Blank, Own(r)[idx].key}
    BY <1>2 DEF Entries
  <2>2. idx \in Nat
    BY <1>2
  <2> HIDE DEF idx, key
  <2>3. QED
    BY <1>4, <2>1, <2>2 DEF Attempt, AnyAttempt
<1>7. log' = [log EXCEPT ![r] = Append(log[r], try)]
  BY <1>3, <1>4
<1> HIDE DEF try, key
<1>8. /\ log[r] \in Seq(AnyAttempt) /\ log'[r] = Append(log[r], try) /\ phase'[r] = "calling"
      /\ left'[r] = Tail(left[r])
  BY <1>2, <1>3, <1>7 DEF Types
<1>9. /\ log'[r] \in Seq(AnyAttempt) /\ Len(log'[r]) = Len(log[r]) + 1 /\ Len(log[r]) \in Nat
      /\ \A i \in 1..Len(log[r]) : log'[r][i] = log[r][i]
      /\ log'[r][Len(log[r]) + 1] = try
  BY <1>6, <1>8, AppendProperties
<1>10. log'[r] # << >>
  BY <1>9, EmptySeq
<1>11. /\ Len(left[r]) \in Nat \ {0} /\ idx = left[r][1]
      /\ Len(left'[r]) = Len(left[r]) - 1
      /\ \A i \in 1..(Len(left[r]) - 1) : left'[r][i] = left[r][i + 1]
  BY <1>2, <1>8, Zenon
<1> HIDE DEF idx
<1>12. Types'
  BY <1>2, <1>3, <1>5, <1>7, <1>8, <1>9 DEF Types
<1>13. Own(r)' = Own(r)
  BY <1>2, <1>3, <1>5, OwnKept
<1>14. \A i \in 1..Len(left[r]) - 1 : left[r][i + 1] # idx /\ ~Asked(r, left[r][i + 1])
                                      /\ left[r][i + 1] \in 1..Len(Own(r))
  <2>1. LeftFresh(r)
    BY <1>2, Zenon DEF Working
  <2>2. ASSUME NEW i \in 1..Len(left[r]) - 1
        PROVE  /\ left[r][i + 1] # left[r][1] /\ ~Asked(r, left[r][i + 1])
               /\ left[r][i + 1] \in 1..Len(Own(r))
    <3>1. i + 1 \in 1..Len(left[r]) /\ 1 \in 1..Len(left[r]) /\ i + 1 # 1
      BY <1>11
    <3>2. QED
      BY <2>1, <3>1, Zenon DEF LeftFresh
  <2>3. QED
    BY <1>11, <2>2, Zenon
<1>15. \A k : Asked(r, k)' <=> (Asked(r, k) \/ k = idx)
  <2>1. \A i \in 1..Len(log'[r]) : i \in 1..Len(log[r]) \/ i = Len(log[r]) + 1
    BY <1>9
  <2>2. /\ \A i \in 1..Len(log[r]) : i \in 1..Len(log'[r])
        /\ Len(log[r]) + 1 \in 1..Len(log'[r])
    BY <1>9
  <2>3. \A k : Asked(r, k) => Asked(r, k)'
    BY <1>9, <2>2, Zenon DEF Asked
  <2>4. \A k : Asked(r, k)' => Asked(r, k) \/ k = idx
    BY <1>6, <1>9, <2>1, Zenon DEF Asked
  <2>5. ASSUME NEW k, k = idx PROVE Asked(r, k)'
    <3>1. log'[r][Len(log[r]) + 1].member = k
      BY <1>6, <1>9, <2>5, Zenon
    <3>2. QED
      BY <2>2, <3>1, Zenon DEF Asked
  <2>6. QED
    BY <2>3, <2>4, <2>5, Zenon
<1>16. \A k : Held(r, k) => Held(r, k)' \/ k = idx
  <2>1. ASSUME NEW i \in 1..Len(left[r]) PROVE i = 1 \/ (i - 1 \in 1..Len(left'[r]) /\ left'[r][i - 1] = left[r][i])
    BY <1>11
  <2>2. QED
    BY <1>11, <2>1 DEF Held
<1>17. Working(r)'
  <2>1. AttemptsSound(r)'
    <3>1. AttemptsSound(r) /\ Own(r) # << >>
      <4>1. Len(Own(r)) # 0
        BY <1>2, OwnIsSound, LenProperties
      <4>2. QED
        BY <1>2, <4>1 DEF Working
    <3>2. ASSUME NEW i \in 1..Len(log[r])
          PROVE  /\ log'[r][i].member \in 1..Len(Own(r))
                 /\ log'[r][i].via = Own(r)[log'[r][i].member].proxy
                 /\ log'[r][i].key \in {Blank, Own(r)[log'[r][i].member].key}
      <4>1. log'[r][i] = log[r][i]
        BY <1>9
      <4>2. QED
        BY <3>1, <4>1, Zenon DEF AttemptsSound
    <3>3. \A i \in 1..Len(log'[r]) : i \in 1..Len(log[r]) \/ i = Len(log[r]) + 1
      BY <1>9
    <3>4. ASSUME NEW i \in 1..Len(log'[r])
          PROVE  /\ log'[r][i].member \in 1..Len(Own(r))
                 /\ log'[r][i].via = Own(r)[log'[r][i].member].proxy
                 /\ log'[r][i].key \in {Blank, Own(r)[log'[r][i].member].key}
      <4>1. CASE i \in 1..Len(log[r])
        BY <3>2, <4>1, Zenon
      <4>2. CASE i = Len(log[r]) + 1
        BY <1>2, <1>6, <1>9, <4>2, Zenon
      <4>3. QED
        BY <3>3, <4>1, <4>2, Zenon
    <3>5. QED
      BY <1>13, <3>4, Zenon DEF AttemptsSound
  <2>2. AttemptsDiffer(r)'
    <3>1. AttemptsDiffer(r)
      BY <1>2 DEF Working
    <3>2. \A i \in 1..Len(log[r]) : log[r][i].member # idx
      BY <1>2 DEF Asked
    <3>3. \A i \in 1..Len(log'[r]) : i \in 1..Len(log[r]) \/ i = Len(log[r]) + 1
      BY <1>9
    <3>4. ASSUME NEW i \in 1..Len(log'[r]), NEW j \in 1..Len(log'[r]),
                 log'[r][i].member = log'[r][j].member
          PROVE  i = j
      <4>1. CASE i \in 1..Len(log[r]) /\ j \in 1..Len(log[r])
        BY <1>9, <3>1, <3>4, <4>1, Zenon DEF AttemptsDiffer
      <4>2. CASE i \in 1..Len(log[r]) /\ j = Len(log[r]) + 1
        BY <1>6, <1>9, <3>2, <3>4, <4>2, Zenon
      <4>3. CASE i = Len(log[r]) + 1 /\ j \in 1..Len(log[r])
        BY <1>6, <1>9, <3>2, <3>4, <4>3, Zenon
      <4>4. QED
        BY <3>3, <4>1, <4>2, <4>3, Zenon
    <3>5. QED
      BY <3>4, Zenon DEF AttemptsDiffer
  <2>3. LeftFresh(r)'
    <3>1. LeftFresh(r)
      BY <1>2 DEF Working
    <3>2. \A i \in 1..Len(left'[r]) : left'[r][i] \in 1..Len(Own(r)) /\ ~Asked(r, left[r][i])'
      BY <1>2, <1>14, <1>15, <1>11
    <3>3. ASSUME NEW i \in 1..Len(left'[r]), NEW j \in 1..Len(left'[r]),
                 left'[r][i] = left'[r][j]
          PROVE  i = j
      <4>1. i + 1 \in 1..Len(left[r]) /\ j + 1 \in 1..Len(left[r])
        BY <1>11
      <4>2. left[r][i + 1] = left[r][j + 1]
        BY <3>3, <4>1, <1>11
      <4>3. i + 1 = j + 1
        BY <3>1, <4>1, <4>2, Zenon DEF LeftFresh
      <4>4. QED
        BY <4>3
    <3>4. QED
      BY <1>13, <3>2, <3>3 DEF LeftFresh
  <2>4. EarlierFailed(r)'
    <3>1. EarlierFailed(r) /\ (log[r] # << >> => Worthwhile(log[r][Len(log[r])].got))
      BY <1>2 DEF Working, Between, Got
    <3>2. \A i \in 1..Len(log[r]) : Worthwhile(log[r][i].got)
      BY <1>9, <3>1 DEF EarlierFailed
    <3>3. QED
      BY <1>9, <3>2 DEF EarlierFailed
  <2>5. Covered(r)'
    <3>1. \A k : Unusable(r, k) => Unusable(r, k)'
      BY <1>3, <1>13 DEF Unusable
    <3>2. req'[r] = req[r]
      BY <1>3
    <3>3. QED
      BY <1>2, <1>13, <1>15, <1>16, <3>1, <3>2 DEF Covered
  <2>6. mine'[r] \in 1..Len(pools')
    BY <1>2, <1>3, <1>5, LenProperties DEF PoolsKept, Types
  <2>7. QED
    BY <1>8, <1>10, <2>1, <2>2, <2>3, <2>4, <2>5, <2>6 DEF Working
<1>18. \A s \in Requests \ {r} : Alone(s)
  BY <1>2, <1>3, <1>7 DEF Alone, Types
<1>19. QED
  BY <1>5, <1>8, <1>12, <1>17, <1>18, OneRequest DEF Request

LEMMA SkipKeeps == ASSUME IInv, NEW r \in Requests, Skip(r) PROVE IInv'
<1> DEFINE idx == Head(left[r])
<1>1. phase[r] = "next" /\ left[r] # << >> /\ ~HasClient(r, idx, Own(r)[idx])
  BY DEF Skip
<1>2. /\ Types /\ CacheSound /\ Working(r) /\ Between(r) /\ Covered(r)
      /\ mine[r] \in 1..Len(pools) /\ idx \in 1..Len(Own(r)) /\ ~Asked(r, idx)
      /\ Own(r)[idx] \in Entries /\ Tail(left[r]) \in Seq(Nat) /\ Len(left[r]) \in Nat \ {0}
      /\ idx = left[r][1] /\ Len(Tail(left[r])) = Len(left[r]) - 1
      /\ \A i \in 1..(Len(left[r]) - 1) : Tail(left[r])[i] = left[r][i + 1]
  BY <1>1, NextMember, Zenon
<1>3. Unusable(r, idx)
  BY <1>1, <1>2, NoClientIsUnusable
<1>4. /\ lastErr' = [lastErr EXCEPT ![r] = NoClient]
      /\ left' = [left EXCEPT ![r] = Tail(left[r])]
      /\ UNCHANGED <<pools, mine, req, live, phase, answer, log>>
  BY Zenon DEF Skip
<1>5. lastErr'[r] = NoClient /\ left'[r] = Tail(left[r])
  BY <1>2, <1>4 DEF Types
<1>6. /\ Len(left[r]) \in Nat \ {0} /\ idx = left[r][1]
      /\ Len(left'[r]) = Len(left[r]) - 1
      /\ \A i \in 1..(Len(left[r]) - 1) : left'[r][i] = left[r][i + 1]
  BY <1>2, <1>5, Zenon
<1> HIDE DEF idx
<1>7. Types'
  BY <1>2, <1>4 DEF Types
<1>8. CacheSound' /\ PoolsKept
  BY <1>2, <1>4, LenProperties DEF CacheSound, PoolsKept, Types
<1>9. Own(r)' = Own(r)
  BY <1>2, <1>4, <1>8, OwnKept
<1>10. \A k : /\ Asked(r, k)' <=> Asked(r, k)
              /\ Unusable(r, k)' <=> Unusable(r, k)
  BY <1>4, <1>9 DEF Asked, Unusable
<1>11. \A k : Held(r, k) => Held(r, k)' \/ k = idx
  <2>1. ASSUME NEW i \in 1..Len(left[r]) PROVE i = 1 \/ (i - 1 \in 1..Len(left'[r]) /\ left'[r][i - 1] = left[r][i])
    BY <1>6
  <2>2. QED
    BY <1>6, <2>1 DEF Held
<1>12. Working(r)'
  <2>1. AttemptsSound(r)' /\ AttemptsDiffer(r)' /\ EarlierFailed(r)'
    BY <1>2, <1>4, <1>9 DEF Working, AttemptsSound, AttemptsDiffer, EarlierFailed
  <2>2. LeftFresh(r)'
    <3>1. LeftFresh(r)
      BY <1>2 DEF Working
    <3>2. \A i \in 1..Len(left'[r]) : left'[r][i] \in 1..Len(Own(r)) /\ ~Asked(r, left[r][i])'
      <4>1. ASSUME NEW i \in 1..Len(left'[r])
            PROVE  i + 1 \in 1..Len(left[r]) /\ left'[r][i] = left[r][i + 1]
        BY <1>6
      <4>2. ASSUME NEW i \in 1..Len(left'[r])
            PROVE  left[r][i + 1] \in 1..Len(Own(r)) /\ ~Asked(r, left[r][i + 1])
        BY <3>1, <4>1, Zenon DEF LeftFresh
      <4>3. \A k : Asked(r, k)' => Asked(r, k)
        BY <1>10
      <4>4. QED
        BY <4>1, <4>2, <4>3
    <3>3. ASSUME NEW i \in 1..Len(left'[r]), NEW j \in 1..Len(left'[r]),
                 left'[r][i] = left'[r][j]
          PROVE  i = j
      <4>1. i + 1 \in 1..Len(left[r]) /\ j + 1 \in 1..Len(left[r])
        BY <1>6
      <4>2. left[r][i + 1] = left[r][j + 1]
        BY <3>3, <4>1, <1>6
      <4>3. i + 1 = j + 1
        BY <3>1, <4>1, <4>2, Zenon DEF LeftFresh
      <4>4. QED
        BY <4>3
    <3>4. QED
      BY <1>9, <3>2, <3>3 DEF LeftFresh
  <2>3. Between(r)'
    <3>1. SomeUnusable(r)'
      BY <1>2, <1>3, <1>9, <1>10 DEF SomeUnusable
    <3>2. log' = log /\ Got(r)' = Got(r)
      BY <1>4 DEF Got
    <3>3. QED
      BY <1>2, <1>5, <3>1, <3>2 DEF Between
  <2>4. Covered(r)'
    <3>1. Covered(r) /\ req' = req
      BY <1>2, <1>4
    <3>2. QED
      BY <1>3, <1>9, <1>10, <1>11, <3>1 DEF Covered
  <2>5. QED
    BY <1>1, <1>2, <1>4, <2>1, <2>2, <2>3, <2>4 DEF Working
<1>13. \A s \in Requests \ {r} : Alone(s)
  BY <1>2, <1>4 DEF Alone, Types
<1>14. QED
  BY <1>1, <1>4, <1>7, <1>8, <1>12, <1>13, OneRequest DEF Request

\* What a failure is worth is read off its status alone.
LEMMA RetryFacts ==
  ASSUME NEW got \in Outcomes
  PROVE  /\ Retryable(got) <=> Worthwhile(got)
         /\ Success(got) => ~Worthwhile(got)
         /\ got # NoClient /\ got # None
<1>1. got = 0 \/ got \in Nat \ (0..99)
  BY PoolAssumption DEF Outcomes, Transport
<1>2. QED
  BY <1>1 DEF Retryable, Worthwhile, Success, NoClient, None, Transport

\* An answer that is what the last attempt brought is told as it is.
LEMMA HonestAboutLast ==
  ASSUME NEW r, log'[r] # << >>, Got(r)' \in Outcomes, answer'[r] = Got(r)'
  PROVE  Honest(Reply(r), r)'
<1> DEFINE got == Got(r)'
           ok == Success(got) \/ req'[r].kind = "http"
<1>1. CASE got \in Statuses
  <2>1. HttpStatus(got) = got
    BY <1>1, StatusTold
  <2>2. CASE ok
    <3>1. Reply(r)' = [ok |-> TRUE, status |-> got]
      BY <1>1, <2>1, <2>2 DEF Reply
    <3>2. QED
      BY <2>2, <3>1 DEF Honest
  <2>3. CASE ~ok
    <3>1. Reply(r)' = [ok |-> FALSE, status |-> got]
      BY <1>1, <2>1, <2>3 DEF Reply
    <3>2. QED
      BY <2>3, <3>1 DEF Honest
  <2>4. QED
    BY <2>2, <2>3
<1>2. CASE got = Transport
  <2>1. got \notin Statuses /\ ~Success(got) /\ HttpStatus(got) = 0
    BY <1>2, OwnFailures, StatusTold
  <2>2. Reply(r)' = [ok |-> FALSE, status |-> 0]
    BY <2>1 DEF Reply
  <2>3. QED
    BY <1>2, <2>2 DEF Honest
<1>3. QED
  BY <1>1, <1>2 DEF Outcomes

LEMMA ExhaustedKeeps == ASSUME IInv, NEW r \in Requests, Exhausted(r) PROVE IInv'
<1>1. /\ phase[r] = "next" /\ left[r] = << >>
      /\ UNCHANGED <<pools, mine, req, live, left, lastErr, log>>
      /\ phase' = [phase EXCEPT ![r] = "done"]
      /\ answer' = [answer EXCEPT ![r] = IF lastErr[r] # None THEN lastErr[r] ELSE AllFailed]
  BY DEF Exhausted, Finish
<1>2. Types /\ CacheSound /\ Working(r) /\ Between(r) /\ Covered(r)
  BY <1>1 DEF IInv, Request, Working
<1>3. \/ lastErr[r] = NoClient /\ SomeUnusable(r)
      \/ log[r] # << >> /\ lastErr[r] = Got(r) /\ ~Success(Got(r)) /\ Got(r) \in Outcomes
  <2>1. log[r] # << >> => Got(r) \in Outcomes \cup {Pending}
    <3>1. log[r] \in Seq(AnyAttempt)
      BY <1>2 DEF Types
    <3>2. log[r] # << >> => log[r][Len(log[r])] \in AnyAttempt
      BY <3>1, EmptySeq, LenProperties, ElementOfSeq
    <3>3. QED
      BY <3>2 DEF AnyAttempt, Got
  <2>2. lastErr[r] \in Outcomes \cup {NoClient, None}
    BY <1>2 DEF Types
  <2>3. Pending \notin {NoClient, None}
    BY DEF Pending, NoClient, None
  <2>4. QED
    BY <1>1, <1>2, <2>1, <2>2, <2>3 DEF Between, Pending, None, Outcomes, NoClient
<1>4. lastErr[r] # None
  BY <1>3, RetryFacts DEF NoClient, None
<1>5. answer' = [answer EXCEPT ![r] = lastErr[r]] /\ answer'[r] = lastErr[r] /\ phase'[r] = "done"
  BY <1>1, <1>2, <1>4 DEF Types
<1>6. Types'
  <2>1. lastErr[r] \in Outcomes \cup {NoClient}
    BY <1>3
  <2>2. QED
    BY <1>1, <1>2, <1>5, <2>1 DEF Types
<1>7. CacheSound' /\ PoolsKept
  BY <1>1, <1>2, LenProperties DEF CacheSound, PoolsKept, Types
<1>8. Own(r)' = Own(r)
  BY <1>1 DEF Own
<1>9. \A k : /\ Asked(r, k)' <=> Asked(r, k)
             /\ Unusable(r, k)' <=> Unusable(r, k)
  BY <1>1, <1>8 DEF Asked, Unusable
<1>10. Working(r)'
  <2>1. AttemptsSound(r)' /\ AttemptsDiffer(r)' /\ EarlierFailed(r)' /\ LeftFresh(r)'
    BY <1>1, <1>2, <1>8, <1>9 DEF Working, AttemptsSound, AttemptsDiffer, EarlierFailed, LeftFresh
  <2>2. Tried(r)'
    <3>1. \A k : ~Held(r, k)
      BY <1>1 DEF Held
    <3>2. QED
      BY <1>1, <1>2, <1>8, <1>9, <3>1 DEF Covered, Tried
  <2>3. Honest(Reply(r), r)'
    <3>1. CASE lastErr[r] = NoClient /\ SomeUnusable(r)
      <4>1. Reply(r)' = [ok |-> FALSE, status |-> 0]
        BY <1>5, <3>1, StatusTold, OwnFailures DEF Reply
      <4>2. \E k \in 1..Len(Own(r)') : Unusable(r, k)'
        BY <1>8, <1>9, <3>1 DEF SomeUnusable
      <4>3. QED
        BY <4>1, <4>2 DEF Honest
    <3>2. CASE log[r] # << >> /\ lastErr[r] = Got(r) /\ ~Success(Got(r)) /\ Got(r) \in Outcomes
      <4>1. Got(r)' = Got(r) /\ log' = log
        BY <1>1 DEF Got
      <4>2. QED
        BY <1>5, <3>2, <4>1, HonestAboutLast
    <3>3. QED
      BY <1>3, <3>1, <3>2
  <2>4. QED
    BY <1>1, <1>2, <1>5, <2>1, <2>2, <2>3 DEF Working
<1>11. \A s \in Requests \ {r} : Alone(s)
  BY <1>1, <1>2 DEF Alone, Types
<1>12. QED
  BY <1>5, <1>6, <1>7, <1>10, <1>11, OneRequest DEF Request

\* The last attempt of r has brought got: the others are what they were.
Brought(r, got) ==
  /\ log' \in [Requests -> Seq(AnyAttempt)]
  /\ \A s \in Requests \ {r} : log'[s] = log[s]
  /\ Len(log'[r]) = Len(log[r]) /\ log'[r] # << >> /\ Got(r)' = got
  /\ \A i \in 1..Len(log[r]) :
       /\ log'[r][i].member = log[r][i].member
       /\ log'[r][i].key = log[r][i].key /\ log'[r][i].via = log[r][i].via
       /\ i # Len(log[r]) => log'[r][i].got = log[r][i].got

LEMMA LastAttempt ==
  ASSUME IInv, NEW r \in Requests, phase[r] \in {"calling", "errbody"}
  PROVE  /\ Types /\ CacheSound /\ Working(r) /\ Covered(r)
         /\ mine[r] \in 1..Len(pools) /\ log[r] \in Seq(AnyAttempt) /\ log[r] # << >>
         /\ Len(log[r]) \in Nat \ {0} /\ log[r][Len(log[r])] \in AnyAttempt
<1>1. Types /\ CacheSound /\ Working(r)
  BY DEF IInv, Request
<1>2. log[r] # << >> /\ Covered(r) /\ mine[r] \in 1..Len(pools)
  BY <1>1 DEF Working
<1>3. log[r] \in Seq(AnyAttempt)
  BY <1>1 DEF Types
<1>4. QED
  BY <1>1, <1>2, <1>3, EmptySeq, LenProperties, ElementOfSeq

LEMMA RespondBrings ==
  ASSUME IInv, NEW r \in Requests, phase[r] = "calling", NEW got \in Outcomes,
         log' = [log EXCEPT ![r][Len(log[r])].got = got]
  PROVE  Brought(r, got)
<1> DEFINE n == Len(log[r])
           try == [log[r][n] EXCEPT !.got = got]
           tries == [log[r] EXCEPT ![n] = try]
<1>1. /\ Types /\ log[r] \in Seq(AnyAttempt) /\ n \in Nat \ {0} /\ log[r][n] \in AnyAttempt
  BY LastAttempt
<1>2. /\ try \in AnyAttempt /\ try.got = got /\ try.member = log[r][n].member
      /\ try.key = log[r][n].key /\ try.via = log[r][n].via
  BY <1>1 DEF AnyAttempt
<1>3. log' = [log EXCEPT ![r] = tries]
  OBVIOUS
<1> HIDE DEF try
<1>4. /\ tries \in Seq(AnyAttempt) /\ Len(tries) = n
      /\ \A i \in 1..n : tries[i] = IF i = n THEN try ELSE log[r][i]
  BY <1>1, <1>2, ExceptSeq
<1> HIDE DEF tries
<1>5. log' \in [Requests -> Seq(AnyAttempt)] /\ log'[r] = tries
      /\ \A s \in Requests \ {r} : log'[s] = log[s]
  <2>1. log \in [Requests -> Seq(AnyAttempt)]
    BY <1>1, Zenon DEF Types
  <2>2. QED
    BY <1>3, <1>4, <2>1, Zenon
<1>6. log'[r] # << >>
  BY <1>1, <1>4, <1>5, EmptySeq
<1>7. Got(r)' = got
  BY <1>1, <1>2, <1>4, <1>5 DEF Got
<1>8. QED
  BY <1>1, <1>2, <1>4, <1>5, <1>6, <1>7 DEF Brought

\* What was known of the attempts holds of them whatever the last one brought.
LEMMA BroughtKeeps ==
  ASSUME IInv, NEW r \in Requests, NEW got \in Outcomes,
         phase[r] \in {"calling", "errbody"}, Brought(r, got),
         UNCHANGED <<pools, mine, req, live, left>>
  PROVE  /\ CacheSound' /\ PoolsKept /\ Own(r)' = Own(r) /\ mine'[r] \in 1..Len(pools')
         /\ AttemptsSound(r)' /\ AttemptsDiffer(r)' /\ LeftFresh(r)' /\ EarlierFailed(r)'
         /\ Covered(r)'
<1> DEFINE n == Len(log[r])
<1>1. /\ Types /\ CacheSound /\ Working(r) /\ Covered(r) /\ n \in Nat
      /\ mine[r] \in 1..Len(pools)
  BY LastAttempt
<1>2. CacheSound' /\ PoolsKept /\ Own(r)' = Own(r) /\ mine'[r] \in 1..Len(pools')
  BY <1>1, LenProperties DEF CacheSound, PoolsKept, Own, Types
<1>3. /\ Len(log'[r]) = n
      /\ \A i \in 1..n : /\ log'[r][i].member = log[r][i].member
                         /\ log'[r][i].key = log[r][i].key /\ log'[r][i].via = log[r][i].via
                         /\ i # n => log'[r][i].got = log[r][i].got
  BY DEF Brought
<1> HIDE DEF n
<1>4. \A k : /\ Asked(r, k)' <=> Asked(r, k)
             /\ Held(r, k)' <=> Held(r, k)
             /\ Unusable(r, k)' <=> Unusable(r, k)
  BY <1>2, <1>3 DEF Asked, Held, Unusable, n
<1>5. AttemptsSound(r)'
  <2>1. AttemptsSound(r)
    BY <1>1 DEF Working
  <2>2. ASSUME NEW i \in 1..n
        PROVE  \/ log'[r][i].member = 0 /\ log'[r][i].key = Blank /\ Own(r) = << >>
               \/ /\ log'[r][i].member \in 1..Len(Own(r))
                  /\ log'[r][i].via = Own(r)[log'[r][i].member].proxy
                  /\ log'[r][i].key \in {Blank, Own(r)[log'[r][i].member].key}
    BY <1>3, <2>1, Zenon DEF AttemptsSound, n
  <2>3. QED
    BY <1>2, <1>3, <2>2, Zenon DEF AttemptsSound
<1>6. AttemptsDiffer(r)'
  BY <1>1, <1>3 DEF Working, AttemptsDiffer, n
<1>7. LeftFresh(r)'
  BY <1>1, <1>2, <1>4 DEF Working, LeftFresh
<1>8. EarlierFailed(r)'
  BY <1>1, <1>3 DEF Working, EarlierFailed, n
<1>9. Covered(r)'
  BY <1>1, <1>2, <1>4 DEF Covered
<1>10. QED
  BY <1>2, <1>5, <1>6, <1>7, <1>8, <1>9

LEMMA FailOverKeeps ==
  ASSUME IInv, NEW r \in Requests, NEW got \in Outcomes, ~Success(got),
         phase[r] \in {"calling", "errbody"}, Brought(r, got), FailOver(r, got),
         UNCHANGED <<pools, mine, req, live, left>>
  PROVE  IInv'
<1>1. Types /\ CacheSound
  BY DEF IInv
<1>2. /\ CacheSound' /\ PoolsKept /\ Own(r)' = Own(r) /\ mine'[r] \in 1..Len(pools')
      /\ AttemptsSound(r)' /\ AttemptsDiffer(r)' /\ LeftFresh(r)' /\ EarlierFailed(r)'
      /\ Covered(r)'
  BY BroughtKeeps
<1>3. /\ log'[r] # << >> /\ Got(r)' = got
      /\ log' \in [Requests -> Seq(AnyAttempt)] /\ \A s \in Requests \ {r} : log'[s] = log[s]
  BY DEF Brought
<1>4. lastErr' = [lastErr EXCEPT ![r] = got]
  BY DEF FailOver
<1>5. got # NoClient /\ (Retryable(got) <=> Worthwhile(got))
  BY RetryFacts
<1>6. CASE Retryable(got) /\ live[r]
  <2>1. phase' = [phase EXCEPT ![r] = "next"] /\ UNCHANGED answer
    BY <1>6 DEF FailOver
  <2>2. phase'[r] = "next" /\ lastErr'[r] = got
    BY <1>1, <1>4, <2>1 DEF Types
  <2>3. Types'
    BY <1>1, <1>3, <1>4, <2>1 DEF Types
  <2>4. Between(r)'
    BY <1>3, <1>5, <1>6, <2>2 DEF Between
  <2>5. Working(r)'
    BY <1>2, <2>2, <2>4 DEF Working
  <2>6. \A s \in Requests \ {r} : Alone(s)
    BY <1>1, <1>3, <1>4, <2>1 DEF Alone, Types
  <2>7. QED
    BY <1>2, <2>2, <2>3, <2>5, <2>6, OneRequest DEF Request
<1>7. CASE ~(Retryable(got) /\ live[r])
  <2>1. phase' = [phase EXCEPT ![r] = "done"] /\ answer' = [answer EXCEPT ![r] = got]
    BY <1>7 DEF FailOver, Finish
  <2>2. phase'[r] = "done" /\ answer'[r] = got
    BY <1>1, <2>1 DEF Types
  <2>3. Types'
    BY <1>1, <1>3, <1>4, <2>1 DEF Types
  <2>4. Tried(r)'
    <3>1. live' = live
      OBVIOUS
    <3>2. QED
      BY <1>5, <1>7, <2>2, <3>1 DEF Tried
  <2>5. Honest(Reply(r), r)'
    BY <1>3, <2>2, HonestAboutLast
  <2>6. Working(r)'
    BY <1>2, <2>2, <2>4, <2>5 DEF Working
  <2>7. \A s \in Requests \ {r} : Alone(s)
    BY <1>1, <1>3, <1>4, <2>1 DEF Alone, Types
  <2>8. QED
    BY <1>2, <2>2, <2>3, <2>6, <2>7, OneRequest DEF Request
<1>8. QED
  BY <1>6, <1>7

LEMMA RespondKeeps ==
  ASSUME IInv, NEW r \in Requests, NEW got \in Outcomes, Respond(r, got)
  PROVE  IInv'
<1>1. /\ phase[r] = "calling" /\ Brought(r, got)
      /\ UNCHANGED <<pools, mine, req, live, left>>
  BY RespondBrings DEF Respond
<1>2. Types /\ CacheSound
  BY DEF IInv
<1>3. /\ CacheSound' /\ PoolsKept /\ Own(r)' = Own(r) /\ mine'[r] \in 1..Len(pools')
      /\ AttemptsSound(r)' /\ AttemptsDiffer(r)' /\ LeftFresh(r)' /\ EarlierFailed(r)'
      /\ Covered(r)'
  BY <1>1, BroughtKeeps
<1>4. /\ log'[r] # << >> /\ Got(r)' = got
      /\ log' \in [Requests -> Seq(AnyAttempt)] /\ \A s \in Requests \ {r} : log'[s] = log[s]
  BY <1>1 DEF Brought
<1>5. CASE (req[r].kind = "http" \/ Success(got)) /\ Finish(r, got) /\ UNCHANGED lastErr
  <2>1. phase' = [phase EXCEPT ![r] = "done"] /\ answer' = [answer EXCEPT ![r] = got]
    BY <1>5 DEF Finish
  <2>2. phase'[r] = "done" /\ answer'[r] = got
    BY <1>2, <2>1 DEF Types
  <2>3. Types'
    BY <1>1, <1>2, <1>4, <1>5, <2>1 DEF Types
  <2>4. Tried(r)'
    <3>1. Success(got) => ~Worthwhile(got) /\ got # NoClient
      BY RetryFacts
    <3>2. QED
      BY <1>1, <1>5, <2>2, <3>1 DEF Tried
  <2>5. Honest(Reply(r), r)'
    BY <1>4, <2>2, HonestAboutLast
  <2>6. Working(r)'
    BY <1>3, <2>2, <2>4, <2>5 DEF Working
  <2>7. \A s \in Requests \ {r} : Alone(s)
    BY <1>1, <1>2, <1>4, <1>5, <2>1 DEF Alone, Types
  <2>8. QED
    BY <1>3, <2>2, <2>3, <2>6, <2>7, OneRequest DEF Request
<1>6. CASE /\ req[r].kind = "stream" /\ ~Success(got) /\ got # Transport
           /\ phase' = [phase EXCEPT ![r] = "errbody"]
           /\ UNCHANGED <<lastErr, answer>>
  <2>1. phase'[r] = "errbody" /\ req'[r].kind = "stream" /\ got \in Statuses
    BY <1>1, <1>2, <1>6 DEF Types, Outcomes
  <2>2. Types'
    BY <1>1, <1>2, <1>4, <1>6 DEF Types
  <2>3. Working(r)'
    BY <1>3, <1>4, <1>6, <2>1 DEF Working
  <2>4. \A s \in Requests \ {r} : Alone(s)
    BY <1>1, <1>2, <1>4, <1>6 DEF Alone, Types
  <2>5. QED
    BY <1>3, <2>1, <2>2, <2>3, <2>4, OneRequest DEF Request
<1>7. CASE /\ \/ req[r].kind = "execute" /\ ~Success(got)
              \/ req[r].kind = "stream" /\ got = Transport
           /\ FailOver(r, got)
  <2>1. ~Success(got)
    BY <1>7, OwnFailures
  <2>2. QED
    BY <1>1, <1>7, <2>1, FailOverKeeps
<1>8. QED
  BY <1>5, <1>6, <1>7, Zenon DEF Respond

LEMMA ReadErrorBodyKeeps == ASSUME IInv, NEW r \in Requests, ReadErrorBody(r) PROVE IInv'
<1>1. /\ phase[r] = "errbody" /\ FailOver(r, Got(r))
      /\ UNCHANGED <<pools, mine, req, live, left, log>>
  BY DEF ReadErrorBody
<1>2. Types /\ Working(r) /\ log[r] # << >>
  BY <1>1, LastAttempt
<1>3. Got(r) \in Outcomes /\ ~Success(Got(r))
  BY <1>1, <1>2 DEF Working, Outcomes
<1>4. Brought(r, Got(r))
  BY <1>1, <1>2 DEF Brought, Got, Types
<1>5. QED
  BY <1>1, <1>3, <1>4, FailOverKeeps

-----------------------------------------------------------------------------
(* The invariant, and what it gives.                                       *)

LEMMA NextKeeps == IInv /\ [Next]_vars => IInv'
<1> SUFFICES ASSUME IInv, [Next]_vars PROVE IInv'
  OBVIOUS
<1>1. CASE UNCHANGED vars
  <2>1. Types' /\ CacheSound'
    BY <1>1 DEF vars, IInv, Types, CacheSound
  <2>2. PoolsKept /\ \A r \in Requests : Alone(r)
    BY <1>1, LenProperties DEF vars, IInv, Types, PoolsKept, Alone
  <2>3. \A r \in Requests : Request(r)'
    BY <2>2, RequestKept DEF IInv
  <2>4. QED
    BY <2>1, <2>3 DEF IInv
<1>2. CASE Reconfigure
  BY <1>2, ReconfigureKeeps
<1>3. ASSUME NEW r \in Requests, Start(r) PROVE IInv'
  BY <1>3, StartKeeps
<1>4. ASSUME NEW r \in Requests, Cancel(r) PROVE IInv'
  BY <1>4, CancelKeeps
<1>5. ASSUME NEW r \in Requests, Call(r) PROVE IInv'
  BY <1>5, CallKeeps
<1>6. ASSUME NEW r \in Requests, Skip(r) PROVE IInv'
  BY <1>6, SkipKeeps
<1>7. ASSUME NEW r \in Requests, Exhausted(r) PROVE IInv'
  BY <1>7, ExhaustedKeeps
<1>8. ASSUME NEW r \in Requests, NEW got \in Statuses \cup {Transport}, Respond(r, got)
      PROVE  IInv'
  BY <1>8, RespondKeeps DEF Outcomes
<1>9. ASSUME NEW r \in Requests, ReadErrorBody(r) PROVE IInv'
  BY <1>9, ReadErrorBodyKeeps
<1>10. QED
  BY <1>1, <1>2, <1>3, <1>4, <1>5, <1>6, <1>7, <1>8, <1>9, Zenon DEF Next, Step, Terminated

THEOREM Invariance == Spec => []IInv
<1>1. Init => IInv
  BY InitHolds
<1>2. IInv /\ [Next]_vars => IInv'
  BY NextKeeps
<1>3. QED
  BY <1>1, <1>2, PTL DEF Spec

\* The state keeps its shape (executor.go, pool.go).
THEOREM TypeCorrect == Spec => []TypeOK
<1>1. ASSUME IInv PROVE TypeOK
  <2>1. Types /\ CacheSound /\ \A r \in Requests : Request(r)
    BY <1>1 DEF IInv
  <2>2. ASSUME NEW p \in 1..Len(pools)
        PROVE  /\ pools[p].cfg \in Configs
               /\ pools[p].clients \in [1..Len(pools[p].cfg.keys) -> Proxies \cup {Blank}]
    <3>1. pools[p] \in AnyPool
      BY <2>1, ElementOfSeq DEF Types
    <3>2. pools[p].cfg \in Configs /\ pools[p].clients \in Seq(Proxies \cup {Blank})
      BY <3>1 DEF AnyPool
    <3>3. Len(pools[p].clients) = Len(pools[p].cfg.keys)
      BY <2>1 DEF CacheSound, Sound
    <3>4. QED
      BY <3>2, <3>3, LenProperties
  <2>3. mine \in [Requests -> 0..Len(pools)]
    <3>1. mine \in [Requests -> Nat] /\ Len(pools) \in Nat
      BY <2>1, LenProperties DEF Types
    <3>2. \A r \in Requests : mine[r] = 0 \/ mine[r] \in 1..Len(pools)
      BY <2>1 DEF Request, Waiting, Working
    <3>3. QED
      BY <3>1, <3>2
  <2>4. \A r \in Requests : \A i \in 1..Len(log[r]) : log[r][i] \in AnyAttempt
    BY <2>1, ElementOfSeq DEF Types
  <2>5. QED
    BY <2>1, <2>2, <2>3, <2>4 DEF TypeOK, Types, AnyAttempt
<1>2. QED
  BY <1>1, Invariance, PTL

\* No member is asked twice by a request, and none after a failure that is the
\* request's own or after a success (pool.go:262-266).
THEOREM TrailsAreSound == Spec => []TrailSound
<1>1. ASSUME IInv PROVE TrailSound
  <2>1. ASSUME NEW r \in Requests, NEW i \in 1..Len(log[r]), NEW j \in 1..(i - 1)
        PROVE  log[r][i].member # log[r][j].member /\ Worthwhile(log[r][j].got)
    <3>1. log[r] # << >> /\ Len(log[r]) \in Nat
      BY <1>1, LenProperties DEF IInv, Types
    <3>2. Working(r)
      BY <1>1, <3>1 DEF IInv, Request, Waiting
    <3>3. j \in 1..(Len(log[r]) - 1) /\ j \in 1..Len(log[r]) /\ i # j
      BY <3>1
    <3>4. QED
      BY <3>2, <3>3 DEF Working, AttemptsDiffer, EarlierFailed
  <2>2. QED
    BY <2>1 DEF TrailSound
<1>2. QED
  BY <1>1, Invariance, PTL

\* A completion fails only for a fault of its own, once its context is over, or
\* when every member that has a client was asked (executor.go, pool.go).
THEOREM AllAreTried == Spec => []NoneLeftUntried
<1>1. ASSUME IInv PROVE NoneLeftUntried
  BY <1>1 DEF IInv, Request, Working, Tried, NoneLeftUntried
<1>2. QED
  BY <1>1, Invariance, PTL

\* What the host reads is what the last member tried brought, and a status is
\* never made up (executor.go:409-410, pool.go:264).
THEOREM AnswersAreHonest == Spec => []HonestAnswer
<1>1. ASSUME IInv PROVE HonestAnswer
  BY <1>1 DEF IInv, Request, Working, HonestAnswer
<1>2. QED
  BY <1>1, Invariance, PTL

\* An attempt that bears a key is one of a member of its request.
LEMMA KeyedAttempt ==
  ASSUME IInv, NEW r \in Requests, NEW i \in 1..Len(log[r]), log[r][i].key # Blank
  PROVE  LET cfg == pools[mine[r]].cfg
         IN  /\ cfg \in Configs /\ cfg.keys \in Seq(Entries)
             /\ \E m \in Entries : /\ MemberOf(cfg, req[r].auth, m)
                                   /\ log[r][i].key = m.key /\ log[r][i].via = m.proxy
<1>1. Types /\ log[r] # << >>
  BY DEF IInv
<1>2. mine[r] \in 1..Len(pools) /\ AttemptsSound(r)
  BY <1>1 DEF IInv, Request, Waiting, Working
<1>3. PICK k \in 1..Len(Own(r)) : log[r][i].via = Own(r)[k].proxy /\ log[r][i].key = Own(r)[k].key
  BY <1>2 DEF AttemptsSound
<1>4. /\ pools[mine[r]].cfg \in Configs /\ Own(r)[k] \in Entries
      /\ MemberOf(pools[mine[r]].cfg, req[r].auth, Own(r)[k])
  BY <1>1, <1>2, OwnIsSound
<1>5. pools[mine[r]].cfg.keys \in Seq(Entries)
  BY <1>4, PoolAssumption
<1>6. QED
  BY <1>3, <1>4, <1>5

\* A key leaves only by its own entry's proxy, or by the host if it has none,
\* whichever request built the client and whatever came since (pool.go:114-136).
THEOREM KeysGoTheirOwnWay == Spec => []KeyGoesItsOwnWay
<1>1. ASSUME IInv PROVE KeyGoesItsOwnWay
  <2>1. ASSUME NEW r \in Requests, NEW i \in 1..Len(log[r]), log[r][i].key # Blank
        PROVE  LET own == {e \in Range(pools[mine[r]].cfg.keys) : e.key = log[r][i].key}
               IN  log[r][i].via \in (IF own # {} THEN {e.proxy : e \in own} ELSE {Blank})
    <3> DEFINE cfg == pools[mine[r]].cfg
               own == {e \in Range(cfg.keys) : e.key = log[r][i].key}
    <3>1. PICK m \in Entries :
            /\ MemberOf(cfg, req[r].auth, m)
            /\ log[r][i].key = m.key /\ log[r][i].via = m.proxy
      BY <1>1, <2>1, KeyedAttempt, Zenon
    <3>2. Range(cfg.keys) = {cfg.keys[j] : j \in 1..Len(cfg.keys)}
      <4>1. DOMAIN cfg.keys = 1..Len(cfg.keys)
        BY <1>1, <2>1, KeyedAttempt
      <4>2. QED
        BY <4>1 DEF Range
    <3> HIDE DEF cfg
    <3>3. CASE \E j \in 1..Len(cfg.keys) : m = cfg.keys[j]
      <4>1. m \in own
        BY <3>1, <3>2, <3>3
      <4>2. QED
        BY <3>1, <4>1 DEF cfg
    <3>4. CASE (\A j \in 1..Len(cfg.keys) : cfg.keys[j].key = Blank) /\ m.proxy = Blank
      <4>1. own = {}
        BY <2>1, <3>2, <3>4
      <4>2. QED
        BY <3>1, <3>4, <4>1 DEF cfg
    <3>5. QED
      BY <3>1, <3>3, <3>4, Zenon DEF MemberOf
  <2>2. QED
    BY <2>1, Zenon DEF KeyGoesItsOwnWay
<1>2. QED
  BY <1>1, Invariance, PTL

\* A disabled key is not sent, and a pool that defines keys never lends the
\* request to the legacy key or to the request's own (pool.go:60-64).
THEOREM PoolsFailClosed == Spec => []PoolFailsClosed
<1>1. ASSUME IInv PROVE PoolFailsClosed
  <2>1. ASSUME NEW r \in Requests, NEW i \in 1..Len(log[r]), log[r][i].key # Blank
        PROVE  LET cfg     == pools[mine[r]].cfg
                   defined == {e \in Range(cfg.keys) : e.key # Blank}
               IN  IF defined = {} THEN log[r][i].key \in {cfg.legacy, req[r].auth}
                   ELSE \E e \in defined : e.key = log[r][i].key /\ ~e.disabled
    <3> DEFINE cfg     == pools[mine[r]].cfg
               defined == {e \in Range(cfg.keys) : e.key # Blank}
    <3>1. PICK m \in Entries :
            /\ MemberOf(cfg, req[r].auth, m)
            /\ log[r][i].key = m.key /\ log[r][i].via = m.proxy
      BY <1>1, <2>1, KeyedAttempt, Zenon
    <3>2. Range(cfg.keys) = {cfg.keys[j] : j \in 1..Len(cfg.keys)}
      <4>1. DOMAIN cfg.keys = 1..Len(cfg.keys)
        BY <1>1, <2>1, KeyedAttempt
      <4>2. QED
        BY <4>1 DEF Range
    <3> HIDE DEF cfg
    <3>3. CASE Usable(m) /\ \E j \in 1..Len(cfg.keys) : m = cfg.keys[j]
      <4>1. m \in defined /\ ~m.disabled
        BY <3>1, <3>2, <3>3 DEF Usable
      <4>2. QED
        BY <3>1, <4>1 DEF cfg
    <3>4. CASE /\ \A j \in 1..Len(cfg.keys) : cfg.keys[j].key = Blank
               /\ m.key \in {cfg.legacy, req[r].auth}
      <4>1. defined = {}
        BY <3>2, <3>4
      <4>2. QED
        BY <3>1, <3>4, <4>1 DEF cfg
    <3>5. QED
      BY <3>1, <3>3, <3>4, Zenon DEF MemberOf
  <2>2. QED
    BY <2>1, Zenon DEF PoolFailsClosed
<1>2. QED
  BY <1>1, Invariance, PTL

=============================================================================
