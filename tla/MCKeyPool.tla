----------------------------- MODULE MCKeyPool -----------------------------
(***************************************************************************)
(* Configurations and requests for checking KeyPool with TLC.              *)
(***************************************************************************)
EXTENDS KeyPool, TLC

CONSTANTS r1, r2

Entry(key, proxy, disabled) == [key |-> key, proxy |-> proxy, disabled |-> disabled]

Pool(keys) == [keys |-> keys, legacy |-> "old"]

ThreeMembers ==
  Pool(<<Entry("k1", "p1", TRUE), Entry("k2", "p2", FALSE), Entry("k3", "p1", FALSE)>>)

HostAndProxy == Pool(<<Entry("k1", "", FALSE), Entry("k2", "p2", FALSE)>>)

AllDisabled == Pool(<<Entry("k1", "p1", TRUE)>>)

NoPool == [keys |-> << >>, legacy |-> ""]

\* Two proxies behind a disabled entry, a host member before a proxied one, a
\* proxy that cannot be used, all disabled, a pool of blanks, no pool.
MCConfigs ==
  { ThreeMembers, HostAndProxy, AllDisabled, NoPool,
    Pool(<<Entry("k1", "bad", FALSE), Entry("k2", "", FALSE)>>),
    Pool(<<Entry("", "p1", FALSE)>>) }

MCReconfigs == {HostAndProxy, AllDisabled, NoPool}

Ask(kind, auth, bearer, hosted) ==
  [kind |-> kind, auth |-> auth, bearer |-> bearer, hosted |-> hosted]

\* One request asks for each kind of call, with and without a key, a bearer and
\* a client of the host's; the other for a completion.
MCAsks ==
  r1 :> { Ask("execute", "k3", FALSE, TRUE), Ask("execute", "", FALSE, FALSE),
          Ask("stream", "", FALSE, TRUE), Ask("http", "k3", FALSE, TRUE),
          Ask("http", "", TRUE, TRUE), Ask("http", "", TRUE, FALSE) }
  @@ r2 :> { Ask("execute", "", FALSE, TRUE) }
=============================================================================
