SPECIFICATION FairSpec
CONSTANTS
  Requests = {r1, r2}
  Asks <- MCAsks
  Configs <- MCConfigs
  Reconfigs <- MCReconfigs
  MaxPools = 2
  Keys = {"k1", "k2", "k3", "old"}
  Proxies = {"p1", "p2"}
  BadProxies = {"bad"}
  Statuses = {200, 400, 401}
  Blank = ""
  r1 = r1
  r2 = r2
INVARIANTS
  TypeOK
  TrailSound
  NoneLeftUntried
  HonestAnswer
  KeyGoesItsOwnWay
  PoolFailsClosed
PROPERTIES
  Answered
