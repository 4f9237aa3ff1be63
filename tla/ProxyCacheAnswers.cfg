\* Two requests for one key on a server whose Redis fails.
CONSTANTS
  Home = {r1, r2}
  Elsewhere = {}
  Requests = {r1, r2}
  Instances = {"s1"}
  RedisConfigured = TRUE
  Fallback = TRUE
  RedisFails = TRUE
  Callers = {c1}
  Paths = {"p"}
  Ids = {}
  HomeOf <- MCHomeOf
  Keys <- MCKeys
  Free = Free
  Orphan = Orphan
  NoId = NoId
  Redis = Redis
  Nowhere = Nowhere
  Throws = Throws
  NoEntry = NoEntry
SPECIFICATION FairProxySpec
PROPERTIES Answered
