\* Two requests of two callers on one server, with a Redis that fails and memory
\* to fall back to; the server may also start without Redis.
CONSTANTS
  Home = {r1, r2}
  Elsewhere = {}
  Requests = {r1, r2}
  Instances = {"s1"}
  RedisConfigured = TRUE
  Fallback = TRUE
  RedisFails = TRUE
  Callers = {c1, c2}
  Paths = {"p"}
  Ids = {}
  HomeOf <- MCHomeOf
  Keys <- MCKeys
  Free = Free
  Orphan = Orphan
  NoId = NoId
  Redis = Redis
  Nowhere = Nowhere
  Throws = Throws
  NoEntry = NoEntry
SYMMETRY Symmetry
SPECIFICATION ProxySpec
INVARIANTS HandlesReturned CallersApart FetchOnce
