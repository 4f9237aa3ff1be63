\* Two servers share a Redis that fails; both fall back to memory.
CONSTANTS
  Home = {r1, r2}
  Elsewhere = {r3}
  Requests = {r1, r2, r3}
  Instances = {"s1", "s2"}
  HomeOf <- MCHomeOf
  Keys = {k1}
  RedisConfigured = TRUE
  Fallback = TRUE
  RedisFails = TRUE
  Free = Free
  Orphan = Orphan
SYMMETRY Symmetry
SPECIFICATION LockSpec
INVARIANTS LockInv
PROPERTIES LeaseKept SemaphoresExclude
