\* Two requests at a time from one address, with one token: every race of the
\* block dictionaries, the buckets and the clock; the observed interval may
\* start at any instant.
CONSTANTS
  Requests = {r1, r2}
  Ips = {i1}
  Tokens = {t1}
  NoToken = NoToken
  None = None
  IpLimit = 2
  IpWindow = 2
  TokenLimit = 1
  TokenWindow = 2
  LogSuppress = 1
  MaxConsecutiveBlocks = 1
  MaxBlock = 3
  MaxClock = 3
SYMMETRY Symmetry
SPECIFICATION WSpec
INVARIANTS IndInv CountBoundedByConcurrency BlocksExpire WindowBound
