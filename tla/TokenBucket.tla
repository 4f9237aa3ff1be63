------------------------------ MODULE TokenBucket ------------------------------
(***************************************************************************)
(* The class TokenBucket of Middleware/RateLimitingMiddleware.cs: its      *)
(* arithmetic, as operators on a bucket value.  A bucket has the capacity  *)
(* c and fills up in w seconds.  The code keeps a real number of tokens    *)
(* and adds elapsed * (c / w) of them; here one token is w units, so that  *)
(* a second adds exactly c units and every quantity is an integer.  The    *)
(* lock of the class makes each operation atomic.                          *)
(***************************************************************************)
EXTENDS Integers

\* The units in a full bucket.
Full(c, w) == c * w

\* Values a bucket may have.
Bucket == [tokens : Nat, lastRefill : Nat]

\* The constructor: a bucket starts full.
NewBucket(c, w, t) == [tokens |-> Full(c, w), lastRefill |-> t]

\* A refill that forgets the capacity.
RefillTokensUncapped(b, c, w, t) ==
  IF t <= b.lastRefill THEN b
  ELSE [tokens |-> b.tokens + (t - b.lastRefill) * c, lastRefill |-> t]

\* RefillTokens at time t: nothing when no time has passed, else the units
\* of the elapsed time, up to the capacity.
RefillTokens(b, c, w, t) ==
  LET topped == b.tokens + (t - b.lastRefill) * c
  IN  IF t <= b.lastRefill
        THEN b
        ELSE [tokens     |-> IF topped <= Full(c, w) THEN topped ELSE Full(c, w),
              lastRefill |-> t]

\* A test that takes a part of a token for a whole one.
CanConsumePart(b, w) == b.tokens > 0

\* The test of TryConsume(1), made on a bucket already refilled.
CanConsume(b, w) == b.tokens >= w

\* TryConsume(1): refill, then take a token when there is a whole one.
TryConsume(b, c, w, t) ==
  LET r == RefillTokens(b, c, w, t)
  IN  IF CanConsume(r, w) THEN [r EXCEPT !.tokens = @ - w] ELSE r

\* Whether TryConsume(1) at time t grants the request.
Grants(b, c, w, t) == CanConsume(RefillTokens(b, c, w, t), w)
================================================================================
