-------------------------- MODULE RateLimiter_proofs --------------------------
(***************************************************************************)
(* What holds of the rate limiter for any number of requests, addresses,   *)
(* tokens and any settings.                                                *)
(***************************************************************************)
EXTENDS RateLimiterWindow, FiniteSetTheorems, TLAPS

--------------------------------------------------------------------------------
(* The arithmetic of a bucket. *)

LEMMA NatSum == \A x, y \in Nat : 0 <= x + y
  OBVIOUS

\* Products of naturals are naturals (the provers' arithmetic is linear).
LEMMA NatProduct == ASSUME NEW a \in Nat, NEW b \in Nat PROVE a * b \in Nat
  OBVIOUS

\* RefillTokens yields a bucket, and TryConsume too.
LEMMA RefillType ==
  ASSUME NEW b \in Bucket, NEW c \in Nat, NEW w \in Nat, NEW t \in Nat
  PROVE  RefillTokens(b, c, w, t) \in Bucket
<1>1. CASE t <= b.lastRefill
  BY <1>1 DEF RefillTokens
<1>2. CASE ~(t <= b.lastRefill)
  <2>1. /\ t - b.lastRefill \in Nat /\ b.tokens \in Nat
    BY <1>2 DEF Bucket
  <2>2. (t - b.lastRefill) * c \in Nat /\ c * w \in Nat
    BY <2>1, NatProduct
  <2> QED
    BY <1>2, <2>1, <2>2 DEF RefillTokens, Full, Bucket
<1> QED BY <1>1, <1>2

LEMMA ConsumeType ==
  ASSUME NEW b \in Bucket, NEW c \in Nat, NEW w \in Nat, NEW t \in Nat
  PROVE  TryConsume(b, c, w, t) \in Bucket
<1> DEFINE r == RefillTokens(b, c, w, t)
<1>1. r \in Bucket
  BY RefillType
<1> HIDE DEF r
<1>2. CASE r.tokens >= w
  BY <1>1, <1>2 DEF TryConsume, CanConsume, Bucket, r
<1>3. CASE ~(r.tokens >= w)
  BY <1>1, <1>3 DEF TryConsume, CanConsume, r
<1> QED BY <1>2, <1>3

--------------------------------------------------------------------------------
(* Type correctness. *)

\* The settings of the blocks are naturals.
LEMMA BackoffType ==
  TokenWindow \in Nat \ {0} /\ MaxConsecutiveBlocks \in Nat /\ MaxBlock \in Nat
<1>1. 2^30 \in Nat
  BY PowerAssumption
<1> QED
  BY <1>1, BackoffAssumption

\* The settings of every key are positive naturals.
LEMMA SettingsType ==
  ASSUME NEW k \in Keys
  PROVE  LimitOf(k) \in Nat \ {0} /\ WindowOf(k) \in Nat \ {0}
  BY SettingsAssumption, BackoffType DEF LimitOf, WindowOf, Keys

\* A block lasts at most the larger of the window and the cap.
LEMMA DurationType ==
  ASSUME NEW n \in Nat
  PROVE  BlockDuration(n) \in Int /\ BlockDuration(n) <= Later(TokenWindow, MaxBlock)
<1> DEFINE e == n - MaxConsecutiveBlocks
           d == IF e <= 0 THEN TokenWindow
                ELSE IF e <= 30 THEN ShiftLeft32(TokenWindow, e)
                ELSE TimesIntMax(TokenWindow)
<1>0. TokenWindow \in Nat /\ MaxConsecutiveBlocks \in Nat /\ MaxBlock \in Nat
  BY BackoffType
<1>1. e \in Int
  BY <1>0
<1>2. d \in Int
  <2> HIDE DEF e
  <2>1. CASE e <= 0
    BY <1>0, <2>1
  <2>2. CASE e > 30
    BY <1>0, <1>1, <2>2, SMT DEF TimesIntMax
  <2>3. CASE e = 1
    <3>1. 2^e \in Int
      BY <2>3, PowerAssumption
    <3> HIDE DEF d
    <3>2. ShiftLeft32(TokenWindow, e) = TokenWindow * 2^e
      BY <2>3 DEF ShiftLeft32
    <3> QED
      BY <1>0, <2>3, <3>1, <3>2 DEF d
  <2>4. CASE e \in 2..30
    <3> DEFINE f == 32 - e
    <3>0. e \in 0..30 /\ f \in 0..30
      BY <2>4
    <3> HIDE DEF f
    <3>a. 2^e \in Nat \ {0} /\ 2^f \in Nat \ {0}
      BY <3>0, PowerAssumption
    <3>1. 2^e \in Int /\ 2^(32 - e) \in Int /\ 2^(32 - e) > 0
      BY <3>a DEF f
    <3>2. TokenWindow % 2^(32 - e) \in Int
      BY <1>0, <3>1
    <3>3. ShiftLeft32(TokenWindow, e) \in
            {(TokenWindow % 2^(32 - e)) * 2^e, ((TokenWindow % 2^(32 - e)) - 2^(32 - e)) * 2^e}
      BY <2>4 DEF ShiftLeft32
    <3>4. ShiftLeft32(TokenWindow, e) \in Int
      BY <3>1, <3>2, <3>3
    <3> QED
      BY <2>4, <3>4
  <2> QED BY <1>1, <2>1, <2>2, <2>3, <2>4
<1>3. BlockDuration(n) = IF d <= MaxBlock THEN d ELSE MaxBlock
  BY DEF BlockDuration
<1> HIDE DEF d, e
<1> QED
  BY <1>0, <1>2, <1>3 DEF Later

\* The buckets after AddRateLimitHeaders.
LEMMA HeadersType ==
  ASSUME TypeOK, NEW k \in Keys
  PROVE  WithHeaders(k) \in [Keys -> Bucket \cup {None}]
<1>1. CASE buckets[k] = None
  BY <1>1 DEF WithHeaders, TypeOK
<1>2. CASE buckets[k] # None
  <2>1. buckets[k] \in Bucket
    BY <1>2 DEF TypeOK
  <2>2. RefillTokens(buckets[k], LimitOf(k), WindowOf(k), clock) \in Bucket
    BY <2>1, RefillType, SettingsType DEF TypeOK
  <2> QED
    BY <1>2, <2>2 DEF WithHeaders, TypeOK
<1> QED BY <1>1, <1>2

\* The bucket of a key, found or created.
LEMMA BucketOfType ==
  ASSUME TypeOK, NEW k \in Keys
  PROVE  BucketOf(k) \in Bucket
  BY SettingsType, NatProduct DEF BucketOf, NewBucket, Full, Bucket, TypeOK

LEMMA InitTypeOK == Init => TypeOK
<1>1. (CHOOSE i \in Ips : TRUE) \in Ips
  BY KeyAssumption
<1> QED
  BY <1>1 DEF Init, TypeOK, IdleLocal, Local, Steps, Keys

\* A request that is answered or moves on keeps its locals well typed.
LEMMA RespondType ==
  ASSUME TypeOK, NEW r \in Requests, Respond(r)
  PROVE  pc' \in [Requests -> Steps] /\ req' \in [Requests -> Local]
<1>1. IdleLocal \in Local
  BY KeyAssumption DEF IdleLocal, Local
<1> QED
  BY <1>1 DEF Respond, Goto, TypeOK, Steps

LEMMA GotoType ==
  ASSUME TypeOK, NEW r \in Requests, NEW s \in Steps, Goto(r, s)
  PROVE  pc' \in [Requests -> Steps]
  BY DEF Goto, TypeOK

LEMMA TypeStep == ASSUME TypeOK, TokenInv, [Next]_vars PROVE TypeOK'
<1>0. /\ TokenLimit \in Nat /\ TokenWindow \in Nat
      /\ IpLimit \in Nat /\ IpWindow \in Nat
  BY SettingsAssumption, BackoffType
<1>1. ASSUME NEW r \in Requests, NEW ip \in Ips, NEW t \in Tokens \cup {NoToken},
             Arrive(r, ip, t)
      PROVE  TypeOK'
  <2>1. [ip |-> ip, token |-> t, now |-> clock, until |-> 0] \in Local
    BY DEF TypeOK, Local
  <2> QED
    BY <1>1, <2>1, GotoType DEF Arrive, TypeOK, Goto, Steps
<1>2. ASSUME NEW r \in Requests, CheckIpBlock(r)
      PROVE  TypeOK'
  <2>0. req[r] \in Local /\ req[r].ip \in Keys
    BY DEF TypeOK, Local, Keys
  <2>1. WithHeaders(req[r].ip) \in [Keys -> Bucket \cup {None}]
    BY <2>0, HeadersType
  <2>2. buckets' \in [Keys -> Bucket \cup {None}]
    BY <1>2, <2>1 DEF CheckIpBlock, TypeOK
  <2>3. blockedIps[req[r].ip] # None => blockedIps[req[r].ip].until \in Int
    BY <2>0 DEF TypeOK, Local, IpBlock
  <2>4. pc' \in [Requests -> Steps] /\ req' \in [Requests -> Local]
    <3>1. CASE Respond(r)
      BY <3>1, RespondType
    <3>2. CASE UNCHANGED req /\ (Goto(r, "consumeIp") \/ Goto(r, "unblockIp"))
      BY <3>2, GotoType DEF Steps, TypeOK
    <3>3. CASE /\ Goto(r, "relogIp") /\ blockedIps[req[r].ip] # None
               /\ req' = [req EXCEPT ![r].until = blockedIps[req[r].ip].until]
      <4>1. pc' \in [Requests -> Steps]
        BY <3>3, GotoType DEF Steps
      <4> QED
        BY <3>3, <4>1, <2>0, <2>3 DEF TypeOK, Local
    <3> QED
      BY <1>2, <3>1, <3>2, <3>3 DEF CheckIpBlock
  <2> QED
    BY <1>2, <2>2, <2>4 DEF CheckIpBlock, TypeOK
<1>3. ASSUME NEW r \in Requests, RelogIpBlock(r)
      PROVE  TypeOK'
  <2>0. req[r] \in Local /\ req[r].ip \in Keys
    BY DEF TypeOK, Local, Keys
  <2>1. buckets' \in [Keys -> Bucket \cup {None}]
    BY <1>3, <2>0, HeadersType DEF RelogIpBlock
  <2>2. [until |-> req[r].until, logged |-> req[r].now] \in IpBlock
    BY <2>0 DEF Local, IpBlock
  <2> QED
    BY <1>3, <2>1, <2>2, RespondType DEF RelogIpBlock, TypeOK
<1>4. ASSUME NEW r \in Requests, UnblockIp(r)
      PROVE  TypeOK'
  BY <1>4, GotoType DEF UnblockIp, TypeOK, Steps
<1>5. ASSUME NEW r \in Requests, ConsumeIpToken(r)
      PROVE  TypeOK'
  <2>0. req[r].ip \in Keys
    BY DEF TypeOK, Local, Keys
  <2>1. TryConsume(BucketOf(req[r].ip), IpLimit, IpWindow, clock) \in Bucket
    BY <1>0, <2>0, BucketOfType, ConsumeType DEF TypeOK
  <2>2. buckets' \in [Keys -> Bucket \cup {None}]
    BY <1>5, <2>1 DEF ConsumeIpToken, TypeOK
  <2>3. pc' \in [Requests -> Steps] /\ req' \in [Requests -> Local]
    <3>1. CASE Respond(r)
      BY <3>1, RespondType
    <3>2. CASE UNCHANGED req /\ (Goto(r, "blockIp") \/ Goto(r, "checkToken"))
      BY <3>2, GotoType DEF Steps, TypeOK
    <3> QED
      BY <1>5, <3>1, <3>2 DEF ConsumeIpToken
  <2> QED
    BY <1>5, <2>2, <2>3 DEF ConsumeIpToken, TypeOK
<1>6. ASSUME NEW r \in Requests, BlockIp(r)
      PROVE  TypeOK'
  <2>0. req[r] \in Local /\ req[r].ip \in Keys
    BY DEF TypeOK, Local, Keys
  <2>1. buckets' \in [Keys -> Bucket \cup {None}]
    BY <1>6, <2>0, HeadersType DEF BlockIp
  <2>2. [until |-> req[r].now + IpWindow, logged |-> req[r].now] \in IpBlock
    BY <1>0, <2>0 DEF Local, IpBlock
  <2> QED
    BY <1>6, <2>1, <2>2, RespondType DEF BlockIp, TypeOK
<1>7. ASSUME NEW r \in Requests, CheckTokenBlock(r)
      PROVE  TypeOK'
  <2>1. CASE Respond(r)
    BY <1>7, <2>1, RespondType DEF CheckTokenBlock, TypeOK
  <2>2. CASE UNCHANGED req /\ (Goto(r, "consumeToken") \/ Goto(r, "unblockToken"))
    BY <1>7, <2>2, GotoType DEF CheckTokenBlock, TypeOK, Steps
  <2> QED
    BY <1>7, <2>1, <2>2 DEF CheckTokenBlock
<1>8. ASSUME NEW r \in Requests, UnblockToken(r)
      PROVE  TypeOK'
  BY <1>8, GotoType DEF UnblockToken, TypeOK, Steps
<1>9. ASSUME NEW r \in Requests, ConsumeToken(r)
      PROVE  TypeOK'
  <2>0. req[r].token \in Keys
    BY <1>9 DEF TokenInv, ConsumeToken, Keys
  <2>1. TryConsume(BucketOf(req[r].token), TokenLimit, TokenWindow, clock) \in Bucket
    BY <1>0, <2>0, BucketOfType, ConsumeType DEF TypeOK
  <2>2. buckets' \in [Keys -> Bucket \cup {None}]
    BY <1>9, <2>1 DEF ConsumeToken, TypeOK
  <2>3. pc' \in [Requests -> Steps]
    BY <1>9, GotoType DEF ConsumeToken, Steps
  <2> QED
    BY <1>9, <2>2, <2>3 DEF ConsumeToken, TypeOK
<1>10. ASSUME NEW r \in Requests, BlockToken(r)
      PROVE  TypeOK'
  <2> DEFINE k == req[r].token
             block == IF blockedTokens[k] = None
                        THEN CreateBlockInfo(req[r].now)
                        ELSE UpdateBlockInfo(blockedTokens[k], req[r].now)
  <2>0. k \in Tokens /\ k \in Keys /\ req[r].now \in Nat
    BY <1>10 DEF TokenInv, BlockToken, Keys, TypeOK, Local
  <2>1. block \in TokenBlock
    <3>1. CASE blockedTokens[k] = None
      BY <3>1, <1>0, <2>0 DEF CreateBlockInfo, TokenBlock
    <3>2. CASE blockedTokens[k] # None
      <4>1. blockedTokens[k].count + 1 \in Nat
        BY <3>2, <2>0 DEF TypeOK, TokenBlock
      <4> QED
        BY <3>2, <4>1, <2>0, DurationType DEF UpdateBlockInfo, TokenBlock
    <3> QED BY <3>1, <3>2
  <2>2. buckets' \in [Keys -> Bucket \cup {None}]
    BY <1>10, <2>0, HeadersType DEF BlockToken
  <2>3. blockedTokens' = [blockedTokens EXCEPT ![k] = block]
    BY <1>10 DEF BlockToken
  <2> HIDE DEF block
  <2> QED
    BY <1>10, <2>0, <2>1, <2>2, <2>3, RespondType DEF BlockToken, TypeOK
<1>11. ASSUME NEW r \in Requests, VerifyToken(r)
      PROVE  TypeOK'
  <2>1. CASE Respond(r)
    BY <1>11, <2>1, RespondType DEF VerifyToken, TypeOK
  <2>2. CASE Goto(r, "next") /\ UNCHANGED req
    BY <1>11, <2>2, GotoType DEF VerifyToken, TypeOK, Steps
  <2> QED
    BY <1>11, <2>1, <2>2 DEF VerifyToken
<1>12. ASSUME NEW r \in Requests, Complete(r)
      PROVE  TypeOK'
  <2>0. req[r].token \in Keys
    BY <1>12 DEF TokenInv, Complete, Keys
  <2>1. buckets' \in [Keys -> Bucket \cup {None}]
    BY <1>12, <2>0, HeadersType DEF Complete
  <2> QED
    BY <1>12, <2>1, RespondType DEF Complete, TypeOK
<1>13. CASE Tick
  BY <1>13 DEF Tick, TypeOK
<1>14. CASE UNCHANGED vars
  BY <1>14 DEF vars, TypeOK
<1> QED
  BY <1>1, <1>2, <1>3, <1>4, <1>5, <1>6, <1>7, <1>8, <1>9, <1>10, <1>11, <1>12,
     <1>13, <1>14 DEF Next, Handle


LEMMA TokenStep == ASSUME TypeOK, TokenInv, [Next]_vars PROVE TokenInv'
<1> USE DEF TypeOK, TokenInv, Goto, Respond
<1>1. CASE \E r \in Requests : \/ CheckIpBlock(r) \/ RelogIpBlock(r) \/ UnblockIp(r)
                              \/ ConsumeIpToken(r) \/ BlockIp(r)
  BY <1>1 DEF CheckIpBlock, RelogIpBlock, UnblockIp, ConsumeIpToken, BlockIp, Local
<1>2. CASE \E r \in Requests : \/ CheckTokenBlock(r) \/ UnblockToken(r) \/ ConsumeToken(r)
                              \/ BlockToken(r) \/ VerifyToken(r) \/ Complete(r)
  BY <1>2 DEF CheckTokenBlock, UnblockToken, ConsumeToken, BlockToken, VerifyToken, Complete
<1>3. CASE \E r \in Requests, ip \in Ips, t \in Tokens \cup {NoToken} : Arrive(r, ip, t)
  BY <1>3 DEF Arrive
<1>4. CASE Tick \/ UNCHANGED vars
  BY <1>4 DEF Tick, vars
<1> QED
  BY <1>1, <1>2, <1>3, <1>4 DEF Next, Handle

\* Refilling a bucket up to now keeps it within its capacity; so does paying.
LEMMA RefillBounds ==
  ASSUME NEW b \in Bucket, NEW c \in Nat, NEW w \in Nat, NEW t \in Nat,
         b.tokens <= Full(c, w), b.lastRefill <= t
  PROVE  /\ RefillTokens(b, c, w, t).tokens <= Full(c, w)
         /\ RefillTokens(b, c, w, t).lastRefill <= t
<1>1. /\ b.tokens \in Nat /\ b.lastRefill \in Nat /\ Full(c, w) \in Nat
      /\ (t - b.lastRefill) * c \in Int
  BY NatProduct DEF Bucket, Full
<1> QED
  BY <1>1 DEF RefillTokens

LEMMA ConsumeBounds ==
  ASSUME NEW b \in Bucket, NEW c \in Nat, NEW w \in Nat, NEW t \in Nat,
         b.tokens <= Full(c, w), b.lastRefill <= t
  PROVE  /\ TryConsume(b, c, w, t).tokens <= Full(c, w)
         /\ TryConsume(b, c, w, t).lastRefill <= t
<1> DEFINE r == RefillTokens(b, c, w, t)
<1>1. r \in Bucket /\ r.tokens <= Full(c, w) /\ r.lastRefill <= t
  BY RefillType, RefillBounds
<1>2. Full(c, w) \in Nat
  BY NatProduct DEF Full
<1>3. TryConsume(b, c, w, t) = IF r.tokens >= w THEN [r EXCEPT !.tokens = r.tokens - w] ELSE r
  BY DEF TryConsume, CanConsume
<1> HIDE DEF r
<1>4. CASE r.tokens >= w
  BY <1>1, <1>2, <1>3, <1>4 DEF Bucket
<1>5. CASE ~(r.tokens >= w)
  BY <1>1, <1>3, <1>5
<1> QED BY <1>4, <1>5

\* A bucket that is within its capacity and not from the future.
BucketFine(b, k) ==
  /\ b \in Bucket
  /\ b.tokens <= Full(LimitOf(k), WindowOf(k))
  /\ b.lastRefill <= clock

LEMMA HeadersBounds ==
  ASSUME TypeOK, BucketInv, NEW k \in Keys,
         NEW j \in Keys, WithHeaders(k)[j] # None
  PROVE  BucketFine(WithHeaders(k)[j], j)
<1>0. ASSUME NEW i \in Keys, buckets[i] # None PROVE BucketFine(buckets[i], i)
  BY <1>0 DEF BucketInv, TypeOK, BucketFine
<1>1. CASE buckets[k] = None
  BY <1>0, <1>1 DEF WithHeaders
<1>2. CASE buckets[k] # None
  <2>1. BucketFine(RefillTokens(buckets[k], LimitOf(k), WindowOf(k), clock), k)
    BY <1>0, <1>2, RefillType, RefillBounds, SettingsType DEF BucketFine, TypeOK
  <2>2. WithHeaders(k) = [buckets EXCEPT ![k] =
                            RefillTokens(buckets[k], LimitOf(k), WindowOf(k), clock)]
    BY <1>2 DEF WithHeaders
  <2> QED
    BY <1>0, <2>1, <2>2 DEF TypeOK
<1> QED BY <1>1, <1>2

\* The bucket of a key is within its capacity.
LEMMA BucketOfFine ==
  ASSUME TypeOK, BucketInv, NEW k \in Keys
  PROVE  BucketFine(BucketOf(k), k)
<1>1. CASE buckets[k] = None
  <2>1. Full(LimitOf(k), WindowOf(k)) \in Nat
    BY SettingsType, NatProduct DEF Full
  <2> QED
    BY <1>1, <2>1, BucketOfType DEF BucketOf, NewBucket, BucketFine, TypeOK
<1>2. CASE buckets[k] # None
  BY <1>2, BucketOfType DEF BucketOf, BucketInv, BucketFine
<1> QED BY <1>1, <1>2

LEMMA PaidBounds ==
  ASSUME TypeOK, BucketInv, NEW k \in Keys
  PROVE  BucketFine(TryConsume(BucketOf(k), LimitOf(k), WindowOf(k), clock), k)
  BY BucketOfFine, ConsumeType, ConsumeBounds, SettingsType DEF BucketFine, TypeOK

\* How a step of the limiter changes the buckets: one key pays, one key is
\* refilled for the headers, or nothing.
LEMMA BucketSteps ==
  ASSUME TypeOK, TokenInv, [Next]_vars
  PROVE  \/ UNCHANGED buckets
         \/ UNCHANGED clock /\ \E k \in Keys : buckets' = WithHeaders(k)
         \/ UNCHANGED clock /\ \E k \in Keys :
              buckets' = [buckets EXCEPT ![k] =
                            TryConsume(BucketOf(k), LimitOf(k), WindowOf(k), clock)]
<1> USE DEF Keys
<1>1. ASSUME NEW r \in Requests PROVE req[r].ip \in Ips
  BY DEF TypeOK, Local
<1>2. CASE \E r \in Requests : CheckIpBlock(r) \/ RelogIpBlock(r) \/ BlockIp(r)
  BY <1>1, <1>2 DEF CheckIpBlock, RelogIpBlock, BlockIp
<1>3. CASE \E r \in Requests : BlockToken(r) \/ Complete(r)
  BY <1>3 DEF BlockToken, Complete, TokenInv
<1>4. CASE \E r \in Requests : ConsumeIpToken(r)
  BY <1>1, <1>4 DEF ConsumeIpToken, LimitOf, WindowOf
<1>5. CASE \E r \in Requests : ConsumeToken(r)
  BY <1>5, KeyAssumption DEF ConsumeToken, TokenInv, LimitOf, WindowOf
<1>6. CASE \E r \in Requests : \/ UnblockIp(r) \/ CheckTokenBlock(r) \/ UnblockToken(r)
                              \/ VerifyToken(r)
                              \/ \E ip \in Ips, t \in Tokens \cup {NoToken} : Arrive(r, ip, t)
  BY <1>6 DEF UnblockIp, CheckTokenBlock, UnblockToken, VerifyToken, Arrive
<1>7. CASE Tick \/ UNCHANGED vars
  BY <1>7 DEF Tick, vars
<1> QED
  BY <1>2, <1>3, <1>4, <1>5, <1>6, <1>7 DEF Next, Handle

\* The clock never runs backwards.
LEMMA ClockSteps ==
  ASSUME TypeOK, [Next]_vars
  PROVE  clock' \in Nat /\ clock <= clock'
<1>1. CASE Tick \/ UNCHANGED vars
  BY <1>1 DEF Tick, vars, TypeOK
<1>2. ASSUME NEW r \in Requests, Handle(r) PROVE UNCHANGED clock
  BY <1>2 DEF Handle, Arrive, CheckIpBlock, RelogIpBlock, UnblockIp, ConsumeIpToken, BlockIp,
              CheckTokenBlock, UnblockToken, ConsumeToken, BlockToken, VerifyToken, Complete
<1> QED
  BY <1>1, <1>2 DEF Next, TypeOK

LEMMA BucketStep == ASSUME TypeOK, TokenInv, BucketInv, [Next]_vars PROVE BucketInv'
<1> SUFFICES ASSUME NEW j \in Keys, buckets'[j] # None
             PROVE  /\ buckets'[j].tokens <= Full(LimitOf(j), WindowOf(j))
                    /\ buckets'[j].lastRefill <= clock'
  BY DEF BucketInv, LimitOf, WindowOf, Keys
<1>1. CASE UNCHANGED buckets
  <2>1. buckets[j].lastRefill \in Nat /\ buckets[j].lastRefill <= clock /\ clock \in Nat
    BY <1>1 DEF BucketInv, TypeOK, Bucket
  <2> QED
    BY <1>1, <2>1, ClockSteps DEF BucketInv
<1>2. ASSUME UNCHANGED clock, NEW k \in Keys, buckets' = WithHeaders(k)
      PROVE  BucketFine(buckets'[j], j)
  BY <1>2, HeadersBounds
<1>3. ASSUME UNCHANGED clock, NEW k \in Keys,
             buckets' = [buckets EXCEPT ![k] =
                           TryConsume(BucketOf(k), LimitOf(k), WindowOf(k), clock)]
      PROVE  BucketFine(buckets'[j], j)
  <2>1. CASE j = k
    BY <1>3, <2>1, PaidBounds DEF TypeOK
  <2>2. CASE j # k
    BY <1>3, <2>2 DEF TypeOK, BucketInv, BucketFine
  <2> QED BY <2>1, <2>2
<1> QED
  BY <1>1, <1>2, <1>3, BucketSteps DEF BucketFine

--------------------------------------------------------------------------------
(* Times and blocks. *)

\* How a step changes the locals of a request.
LEMMA LocalSteps ==
  ASSUME TypeOK, [Next]_vars, NEW r \in Requests
  PROVE  \/ req'[r] = req[r]
         \/ req'[r] = IdleLocal
         \/ UNCHANGED clock /\ req'[r].now = clock /\ req'[r].until = 0
         \/ /\ UNCHANGED clock
            /\ req'[r].now = req[r].now
            /\ blockedIps[req[r].ip] # None
            /\ req'[r].until = blockedIps[req[r].ip].until
<1> USE DEF TypeOK, Respond
<1>1. ASSUME NEW s \in Requests, NEW ip \in Ips, NEW t \in Tokens \cup {NoToken}, Arrive(s, ip, t)
      PROVE  \/ req'[r] = req[r]
             \/ UNCHANGED clock /\ req'[r].now = clock /\ req'[r].until = 0
  BY <1>1 DEF Arrive
<1>2. ASSUME NEW s \in Requests, CheckIpBlock(s)
      PROVE  \/ req'[r] = req[r]
             \/ req'[r] = IdleLocal
             \/ /\ UNCHANGED clock
                /\ req'[r].now = req[r].now
                /\ blockedIps[req[r].ip] # None
                /\ req'[r].until = blockedIps[req[r].ip].until
  BY <1>2 DEF CheckIpBlock, Local
<1>3. ASSUME NEW s \in Requests,
             \/ RelogIpBlock(s) \/ UnblockIp(s) \/ ConsumeIpToken(s) \/ BlockIp(s)
      PROVE  req'[r] = req[r] \/ req'[r] = IdleLocal
  BY <1>3 DEF RelogIpBlock, UnblockIp, ConsumeIpToken, BlockIp
<1>4. ASSUME NEW s \in Requests,
             \/ CheckTokenBlock(s) \/ UnblockToken(s) \/ ConsumeToken(s)
             \/ BlockToken(s) \/ VerifyToken(s) \/ Complete(s)
      PROVE  req'[r] = req[r] \/ req'[r] = IdleLocal
  BY <1>4 DEF CheckTokenBlock, UnblockToken, ConsumeToken, BlockToken, VerifyToken, Complete
<1>5. CASE Tick \/ UNCHANGED vars
  BY <1>5 DEF Tick, vars
<1> QED
  BY <1>1, <1>2, <1>3, <1>4, <1>5 DEF Next, Handle

LEMMA TimeStep == ASSUME TypeOK, TimeInv, BlocksExpire, [Next]_vars PROVE TimeInv'
<1> SUFFICES ASSUME NEW r \in Requests
             PROVE  req'[r].now <= clock' /\ req'[r].until <= clock' + IpWindow
  BY DEF TimeInv
<1>0. /\ clock \in Nat /\ clock' \in Nat /\ clock <= clock' /\ IpWindow \in Nat
      /\ req[r].now \in Nat /\ req[r].until \in Int /\ req[r].ip \in Ips
      /\ req[r].now <= clock /\ req[r].until <= clock + IpWindow
  BY ClockSteps, SettingsAssumption DEF TypeOK, Local, TimeInv
<1>1. CASE req'[r] = req[r]
  BY <1>0, <1>1
<1>2. CASE req'[r] = IdleLocal
  <2>1. req'[r].now = 0 /\ req'[r].until = 0
    BY <1>2 DEF IdleLocal
  <2>2. clock' \in Nat /\ IpWindow \in Nat
    BY <1>0
  <2>3. 0 <= clock'
    BY <2>2
  <2>4. 0 <= clock' + IpWindow
    BY <2>2, NatSum
  <2> QED
    BY <2>1, <2>3, <2>4
<1>3. CASE UNCHANGED clock /\ req'[r].now = clock /\ req'[r].until = 0
  BY <1>0, <1>3
<1>4. CASE /\ UNCHANGED clock
           /\ req'[r].now = req[r].now
           /\ blockedIps[req[r].ip] # None
           /\ req'[r].until = blockedIps[req[r].ip].until
  BY <1>0, <1>4 DEF BlocksExpire
<1> QED
  BY <1>1, <1>2, <1>3, <1>4, LocalSteps

\* How a step changes the blocks of addresses.
LEMMA IpBlockSteps ==
  ASSUME TypeOK, [Next]_vars, NEW i \in Ips
  PROVE  \/ blockedIps'[i] = blockedIps[i]
         \/ blockedIps'[i] = None
         \/ \E r \in Requests : blockedIps'[i].until \in {req[r].until, req[r].now + IpWindow}
<1> USE DEF TypeOK
<1>1. CASE \E r \in Requests : RelogIpBlock(r) \/ UnblockIp(r) \/ BlockIp(r)
  BY <1>1 DEF RelogIpBlock, UnblockIp, BlockIp
<1>2. CASE \E r \in Requests :
              \/ \E ip \in Ips, t \in Tokens \cup {NoToken} : Arrive(r, ip, t)
              \/ CheckIpBlock(r) \/ ConsumeIpToken(r)
              \/ CheckTokenBlock(r) \/ UnblockToken(r) \/ ConsumeToken(r)
              \/ BlockToken(r) \/ VerifyToken(r) \/ Complete(r)
  BY <1>2 DEF Arrive, CheckIpBlock, ConsumeIpToken, CheckTokenBlock, UnblockToken,
              ConsumeToken, BlockToken, VerifyToken, Complete
<1>3. CASE Tick \/ UNCHANGED vars
  BY <1>3 DEF Tick, vars
<1> QED
  BY <1>1, <1>2, <1>3 DEF Next, Handle

\* How a step changes the blocks of tokens.
LEMMA TokenBlockSteps ==
  ASSUME TypeOK, TokenInv, [Next]_vars
  PROVE  \/ UNCHANGED blockedTokens
         \/ \E r \in Requests : UnblockToken(r)
         \/ \E r \in Requests : BlockToken(r)
<1>1. CASE \E r \in Requests :
              \/ \E ip \in Ips, t \in Tokens \cup {NoToken} : Arrive(r, ip, t)
              \/ CheckIpBlock(r) \/ RelogIpBlock(r) \/ UnblockIp(r) \/ ConsumeIpToken(r)
              \/ BlockIp(r) \/ CheckTokenBlock(r) \/ ConsumeToken(r)
              \/ VerifyToken(r) \/ Complete(r)
  BY <1>1 DEF Arrive, CheckIpBlock, RelogIpBlock, UnblockIp, ConsumeIpToken, BlockIp,
              CheckTokenBlock, ConsumeToken, VerifyToken, Complete
<1>2. CASE Tick \/ UNCHANGED vars
  BY <1>2 DEF Tick, vars
<1> QED
  BY <1>1, <1>2 DEF Next, Handle

LEMMA ExpireStep ==
  ASSUME TypeOK, TokenInv, TimeInv, BlocksExpire, [Next]_vars
  PROVE  BlocksExpire'
<1> DEFINE longest == Later(TokenWindow, MaxBlock)
<1>0. /\ clock \in Nat /\ clock' \in Nat /\ clock <= clock' /\ IpWindow \in Nat
      /\ TokenWindow \in Nat /\ longest \in Nat /\ TokenWindow <= longest
  BY ClockSteps, SettingsAssumption, BackoffType DEF TypeOK, Later
<1>1. ASSUME NEW i \in Ips, blockedIps'[i] # None
      PROVE  blockedIps'[i].until <= clock' + IpWindow
  <2>1. CASE blockedIps'[i] = blockedIps[i]
    <3>1. blockedIps[i].until \in Int /\ blockedIps[i].until <= clock + IpWindow
      BY <1>1, <2>1 DEF TypeOK, IpBlock, BlocksExpire
    <3> QED
      BY <1>0, <2>1, <3>1
  <2>2. ASSUME NEW r \in Requests,
               blockedIps'[i].until \in {req[r].until, req[r].now + IpWindow}
        PROVE  blockedIps'[i].until <= clock' + IpWindow
    <3>1. /\ req[r].now \in Nat /\ req[r].until \in Int
          /\ req[r].now <= clock /\ req[r].until <= clock + IpWindow
      BY DEF TypeOK, Local, TimeInv
    <3> QED
      BY <1>0, <2>2, <3>1
  <2> QED
    BY <1>1, <2>1, <2>2, IpBlockSteps
<1>2. ASSUME NEW t \in Tokens, blockedTokens'[t] # None
      PROVE  blockedTokens'[t].until <= clock' + longest
  <2>1. CASE blockedTokens'[t] = blockedTokens[t]
    <3>1. blockedTokens[t].until \in Int /\ blockedTokens[t].until <= clock + longest
      BY <1>2, <2>1 DEF TypeOK, TokenBlock, BlocksExpire
    <3> HIDE DEF longest
    <3> QED
      BY <1>0, <2>1, <3>1
  <2>2. ASSUME NEW r \in Requests, BlockToken(r), req[r].token = t
        PROVE  blockedTokens'[t].until <= clock' + longest
    <3>0. req[r].now \in Nat /\ req[r].now <= clock
      BY DEF TypeOK, Local, TimeInv
    <3>1. CASE blockedTokens[t] = None
      <4>1. blockedTokens'[t] = CreateBlockInfo(req[r].now)
        BY <2>2, <3>1 DEF BlockToken, TypeOK
      <4> HIDE DEF longest
      <4> QED
        BY <1>0, <3>0, <4>1 DEF CreateBlockInfo
    <3>2. CASE blockedTokens[t] # None
      <4>1. blockedTokens'[t] = UpdateBlockInfo(blockedTokens[t], req[r].now)
        BY <2>2, <3>2 DEF BlockToken, TypeOK
      <4>2. blockedTokens[t].count + 1 \in Nat
        BY <3>2 DEF TypeOK, TokenBlock
      <4> DEFINE d == BlockDuration(blockedTokens[t].count + 1)
      <4>3. d \in Int /\ d <= longest
        BY <4>2, DurationType
      <4>4. blockedTokens'[t].until = req[r].now + d
        BY <4>1 DEF UpdateBlockInfo
      <4> HIDE DEF d, longest
      <4> QED
        BY <1>0, <3>0, <4>3, <4>4
    <3> QED BY <3>1, <3>2
  <2>3. \/ blockedTokens'[t] = blockedTokens[t]
        \/ \E r \in Requests : BlockToken(r) /\ req[r].token = t
    <3>1. CASE UNCHANGED blockedTokens
      BY <3>1
    <3>2. CASE \E r \in Requests : UnblockToken(r)
      BY <1>2, <3>2 DEF UnblockToken, TypeOK
    <3>3. CASE \E r \in Requests : BlockToken(r)
      BY <3>3 DEF BlockToken, TypeOK
    <3> QED BY <3>1, <3>2, <3>3, TokenBlockSteps
  <2> QED BY <2>1, <2>2, <2>3
<1> QED
  BY <1>1, <1>2 DEF BlocksExpire

--------------------------------------------------------------------------------
(* The refusals a token's block counts. *)

\* While a token is blocked nobody joins the requests past its check.
LEMMA NobodyJoins ==
  ASSUME TypeOK, TokenInv, [Next]_vars, NEW t \in Tokens,
         blockedTokens[t] # None, blockedTokens'[t] # None
  PROVE  PastCheck(t)' \subseteq PastCheck(t)
<1> SUFFICES ASSUME NEW r \in Requests, pc'[r] \in {"consumeToken", "blockToken"},
                    req'[r].token = t
             PROVE  pc[r] \in {"consumeToken", "blockToken"} /\ req[r].token = t
  BY DEF PastCheck
<1> USE DEF TypeOK, Respond, Goto
<1>1. CASE \E s \in Requests : CheckIpBlock(s) \/ RelogIpBlock(s) \/ UnblockIp(s)
                              \/ ConsumeIpToken(s) \/ BlockIp(s)
  BY <1>1 DEF CheckIpBlock, RelogIpBlock, UnblockIp, ConsumeIpToken, BlockIp
<1>2. CASE \E s \in Requests : CheckTokenBlock(s) \/ UnblockToken(s)
  BY <1>2 DEF CheckTokenBlock, UnblockToken, TokenInv
<1>3. CASE \E s \in Requests : ConsumeToken(s) \/ BlockToken(s) \/ VerifyToken(s) \/ Complete(s)
  BY <1>3 DEF ConsumeToken, BlockToken, VerifyToken, Complete
<1>4. CASE \E s \in Requests, ip \in Ips, u \in Tokens \cup {NoToken} : Arrive(s, ip, u)
  BY <1>4 DEF Arrive
<1>5. CASE Tick \/ UNCHANGED vars
  BY <1>5 DEF Tick, vars
<1> QED
  BY <1>1, <1>2, <1>3, <1>4, <1>5 DEF Next, Handle

\* The request whose refusal is counted leaves them.
LEMMA RefusedLeaves ==
  ASSUME TypeOK, TokenInv, NEW r \in Requests, BlockToken(r)
  PROVE  /\ r \in PastCheck(req[r].token)
         /\ \A t \in Tokens : PastCheck(t)' \subseteq PastCheck(t) \ {r}
<1>1. r \in PastCheck(req[r].token)
  BY DEF BlockToken, PastCheck
<1>2. ASSUME NEW t \in Tokens PROVE PastCheck(t)' \subseteq PastCheck(t) \ {r}
  BY DEF BlockToken, Respond, Goto, PastCheck, TypeOK
<1> QED BY <1>1, <1>2

\* The counts of finite sets of requests.
LEMMA PastCheckSize ==
  ASSUME NEW t \in Tokens
  PROVE  /\ IsFiniteSet(PastCheck(t))
         /\ Cardinality(PastCheck(t)) \in Nat
         /\ Cardinality(Requests) \in Nat
         /\ Cardinality(PastCheck(t)) <= Cardinality(Requests)
<1>1. PastCheck(t) \subseteq Requests
  BY DEF PastCheck
<1> QED
  BY <1>1, KeyAssumption, FS_Subset, FS_CardinalityType

\* A set that lost an element is smaller by one at least.
LEMMA SmallerByOne ==
  ASSUME NEW S, IsFiniteSet(S), NEW x \in S, NEW T, T \subseteq S \ {x}
  PROVE  /\ Cardinality(T) \in Nat
         /\ Cardinality(T) + 1 <= Cardinality(S)
<1>1. IsFiniteSet(S \ {x}) /\ Cardinality(S \ {x}) = Cardinality(S) - 1
  BY FS_RemoveElement
<1>2. /\ IsFiniteSet(T) /\ Cardinality(T) <= Cardinality(S \ {x})
  BY <1>1, FS_Subset
<1>3. Cardinality(T) \in Nat /\ Cardinality(S) \in Nat
  BY <1>2, FS_CardinalityType
<1> QED
  BY <1>1, <1>2, <1>3

LEMMA CountStep ==
  ASSUME TypeOK, TokenInv, CountInv, [Next]_vars PROVE CountInv'
<1> SUFFICES ASSUME NEW t \in Tokens, blockedTokens'[t] # None
             PROVE  blockedTokens'[t].count + Cardinality(PastCheck(t)')
                      <= Cardinality(Requests)
  BY DEF CountInv
<1>1. CASE blockedTokens'[t] = blockedTokens[t]
  <2>1. PastCheck(t)' \subseteq PastCheck(t)
    BY <1>1, NobodyJoins
  <2>2. /\ Cardinality(PastCheck(t)') \in Nat
        /\ Cardinality(PastCheck(t)') <= Cardinality(PastCheck(t))
    BY <2>1, PastCheckSize, FS_Subset, FS_CardinalityType
  <2>3. /\ blockedTokens[t].count \in Nat
        /\ blockedTokens[t].count + Cardinality(PastCheck(t)) <= Cardinality(Requests)
    BY <1>1 DEF TypeOK, TokenBlock, CountInv
  <2> QED
    BY <1>1, <2>2, <2>3, PastCheckSize
<1>2. ASSUME NEW r \in Requests, BlockToken(r), req[r].token = t
      PROVE  blockedTokens'[t].count + Cardinality(PastCheck(t)') <= Cardinality(Requests)
  <2>1. r \in PastCheck(t) /\ PastCheck(t)' \subseteq PastCheck(t) \ {r}
    BY <1>2, RefusedLeaves
  <2>2. /\ Cardinality(PastCheck(t)') \in Nat
        /\ Cardinality(PastCheck(t)') + 1 <= Cardinality(PastCheck(t))
    BY <2>1, PastCheckSize, SmallerByOne
  <2>3. CASE blockedTokens[t] = None
    <3>1. blockedTokens'[t] = CreateBlockInfo(req[r].now)
      BY <1>2, <2>3 DEF BlockToken, TypeOK
    <3>2. blockedTokens'[t].count = 1
      BY <3>1 DEF CreateBlockInfo
    <3> QED
      BY <2>2, <3>2, PastCheckSize
  <2>4. CASE blockedTokens[t] # None
    <3>1. blockedTokens'[t] = UpdateBlockInfo(blockedTokens[t], req[r].now)
      BY <1>2, <2>4 DEF BlockToken, TypeOK
    <3>2. blockedTokens'[t].count = blockedTokens[t].count + 1
      BY <3>1 DEF UpdateBlockInfo
    <3>3. /\ blockedTokens[t].count \in Nat
          /\ blockedTokens[t].count + Cardinality(PastCheck(t)) <= Cardinality(Requests)
      BY <2>4 DEF TypeOK, TokenBlock, CountInv
    <3> QED
      BY <2>2, <3>2, <3>3, PastCheckSize
  <2> QED BY <2>3, <2>4
<1>3. \/ blockedTokens'[t] = blockedTokens[t]
      \/ \E r \in Requests : BlockToken(r) /\ req[r].token = t
  <2>1. CASE UNCHANGED blockedTokens
    BY <2>1
  <2>2. CASE \E r \in Requests : UnblockToken(r)
    BY <2>2 DEF UnblockToken, TypeOK
  <2>3. CASE \E r \in Requests : BlockToken(r)
    BY <2>3 DEF BlockToken, TypeOK
  <2> QED BY <2>1, <2>2, <2>3, TokenBlockSteps
<1> QED BY <1>1, <1>2, <1>3

--------------------------------------------------------------------------------
(* The theorems about the specification. *)

LEMMA InitIndInv == Init => IndInv
<1> SUFFICES ASSUME Init PROVE IndInv
  OBVIOUS
<1>1. TypeOK
  BY InitTypeOK
<1>2. TokenInv /\ BucketInv /\ BlocksExpire /\ CountInv
  BY DEF Init, TokenInv, BucketInv, BlocksExpire, CountInv, Keys
<1>3. TimeInv
  <2>1. IpWindow \in Nat
    BY SettingsAssumption
  <2>2. IdleLocal.now = 0 /\ IdleLocal.until = 0
    BY DEF IdleLocal
  <2> QED
    BY <2>1, <2>2 DEF Init, TimeInv
<1> QED BY <1>1, <1>2, <1>3 DEF IndInv

LEMMA IndInvStep == IndInv /\ [Next]_vars => IndInv'
  BY TypeStep, TokenStep, BucketStep, TimeStep, ExpireStep, CountStep DEF IndInv

\* Every behaviour of the limiter satisfies its inductive invariant.
THEOREM Inductive == Spec => []IndInv
  BY InitIndInv, IndInvStep, PTL DEF Spec

\* The limiter's dictionaries, buckets and locals keep their types: a block
\* read from a dictionary is a block, a token past its check is a token.
THEOREM TypeCorrect == Spec => []TypeOK
<1>1. IndInv => TypeOK
  BY DEF IndInv
<1> QED BY <1>1, Inductive, PTL

\* A bucket never holds more than its capacity and is never refilled in the
\* future, whichever requests consume from it or read it for headers.
THEOREM BucketsBounded == Spec => []BucketInv
<1>1. IndInv => BucketInv
  BY DEF IndInv
<1> QED BY <1>1, Inductive, PTL

\* Every block of an address or token ends within the longest duration, in
\* spite of the wrap-around of the 32-bit arithmetic of UpdateBlockInfo and of
\* requests that write back blocks they read earlier.
THEOREM BlocksAlwaysExpire == Spec => []BlocksExpire
<1>1. IndInv => BlocksExpire
  BY DEF IndInv
<1> QED BY <1>1, Inductive, PTL

\* ConsecutiveBlocks never exceeds the number of requests in flight.
THEOREM CountBounded == Spec => []CountBoundedByConcurrency
<1>1. IndInv => CountBoundedByConcurrency
  <2> SUFFICES ASSUME IndInv, NEW t \in Tokens, blockedTokens[t] # None
               PROVE  blockedTokens[t].count <= Cardinality(Requests)
    BY DEF CountBoundedByConcurrency
  <2>1. /\ blockedTokens[t].count \in Nat
        /\ blockedTokens[t].count + Cardinality(PastCheck(t)) <= Cardinality(Requests)
    BY DEF IndInv, TypeOK, TokenBlock, CountInv
  <2> QED
    BY <2>1, PastCheckSize
<1> QED BY <1>1, Inductive, PTL

--------------------------------------------------------------------------------
(* What a key is granted in an interval. *)

\* A second more adds at most c units.
LEMMA RefillLater ==
  ASSUME NEW b \in Bucket, NEW c \in Nat, NEW w \in Nat, NEW t \in Nat,
         b.tokens <= Full(c, w), b.lastRefill <= t
  PROVE  RefillTokens(b, c, w, t + 1).tokens <= RefillTokens(b, c, w, t).tokens + c
<1> DEFINE x == (t - b.lastRefill) * c
           y == ((t + 1) - b.lastRefill) * c
<1>0. b.tokens \in Nat /\ b.lastRefill \in Nat /\ Full(c, w) \in Nat
  BY NatProduct DEF Bucket, Full
<1>1. /\ x \in Int /\ y = x + c
      /\ t = b.lastRefill => x = 0
  BY <1>0
<1>2. RefillTokens(b, c, w, t + 1).tokens =
        IF b.tokens + y <= Full(c, w) THEN b.tokens + y ELSE Full(c, w)
  BY <1>0 DEF RefillTokens
<1>3. RefillTokens(b, c, w, t).tokens =
        IF t <= b.lastRefill THEN b.tokens
        ELSE IF b.tokens + x <= Full(c, w) THEN b.tokens + x ELSE Full(c, w)
  BY <1>0 DEF RefillTokens
<1> HIDE DEF x, y
<1> QED
  BY <1>0, <1>1, <1>2, <1>3

\* Refilling twice at the same instant is refilling once.
LEMMA RefillAgain ==
  ASSUME NEW b \in Bucket, NEW c \in Nat, NEW w \in Nat, NEW t \in Nat
  PROVE  LET r == RefillTokens(b, c, w, t) IN RefillTokens(r, c, w, t) = r
<1>1. CASE t <= b.lastRefill
  BY <1>1 DEF RefillTokens
<1>2. CASE ~(t <= b.lastRefill)
  <2>1. RefillTokens(b, c, w, t).lastRefill = t
    BY <1>2 DEF RefillTokens
  <2> QED
    BY <2>1 DEF RefillTokens
<1> QED BY <1>1, <1>2

\* TryConsume takes a whole token from what is available, or nothing.
LEMMA ConsumeTakes ==
  ASSUME NEW b \in Bucket, NEW c \in Nat, NEW w \in Nat, NEW t \in Nat, b.lastRefill <= t
  PROVE  RefillTokens(TryConsume(b, c, w, t), c, w, t).tokens =
           IF Grants(b, c, w, t) THEN RefillTokens(b, c, w, t).tokens - w
                                 ELSE RefillTokens(b, c, w, t).tokens
<1> DEFINE r == RefillTokens(b, c, w, t)
           p == TryConsume(b, c, w, t)
<1>1. r \in Bucket /\ r.lastRefill = t
  <2>1. b.lastRefill \in Nat
    BY DEF Bucket
  <2>2. CASE t <= b.lastRefill
    BY <2>1, <2>2 DEF RefillTokens
  <2>3. CASE ~(t <= b.lastRefill)
    BY <2>3, RefillType DEF RefillTokens
  <2> QED BY <2>2, <2>3
<1>2. p = IF r.tokens >= w THEN [r EXCEPT !.tokens = r.tokens - w] ELSE r
  BY DEF TryConsume, CanConsume
<1>3. Grants(b, c, w, t) = (r.tokens >= w)
  BY DEF Grants, CanConsume
<1> HIDE DEF r, p
<1>4. p.lastRefill = t
  BY <1>1, <1>2 DEF Bucket
<1>5. RefillTokens(p, c, w, t) = p
  BY <1>4 DEF RefillTokens
<1>6. p.tokens = IF r.tokens >= w THEN r.tokens - w ELSE r.tokens
  BY <1>1, <1>2 DEF Bucket
<1> QED
  BY <1>3, <1>5, <1>6 DEF r, p

\* What is available is what the bucket of the key, found or created, has.
LEMMA AvailableIs ==
  ASSUME TypeOK, NEW k \in Keys
  PROVE  /\ Available(k) = RefillTokens(BucketOf(k), LimitOf(k), WindowOf(k), clock).tokens
         /\ Available(k) \in Nat
<1>1. Available(k) = RefillTokens(BucketOf(k), LimitOf(k), WindowOf(k), clock).tokens
  <2>1. CASE buckets[k] = None
    <3>1. BucketOf(k).tokens = Full(LimitOf(k), WindowOf(k)) /\ BucketOf(k).lastRefill = clock
      BY <2>1 DEF BucketOf, NewBucket
    <3>2. clock <= clock
      BY DEF TypeOK
    <3> QED
      BY <2>1, <3>1, <3>2 DEF Available, RefillTokens
  <2>2. CASE buckets[k] # None
    BY <2>2 DEF Available, BucketOf
  <2> QED BY <2>1, <2>2
<1>2. RefillTokens(BucketOf(k), LimitOf(k), WindowOf(k), clock) \in Bucket
  BY BucketOfType, RefillType, SettingsType DEF TypeOK
<1> QED
  BY <1>1, <1>2 DEF Bucket

\* Reading headers changes what no key has available.
LEMMA HeadersKeep ==
  ASSUME TypeOK, NEW k \in Keys, NEW j \in Keys, UNCHANGED clock, buckets' = WithHeaders(j)
  PROVE  Available(k)' = Available(k)
<1>1. CASE j # k \/ buckets[j] = None
  <2>1. buckets'[k] = buckets[k]
    BY <1>1 DEF WithHeaders, TypeOK
  <2> QED
    BY <2>1 DEF Available, LimitOf, WindowOf
<1>2. CASE j = k /\ buckets[k] # None
  <2> DEFINE r == RefillTokens(buckets[k], LimitOf(k), WindowOf(k), clock)
  <2>1. buckets[k] \in Bucket /\ r \in Bucket
    BY <1>2, RefillType, SettingsType DEF TypeOK
  <2>2. buckets'[k] = r
    BY <1>2 DEF WithHeaders, TypeOK
  <2>3. RefillTokens(r, LimitOf(k), WindowOf(k), clock) = r
    BY <2>1, RefillAgain, SettingsType DEF TypeOK
  <2>4. r # None
    BY <2>1, KeyAssumption DEF Bucket
  <2>5. Available(k)' = RefillTokens(r, LimitOf(k), WindowOf(k), clock).tokens
    BY <2>2, <2>4 DEF Available, LimitOf, WindowOf
  <2>6. Available(k) = r.tokens
    BY <1>2 DEF Available
  <2> QED
    BY <2>3, <2>5, <2>6
<1> QED BY <1>1, <1>2

\* Paying takes one token of the paying key, when it is granted.
LEMMA PayingTakes ==
  ASSUME TypeOK, BucketInv, NEW k \in Keys, UNCHANGED clock,
         buckets' = [buckets EXCEPT ![k] =
                       TryConsume(BucketOf(k), LimitOf(k), WindowOf(k), clock)]
  PROVE  Available(k)' = IF Grants(BucketOf(k), LimitOf(k), WindowOf(k), clock)
                           THEN Available(k) - WindowOf(k) ELSE Available(k)
<1> DEFINE b == BucketOf(k)
           p == TryConsume(b, LimitOf(k), WindowOf(k), clock)
<1>1. /\ b \in Bucket /\ b.lastRefill <= clock /\ clock \in Nat
      /\ LimitOf(k) \in Nat /\ WindowOf(k) \in Nat
  BY BucketOfFine, SettingsType DEF BucketFine, TypeOK
<1>2. p \in Bucket
  BY <1>1, ConsumeType
<1>3. buckets'[k] = p /\ p # None
  BY <1>2, KeyAssumption DEF TypeOK, Bucket
<1>4. Available(k)' = RefillTokens(p, LimitOf(k), WindowOf(k), clock).tokens
  BY <1>3 DEF Available, LimitOf, WindowOf
<1>5. Available(k) = RefillTokens(b, LimitOf(k), WindowOf(k), clock).tokens
  BY AvailableIs
<1> QED
  BY <1>1, <1>4, <1>5, ConsumeTakes

\* A grant of a key is a payment of its bucket that succeeds.
LEMMA GrantPays ==
  ASSUME TypeOK, TokenInv, Next, NEW k \in Keys, Granted(k)
  PROVE  /\ UNCHANGED clock
         /\ buckets' = [buckets EXCEPT ![k] =
                          TryConsume(BucketOf(k), LimitOf(k), WindowOf(k), clock)]
         /\ Grants(BucketOf(k), LimitOf(k), WindowOf(k), clock)
<1> USE DEF TypeOK, Respond, Goto, Granted
<1>1. CASE \E r \in Requests : CheckIpBlock(r) \/ RelogIpBlock(r) \/ UnblockIp(r) \/ BlockIp(r)
  BY <1>1 DEF CheckIpBlock, RelogIpBlock, UnblockIp, BlockIp
<1>2. CASE \E r \in Requests : CheckTokenBlock(r) \/ UnblockToken(r) \/ BlockToken(r)
                              \/ VerifyToken(r) \/ Complete(r)
  BY <1>2 DEF CheckTokenBlock, UnblockToken, BlockToken, VerifyToken, Complete
<1>3. CASE \E r \in Requests, ip \in Ips, t \in Tokens \cup {NoToken} : Arrive(r, ip, t)
  BY <1>3 DEF Arrive
<1>4. CASE Tick
  BY <1>4 DEF Tick
<1>5. CASE \E r \in Requests : ConsumeIpToken(r)
  <2>1. PICK r \in Requests : ConsumeIpToken(r)
    BY <1>5
  <2>2. /\ req[r].ip = k /\ k \in Ips
        /\ pc'[r] # "blockIp"
    BY <2>1 DEF ConsumeIpToken, Local
  <2>3. LimitOf(k) = IpLimit /\ WindowOf(k) = IpWindow
    BY <2>2 DEF LimitOf, WindowOf
  <2> QED
    BY <2>1, <2>2, <2>3 DEF ConsumeIpToken
<1>6. CASE \E r \in Requests : ConsumeToken(r)
  <2>1. PICK r \in Requests : ConsumeToken(r)
    BY <1>6
  <2>2. /\ req[r].token = k /\ k \in Tokens
        /\ pc'[r] # "blockToken"
    BY <2>1 DEF ConsumeToken, TokenInv
  <2>3. LimitOf(k) = TokenLimit /\ WindowOf(k) = TokenWindow
    BY <2>2, KeyAssumption DEF LimitOf, WindowOf
  <2> QED
    BY <2>1, <2>2, <2>3 DEF ConsumeToken
<1> QED
  BY <1>1, <1>2, <1>3, <1>4, <1>5, <1>6 DEF Next, Handle

\* What a step of the limiter makes available to a key.
LEMMA AvailableSteps ==
  ASSUME TypeOK, TokenInv, BucketInv, [Next]_vars, NEW k \in Keys
  PROVE  \/ clock' = clock /\ Available(k)' <= Available(k)
         \/ clock' = clock + 1 /\ Available(k)' <= Available(k) + LimitOf(k)
<1>0. Available(k) \in Nat /\ LimitOf(k) \in Nat /\ WindowOf(k) \in Nat
  BY AvailableIs, SettingsType
<1>1. CASE UNCHANGED clock /\ UNCHANGED buckets
  <2>1. Available(k)' = Available(k)
    BY <1>1 DEF Available, LimitOf, WindowOf
  <2> QED
    BY <1>0, <1>1, <2>1
<1>2. CASE UNCHANGED clock /\ \E j \in Keys : buckets' = WithHeaders(j)
  BY <1>0, <1>2, HeadersKeep
<1>3. ASSUME UNCHANGED clock, NEW j \in Keys,
             buckets' = [buckets EXCEPT ![j] =
                           TryConsume(BucketOf(j), LimitOf(j), WindowOf(j), clock)]
      PROVE  Available(k)' <= Available(k)
  <2>1. CASE j = k
    <3>1. Available(k)' \in {Available(k), Available(k) - WindowOf(k)}
      BY <1>3, <2>1, PayingTakes
    <3> QED
      BY <1>0, <3>1
  <2>2. CASE j # k
    <3>1. buckets'[k] = buckets[k]
      BY <1>3, <2>2 DEF TypeOK
    <3>2. Available(k)' = Available(k)
      BY <1>3, <3>1 DEF Available, LimitOf, WindowOf
    <3> QED
      BY <1>0, <3>2
  <2> QED BY <2>1, <2>2
<1>4. CASE Tick
  <2>1. clock' = clock + 1 /\ UNCHANGED buckets
    BY <1>4 DEF Tick
  <2>2. CASE buckets[k] = None
    <3>1. Available(k)' = Available(k)
      BY <2>1, <2>2 DEF Available, LimitOf, WindowOf
    <3> QED
      BY <1>0, <2>1, <3>1
  <2>3. CASE buckets[k] # None
    <3>1. /\ buckets[k] \in Bucket /\ buckets[k].lastRefill <= clock /\ clock \in Nat
          /\ buckets[k].tokens <= Full(LimitOf(k), WindowOf(k))
      BY <2>3 DEF TypeOK, BucketInv
    <3>2. Available(k)' = RefillTokens(buckets[k], LimitOf(k), WindowOf(k), clock + 1).tokens
      BY <2>1, <2>3 DEF Available, LimitOf, WindowOf
    <3>3. Available(k) = RefillTokens(buckets[k], LimitOf(k), WindowOf(k), clock).tokens
      BY <2>3 DEF Available
    <3> QED
      BY <1>0, <2>1, <3>1, <3>2, <3>3, RefillLater
  <2> QED BY <2>2, <2>3
<1>5. Tick \/ UNCHANGED clock
  BY DEF Next, Handle, vars, Arrive, CheckIpBlock, RelogIpBlock, UnblockIp, ConsumeIpToken,
         BlockIp, CheckTokenBlock, UnblockToken, ConsumeToken, BlockToken, VerifyToken, Complete
<1> QED
  BY <1>1, <1>2, <1>3, <1>4, <1>5, BucketSteps

\* The inductive invariant of the limiter and its observer.
WIndInv == IndInv /\ WindowTypeOK /\ WindowInv

LEMMA WindowInit == WInit => WIndInv
  BY InitIndInv DEF WInit, WIndInv, WindowTypeOK, WindowInv

\* Opening an interval: nothing granted, and no more available than a full bucket.
LEMMA WindowOpens ==
  ASSUME IndInv, NEW k \in Keys, OpenWindow(k)
  PROVE  WIndInv'
<1>1. IndInv'
  BY DEF OpenWindow, vars, IndInv, TypeOK, TokenInv, BucketInv, TimeInv, BlocksExpire,
         CountInv, PastCheck
<1>2. clock \in Nat /\ TypeOK /\ BucketInv
  BY DEF IndInv, TypeOK
<1>3. window' = [key |-> k, start |-> clock, units |-> 0]
  BY DEF OpenWindow
<1>4. WindowTypeOK'
  BY <1>2, <1>3 DEF WindowTypeOK, Window
<1>5. Available(k) \in Nat /\ Available(k) <= Full(LimitOf(k), WindowOf(k))
  <2>1. BucketFine(BucketOf(k), k)
    BY <1>2, BucketOfFine
  <2> QED
    BY <1>2, <2>1, AvailableIs, RefillBounds, SettingsType DEF BucketFine
<1>6. Available(k)' = Available(k)
  BY DEF OpenWindow, vars, Available, LimitOf, WindowOf
<1>7. LimitOf(k) \in Nat /\ Full(LimitOf(k), WindowOf(k)) \in Nat
  BY SettingsType, NatProduct DEF Full
<1>8. clock' = clock /\ Inflow' = 0
  BY <1>2, <1>3, <1>7 DEF OpenWindow, vars, Inflow, LimitOf
<1>9. WindowInv'
  BY <1>2, <1>3, <1>5, <1>6, <1>7, <1>8 DEF WindowInv, LimitOf, WindowOf
<1> QED BY <1>1, <1>4, <1>9 DEF WIndInv

\* A counted step: a grant moves units from what is available to what was
\* granted, time moves them from the inflow.
LEMMA WindowCounts == ASSUME WIndInv, Counted PROVE WIndInv'
<1>1. IndInv /\ TypeOK /\ TokenInv /\ BucketInv /\ [Next]_vars /\ Next
  BY DEF WIndInv, IndInv, Counted
<1>2. IndInv'
  BY <1>1, IndInvStep
<1>3. CASE window = None
  BY <1>2, <1>3 DEF Counted, WIndInv, WindowTypeOK, WindowInv
<1>4. CASE window # None
  <2>0. PICK k \in Keys : k = window.key
    BY <1>4 DEF WIndInv, WindowTypeOK, Window
  <2> DEFINE u == window.units
             x == clock - window.start
             full == Full(LimitOf(k), WindowOf(k))
  <2>1. /\ k \in Keys /\ window.start \in Nat /\ u \in Nat /\ window \in Window
        /\ clock \in Nat /\ window.start <= clock
        /\ u + Available(k) <= full + x * LimitOf(k)
    BY <1>1, <1>4, <2>0 DEF WIndInv, WindowTypeOK, Window, WindowInv, TypeOK, Inflow
  <2>a. /\ LimitOf(k) \in Nat /\ WindowOf(k) \in Nat /\ full \in Nat
    BY <2>0, SettingsType, NatProduct DEF Full
  <2>b. Available(k)' \in Nat
    <3>1. clock' \in Nat /\ buckets'[k] \in Bucket \cup {None}
      BY <1>2 DEF IndInv, TypeOK
    <3>2. CASE buckets'[k] = None
      BY <2>a, <3>2 DEF Available, LimitOf, WindowOf
    <3>3. CASE buckets'[k] # None
      <4>1. RefillTokens(buckets'[k], LimitOf(k), WindowOf(k), clock') \in Bucket
        BY <2>a, <3>1, <3>3, RefillType
      <4> QED
        BY <3>3, <4>1 DEF Available, LimitOf, WindowOf, Bucket
    <3> QED BY <3>2, <3>3
  <2>2. /\ Available(k) \in Nat /\ Available(k)' \in Nat
        /\ LimitOf(k) \in Nat /\ WindowOf(k) \in Nat /\ full \in Nat
    BY <1>1, <2>a, <2>b, AvailableIs
  <2>3. window' = [window EXCEPT !.units = window'.units]
        /\ window'.units = IF Granted(k) THEN u + WindowOf(k) ELSE u
    BY <1>4, <2>0, <2>1 DEF Counted, Window
  <2>4. /\ window' \in Window /\ window'.key = k /\ window'.start = window.start
        /\ window' # None
    BY <2>0, <2>1, <2>2, <2>3, WindowAssumption DEF Window
  <2>5. clock' \in Nat /\ window'.start <= clock'
    BY <1>1, <2>1, <2>4, ClockSteps
  <2> HIDE DEF u, full
  <2>6. window'.units + Available(k)' <= full + (clock' - window.start) * LimitOf(k)
    <3>1. CASE Granted(k)
      <4>1. clock' = clock /\ Available(k)' = Available(k) - WindowOf(k)
        BY <1>1, <2>1, <3>1, GrantPays, PayingTakes
      <4> QED
        BY <2>1, <2>2, <2>3, <3>1, <4>1
    <3>2. CASE ~Granted(k)
      <4>1. window'.units = u
        BY <2>3, <3>2
      <4>2. CASE clock' = clock /\ Available(k)' <= Available(k)
        BY <2>1, <2>2, <4>1, <4>2
      <4>3. CASE clock' = clock + 1 /\ Available(k)' <= Available(k) + LimitOf(k)
        <5> DEFINE y == (clock' - window.start) * LimitOf(k)
                   z == x * LimitOf(k)
        <5>1. y = z + LimitOf(k) /\ z \in Int
          BY <2>1, <2>2, <4>3
        <5> HIDE DEF y, z
        <5>2. u + Available(k) <= full + z
          BY <2>1 DEF z
        <5>3. window'.units + Available(k)' <= full + y
          BY <2>1, <2>2, <4>1, <4>3, <5>1, <5>2
        <5> QED
          BY <5>3 DEF y
      <4> QED
        BY <1>1, <2>1, <4>2, <4>3, AvailableSteps
    <3> QED BY <3>1, <3>2
  <2>7. WindowInv'
    BY <2>4, <2>5, <2>6 DEF WindowInv, Inflow, full, LimitOf, WindowOf, Available
  <2> QED
    BY <1>2, <2>4, <2>7 DEF WIndInv, WindowTypeOK
<1> QED BY <1>3, <1>4

LEMMA WindowStep == WIndInv /\ [WNext]_wvars => WIndInv'
<1> SUFFICES ASSUME WIndInv, [WNext]_wvars PROVE WIndInv'
  OBVIOUS
<1>1. CASE Counted
  BY <1>1, WindowCounts
<1>2. CASE \E k \in Keys : OpenWindow(k)
  BY <1>2, WindowOpens DEF WIndInv
<1>3. CASE UNCHANGED wvars
  <2>1. IndInv'
    BY <1>3 DEF wvars, vars, WIndInv, IndInv, TypeOK, TokenInv, BucketInv, TimeInv,
                BlocksExpire, CountInv, PastCheck
  <2>2. WindowTypeOK' /\ WindowInv'
    BY <1>3 DEF wvars, vars, WIndInv, WindowTypeOK, WindowInv, Inflow, Available,
                LimitOf, WindowOf
  <2> QED BY <2>1, <2>2 DEF WIndInv
<1> QED BY <1>1, <1>2, <1>3 DEF WNext

\* In every interval, of any start and length, an address or a token is granted
\* at most a full bucket and what flows in meanwhile: the limit the middleware
\* enforces, for any number of concurrent requests and any settings.
THEOREM IntervalBound == WSpec => []WindowBound
<1>1. WIndInv => WindowBound
  <2> SUFFICES ASSUME WIndInv, window # None PROVE WindowBound
    BY DEF WindowBound
  <2> DEFINE k == window.key
             full == Full(LimitOf(k), WindowOf(k))
  <2>1. /\ k \in Keys /\ window.units \in Nat /\ window.start \in Nat /\ clock \in Nat
        /\ window.start <= clock /\ window.units + Available(k) <= full + Inflow
    BY DEF WIndInv, IndInv, TypeOK, WindowTypeOK, Window, WindowInv
  <2>2. Available(k) \in Nat /\ full \in Nat /\ LimitOf(k) \in Nat
    BY <2>1, AvailableIs, SettingsType, NatProduct DEF WIndInv, IndInv, Full
  <2>3. Inflow \in Int
    BY <2>1, <2>2 DEF Inflow
  <2> HIDE DEF k, full
  <2>4. window.units <= full + Inflow
    BY <2>1, <2>2, <2>3
  <2> QED
    BY <2>4 DEF WindowBound, full, k
<1> QED
  BY <1>1, WindowInit, WindowStep, PTL DEF WSpec
================================================================================
