------------------------------ MODULE RateLimiter ------------------------------
(***************************************************************************)
(* The middleware RateLimiter (Middleware/RateLimitingMiddleware.cs).      *)
(* Requests run concurrently on the thread pool; one action is one access  *)
(* to a shared dictionary or bucket, so that another request may run       *)
(* between reading a block and removing or rewriting it.                   *)
(*                                                                         *)
(* Each request reads the clock once on entry (its `now`); buckets read    *)
(* the clock again when they are used.                                     *)
(***************************************************************************)
EXTENDS Integers, FiniteSets, TokenBucket, BlockBackoff

CONSTANTS
  Requests,       \* threads that serve requests
  Ips,            \* client addresses
  Tokens,         \* bearer tokens
  NoToken,        \* a request without a bearer token
  None,           \* an absent dictionary entry
  IpLimit, IpWindow, TokenLimit,    \* RateLimitSettings, with TokenWindow
  LogSuppress,    \* _logSuppressDuration, in seconds
  MaxClock        \* bound of the model: the last instant

\* Settings come from appsettings.json; a limiter with a zero limit or window
\* admits nothing or divides by zero, and is not a configuration in use.
ASSUME SettingsAssumption ==
  /\ IpLimit \in Nat \ {0} /\ IpWindow \in Nat \ {0}
  /\ TokenLimit \in Nat \ {0}
  /\ LogSuppress \in Nat
  /\ MaxClock \in Nat

\* An address is not a token: the dictionary keys are "ip:..." and "token:...".
ASSUME KeyAssumption ==
  /\ Ips \cap Tokens = {}
  /\ Ips # {}
  /\ IsFiniteSet(Requests)
  /\ NoToken \notin Ips \cup Tokens
  /\ None \notin [tokens : Nat, lastRefill : Nat]
  /\ None \notin [until : Int, logged : Nat]
  /\ None \notin [until : Int, count : Nat]

VARIABLES
  clock,          \* DateTime.UtcNow
  buckets,        \* _buckets
  blockedIps,     \* _blockedIps: until, logged
  blockedTokens,  \* _blockedTokens: until, count (ConsecutiveBlocks)
  pc,             \* where each request is in InvokeAsync
  req             \* its locals: ip, token, now, until (of the block it read)

vars == <<clock, buckets, blockedIps, blockedTokens, pc, req>>

Keys == Ips \cup Tokens
LimitOf(k)  == IF k \in Ips THEN IpLimit ELSE TokenLimit
WindowOf(k) == IF k \in Ips THEN IpWindow ELSE TokenWindow

Steps == {"idle", "checkIp", "relogIp", "unblockIp", "consumeIp", "blockIp",
          "checkToken", "unblockToken", "consumeToken", "blockToken",
          "verify", "next"}

IpBlock    == [until : Int, logged : Nat]
TokenBlock == [until : Int, count : Nat]
Local      == [ip : Ips, token : Tokens \cup {NoToken}, now : Nat, until : Int]

TypeOK ==
  /\ clock \in Nat
  /\ buckets \in [Keys -> Bucket \cup {None}]
  /\ blockedIps \in [Ips -> IpBlock \cup {None}]
  /\ blockedTokens \in [Tokens -> TokenBlock \cup {None}]
  /\ pc \in [Requests -> Steps]
  /\ req \in [Requests -> Local]

IdleLocal == [ip |-> CHOOSE i \in Ips : TRUE, token |-> NoToken, now |-> 0, until |-> 0]

Init ==
  /\ clock = 0
  /\ buckets = [k \in Keys |-> None]
  /\ blockedIps = [i \in Ips |-> None]
  /\ blockedTokens = [t \in Tokens |-> None]
  /\ pc = [r \in Requests |-> "idle"]
  /\ req = [r \in Requests |-> IdleLocal]

--------------------------------------------------------------------------------
\* _buckets.GetOrAdd: the bucket of k, created full when there is none.
BucketOf(k) == IF buckets[k] = None
                 THEN NewBucket(LimitOf(k), WindowOf(k), clock)
                 ELSE buckets[k]

\* AddRateLimitHeaders reads the remaining tokens and the reset time, which
\* refills the bucket, when there is one.
WithHeaders(k) == IF buckets[k] = None
                    THEN buckets
                    ELSE [buckets EXCEPT ![k] =
                            RefillTokens(@, LimitOf(k), WindowOf(k), clock)]

Goto(r, step) == pc' = [pc EXCEPT ![r] = step]

\* The response is sent and the request's locals are gone.
Respond(r) ==
  /\ Goto(r, "idle")
  /\ req' = [req EXCEPT ![r] = IdleLocal]

--------------------------------------------------------------------------------
\* Entry: the client address and the header are fixed, the clock is read.
Arrive(r, ip, token) ==
  /\ pc[r] = "idle"
  /\ Goto(r, "checkIp")
  /\ req' = [req EXCEPT ![r] = [ip |-> ip, token |-> token, now |-> clock, until |-> 0]]
  /\ UNCHANGED <<clock, buckets, blockedIps, blockedTokens>>

\* The fast check: the block of the address is read.
CheckIpBlock(r) ==
  LET block == blockedIps[req[r].ip]
      now   == req[r].now
  IN  /\ pc[r] = "checkIp"
      /\ \/ /\ block = None
            /\ Goto(r, "consumeIp")
            /\ UNCHANGED <<buckets, req>>
         \/ /\ block # None /\ now < block.until /\ now - block.logged >= LogSuppress
            /\ Goto(r, "relogIp")
            /\ req' = [req EXCEPT ![r].until = block.until]
            /\ UNCHANGED <<buckets>>
         \/ /\ block # None /\ now < block.until /\ now - block.logged < LogSuppress
            /\ buckets' = WithHeaders(req[r].ip)
            /\ Respond(r)
         \/ /\ block # None /\ now >= block.until
            /\ Goto(r, "unblockIp")
            /\ UNCHANGED <<buckets, req>>
      /\ UNCHANGED <<clock, blockedIps, blockedTokens>>

\* The entry is written back with a new log time, whatever it is by now.
RelogIpBlock(r) ==
  /\ pc[r] = "relogIp"
  /\ blockedIps' = [blockedIps EXCEPT ![req[r].ip] =
                      [until |-> req[r].until, logged |-> req[r].now]]
  /\ buckets' = WithHeaders(req[r].ip)
  /\ Respond(r)
  /\ UNCHANGED <<clock, blockedTokens>>

\* The expired entry is removed, whatever it is by now.
UnblockIp(r) ==
  /\ pc[r] = "unblockIp"
  /\ blockedIps' = [blockedIps EXCEPT ![req[r].ip] = None]
  /\ Goto(r, "consumeIp")
  /\ UNCHANGED <<clock, buckets, blockedTokens, req>>

\* The address pays one token; a request without a bearer token is answered 401.
ConsumeIpToken(r) ==
  LET k == req[r].ip
      b == BucketOf(k)
  IN  /\ pc[r] = "consumeIp"
      /\ buckets' = [buckets EXCEPT ![k] = TryConsume(b, IpLimit, IpWindow, clock)]
      /\ \/ /\ ~Grants(b, IpLimit, IpWindow, clock)
            /\ Goto(r, "blockIp")
            /\ UNCHANGED req
         \/ /\ Grants(b, IpLimit, IpWindow, clock)
            /\ req[r].token = NoToken
            /\ Respond(r)
         \/ /\ Grants(b, IpLimit, IpWindow, clock)
            /\ req[r].token # NoToken
            /\ Goto(r, "checkToken")
            /\ UNCHANGED req
      /\ UNCHANGED <<clock, blockedIps, blockedTokens>>

\* A block that is added to the one in force.
BlockIpLonger(r) ==
  LET k     == req[r].ip
      from  == IF blockedIps[k] = None THEN req[r].now ELSE blockedIps[k].until
  IN  /\ pc[r] = "blockIp"
      /\ blockedIps' = [blockedIps EXCEPT ![k] =
                          [until |-> from + IpWindow, logged |-> req[r].now]]
      /\ buckets' = WithHeaders(k)
      /\ Respond(r)
      /\ UNCHANGED <<clock, blockedTokens>>

\* The address is blocked for a window, counted from the request's entry.
BlockIp(r) ==
  LET k     == req[r].ip
      until == req[r].now + IpWindow
  IN  /\ pc[r] = "blockIp"
      /\ blockedIps' = [blockedIps EXCEPT ![k] = [until |-> until, logged |-> req[r].now]]
      /\ buckets' = WithHeaders(k)
      /\ Respond(r)
      /\ UNCHANGED <<clock, blockedTokens>>

\* The block of the token is read; a blocked token is answered 429 (its
\* masked name is no bucket's key, so no headers and no refill).
CheckTokenBlock(r) ==
  LET block == blockedTokens[req[r].token]
  IN  /\ pc[r] = "checkToken"
      /\ \/ /\ block = None
            /\ Goto(r, "consumeToken")
            /\ UNCHANGED req
         \/ /\ block # None /\ req[r].now < block.until
            /\ Respond(r)
         \/ /\ block # None /\ req[r].now >= block.until
            /\ Goto(r, "unblockToken")
            /\ UNCHANGED req
      /\ UNCHANGED <<clock, buckets, blockedIps, blockedTokens>>

\* The expired block stays, and with it the count.
UnblockTokenKept(r) ==
  /\ pc[r] = "unblockToken"
  /\ Goto(r, "consumeToken")
  /\ UNCHANGED <<clock, buckets, blockedIps, blockedTokens, req>>

\* The expired block is removed, whatever it is by now.
UnblockToken(r) ==
  /\ pc[r] = "unblockToken"
  /\ blockedTokens' = [blockedTokens EXCEPT ![req[r].token] = None]
  /\ Goto(r, "consumeToken")
  /\ UNCHANGED <<clock, buckets, blockedIps, req>>

\* The token pays one of its own.
ConsumeToken(r) ==
  LET k == req[r].token
      b == BucketOf(k)
  IN  /\ pc[r] = "consumeToken"
      /\ buckets' = [buckets EXCEPT ![k] = TryConsume(b, TokenLimit, TokenWindow, clock)]
      /\ \/ /\ Grants(b, TokenLimit, TokenWindow, clock)
            /\ Goto(r, "verify")
         \/ /\ ~Grants(b, TokenLimit, TokenWindow, clock)
            /\ Goto(r, "blockToken")
      /\ UNCHANGED <<clock, blockedIps, blockedTokens, req>>

\* AddOrUpdate of the token's block, and the answer 429.
BlockToken(r) ==
  LET k     == req[r].token
      block == IF blockedTokens[k] = None
                 THEN CreateBlockInfo(req[r].now)
                 ELSE UpdateBlockInfo(blockedTokens[k], req[r].now)
  IN  /\ pc[r] = "blockToken"
      /\ blockedTokens' = [blockedTokens EXCEPT ![k] = block]
      /\ buckets' = WithHeaders(k)
      /\ Respond(r)
      /\ UNCHANGED <<clock, blockedIps>>

\* VerifyTokenAsync answers from the database (module TokenAuth): any answer.
VerifyToken(r) ==
  /\ pc[r] = "verify"
  /\ \/ /\ Goto(r, "next")
        /\ UNCHANGED req
     \/ Respond(r)
  /\ UNCHANGED <<clock, buckets, blockedIps, blockedTokens>>

\* The rest of the pipeline answers; OnStarting adds the headers.
Complete(r) ==
  /\ pc[r] = "next"
  /\ buckets' = WithHeaders(req[r].token)
  /\ Respond(r)
  /\ UNCHANGED <<clock, blockedIps, blockedTokens>>

\* Time passes, up to the bound of the model.
Tick ==
  /\ clock < MaxClock
  /\ clock' = clock + 1
  /\ UNCHANGED <<buckets, blockedIps, blockedTokens, pc, req>>

Handle(r) ==
  \/ \E ip \in Ips, token \in Tokens \cup {NoToken} : Arrive(r, ip, token)
  \/ CheckIpBlock(r) \/ RelogIpBlock(r) \/ UnblockIp(r)
  \/ ConsumeIpToken(r) \/ BlockIp(r)
  \/ CheckTokenBlock(r) \/ UnblockToken(r)
  \/ ConsumeToken(r) \/ BlockToken(r)
  \/ VerifyToken(r) \/ Complete(r)

Next ==
  \/ \E r \in Requests : Handle(r)
  \/ Tick

Spec == Init /\ [][Next]_vars

--------------------------------------------------------------------------------
\* Buckets are never over-full, and never refilled in the future: no header
\* read, clock read or interleaving adds tokens twice (RefillTokens).
BucketInv ==
  \A k \in Keys : buckets[k] # None =>
    /\ buckets[k].tokens <= Full(LimitOf(k), WindowOf(k))
    /\ buckets[k].lastRefill <= clock

\* ConsecutiveBlocks counts refusals of requests that were already past the
\* block check when the first of them was refused, hence never more than there
\* are requests in flight (lines 294-326): it does not count violations over time.
CountBoundedByConcurrency ==
  \A t \in Tokens : blockedTokens[t] # None =>
    blockedTokens[t].count <= Cardinality(Requests)

Later(x, y) == IF x >= y THEN x ELSE y

\* No block, however raced or rewritten, reaches further than the longest
\* duration from now: nobody is locked out for good.
BlocksExpire ==
  /\ \A i \in Ips : blockedIps[i] # None => blockedIps[i].until <= clock + IpWindow
  /\ \A t \in Tokens : blockedTokens[t] # None =>
        blockedTokens[t].until <= clock + Later(TokenWindow, MaxBlock)

\* A request in a stage of its token has one.
TokenInv ==
  \A r \in Requests :
    pc[r] \in {"checkToken", "unblockToken", "consumeToken", "blockToken", "verify", "next"}
      => req[r].token \in Tokens

\* What a request remembers is not from the future.
TimeInv ==
  \A r \in Requests : req[r].now <= clock /\ req[r].until <= clock + IpWindow

\* The requests that found the token not blocked and may still be refused.
PastCheck(t) ==
  {r \in Requests : pc[r] \in {"consumeToken", "blockToken"} /\ req[r].token = t}

\* The refusals a block has counted and those that may still come: nobody
\* passes the check while the block is there.
CountInv ==
  \A t \in Tokens : blockedTokens[t] # None =>
    blockedTokens[t].count + Cardinality(PastCheck(t)) <= Cardinality(Requests)

\* The inductive invariant behind the theorems of RateLimiter_proofs.
IndInv ==
  /\ TypeOK
  /\ TokenInv
  /\ BucketInv
  /\ TimeInv
  /\ BlocksExpire
  /\ CountInv
================================================================================
