--------------------------- MODULE RateLimiterWindow ---------------------------
(***************************************************************************)
(* RateLimiter with an observer of one interval of time: it starts at any  *)
(* instant, for any address or token, and counts what that key's bucket    *)
(* grants from then on.  Since the start is arbitrary, a bound on the      *)
(* count is a bound for every interval.                                    *)
(***************************************************************************)
EXTENDS RateLimiter

ASSUME WindowAssumption == None \notin [key : Keys, start : Nat, units : Nat]

VARIABLE window   \* the observed interval: key, start, units granted so far

wvars == <<vars, window>>

Window == [key : Keys, start : Nat, units : Nat]

WindowTypeOK == window \in Window \cup {None}

WInit == Init /\ window = None

\* The step grants a token of k: a request leaves the bucket of k for the
\* next stage or for the answer that follows a grant.
Granted(k) ==
  \E r \in Requests :
    \/ pc[r] = "consumeIp" /\ req[r].ip = k /\ pc'[r] \in {"checkToken", "idle"}
    \/ pc[r] = "consumeToken" /\ req[r].token = k /\ pc'[r] = "verify"

\* A step of the limiter, counted when it is a grant of the observed key.
Counted ==
  /\ Next
  /\ window' = IF window # None /\ Granted(window.key)
                 THEN [window EXCEPT !.units = @ + WindowOf(window.key)]
                 ELSE window

\* The observer starts its interval now.
OpenWindow(k) ==
  /\ window = None
  /\ window' = [key |-> k, start |-> clock, units |-> 0]
  /\ UNCHANGED vars

WNext == Counted \/ \E k \in Keys : OpenWindow(k)

WSpec == WInit /\ [][WNext]_wvars

--------------------------------------------------------------------------------
\* The units of the observed key that time has added since the interval began.
Inflow == (clock - window.start) * LimitOf(window.key)

\* What a bucket could hand out now.
Available(k) ==
  IF buckets[k] = None
    THEN Full(LimitOf(k), WindowOf(k))
    ELSE RefillTokens(buckets[k], LimitOf(k), WindowOf(k), clock).tokens

\* In an interval of any start and length, a key is granted at most a full
\* bucket and what flows in meanwhile, however requests, blocks and header
\* reads interleave (TryConsume and RefillTokens).
WindowBound ==
  window # None =>
    window.units <= Full(LimitOf(window.key), WindowOf(window.key)) + Inflow

\* The inductive form of WindowBound: what was granted and what is still
\* available never add up to more than a full bucket and the inflow.
WindowInv ==
  window # None =>
    /\ window.start <= clock
    /\ window.units + Available(window.key)
         <= Full(LimitOf(window.key), WindowOf(window.key)) + Inflow
================================================================================
