-------------------------- MODULE MCRateLimiterWindow --------------------------
(* RateLimiterWindow for TLC: the request threads are interchangeable. *)
EXTENDS RateLimiterWindow, TLC

Symmetry == Permutations(Requests)
================================================================================
