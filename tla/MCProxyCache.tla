------------------------------ MODULE MCProxyCache ------------------------------
(* Small instances of ProxyCache: where the requests run. *)
EXTENDS ProxyCache, TLC

CONSTANTS Home, Elsewhere   \* the requests of the first server and of the second

MCHomeOf == [r \in Requests |-> IF r \in Home THEN "s1" ELSE "s2"]
MCKeys == Callers \X Paths
Symmetry == Permutations(Home) \cup Permutations(Elsewhere)
================================================================================
