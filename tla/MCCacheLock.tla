------------------------------ MODULE MCCacheLock ------------------------------
(* Small instances of CacheLock: where the requests run. *)
EXTENDS CacheLock, TLC

CONSTANTS Home, Elsewhere   \* the requests of the first server and of the second

MCHomeOf == [r \in Requests |-> IF r \in Home THEN "s1" ELSE "s2"]
Symmetry == Permutations(Home) \cup Permutations(Elsewhere)
================================================================================
