--------------------------------- MODULE Mutex ---------------------------------
(***************************************************************************)
(* What a lock promises: of every name, at most one process holds the lock *)
(* at a time, and only the holder gives it back.                           *)
(***************************************************************************)
CONSTANTS Names, Processes

VARIABLE holders   \* the processes that hold the lock of each name

Init == holders = [n \in Names |-> {}]

Take(n, p) ==
  /\ holders[n] = {}
  /\ holders' = [holders EXCEPT ![n] = {p}]

GiveBack(n, p) ==
  /\ holders[n] = {p}
  /\ holders' = [holders EXCEPT ![n] = {}]

Next == \E n \in Names, p \in Processes : Take(n, p) \/ GiveBack(n, p)

Spec == Init /\ [][Next]_holders
================================================================================
