-------------------------------- MODULE Journal --------------------------------
(***************************************************************************)
(* What a log that may lose entries promises: an entry is in one place at  *)
(* a time, goes one way and never back, leaves no place before an older    *)
(* one does, is written after all that was written before, and is deleted  *)
(* only if a later one stays (not always the oldest first).                *)
(***************************************************************************)
EXTENDS Integers

CONSTANT Entries   \* numbers, in the order in which they arrive

VARIABLE place     \* of each entry, the place where it is: none before it arrives

Init == place = [e \in Entries |-> {}]

Ways ==
  {<<{}, {"queue"}>>, <<{"queue"}, {"batch"}>>, <<{"batch"}, {"file"}>>, <<{"file"}, {"deleted"}>>,
   <<{"queue"}, {"missed"}>>, <<{"batch"}, {"missed"}>>}

Next ==
  LET from   == place
      to     == place'
      moving == {e \in Entries : to[e] # from[e]}
  IN  /\ to = [e \in Entries |-> to[e]]
      /\ \A e \in moving : <<from[e], to[e]>> \in Ways
      /\ \A d \in moving, e \in Entries \ moving :
           from[d] = from[e] /\ to[d] # {"deleted"} => d < e
      /\ \A d \in Entries, e \in moving :
           to[e] = {"file"} /\ from[d] \in {{"file"}, {"deleted"}} => d < e
      /\ \A d \in moving : to[d] = {"deleted"} => \E e \in Entries : to[e] = {"file"} /\ d < e

Spec == Init /\ [][Next]_place
================================================================================
