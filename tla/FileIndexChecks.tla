---------------------------- MODULE FileIndexChecks ----------------------------
(***************************************************************************)
(* What the index of FileIndex is worth: which files a listing may show or *)
(* miss, observed by what has crossed, been dropped or been outlived.      *)
(***************************************************************************)
EXTENDS FileIndex

VARIABLES
  crossed,     \* the files on which two uploads or deletions have overlapped
  unlisted,    \* the files that came behind the back of the index, or that were
               \* in memory only when the directory was last listed
  lost,        \* the files that went behind the back of the index
  stale        \* the environments whose cached index is an earlier process's

cvars == <<vars, crossed, unlisted, lost, stale>>

\* An upload or a deletion of n is under way.
OnFile(p, e, n) ==
  /\ at[p] \in {"write", "update", "store"} \/ job[p].nested
  /\ job[p].env = e /\ job[p].name = n

Settled(e, n) == \A p \in Processes : ~OnFile(p, e, n)

Restarted == at' = [p \in Processes |-> "idle"] /\ index' = [e \in Envs |-> None]

\* p leaves a place for another.
Moves(p, from, to) == at[p] = from /\ at'[p] = to

\* p makes the directory it has listed the index of e, with n in it or without;
\* it stores the index of e with n set in it, or removed.
Puts(p, e, n, there) ==
  /\ at[p] = "put" /\ at'[p] # "put" /\ job[p].env = e
  /\ (n \in job[p].found) = there /\ Settled(e, n)

Stores(p, e, n, there) ==
  /\ Moves(p, "store", "idle") /\ job[p].env = e /\ job[p].name = n
  /\ job[p].delete = ~there

Told(e, n, there) ==
  ~Restarted /\ \E p \in Processes : Puts(p, e, n, there) \/ Stores(p, e, n, there)

\* No request's step brings n, or takes it: a flush or a download that began
\* before its deletion puts it back, or a failed flush let it be evicted.
Comes(e, n) == at' = at /\ n \notin Stored(e) /\ n \in Stored(e)'

Goes(e, n) == at' = at /\ n \in Stored(e) /\ n \notin Stored(e)'

Missed(e, n) ==
  \/ Comes(e, n)
  \/ \E p \in Processes : job[p].env = e
       /\ \/ Moves(p, "write", "idle") /\ job[p].name = n
          \/ Moves(p, "check", "put") /\ n \in memory[e] \ disk[e]

Observe ==
  /\ crossed' = crossed \cup {f \in Envs \X Names :
                  \E p, q \in Processes :
                    p # q /\ OnFile(p, f[1], f[2])' /\ OnFile(q, f[1], f[2])'}
  /\ unlisted' = [e \in Envs |->
       {n \in Names : (n \in unlisted[e] \/ Missed(e, n)) /\ ~Told(e, n, TRUE)}]
  /\ lost' = [e \in Envs |->
       {n \in Names : /\ n \in lost[e] \/ Goes(e, n)
                      /\ n \notin Stored(e)' /\ ~Told(e, n, FALSE)}]
  /\ stale' = IF Restarted THEN {e \in Envs : cached'[e] # None}
              ELSE stale \ {job[p].env : p \in {q \in Processes : at[q] = "put" /\ at'[q] # "put"}}

NoFiles == [e \in Envs |-> {}]

ChecksInit == Init /\ crossed = {} /\ unlisted = NoFiles /\ lost = NoFiles /\ stale = {}

ChecksSpec == ChecksInit /\ [][Next /\ Observe]_cvars

--------------------------------------------------------------------------------
\* A listing shows no file that is gone, but those that were evicted after a
\* flush that failed: neither a rebuild from the directory between the steps of
\* uploads and deletions, nor a flush under way or a cached index brings one back
\* into it.
ListedExist ==
  \A e \in Envs \ stale : \A n \in Names :
    Settled(e, n) /\ <<e, n>> \notin crossed /\ cached[e] # None /\ n \in cached[e]
      => n \in Stored(e) \cup lost[e]

\* It misses none either, but those a rebuild found in memory only, those that a
\* flush or a download put back after their deletion and those of which the upload
\* failed halfway.
UploadsListed ==
  \A e \in Envs \ stale : \A n \in Stored(e) \ unlisted[e] :
    Settled(e, n) /\ <<e, n>> \notin crossed /\ cached[e] # None => n \in cached[e]

\* Who has the semaphore does not wait for it, but for the first update of an
\* environment of which this process has no index: that one waits for itself.
HolderMoves ==
  \A p \in Processes :
    holder = p /\ at[p] \in {"wait", "update", "idle"} =>
      job[p].nested /\ at[p] = "wait" /\ index[job[p].env] = None
================================================================================
