------------------------------- MODULE FileIndex --------------------------------
(***************************************************************************)
(* FileSystemIndex: the names of the files of each environment, in memory  *)
(* and in the cache, behind one semaphore.  Uploads and deletions change   *)
(* the storage first and the index then; a timer rebuilds every index from *)
(* the directory.  What FileHandlerService does meanwhile without telling  *)
(* the index is here as far as it changes which names there are: flushes   *)
(* that fail or put a deleted file back, evictions whether or not the file *)
(* was written, downloads that bring a file into memory, and writes,       *)
(* deletions and listings of the directory that fail.  Module FileStore    *)
(* has its detail.  One action is what happens between two awaits.         *)
(*                                                                         *)
(* The memory cache hands out the very dictionary it was given; the Redis  *)
(* cache hands out copies, is shared and survives the process; with        *)
(* caching disabled nothing is ever found in it.  The cache answers: how   *)
(* it fails is in modules CacheLock and ProxyCache.                        *)
(***************************************************************************)
EXTENDS FiniteSets

CONSTANTS
  Envs,        \* environments
  Names,       \* file names
  Requests,    \* threads that serve requests
  Timers,      \* callbacks of the refresh timer
  Providers,   \* the cache providers the configuration may name
  None         \* no index, no holder

ASSUME IndexAssumption ==
  /\ Envs # {}
  /\ Providers \subseteq {"memory", "redis", "disabled"}
  /\ Requests \cap Timers = {}
  /\ None \notin Requests \cup Timers \cup Names
  /\ \A S \in SUBSET Names : None # S

Processes == Requests \cup Timers

VARIABLES
  provider,    \* the provider configured
  useMemory,   \* UseMemoryCache: uploads are kept in memory first
  memory,      \* the files of each environment in memory
  disk,        \* the files in its directory
  flushing,    \* the files of which a flush is under way
  loading,     \* the files that a download has found on disk and not in memory
  index,       \* _environmentIndices
  cached,      \* the index in the cache
  holder,      \* who has _indexLock
  at,          \* where each process is
  job          \* its locals

vars == <<provider, useMemory, memory, disk, flushing, loading, index, cached, holder, at, job>>

\* env, name, delete: of the request; todo: the environments still to refresh;
\* nested: the index is got for an update, which has the semaphore; found: the
\* index to put.
Job == [env : Envs, name : Names \cup {None}, delete : BOOLEAN, todo : SUBSET Envs,
        nested : BOOLEAN, found : SUBSET Names]

Places == {"idle", "write", "update", "get", "wait", "check", "store", "put", "refresh"}

Indices == {None} \cup SUBSET Names

FileIndexTypeOK ==
  /\ provider \in Providers /\ useMemory \in BOOLEAN
  /\ memory \in [Envs -> SUBSET Names] /\ disk \in [Envs -> SUBSET Names]
  /\ flushing \in [Envs -> SUBSET Names] /\ loading \in [Envs -> SUBSET Names]
  /\ index \in [Envs -> Indices] /\ cached \in [Envs -> Indices]
  /\ holder \in Processes \cup {None}
  /\ at \in [Processes -> Places]
  /\ job \in [Processes -> Job]

IdleJob == [env |-> CHOOSE e \in Envs : TRUE, name |-> None,
            delete |-> FALSE, todo |-> {}, nested |-> FALSE, found |-> {}]

Init ==
  /\ provider \in Providers /\ useMemory \in BOOLEAN
  /\ memory = [e \in Envs |-> {}] /\ disk = [e \in Envs |-> {}]
  /\ flushing = [e \in Envs |-> {}] /\ loading = [e \in Envs |-> {}]
  /\ index = [e \in Envs |-> None] /\ cached = [e \in Envs |-> None]
  /\ holder = None
  /\ at = [p \in Processes |-> "idle"]
  /\ job = [p \in Processes |-> IdleJob]

--------------------------------------------------------------------------------
storage == <<memory, disk>>
background == <<flushing, loading>>
indices == <<index, cached>>
config == <<provider, useMemory>>

Go(p, place) == at' = [at EXCEPT ![p] = place]

Done(p) == Go(p, "idle") /\ job' = [job EXCEPT ![p] = IdleJob]

Stored(e) == memory[e] \cup disk[e]

\* (an upload without a name, which stores nothing but goes on)
UploadUnnamed(p, e, n) ==
  /\ at[p] = "idle"
  /\ job' = [job EXCEPT ![p] = [IdleJob EXCEPT !.env = e]]
  /\ Go(p, "update")
  /\ UNCHANGED <<storage, background, indices, holder, config>>

\* UploadFileAsync, up to the index: the file is in memory, or created on disk.
Upload(p, e, n) ==
  /\ at[p] = "idle"
  /\ IF useMemory
       THEN memory' = [memory EXCEPT ![e] = @ \cup {n}] /\ Go(p, "update") /\ UNCHANGED disk
       ELSE disk' = [disk EXCEPT ![e] = @ \cup {n}] /\ Go(p, "write") /\ UNCHANGED memory
  /\ job' = [job EXCEPT ![p] = [IdleJob EXCEPT !.env = e, !.name = n]]
  /\ UNCHANGED <<background, indices, holder, config>>

\* The copy to the file on disk succeeds, or leaves what there is of it and ends
\* the upload, of which the index is not told.
Write(p) ==
  /\ at[p] = "write"
  /\ \/ Go(p, "update") /\ UNCHANGED job
     \/ Done(p)
  /\ UNCHANGED <<storage, background, indices, holder, config>>

\* DeleteFileAsync, up to the index; a file that is not there is deleted too.
Delete(p, e, n) ==
  /\ at[p] = "idle"
  /\ memory' = [memory EXCEPT ![e] = @ \ {n}]
  /\ disk' = [disk EXCEPT ![e] = @ \ {n}]
  /\ job' = [job EXCEPT ![p] = [IdleJob EXCEPT !.env = e, !.name = n, !.delete = TRUE]]
  /\ Go(p, "update")
  /\ UNCHANGED <<background, indices, holder, config>>

\* The file cannot be deleted from the disk: the copy in memory is gone, and the
\* index is not told.
DeleteFails(p, e, n) ==
  /\ at[p] = "idle" /\ n \in disk[e]
  /\ memory' = [memory EXCEPT ![e] = @ \ {n}]
  /\ UNCHANGED <<disk, background, indices, holder, config, at, job>>

--------------------------------------------------------------------------------
\* FlushFileToDiskAsync has found the file in memory.  It creates it on disk
\* without looking again, or fails, which it keeps to itself.  (One mark stands
\* for all flushes of a file under way.)
FlushBegin(e, n) ==
  /\ n \in memory[e]
  /\ flushing' = [flushing EXCEPT ![e] = @ \cup {n}]
  /\ UNCHANGED <<storage, loading, indices, holder, config, at, job>>

FlushOpen(e, n) ==
  /\ n \in flushing[e]
  /\ disk' = [disk EXCEPT ![e] = @ \cup {n}]
  /\ UNCHANGED <<memory, background, indices, holder, config, at, job>>

FlushEnd(e, n) ==
  /\ n \in flushing[e]
  /\ flushing' = [flushing EXCEPT ![e] = @ \ {n}]
  /\ UNCHANGED <<storage, loading, indices, holder, config, at, job>>

\* A file that is old, or in the way of another, leaves the memory, whether it
\* was written or its flush has failed.
Evict(e, n) ==
  /\ n \in memory[e]
  /\ memory' = [memory EXCEPT ![e] = @ \ {n}]
  /\ UNCHANGED <<disk, background, indices, holder, config, at, job>>

\* DownloadFileAsync reads a file from disk and keeps it in memory, without
\* looking again either.
LoadBegin(e, n) ==
  /\ useMemory /\ n \in disk[e] \ memory[e]
  /\ loading' = [loading EXCEPT ![e] = @ \cup {n}]
  /\ UNCHANGED <<storage, flushing, indices, holder, config, at, job>>

LoadKeep(e, n) ==
  /\ n \in loading[e]
  /\ memory' = [memory EXCEPT ![e] = @ \cup {n}]
  /\ UNCHANGED <<disk, background, indices, holder, config, at, job>>

LoadEnd(e, n) ==
  /\ n \in loading[e]
  /\ loading' = [loading EXCEPT ![e] = @ \ {n}]
  /\ UNCHANGED <<storage, flushing, indices, holder, config, at, job>>

--------------------------------------------------------------------------------
\* ListFilesAsync shows what GetDirectoryIndexAsync returns.
List(p, e) ==
  /\ at[p] = "idle"
  /\ job' = [job EXCEPT ![p] = [IdleJob EXCEPT !.env = e]]
  /\ Go(p, "get")
  /\ UNCHANGED <<storage, background, indices, holder, config>>

\* RefreshAllIndicesAsync: each environment it knows of, by force.
Refresh(t) ==
  /\ at[t] = "idle"
  /\ job' = [job EXCEPT ![t] = [IdleJob EXCEPT !.todo = {e \in Envs : index[e] # None}]]
  /\ Go(t, "refresh")
  /\ UNCHANGED <<storage, background, indices, holder, config>>

RefreshNext(t) ==
  /\ at[t] = "refresh"
  /\ IF job[t].todo = {}
       THEN Done(t)
       ELSE /\ \E e \in job[t].todo :
                 job' = [job EXCEPT ![t].env = e, ![t].todo = @ \ {e}]
            /\ Go(t, "get")
  /\ UNCHANGED <<storage, background, indices, holder, config>>

\* (an update that takes a deleted file for a new one)
Readded(j, found) == found \cup {j.name}

\* What an update makes of the index: an upload sets its file, a deletion removes it.
Changed(j, found) == IF j.delete THEN found \ {j.name} ELSE found \cup {j.name}

\* An update changes the index it has found, in the memory cache too, whose
\* object it is.
Change(p, found) ==
  LET e    == job[p].env
      new  == Changed(job[p], found)
  IN  /\ job' = [job EXCEPT ![p].found = new, ![p].nested = FALSE]
      /\ cached' = IF provider = "memory" /\ cached[e] # None
                     THEN [cached EXCEPT ![e] = new] ELSE cached
      /\ Go(p, "store")

\* Where GetDirectoryIndexAsync returns to, with the index it has found.
Return(p, found) ==
  \/ job[p].nested /\ Change(p, found)
  \/ p \in Requests /\ ~job[p].nested /\ Done(p) /\ UNCHANGED cached
  \/ p \in Timers /\ job' = [job EXCEPT ![p].found = {}] /\ Go(p, "refresh") /\ UNCHANGED cached

\* What the cache has, unless the index is to be rebuilt by force.
Hit(p) == cached[job[p].env] # None /\ p \notin Timers

\* GetDirectoryIndexAsync: the cache is asked without the semaphore, ...
Get(p) ==
  /\ at[p] = "get"
  /\ IF Hit(p)
       THEN Return(p, cached[job[p].env])
       ELSE Go(p, "wait") /\ UNCHANGED <<job, cached>>
  /\ UNCHANGED <<storage, background, index, holder, config>>

\* ... which it waits for, for ever if the process has it already, ...
Wait(p) ==
  /\ at[p] = "wait" /\ holder = None
  /\ holder' = p
  /\ Go(p, "check")
  /\ UNCHANGED <<storage, background, indices, config, job>>

\* (one that keeps the semaphore when it finds the index in the cache)
CheckKeeps(p) ==
  /\ at[p] = "check"
  /\ IF Hit(p)
       THEN Return(p, cached[job[p].env])
       ELSE /\ job' = [job EXCEPT ![p].found = disk[job[p].env]]
            /\ Go(p, "put")
            /\ UNCHANGED cached
  /\ UNCHANGED <<storage, background, index, holder, config>>

\* ... and again with it.  If it has nothing still, the directory is listed; ...
Check(p) ==
  /\ at[p] = "check"
  /\ IF Hit(p)
       THEN /\ holder' = None
            /\ Return(p, cached[job[p].env])
       ELSE /\ job' = [job EXCEPT ![p].found = disk[job[p].env]]
            /\ Go(p, "put")
            /\ UNCHANGED <<holder, cached>>
  /\ UNCHANGED <<storage, background, index, config>>

\* SetAsync for 30 minutes, _environmentIndices, and the semaphore is free.
SetIndex(p) ==
  LET e == job[p].env
  IN  /\ cached' = IF provider = "disabled" THEN cached ELSE [cached EXCEPT ![e] = job[p].found]
      /\ index' = [index EXCEPT ![e] = job[p].found]
      /\ holder' = None

\* ... and becomes the index.  (No update gets here: its nested call cannot.)
Put(p) ==
  /\ at[p] = "put"
  /\ SetIndex(p)
  /\ IF p \in Timers THEN job' = [job EXCEPT ![p].found = {}] /\ Go(p, "refresh") ELSE Done(p)
  /\ UNCHANGED <<storage, background, config>>

\* The directory cannot be listed: the caller, or the whole refresh, ends.
CheckFails(p) ==
  /\ at[p] = "check" /\ ~Hit(p)
  /\ holder' = None
  /\ Done(p)
  /\ UNCHANGED <<storage, background, indices, config>>

--------------------------------------------------------------------------------
\* UpdateIndexAsync: with the semaphore it takes the index in memory, or calls
\* GetDirectoryIndexAsync, ...
Update(p) ==
  LET e == job[p].env
  IN  /\ at[p] = "update" /\ holder = None
      /\ holder' = p
      /\ IF index[e] # None
           THEN Change(p, index[e])
           ELSE /\ job' = [job EXCEPT ![p].nested = TRUE]
                /\ Go(p, "get")
                /\ UNCHANGED cached
      /\ UNCHANGED <<storage, background, index, config>>

\* (in memory only)
StoreOnly(p) ==
  /\ at[p] = "store"
  /\ index' = [index EXCEPT ![job[p].env] = job[p].found]
  /\ holder' = None
  /\ Done(p)
  /\ UNCHANGED <<storage, background, cached, config>>

\* ... and puts it back.
Store(p) ==
  /\ at[p] = "store"
  /\ SetIndex(p)
  /\ Done(p)
  /\ UNCHANGED <<storage, background, config>>

--------------------------------------------------------------------------------
\* The cache drops the index after its time, or for want of room.
Expire(e) ==
  /\ cached[e] # None
  /\ cached' = [cached EXCEPT ![e] = None]
  /\ UNCHANGED <<storage, background, index, holder, config, at, job>>

\* The process ends: what it had in memory is gone, and the rest is not.
Restart ==
  /\ memory' = [e \in Envs |-> {}]
  /\ flushing' = [e \in Envs |-> {}] /\ loading' = [e \in Envs |-> {}]
  /\ index' = [e \in Envs |-> None]
  /\ cached' = IF provider = "redis" THEN cached ELSE [e \in Envs |-> None]
  /\ holder' = None
  /\ at' = [p \in Processes |-> "idle"]
  /\ job' = [p \in Processes |-> IdleJob]
  /\ UNCHANGED <<disk, config>>

--------------------------------------------------------------------------------
Request(p) ==
  \E e \in Envs :
    List(p, e) \/ \E n \in Names : Upload(p, e, n) \/ Delete(p, e, n) \/ DeleteFails(p, e, n)

\* What happens to the files of FileHandlerService behind the index.
Background(e, n) ==
  \/ FlushBegin(e, n) \/ FlushOpen(e, n) \/ FlushEnd(e, n) \/ Evict(e, n)
  \/ LoadBegin(e, n) \/ LoadKeep(e, n) \/ LoadEnd(e, n)

\* The steps a process takes by itself, and those that wait for the semaphore.
OwnStep(p) ==
  Write(p) \/ RefreshNext(p) \/ Get(p) \/ Check(p) \/ CheckFails(p) \/ Put(p) \/ Store(p)

WaitStep(p) == Wait(p) \/ Update(p)

Next ==
  \/ \E p \in Requests : Request(p)
  \/ \E t \in Timers : Refresh(t)
  \/ \E p \in Processes : OwnStep(p) \/ WaitStep(p)
  \/ \E e \in Envs : Expire(e) \/ \E n \in Names : Background(e, n)
  \/ Restart

Spec == Init /\ [][Next]_vars

\* What a thread has begun it goes on with; who waits for the semaphore gets it
\* in the end if it is free again and again (its waiters are queued).
Fairness == \A p \in Processes : WF_vars(OwnStep(p)) /\ SF_vars(WaitStep(p))

FairSpec == Spec /\ Fairness

--------------------------------------------------------------------------------
\* An upload and a deletion end.
UpdatesEnd == \A p \in Requests : at[p] = "update" ~> at[p] = "idle"
================================================================================
