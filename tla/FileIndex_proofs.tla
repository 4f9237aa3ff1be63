---------------------------- MODULE FileIndex_proofs ----------------------------
(***************************************************************************)
(* What holds of the file index for any environments, files, requests and  *)
(* timers, with each of the caches.                                        *)
(***************************************************************************)
EXTENDS FileIndexChecks, TLAPS

LEMMA IdleJobType == IdleJob \in Job
<1>1. (CHOOSE e \in Envs : TRUE) \in Envs
  BY IndexAssumption
<1> QED
  BY <1>1 DEF IdleJob, Job

LEMMA DoneType ==
  ASSUME FileIndexTypeOK, NEW p \in Processes, Done(p)
  PROVE  at' \in [Processes -> Places] /\ job' \in [Processes -> Job]
  BY IdleJobType DEF Done, Go, FileIndexTypeOK, Places

LEMMA ChangedType ==
  ASSUME NEW j \in Job, NEW found \in SUBSET Names, j.name \in Names
  PROVE  Changed(j, found) \in SUBSET Names
  BY DEF Changed

\* The locals of a process after it has changed some of them.
LEMMA JobParts ==
  ASSUME NEW j \in Job
  PROVE  /\ j.env \in Envs /\ j.name \in Names \cup {None} /\ j.delete \in BOOLEAN
         /\ j.todo \in SUBSET Envs /\ j.nested \in BOOLEAN /\ j.found \in SUBSET Names
  BY DEF Job

LEMMA JobChanges ==
  ASSUME NEW j \in Job
  PROVE  /\ \A x \in SUBSET Names : [j EXCEPT !.found = x] \in Job
         /\ \A x \in SUBSET Names : [j EXCEPT !.found = x, !.nested = FALSE] \in Job
         /\ [j EXCEPT !.nested = TRUE] \in Job
         /\ \A e \in Envs : [j EXCEPT !.env = e, !.todo = @ \ {e}] \in Job
         /\ \A e \in Envs : [j EXCEPT !.env = e] \in Job
         /\ \A e \in Envs, n \in Names :
              /\ [j EXCEPT !.env = e, !.name = n] \in Job
              /\ [j EXCEPT !.env = e, !.name = n, !.delete = TRUE] \in Job
         /\ \A x \in SUBSET Envs : [j EXCEPT !.todo = x] \in Job
  BY DEF Job

--------------------------------------------------------------------------------
(* Who has the semaphore, and what the locals of an update are. *)
HasLock(p) == at[p] \in {"check", "put", "store"} \/ job[p].nested

Updating(p) == at[p] \in {"write", "update", "store"} \/ job[p].nested

NestedOk(p) == job[p].nested => at[p] \in {"get", "wait"} /\ index[job[p].env] = None

LockInv ==
  \A p \in Processes :
    /\ HasLock(p) <=> holder = p
    /\ Updating(p) => p \in Requests /\ job[p].name \in Names
    /\ NestedOk(p)

LEMMA ChangeType ==
  ASSUME FileIndexTypeOK, LockInv, NEW p \in Processes, NEW found \in SUBSET Names,
         Updating(p), Change(p, found)
  PROVE  /\ at' \in [Processes -> Places] /\ job' \in [Processes -> Job]
         /\ cached' \in [Envs -> Indices]
<1>1. job[p] \in Job /\ job[p].env \in Envs /\ job[p].name \in Names
  BY JobParts DEF FileIndexTypeOK, LockInv
<1> DEFINE new == Changed(job[p], found)
<1>2. new \in SUBSET Names
  BY <1>1, ChangedType
<1>3. job' = [job EXCEPT ![p] = [job[p] EXCEPT !.found = new, !.nested = FALSE]]
  BY DEF Change, FileIndexTypeOK
<1>4. job' \in [Processes -> Job]
  BY <1>1, <1>2, <1>3, JobChanges DEF FileIndexTypeOK
<1>5. cached' \in [Envs -> Indices]
  BY <1>1, <1>2 DEF Change, FileIndexTypeOK, Indices
<1>6. at' \in [Processes -> Places]
  BY DEF Change, Go, FileIndexTypeOK, Places
<1> QED
  BY <1>4, <1>5, <1>6

LEMMA ReturnType ==
  ASSUME FileIndexTypeOK, LockInv, NEW p \in Processes, NEW found \in SUBSET Names,
         Return(p, found)
  PROVE  /\ at' \in [Processes -> Places] /\ job' \in [Processes -> Job]
         /\ cached' \in [Envs -> Indices]
<1>1. CASE job[p].nested /\ Change(p, found)
  BY <1>1, ChangeType DEF Updating
<1>2. CASE Done(p) /\ UNCHANGED cached
  BY <1>2, DoneType DEF FileIndexTypeOK
<1>3. CASE job' = [job EXCEPT ![p].found = {}] /\ Go(p, "refresh") /\ UNCHANGED cached
  <2>1. job' = [job EXCEPT ![p] = [job[p] EXCEPT !.found = {}]]
    BY <1>3 DEF FileIndexTypeOK
  <2>2. job' \in [Processes -> Job]
    BY <2>1, JobChanges DEF FileIndexTypeOK
  <2> QED
    BY <1>3, <2>2 DEF Go, FileIndexTypeOK, Places
<1> QED
  BY <1>1, <1>2, <1>3 DEF Return

LEMMA HitType ==
  ASSUME FileIndexTypeOK, NEW p \in Processes, Hit(p)
  PROVE  cached[job[p].env] \in SUBSET Names
  BY JobParts DEF FileIndexTypeOK, Hit, Indices

LEMMA SetIndexType ==
  ASSUME FileIndexTypeOK, NEW p \in Processes, SetIndex(p)
  PROVE  /\ cached' \in [Envs -> Indices] /\ index' \in [Envs -> Indices]
         /\ holder' \in Processes \cup {None}
<1>1. job[p].env \in Envs /\ job[p].found \in Indices
  BY JobParts DEF FileIndexTypeOK, Indices
<1> QED
  BY <1>1 DEF SetIndex, FileIndexTypeOK

LEMMA TypeStep == FileIndexTypeOK /\ LockInv /\ [Next]_vars => FileIndexTypeOK'
<1> SUFFICES ASSUME FileIndexTypeOK, LockInv, [Next]_vars PROVE FileIndexTypeOK'
  OBVIOUS
<1> USE DEF FileIndexTypeOK
<1>1. ASSUME NEW p \in Requests, NEW e \in Envs, List(p, e) PROVE FileIndexTypeOK'
  <2>1. p \in Processes /\ [IdleJob EXCEPT !.env = e] \in Job
    BY IdleJobType, JobChanges DEF Processes
  <2>2. at' \in [Processes -> Places] /\ job' \in [Processes -> Job]
    BY <1>1, <2>1 DEF List, Go, Places
  <2> QED
    BY <1>1, <2>2 DEF List, storage, background, indices, config
<1>2. ASSUME NEW p \in Requests, NEW e \in Envs, NEW n \in Names, Upload(p, e, n)
      PROVE  FileIndexTypeOK'
  <2>1. p \in Processes /\ [IdleJob EXCEPT !.env = e, !.name = n] \in Job
    BY IdleJobType, JobChanges DEF Processes
  <2>2. at' \in [Processes -> Places] /\ job' \in [Processes -> Job]
    BY <1>2, <2>1 DEF Upload, Go, Places
  <2>3. memory' \in [Envs -> SUBSET Names] /\ disk' \in [Envs -> SUBSET Names]
    BY <1>2 DEF Upload
  <2> QED
    BY <1>2, <2>2, <2>3 DEF Upload, background, indices, config
<1>3. ASSUME NEW p \in Requests, NEW e \in Envs, NEW n \in Names, Delete(p, e, n)
      PROVE  FileIndexTypeOK'
  <2>1. p \in Processes /\ [IdleJob EXCEPT !.env = e, !.name = n, !.delete = TRUE] \in Job
    BY IdleJobType, JobChanges DEF Processes
  <2>2. at' \in [Processes -> Places] /\ job' \in [Processes -> Job]
    BY <1>3, <2>1 DEF Delete, Go, Places
  <2>3. memory' \in [Envs -> SUBSET Names] /\ disk' \in [Envs -> SUBSET Names]
    BY <1>3 DEF Delete
  <2> QED
    BY <1>3, <2>2, <2>3 DEF Delete, background, indices, config
<1>4. ASSUME NEW t \in Timers, Refresh(t) PROVE FileIndexTypeOK'
  <2> DEFINE known == {e \in Envs : index[e] # None}
  <2>1. t \in Processes /\ [IdleJob EXCEPT !.todo = known] \in Job
    BY IdleJobType, JobChanges DEF Processes
  <2>2. at' \in [Processes -> Places] /\ job' \in [Processes -> Job]
    BY <1>4, <2>1 DEF Refresh, Go, Places
  <2> QED
    BY <1>4, <2>2 DEF Refresh, storage, background, indices, config
<1>5. ASSUME NEW p \in Processes, RefreshNext(p) PROVE FileIndexTypeOK'
  <2>1. CASE Done(p)
    BY <1>5, <2>1, DoneType DEF RefreshNext, storage, background, indices, config
  <2>2. ASSUME NEW e \in job[p].todo, job' = [job EXCEPT ![p].env = e, ![p].todo = @ \ {e}],
               Go(p, "get")
        PROVE  FileIndexTypeOK'
    <3>1. job' = [job EXCEPT ![p] = [job[p] EXCEPT !.env = e, !.todo = @ \ {e}]]
      BY <2>2
    <3>2. job[p] \in Job /\ e \in Envs
      BY JobParts
    <3>3. job' \in [Processes -> Job]
      BY <3>1, <3>2, JobChanges
    <3> QED
      BY <1>5, <2>2, <3>3 DEF RefreshNext, Go, Places, storage, background, indices, config
  <2> QED
    BY <1>5, <2>1, <2>2 DEF RefreshNext
<1>6. ASSUME NEW p \in Processes, Get(p) PROVE FileIndexTypeOK'
  <2>1. CASE Hit(p)
    BY <1>6, <2>1, HitType, ReturnType DEF Get, storage, background, config
  <2>2. CASE ~Hit(p)
    BY <1>6, <2>2 DEF Get, Go, Places, storage, background, config
  <2> QED
    BY <2>1, <2>2
<1>7. ASSUME NEW p \in Processes, Wait(p) PROVE FileIndexTypeOK'
  BY <1>7 DEF Wait, Go, Places, storage, background, indices, config
<1>8. ASSUME NEW p \in Processes, Check(p) PROVE FileIndexTypeOK'
  <2>1. CASE Hit(p)
    BY <1>8, <2>1, HitType, ReturnType DEF Check, storage, background, config
  <2>2. CASE ~Hit(p)
    <3>1. job' = [job EXCEPT ![p] = [job[p] EXCEPT !.found = disk[job[p].env]]]
      BY <1>8, <2>2 DEF Check
    <3>2. job' \in [Processes -> Job]
      BY <3>1, JobParts, JobChanges
    <3> QED
      BY <1>8, <2>2, <3>2 DEF Check, Go, Places, storage, background, config
  <2> QED
    BY <2>1, <2>2
<1>9. ASSUME NEW p \in Processes, Put(p) PROVE FileIndexTypeOK'
  <2>1. CASE Done(p)
    BY <1>9, <2>1, DoneType, SetIndexType DEF Put, storage, background, config
  <2>2. CASE job' = [job EXCEPT ![p].found = {}] /\ Go(p, "refresh")
    <3>1. job' = [job EXCEPT ![p] = [job[p] EXCEPT !.found = {}]]
      BY <2>2
    <3>2. job' \in [Processes -> Job]
      BY <3>1, JobChanges
    <3> QED
      BY <1>9, <2>2, <3>2, SetIndexType DEF Put, Go, Places, storage, background, config
  <2> QED
    BY <1>9, <2>1, <2>2 DEF Put
<1>10. ASSUME NEW p \in Processes, Store(p) PROVE FileIndexTypeOK'
  BY <1>10, DoneType, SetIndexType DEF Store, storage, background, config
<1>11. ASSUME NEW p \in Processes, Update(p) PROVE FileIndexTypeOK'
  <2>1. job[p].env \in Envs
    BY JobParts
  <2>2. CASE index[job[p].env] # None
    <3>1. index[job[p].env] \in SUBSET Names /\ Updating(p)
      BY <1>11, <2>1, <2>2 DEF Indices, Update, Updating
    <3> QED
      BY <1>11, <2>2, <3>1, ChangeType DEF Update, storage, background, config
  <2>3. CASE index[job[p].env] = None
    <3>1. job' = [job EXCEPT ![p] = [job[p] EXCEPT !.nested = TRUE]]
      BY <1>11, <2>3 DEF Update
    <3>2. job' \in [Processes -> Job]
      BY <3>1, JobChanges
    <3> QED
      BY <1>11, <2>3, <3>2 DEF Update, Go, Places, storage, background, config
  <2> QED
    BY <2>2, <2>3
<1>12. ASSUME NEW e \in Envs, Expire(e) PROVE FileIndexTypeOK'
  BY <1>12 DEF Expire, storage, background, config, Indices
<1>13. ASSUME NEW e \in Envs, NEW n \in Names, Background(e, n) PROVE FileIndexTypeOK'
  <2>1. memory' \in [Envs -> SUBSET Names] /\ disk' \in [Envs -> SUBSET Names]
    BY <1>13 DEF Background, FlushBegin, FlushOpen, FlushEnd, Evict, LoadBegin, LoadKeep, LoadEnd, storage
  <2>2. flushing' \in [Envs -> SUBSET Names] /\ loading' \in [Envs -> SUBSET Names]
    BY <1>13 DEF Background, FlushBegin, FlushOpen, FlushEnd, Evict, LoadBegin, LoadKeep, LoadEnd, background
  <2>3. UNCHANGED <<indices, holder, config, at, job>>
    BY <1>13 DEF Background, FlushBegin, FlushOpen, FlushEnd, Evict, LoadBegin, LoadKeep, LoadEnd
  <2> QED
    BY <2>1, <2>2, <2>3 DEF indices, config
<1>14. CASE Restart
  <2>1. cached' \in [Envs -> Indices] /\ index' \in [Envs -> Indices]
    BY <1>14 DEF Restart, Indices
  <2>2. at' \in [Processes -> Places] /\ job' \in [Processes -> Job]
    BY <1>14, IdleJobType DEF Restart, Places
  <2>3. /\ memory' \in [Envs -> SUBSET Names]
        /\ flushing' \in [Envs -> SUBSET Names] /\ loading' \in [Envs -> SUBSET Names]
    BY <1>14 DEF Restart
  <2> QED
    BY <1>14, <2>1, <2>2, <2>3 DEF Restart, config
<1>15. CASE UNCHANGED vars
  BY <1>15 DEF vars
<1>16. ASSUME NEW p \in Processes, Write(p) PROVE FileIndexTypeOK'
  <2>1. at' \in [Processes -> Places] /\ job' \in [Processes -> Job]
    BY <1>16, DoneType DEF Write, Go, Places
  <2> QED
    BY <1>16, <2>1 DEF Write, storage, background, indices, config
<1>17. ASSUME NEW p \in Requests, NEW e \in Envs, NEW n \in Names, DeleteFails(p, e, n)
       PROVE  FileIndexTypeOK'
  <2>1. memory' \in [Envs -> SUBSET Names]
    BY <1>17 DEF DeleteFails
  <2> QED
    BY <1>17, <2>1 DEF DeleteFails, background, indices, config
<1>18. ASSUME NEW p \in Processes, CheckFails(p) PROVE FileIndexTypeOK'
  BY <1>18, DoneType DEF CheckFails, storage, background, indices, config
<1> QED
  BY <1>1, <1>2, <1>3, <1>4, <1>5, <1>6, <1>7, <1>8, <1>9, <1>10, <1>11, <1>12, <1>13, <1>14, <1>15,
     <1>16, <1>17, <1>18
  DEF Next, Request, OwnStep, WaitStep

--------------------------------------------------------------------------------
(* A process changes its own place and locals only. *)
OthersKept(p) == \A q \in Processes \ {p} : at'[q] = at[q] /\ job'[q] = job[q]

LEMMA LockLocal ==
  ASSUME LockInv, NEW p \in Processes, OthersKept(p),
         holder' = holder \/ (holder \in {None, p} /\ holder' \in {None, p}),
         index' = index \/ holder = p,
         HasLock(p)' <=> holder' = p,
         Updating(p)' => p \in Requests /\ job'[p].name \in Names,
         NestedOk(p)'
  PROVE  LockInv'
<1> SUFFICES ASSUME NEW q \in Processes
             PROVE  /\ HasLock(q)' <=> holder' = q
                    /\ Updating(q)' => q \in Requests /\ job'[q].name \in Names
                    /\ NestedOk(q)'
  BY DEF LockInv
<1>1. CASE q = p
  BY <1>1
<1>2. CASE q # p
  <2>1. at'[q] = at[q] /\ job'[q] = job[q] /\ q # None
    BY <1>2, IndexAssumption DEF OthersKept, Processes
  <2>2. HasLock(q)' <=> HasLock(q)
    BY <2>1 DEF HasLock
  <2>3. holder' = q <=> holder = q
    BY <1>2, <2>1
  <2>4. job[q].nested => index' = index
    BY <1>2 DEF LockInv, HasLock
  <2>5. NestedOk(q)'
    BY <2>1, <2>4 DEF LockInv, NestedOk
  <2> QED
    BY <2>1, <2>2, <2>3, <2>5 DEF LockInv, Updating
<1> QED
  BY <1>1, <1>2

LEMMA IdleJobLock == ~IdleJob.nested /\ IdleJob.name = None
  BY DEF IdleJob

\* The new locals of p, and those of the others.
LEMMA NewJob ==
  ASSUME FileIndexTypeOK, NEW p \in Processes, NEW j, NEW place,
         job' = [job EXCEPT ![p] = j], Go(p, place)
  PROVE  job'[p] = j /\ at'[p] = place /\ OthersKept(p)
  BY DEF Go, OthersKept, FileIndexTypeOK

LEMMA DoneLocal ==
  ASSUME FileIndexTypeOK, NEW p \in Processes, Done(p)
  PROVE  /\ OthersKept(p) /\ ~HasLock(p)' /\ ~Updating(p)' /\ NestedOk(p)'
         /\ at'[p] = "idle" /\ job'[p] = IdleJob
<1>1. job'[p] = IdleJob /\ at'[p] = "idle" /\ OthersKept(p)
  BY NewJob DEF Done
<1> QED
  BY <1>1, IdleJobLock DEF HasLock, Updating, NestedOk

LEMMA RefreshLocal ==
  ASSUME FileIndexTypeOK, NEW p \in Processes, ~job[p].nested,
         job' = [job EXCEPT ![p].found = {}], Go(p, "refresh")
  PROVE  /\ OthersKept(p) /\ ~HasLock(p)' /\ ~Updating(p)' /\ NestedOk(p)'
         /\ at'[p] = "refresh"
<1>1. job' = [job EXCEPT ![p] = [job[p] EXCEPT !.found = {}]]
  OBVIOUS
<1>2. job'[p] = [job[p] EXCEPT !.found = {}] /\ at'[p] = "refresh" /\ OthersKept(p)
  BY <1>1, NewJob
<1>3. ~job'[p].nested
  BY <1>2, JobParts DEF FileIndexTypeOK, Job
<1> QED
  BY <1>2, <1>3 DEF HasLock, Updating, NestedOk

LEMMA ChangeLocal ==
  ASSUME FileIndexTypeOK, NEW p \in Processes, NEW found, Change(p, found)
  PROVE  /\ OthersKept(p) /\ at'[p] = "store"
         /\ job'[p].env = job[p].env /\ job'[p].name = job[p].name
         /\ job'[p].delete = job[p].delete
         /\ job'[p].found = Changed(job[p], found) /\ ~job'[p].nested
<1> DEFINE new == Changed(job[p], found)
           j == [job[p] EXCEPT !.found = new, !.nested = FALSE]
<1>1. job' = [job EXCEPT ![p] = j] /\ Go(p, "store")
  BY DEF Change
<1>2. job'[p] = j /\ at'[p] = "store" /\ OthersKept(p)
  BY <1>1, NewJob
<1>3. job[p] \in Job
  BY DEF FileIndexTypeOK
<1>4. j.env = job[p].env /\ j.name = job[p].name /\ j.delete = job[p].delete /\ j.found = new /\ ~j.nested
  BY <1>3 DEF Job
<1> QED
  BY <1>2, <1>4

\* A return leaves the semaphore with an update that has it, and with no other.
LEMMA ReturnLock ==
  ASSUME FileIndexTypeOK, LockInv, NEW p \in Processes, NEW found, Return(p, found),
         index' = index,
         IF job[p].nested THEN holder' = holder ELSE holder \in {None, p} => holder' = None,
         holder # p => holder' = holder,
         holder = p => holder' \in {None, p}
  PROVE  LockInv'
<1>0. p # None
  BY IndexAssumption DEF Processes
<1>1. CASE job[p].nested /\ Change(p, found)
  <2>1. holder = p /\ p \in Requests /\ job[p].name \in Names
    BY <1>1 DEF LockInv, HasLock, Updating
  <2>2. /\ OthersKept(p) /\ HasLock(p)' /\ job'[p].name \in Names /\ NestedOk(p)'
    BY <1>1, <2>1, ChangeLocal DEF HasLock, NestedOk
  <2> QED
    BY <1>1, <2>1, <2>2, LockLocal
<1>2. CASE ~job[p].nested /\ Done(p)
  BY <1>0, <1>2, DoneLocal, LockLocal
<1>3. CASE ~job[p].nested /\ job' = [job EXCEPT ![p].found = {}] /\ Go(p, "refresh")
  BY <1>0, <1>3, RefreshLocal, LockLocal
<1>4. p \in Timers => ~job[p].nested
  BY IndexAssumption DEF LockInv, Updating
<1> QED
  BY <1>1, <1>2, <1>3, <1>4 DEF Return

\* The locals a request begins with.
LEMMA BeginJob ==
  /\ \A e \in Envs : LET j == [IdleJob EXCEPT !.env = e] IN
       j \in Job /\ ~j.nested /\ j.env = e /\ j.name = None
  /\ \A e \in Envs, n \in Names : LET j == [IdleJob EXCEPT !.env = e, !.name = n] IN
       j \in Job /\ ~j.nested /\ j.env = e /\ j.name = n /\ ~j.delete
  /\ \A e \in Envs, n \in Names :
       LET j == [IdleJob EXCEPT !.env = e, !.name = n, !.delete = TRUE] IN
         j \in Job /\ ~j.nested /\ j.env = e /\ j.name = n /\ j.delete
  /\ \A x \in SUBSET Envs : LET j == [IdleJob EXCEPT !.todo = x] IN
       j \in Job /\ ~j.nested /\ j.name = None
<1>1. (CHOOSE e \in Envs : TRUE) \in Envs
  BY IndexAssumption
<1> QED
  BY <1>1 DEF IdleJob, Job

\* A request begins without the semaphore, and with a file to update if it has one.
LEMMA BeginLock ==
  ASSUME FileIndexTypeOK, LockInv, NEW p \in Processes, NEW j \in Job, NEW place,
         at[p] = "idle", job' = [job EXCEPT ![p] = j], Go(p, place), ~j.nested,
         place \in {"get", "refresh"} \/ (place \in {"write", "update"} /\ p \in Requests /\ j.name \in Names),
         UNCHANGED <<index, holder>>
  PROVE  LockInv'
<1>1. job'[p] = j /\ at'[p] = place /\ OthersKept(p)
  BY NewJob
<1>2. holder # p
  BY DEF LockInv, HasLock, NestedOk
<1> QED
  BY <1>1, <1>2, LockLocal DEF HasLock, Updating, NestedOk

\* What changes the files without a step of the index.
Behind(e, n) == Background(e, n) \/ \E p \in Requests : DeleteFails(p, e, n)

LEMMA BehindIndex ==
  ASSUME FileIndexTypeOK, NEW e \in Envs, NEW n \in Names, Behind(e, n)
  PROVE  UNCHANGED <<index, cached, holder, at, job>> /\ \A f \in Envs : disk[f] \subseteq disk'[f]
<1>1. UNCHANGED <<index, cached, holder, at, job>>
  BY DEF Behind, Background, DeleteFails, FlushBegin, FlushOpen, FlushEnd, Evict, LoadBegin,
         LoadKeep, LoadEnd, indices
<1>2. disk' = disk \/ disk' = [disk EXCEPT ![e] = @ \cup {n}]
  BY DEF Behind, Background, DeleteFails, FlushBegin, FlushOpen, FlushEnd, Evict, LoadBegin,
         LoadKeep, LoadEnd, storage
<1> QED
  BY <1>1, <1>2 DEF FileIndexTypeOK

LEMMA BehindCases ==
  /\ \A e \in Envs, n \in Names : Background(e, n) => Behind(e, n)
  /\ \A p \in Requests, e \in Envs, n \in Names : DeleteFails(p, e, n) => Behind(e, n)
  BY DEF Behind

LEMMA LockStep == FileIndexTypeOK /\ LockInv /\ [Next]_vars => LockInv'
<1> SUFFICES ASSUME FileIndexTypeOK, LockInv, [Next]_vars PROVE LockInv'
  OBVIOUS
<1>0. \A p \in Processes : p # None
  BY IndexAssumption DEF Processes
<1>1. ASSUME NEW p \in Requests, NEW e \in Envs, List(p, e) PROVE LockInv'
  <2> DEFINE j == [IdleJob EXCEPT !.env = e]
  <2>1. p \in Processes /\ j \in Job /\ ~j.nested
    BY BeginJob DEF Processes
  <2>2. at[p] = "idle" /\ job' = [job EXCEPT ![p] = j] /\ Go(p, "get") /\ UNCHANGED <<index, holder>>
    BY <1>1 DEF List, indices
  <2> QED
    BY <2>1, <2>2, BeginLock
<1>2. ASSUME NEW p \in Requests, NEW e \in Envs, NEW n \in Names, Upload(p, e, n) PROVE LockInv'
  <2> DEFINE j == [IdleJob EXCEPT !.env = e, !.name = n]
  <2>1. p \in Processes /\ j \in Job /\ ~j.nested /\ j.name = n
    BY BeginJob DEF Processes
  <2>2. at[p] = "idle" /\ job' = [job EXCEPT ![p] = j] /\ UNCHANGED <<index, holder>>
    BY <1>2 DEF Upload, indices
  <2>3. Go(p, "update") \/ Go(p, "write")
    BY <1>2 DEF Upload
  <2> HIDE DEF j
  <2> QED
    BY <2>1, <2>2, <2>3, BeginLock
<1>3. ASSUME NEW p \in Requests, NEW e \in Envs, NEW n \in Names, Delete(p, e, n) PROVE LockInv'
  <2> DEFINE j == [IdleJob EXCEPT !.env = e, !.name = n, !.delete = TRUE]
  <2>1. p \in Processes /\ j \in Job /\ ~j.nested /\ j.name = n
    BY BeginJob DEF Processes
  <2>2. at[p] = "idle" /\ job' = [job EXCEPT ![p] = j] /\ Go(p, "update") /\ UNCHANGED <<index, holder>>
    BY <1>3 DEF Delete, indices
  <2> HIDE DEF j
  <2> QED
    BY <2>1, <2>2, BeginLock
<1>4. ASSUME NEW t \in Timers, Refresh(t) PROVE LockInv'
  <2> DEFINE known == {e \in Envs : index[e] # None}
             j == [IdleJob EXCEPT !.todo = known]
  <2>1. t \in Processes /\ j \in Job /\ ~j.nested
    BY BeginJob DEF Processes
  <2>2. at[t] = "idle" /\ job' = [job EXCEPT ![t] = j] /\ Go(t, "refresh") /\ UNCHANGED <<index, holder>>
    BY <1>4 DEF Refresh, indices
  <2> HIDE DEF j
  <2> QED
    BY <2>1, <2>2, BeginLock
<1>5. ASSUME NEW p \in Processes, RefreshNext(p) PROVE LockInv'
  <2>1. holder # p /\ ~job[p].nested /\ UNCHANGED <<index, holder>>
    BY <1>5 DEF RefreshNext, LockInv, HasLock, NestedOk, indices
  <2>2. CASE Done(p)
    BY <2>1, <2>2, DoneLocal, LockLocal
  <2>3. ASSUME NEW e \in job[p].todo, job' = [job EXCEPT ![p].env = e, ![p].todo = @ \ {e}],
               Go(p, "get")
        PROVE  LockInv'
    <3> DEFINE j == [job[p] EXCEPT !.env = e, !.todo = @ \ {e}]
    <3>1. job' = [job EXCEPT ![p] = j]
      BY <2>3
    <3>2. ~j.nested
      BY <2>1 DEF FileIndexTypeOK, Job
    <3> HIDE DEF j
    <3>3. job'[p] = j /\ at'[p] = "get" /\ OthersKept(p)
      BY <2>3, <3>1, NewJob
    <3> QED
      BY <2>1, <3>2, <3>3, LockLocal DEF HasLock, Updating, NestedOk
  <2> QED
    BY <1>5, <2>2, <2>3 DEF RefreshNext
<1>6. ASSUME NEW p \in Processes, Get(p) PROVE LockInv'
  <2>1. UNCHANGED <<index, holder>>
    BY <1>6 DEF Get
  <2>2. CASE Hit(p)
    <3>1. Return(p, cached[job[p].env])
      BY <1>6, <2>2 DEF Get
    <3>2. ~job[p].nested => holder # p
      BY <1>6 DEF Get, LockInv, HasLock
    <3> QED
      BY <1>0, <2>1, <3>1, <3>2, ReturnLock
  <2>3. CASE ~Hit(p)
    <3>1. Go(p, "wait") /\ UNCHANGED job /\ at[p] = "get"
      BY <1>6, <2>3 DEF Get
    <3>2. at'[p] = "wait" /\ OthersKept(p)
      BY <3>1 DEF Go, OthersKept, FileIndexTypeOK
    <3>3. (HasLock(p)' <=> HasLock(p)) /\ (Updating(p)' <=> Updating(p)) /\ NestedOk(p)'
      BY <2>1, <3>1, <3>2 DEF HasLock, Updating, NestedOk, LockInv
    <3> QED
      BY <2>1, <3>1, <3>2, <3>3, LockLocal DEF LockInv
  <2> QED
    BY <2>2, <2>3
<1>7. ASSUME NEW p \in Processes, Wait(p) PROVE LockInv'
  <2>1. at'[p] = "check" /\ OthersKept(p) /\ UNCHANGED <<index, job>>
    BY <1>7 DEF Wait, Go, OthersKept, FileIndexTypeOK, indices
  <2>2. ~job[p].nested /\ holder = None /\ holder' = p
    BY <1>0, <1>7 DEF Wait, LockInv, HasLock
  <2> QED
    BY <2>1, <2>2, LockLocal DEF HasLock, Updating, NestedOk
<1>8. ASSUME NEW p \in Processes, Check(p) PROVE LockInv'
  <2>1. holder = p /\ ~job[p].nested /\ index' = index
    BY <1>8 DEF Check, LockInv, HasLock, NestedOk
  <2>2. CASE Hit(p)
    BY <1>8, <2>1, <2>2, ReturnLock DEF Check
  <2>3. CASE ~Hit(p)
    <3> DEFINE j == [job[p] EXCEPT !.found = disk[job[p].env]]
    <3>1. job' = [job EXCEPT ![p] = j] /\ Go(p, "put") /\ holder' = holder
      BY <1>8, <2>3 DEF Check
    <3>2. ~j.nested
      BY <2>1 DEF FileIndexTypeOK, Job
    <3> HIDE DEF j
    <3>3. job'[p] = j /\ at'[p] = "put" /\ OthersKept(p)
      BY <3>1, NewJob
    <3> QED
      BY <2>1, <3>1, <3>2, <3>3, LockLocal DEF HasLock, Updating, NestedOk
  <2> QED
    BY <2>2, <2>3
<1>9. ASSUME NEW p \in Processes, Put(p) PROVE LockInv'
  <2>1. holder = p /\ ~job[p].nested /\ holder' = None
    BY <1>9 DEF Put, SetIndex, LockInv, HasLock, NestedOk
  <2>2. CASE Done(p)
    BY <1>0, <2>1, <2>2, DoneLocal, LockLocal
  <2>3. CASE job' = [job EXCEPT ![p].found = {}] /\ Go(p, "refresh")
    BY <1>0, <2>1, <2>3, RefreshLocal, LockLocal
  <2> QED
    BY <1>9, <2>2, <2>3 DEF Put
<1>10. ASSUME NEW p \in Processes, Store(p) PROVE LockInv'
  <2>1. holder = p /\ holder' = None /\ Done(p)
    BY <1>10 DEF Store, SetIndex, LockInv, HasLock
  <2> QED
    BY <1>0, <2>1, DoneLocal, LockLocal
<1>11. ASSUME NEW p \in Processes, Update(p) PROVE LockInv'
  <2>1. /\ holder = None /\ holder' = p /\ index' = index
        /\ p \in Requests /\ job[p].name \in Names
    BY <1>11 DEF Update, LockInv, Updating
  <2>2. CASE index[job[p].env] # None
    <3>1. Change(p, index[job[p].env])
      BY <1>11, <2>2 DEF Update
    <3>2. OthersKept(p) /\ at'[p] = "store" /\ ~job'[p].nested /\ job'[p].name = job[p].name
      BY <3>1, ChangeLocal
    <3> QED
      BY <2>1, <3>2, LockLocal DEF HasLock, Updating, NestedOk
  <2>3. CASE index[job[p].env] = None
    <3> DEFINE j == [job[p] EXCEPT !.nested = TRUE]
    <3>1. job' = [job EXCEPT ![p] = j] /\ Go(p, "get")
      BY <1>11, <2>3 DEF Update
    <3>2. j.nested /\ j.name = job[p].name /\ j.env = job[p].env
      BY DEF FileIndexTypeOK, Job
    <3> HIDE DEF j
    <3>3. job'[p] = j /\ at'[p] = "get" /\ OthersKept(p)
      BY <3>1, NewJob
    <3> QED
      BY <2>1, <2>3, <3>2, <3>3, LockLocal DEF HasLock, Updating, NestedOk
  <2> QED
    BY <2>2, <2>3
<1>12. CASE Restart
  <2>1. \A p \in Processes : at'[p] = "idle" /\ job'[p] = IdleJob /\ holder' = None
    BY <1>12 DEF Restart
  <2> QED
    BY <1>0, <2>1, IdleJobLock DEF LockInv, HasLock, Updating, NestedOk
<1>13. CASE UNCHANGED <<index, holder, at, job>>
  BY <1>13 DEF LockInv, HasLock, Updating, NestedOk
<1>14. (\E e \in Envs : Expire(e) \/ \E n \in Names : Behind(e, n)) \/ UNCHANGED vars
         => UNCHANGED <<index, holder, at, job>>
  BY BehindIndex DEF Expire, vars, indices
<1>15. ASSUME NEW p \in Processes, Write(p) PROVE LockInv'
  <2>1. UNCHANGED <<index, holder>> /\ at[p] = "write" /\ holder # p /\ p \in Requests
    BY <1>15 DEF Write, indices, LockInv, HasLock, NestedOk, Updating
  <2>2. CASE Done(p)
    BY <2>1, <2>2, DoneLocal, LockLocal
  <2>3. CASE Go(p, "update") /\ UNCHANGED job
    <3>1. at'[p] = "update" /\ OthersKept(p) /\ ~job[p].nested /\ job[p].name \in Names
      BY <2>1, <2>3 DEF Go, OthersKept, FileIndexTypeOK, LockInv, NestedOk, Updating
    <3> QED
      BY <2>1, <2>3, <3>1, LockLocal DEF HasLock, Updating, NestedOk
  <2> QED
    BY <1>15, <2>2, <2>3 DEF Write
<1>16. ASSUME NEW p \in Processes, CheckFails(p) PROVE LockInv'
  <2>1. holder = p /\ holder' = None /\ Done(p) /\ index' = index
    BY <1>16 DEF CheckFails, LockInv, HasLock, indices
  <2> QED
    BY <1>0, <2>1, DoneLocal, LockLocal
<1> QED
  BY <1>1, <1>2, <1>3, <1>4, <1>5, <1>6, <1>7, <1>8, <1>9, <1>10, <1>11, <1>12, <1>13, <1>14,
     <1>15, <1>16, BehindCases
  DEF Next, Request, OwnStep, WaitStep

LEMMA Start == Init => FileIndexTypeOK /\ LockInv
<1> SUFFICES ASSUME Init PROVE FileIndexTypeOK /\ LockInv
  OBVIOUS
<1>1. FileIndexTypeOK
  BY IdleJobType DEF Init, FileIndexTypeOK, Indices, Places
<1>2. LockInv
  BY IdleJobLock, IndexAssumption DEF Init, LockInv, HasLock, Updating, NestedOk, Processes
<1> QED
  BY <1>1, <1>2

\* The index and the cache hold sets of names, whoever is interrupted where.
THEOREM TypeCorrect == Spec => []FileIndexTypeOK
<1>1. FileIndexTypeOK /\ LockInv /\ [Next]_vars => (FileIndexTypeOK /\ LockInv)'
  BY TypeStep, LockStep
<1> QED
  BY <1>1, Start, PTL DEF Spec

\* Only the first update of an environment in a process waits for the semaphore
\* it has.
THEOREM OnlyFirstUpdateWaits == Spec => []HolderMoves
<1>1. LockInv => HolderMoves
  BY DEF LockInv, HasLock, NestedOk, HolderMoves
<1>2. FileIndexTypeOK /\ LockInv /\ [Next]_vars => (FileIndexTypeOK /\ LockInv)'
  BY TypeStep, LockStep
<1> QED
  BY <1>1, <1>2, Start, PTL DEF Spec

--------------------------------------------------------------------------------
(* The kinds of steps, by what they do to the files, the index and the cache. *)
Steady(p) ==
  /\ Updating(p)' <=> Updating(p)
  /\ Updating(p) => /\ job'[p].env = job[p].env /\ job'[p].name = job[p].name
                    /\ job'[p].delete = job[p].delete

Calm(p) ==
  /\ OthersKept(p) /\ UNCHANGED <<cached, index>>
  /\ at[p] \notin {"put", "store"} /\ at'[p] \notin {"put", "store"}

Beginning(p, e, n) ==
  /\ \/ Upload(p, e, n) /\ ~job'[p].delete
     \/ Delete(p, e, n) /\ job'[p].delete /\ at'[p] # "write"
  /\ Calm(p) /\ ~Updating(p) /\ at[p] # at'[p] /\ at'[p] \in {"write", "update"}
  /\ job'[p].env = e /\ job'[p].name = n

Aborting(p) ==
  /\ Calm(p) /\ UNCHANGED storage /\ Updating(p) /\ ~Updating(p)'
  /\ at[p] = "write" /\ at'[p] = "idle"

Changing(p, x) ==
  /\ OthersKept(p) /\ Steady(p) /\ UNCHANGED <<index, storage>> /\ Updating(p)
  /\ at[p] \notin {"write", "check", "put", "store"} /\ at'[p] = "store"
  /\ x # None /\ x \in {index[job[p].env], cached[job[p].env]}
  /\ job'[p].found = Changed(job[p], x)
  /\ cached' \in {cached, [cached EXCEPT ![job[p].env] = Changed(job[p], x)]}

Listing(p) ==
  /\ OthersKept(p) /\ UNCHANGED <<cached, index, storage>>
  /\ ~Updating(p) /\ ~Updating(p)'
  /\ at[p] = "check" /\ at'[p] = "put"
  /\ job'[p].env = job[p].env /\ job'[p].found = disk[job[p].env]

Kind ==
  \/ \E p \in Processes : Calm(p) /\ Steady(p) /\ UNCHANGED storage /\ at'[p] # "write"
  \/ \E p \in Processes : Aborting(p)
  \/ \E p \in Processes, e \in Envs, n \in Names : Beginning(p, e, n)
  \/ \E p \in Processes : \E x \in SUBSET Names : Changing(p, x)
  \/ \E p \in Processes : Listing(p)
  \/ \E p \in Processes : Put(p) \/ Store(p)
  \/ \E e \in Envs : Expire(e) \/ \E n \in Names : Behind(e, n)
  \/ Restart

LEMMA ReturnKind ==
  ASSUME FileIndexTypeOK, LockInv, NEW p \in Processes, at[p] \in {"get", "check"}, Hit(p),
         Return(p, cached[job[p].env]), UNCHANGED <<index, storage>>
  PROVE  Kind
<1> DEFINE x == cached[job[p].env]
<1>1. x \in SUBSET Names /\ x # None
  BY HitType DEF Hit
<1>2. CASE job[p].nested /\ Change(p, x)
  <2>1. Changing(p, x)
    BY <1>1, <1>2, ChangeLocal DEF Changing, Steady, Updating, Change, LockInv, NestedOk
  <2> QED
    BY <1>1, <2>1 DEF Kind
<1>3. CASE ~job[p].nested /\ Done(p) /\ UNCHANGED cached
  <2>1. Calm(p) /\ Steady(p) /\ at'[p] # "write"
    BY <1>3, DoneLocal DEF Calm, Steady, Updating
  <2> QED
    BY <2>1 DEF Kind
<1>4. CASE /\ ~job[p].nested /\ job' = [job EXCEPT ![p].found = {}]
           /\ Go(p, "refresh") /\ UNCHANGED cached
  <2>1. Calm(p) /\ Steady(p) /\ at'[p] # "write"
    BY <1>4, RefreshLocal DEF Calm, Steady, Updating
  <2> QED
    BY <2>1 DEF Kind
<1>5. p \in Timers => ~job[p].nested
  BY IndexAssumption DEF LockInv, Updating
<1> QED
  BY <1>2, <1>3, <1>4, <1>5 DEF Return

LEMMA Kinds == FileIndexTypeOK /\ LockInv /\ Next => Kind
<1> SUFFICES ASSUME FileIndexTypeOK, LockInv, Next PROVE Kind
  OBVIOUS
<1>1. ASSUME NEW p \in Requests, NEW e \in Envs, List(p, e) PROVE Kind
  <2> DEFINE j == [IdleJob EXCEPT !.env = e]
  <2>1. p \in Processes /\ ~j.nested
    BY BeginJob DEF Processes
  <2>2. at[p] = "idle" /\ job' = [job EXCEPT ![p] = j] /\ Go(p, "get")
    BY <1>1 DEF List
  <2>3. job'[p] = j /\ at'[p] = "get" /\ OthersKept(p)
    BY <2>1, <2>2, NewJob
  <2>4. ~Updating(p) /\ ~Updating(p)'
    BY <2>1, <2>2, <2>3 DEF Updating, LockInv, NestedOk
  <2> QED
    BY <1>1, <2>1, <2>2, <2>3, <2>4 DEF Kind, Calm, Steady, List, indices
<1>2. ASSUME NEW p \in Requests, NEW e \in Envs, NEW n \in Names, Upload(p, e, n) PROVE Kind
  <2> DEFINE j == [IdleJob EXCEPT !.env = e, !.name = n]
  <2>0. ~j.delete /\ ~j.nested /\ j.env = e /\ j.name = n
    BY DEF IdleJob
  <2>1. p \in Processes
    BY DEF Processes
  <2>2. /\ at[p] = "idle" /\ job' = [job EXCEPT ![p] = j] /\ UNCHANGED <<cached, index>>
        /\ Go(p, "update") \/ Go(p, "write")
    BY <1>2 DEF Upload, indices
  <2> HIDE DEF j
  <2>3. job'[p] = j /\ at'[p] \in {"write", "update"} /\ OthersKept(p)
    BY <2>1, <2>2, NewJob
  <2>4. ~Updating(p)
    BY <2>1, <2>2 DEF Updating, LockInv, NestedOk
  <2>5. Beginning(p, e, n)
    BY <1>2, <2>0, <2>1, <2>2, <2>3, <2>4 DEF Beginning, Calm
  <2> QED
    BY <2>1, <2>5 DEF Kind
<1>3. ASSUME NEW p \in Requests, NEW e \in Envs, NEW n \in Names, Delete(p, e, n) PROVE Kind
  <2> DEFINE j == [IdleJob EXCEPT !.env = e, !.name = n, !.delete = TRUE]
  <2>1. p \in Processes /\ ~j.nested /\ j.env = e /\ j.name = n /\ j.delete
    BY BeginJob DEF Processes
  <2>2. at[p] = "idle" /\ job' = [job EXCEPT ![p] = j] /\ Go(p, "update") /\ UNCHANGED <<cached, index>>
    BY <1>3 DEF Delete, indices
  <2> HIDE DEF j
  <2>3. job'[p] = j /\ at'[p] = "update" /\ OthersKept(p)
    BY <2>1, <2>2, NewJob
  <2>4. ~Updating(p)
    BY <2>1, <2>2 DEF Updating, LockInv, NestedOk
  <2>5. Beginning(p, e, n)
    BY <1>3, <2>1, <2>2, <2>3, <2>4 DEF Beginning, Calm
  <2> QED
    BY <2>1, <2>5 DEF Kind
<1>4. ASSUME NEW t \in Timers, Refresh(t) PROVE Kind
  <2> DEFINE known == {e \in Envs : index[e] # None}
             j == [IdleJob EXCEPT !.todo = known]
  <2>1. t \in Processes /\ ~j.nested
    BY BeginJob DEF Processes
  <2>2. at[t] = "idle" /\ job' = [job EXCEPT ![t] = j] /\ Go(t, "refresh")
    BY <1>4 DEF Refresh
  <2> HIDE DEF j
  <2>3. job'[t] = j /\ at'[t] = "refresh" /\ OthersKept(t)
    BY <2>1, <2>2, NewJob
  <2>4. ~Updating(t) /\ ~Updating(t)'
    BY <2>1, <2>2, <2>3 DEF Updating, LockInv, NestedOk
  <2> QED
    BY <1>4, <2>1, <2>2, <2>3, <2>4 DEF Kind, Calm, Steady, Refresh, indices
<1>5. ASSUME NEW p \in Processes, RefreshNext(p) PROVE Kind
  <2>1. ~Updating(p) /\ ~job[p].nested /\ UNCHANGED <<index, cached, storage>> /\ at[p] = "refresh"
    BY <1>5 DEF RefreshNext, LockInv, Updating, NestedOk, indices
  <2>2. CASE Done(p)
    BY <2>1, <2>2, DoneLocal DEF Kind, Calm, Steady
  <2>3. ASSUME NEW e \in job[p].todo, job' = [job EXCEPT ![p].env = e, ![p].todo = @ \ {e}],
               Go(p, "get")
        PROVE  Kind
    <3> DEFINE j == [job[p] EXCEPT !.env = e, !.todo = @ \ {e}]
    <3>1. job' = [job EXCEPT ![p] = j] /\ ~j.nested
      BY <2>1, <2>3 DEF FileIndexTypeOK, Job
    <3> HIDE DEF j
    <3>2. job'[p] = j /\ at'[p] = "get" /\ OthersKept(p)
      BY <2>3, <3>1, NewJob
    <3>3. ~Updating(p)'
      BY <3>1, <3>2 DEF Updating
    <3> QED
      BY <2>1, <3>2, <3>3 DEF Kind, Calm, Steady
  <2> QED
    BY <1>5, <2>2, <2>3 DEF RefreshNext
<1>6. ASSUME NEW p \in Processes, Get(p) PROVE Kind
  <2>1. CASE Hit(p)
    BY <1>6, <2>1, ReturnKind DEF Get
  <2>2. CASE ~Hit(p)
    <3>1. Go(p, "wait") /\ UNCHANGED <<job, cached, index, storage>> /\ at[p] = "get"
      BY <1>6, <2>2 DEF Get
    <3>2. at'[p] = "wait" /\ OthersKept(p)
      BY <3>1 DEF Go, OthersKept, FileIndexTypeOK
    <3> QED
      BY <3>1, <3>2 DEF Kind, Calm, Steady, Updating
  <2> QED
    BY <2>1, <2>2
<1>7. ASSUME NEW p \in Processes, Wait(p) PROVE Kind
  <2>1. /\ at[p] = "wait" /\ at'[p] = "check" /\ OthersKept(p)
        /\ UNCHANGED <<index, cached, storage, job>>
    BY <1>7 DEF Wait, Go, OthersKept, FileIndexTypeOK, indices
  <2> QED
    BY <2>1 DEF Kind, Calm, Steady, Updating
<1>8. ASSUME NEW p \in Processes, Check(p) PROVE Kind
  <2>1. CASE Hit(p)
    BY <1>8, <2>1, ReturnKind DEF Check
  <2>2. CASE ~Hit(p)
    <3> DEFINE j == [job[p] EXCEPT !.found = disk[job[p].env]]
    <3>1. /\ job' = [job EXCEPT ![p] = j] /\ Go(p, "put") /\ UNCHANGED <<cached, index, storage>>
          /\ at[p] = "check"
      BY <1>8, <2>2 DEF Check
    <3>2. ~job[p].nested
      BY <3>1 DEF LockInv, NestedOk
    <3>3. ~j.nested /\ j.env = job[p].env /\ j.found = disk[job[p].env]
      BY <3>2 DEF FileIndexTypeOK, Job
    <3> HIDE DEF j
    <3>4. job'[p] = j /\ at'[p] = "put" /\ OthersKept(p)
      BY <3>1, NewJob
    <3>5. Listing(p)
      BY <3>1, <3>2, <3>3, <3>4 DEF Listing, Updating
    <3> QED
      BY <3>5 DEF Kind
  <2> QED
    BY <2>1, <2>2
<1>9. ASSUME NEW p \in Processes, Update(p) PROVE Kind
  <2>1. job[p].env \in Envs /\ at[p] = "update" /\ UNCHANGED <<index, storage>>
    BY <1>9, JobParts DEF Update, FileIndexTypeOK
  <2>2. CASE index[job[p].env] # None
    <3> DEFINE x == index[job[p].env]
    <3>1. x \in SUBSET Names /\ Change(p, x)
      BY <1>9, <2>1, <2>2 DEF FileIndexTypeOK, Indices, Update
    <3>2. Changing(p, x)
      BY <2>1, <2>2, <3>1, ChangeLocal DEF Changing, Steady, Updating, Change
    <3> QED
      BY <3>1, <3>2 DEF Kind
  <2>3. CASE index[job[p].env] = None
    <3> DEFINE j == [job[p] EXCEPT !.nested = TRUE]
    <3>1. job' = [job EXCEPT ![p] = j] /\ Go(p, "get") /\ UNCHANGED cached
      BY <1>9, <2>3 DEF Update
    <3>2. j.nested /\ j.name = job[p].name /\ j.env = job[p].env /\ j.delete = job[p].delete
      BY DEF FileIndexTypeOK, Job
    <3> HIDE DEF j
    <3>3. job'[p] = j /\ at'[p] = "get" /\ OthersKept(p)
      BY <3>1, NewJob
    <3> QED
      BY <2>1, <3>1, <3>2, <3>3 DEF Kind, Calm, Steady, Updating
  <2> QED
    BY <2>2, <2>3
<1>10. ASSUME NEW p \in Processes, Write(p) PROVE Kind
  <2>1. /\ at[p] = "write" /\ UNCHANGED <<index, cached, storage>> /\ Updating(p)
        /\ ~job[p].nested
    BY <1>10 DEF Write, indices, Updating, LockInv, NestedOk
  <2>2. CASE Done(p)
    <3>1. Aborting(p)
      BY <2>1, <2>2, DoneLocal DEF Aborting, Calm
    <3> QED
      BY <3>1 DEF Kind
  <2>3. CASE Go(p, "update") /\ UNCHANGED job
    <3>1. at'[p] = "update" /\ OthersKept(p)
      BY <2>3 DEF Go, OthersKept, FileIndexTypeOK
    <3> QED
      BY <2>1, <2>3, <3>1 DEF Kind, Calm, Steady, Updating
  <2> QED
    BY <1>10, <2>2, <2>3 DEF Write
<1>11. ASSUME NEW p \in Processes, CheckFails(p) PROVE Kind
  <2>1. /\ at[p] = "check" /\ UNCHANGED <<index, cached, storage>> /\ ~Updating(p) /\ Done(p)
    BY <1>11 DEF CheckFails, indices, Updating, LockInv, NestedOk
  <2> QED
    BY <2>1, DoneLocal DEF Kind, Calm, Steady
<1> QED
  BY <1>1, <1>2, <1>3, <1>4, <1>5, <1>6, <1>7, <1>8, <1>9, <1>10, <1>11, BehindCases
  DEF Next, Request, OwnStep, WaitStep, Kind

--------------------------------------------------------------------------------
(* What the observers say of a step. *)
CrossInv ==
  \A p, q \in Processes, e \in Envs, n \in Names :
    p # q /\ OnFile(p, e, n) /\ OnFile(q, e, n) => <<e, n>> \in crossed

LEMMA CrossStep ==
  ASSUME Observe
  PROVE  /\ CrossInv'
         /\ \A e \in Envs, n \in Names : <<e, n>> \in crossed => <<e, n>> \in crossed'
<1>1. \A e \in Envs, n \in Names : <<e, n>> \in crossed => <<e, n>> \in crossed'
  BY DEF Observe
<1>2. ASSUME NEW p \in Processes, NEW q \in Processes, NEW e \in Envs, NEW n \in Names,
             p # q, OnFile(p, e, n)', OnFile(q, e, n)'
      PROVE  <<e, n>> \in crossed'
  <2> DEFINE f == <<e, n>>
  <2>1. f \in Envs \X Names /\ f[1] = e /\ f[2] = n
    OBVIOUS
  <2>2. OnFile(p, f[1], f[2])' /\ OnFile(q, f[1], f[2])'
    BY <1>2, <2>1
  <2> HIDE DEF f
  <2>3. f \in crossed'
    BY <1>2, <2>1, <2>2 DEF Observe
  <2> QED
    BY <2>3 DEF f
<1> QED
  BY <1>1, <1>2 DEF CrossInv

\* A file is held if a listing may show it, and owed if a listing must.
Held(e, n) == n \in Stored(e) \cup lost[e]

Owed(e, n) == n \in Stored(e) \ unlisted[e]

StaleKept(e) == e \in stale' <=> e \in stale

\* What the observers make of a file of which nobody is told anything: what comes
\* or goes behind the index changes neither, nor what is found to be missing.
LEMMA NoneTold ==
  ASSUME Observe, NEW e \in Envs, NEW n \in Names, ~Told(e, n, TRUE), ~Told(e, n, FALSE),
         (n \in Stored(e)' <=> n \in Stored(e)) \/ at' = at
  PROVE  /\ Held(e, n) => Held(e, n)'
         /\ Owed(e, n)' => Owed(e, n)
         /\ Missed(e, n) => ~Owed(e, n)'
<1>1. n \in unlisted'[e] <=> n \in unlisted[e] \/ Missed(e, n)
  BY DEF Observe
<1>2. n \in lost'[e] <=> (n \in lost[e] \/ Goes(e, n)) /\ n \notin Stored(e)'
  BY DEF Observe
<1> QED
  BY <1>1, <1>2 DEF Held, Owed, Missed, Comes, Goes

\* No process puts or stores an index.
LEMMA NonePut ==
  ASSUME Observe, ~Restarted, NEW e \in Envs, NEW n \in Names,
         \A q \in Processes : at'[q] = at[q] \/ at[q] \notin {"put", "store"},
         (n \in Stored(e)' <=> n \in Stored(e)) \/ at' = at
  PROVE  /\ Held(e, n) => Held(e, n)'
         /\ Owed(e, n)' => Owed(e, n)
         /\ Missed(e, n) => ~Owed(e, n)'
         /\ StaleKept(e)
<1>1. \A q \in Processes : ~Moves(q, "store", "idle") /\ ~(at[q] = "put" /\ at'[q] # "put")
  BY DEF Moves
<1>2. ~Told(e, n, TRUE) /\ ~Told(e, n, FALSE)
  BY <1>1 DEF Told, Puts, Stores
<1>3. stale' = stale \ {job[p].env : p \in {q \in Processes : at[q] = "put" /\ at'[q] # "put"}}
  BY DEF Observe
<1>4. StaleKept(e)
  BY <1>1, <1>3 DEF StaleKept
<1> QED
  BY <1>2, <1>4, NoneTold

LEMMA ToldEffect ==
  ASSUME Observe, NEW e \in Envs, NEW n \in Names, n \in Stored(e)' <=> n \in Stored(e)
  PROVE  /\ Held(e, n) /\ ~Told(e, n, FALSE) => Held(e, n)'
         /\ Owed(e, n)' /\ ~Told(e, n, TRUE) => Owed(e, n)
<1>1. n \in unlisted[e] /\ ~Told(e, n, TRUE) => n \in unlisted'[e]
  BY DEF Observe
<1>2. n \in lost[e] /\ n \notin Stored(e)' /\ ~Told(e, n, FALSE) => n \in lost'[e]
  BY DEF Observe
<1> QED
  BY <1>1, <1>2 DEF Held, Owed

LEMMA PutObserved ==
  ASSUME Observe, ~Restarted, NEW p \in Processes, OthersKept(p), at[p] = "put", at'[p] # "put",
         NEW e \in Envs, NEW n \in Names, n \in Stored(e)' <=> n \in Stored(e)
  PROVE  LET telling == e = job[p].env /\ Settled(e, n)
         IN  /\ Held(e, n) /\ (telling => n \in job[p].found) => Held(e, n)'
             /\ Owed(e, n)' => Owed(e, n) \/ (telling /\ n \in job[p].found)
             /\ e # job[p].env => StaleKept(e)
<1>1. \A q \in Processes : ~Moves(q, "store", "idle")
                           /\ (at[q] = "put" /\ at'[q] # "put" => q = p)
  BY DEF Moves, OthersKept
<1>2. \A there \in BOOLEAN : Told(e, n, there) <=>
        e = job[p].env /\ Settled(e, n) /\ (n \in job[p].found <=> there)
  BY <1>1 DEF Told, Puts, Stores
<1>3. stale' = stale \ {job[q].env : q \in {r \in Processes : at[r] = "put" /\ at'[r] # "put"}}
  BY DEF Observe
<1>4. e # job[p].env => StaleKept(e)
  BY <1>1, <1>3 DEF StaleKept
<1>5. Told(e, n, TRUE) <=> e = job[p].env /\ Settled(e, n) /\ n \in job[p].found
  BY <1>2
<1>6. Told(e, n, FALSE) <=> e = job[p].env /\ Settled(e, n) /\ n \notin job[p].found
  BY <1>2
<1> QED
  BY <1>4, <1>5, <1>6, ToldEffect

LEMMA StoreObserved ==
  ASSUME FileIndexTypeOK, Observe, ~Restarted, NEW p \in Processes, OthersKept(p),
         Moves(p, "store", "idle"),
         NEW e \in Envs, NEW n \in Names, n \in Stored(e)' <=> n \in Stored(e)
  PROVE  LET telling == e = job[p].env /\ n = job[p].name
         IN  /\ Held(e, n) /\ ~(telling /\ job[p].delete) => Held(e, n)'
             /\ Owed(e, n)' => Owed(e, n) \/ (telling /\ ~job[p].delete)
             /\ StaleKept(e)
<1>1. \A q \in Processes : (Moves(q, "store", "idle") => q = p)
                           /\ ~(at[q] = "put" /\ at'[q] # "put")
  BY DEF Moves, OthersKept
<1>2. \A there \in BOOLEAN : Told(e, n, there) <=>
        e = job[p].env /\ n = job[p].name /\ (job[p].delete = ~there)
  BY <1>1 DEF Told, Puts, Stores
<1>3. stale' = stale \ {job[q].env : q \in {r \in Processes : at[r] = "put" /\ at'[r] # "put"}}
  BY DEF Observe
<1>4. StaleKept(e)
  BY <1>1, <1>3 DEF StaleKept
<1>5. job[p].delete \in BOOLEAN
  BY JobParts DEF FileIndexTypeOK
<1>6. Told(e, n, TRUE) <=> e = job[p].env /\ n = job[p].name /\ ~job[p].delete
  BY <1>2, <1>5
<1>7. Told(e, n, FALSE) <=> e = job[p].env /\ n = job[p].name /\ job[p].delete
  BY <1>2, <1>5
<1> QED
  BY <1>4, <1>6, <1>7, ToldEffect

--------------------------------------------------------------------------------
(* An upload that nothing has crossed finds its file, or it was lost meanwhile; *)
(* a deletion finds nothing, or what came back meanwhile. *)
Found(p, e, n) ==
  /\ IF job[p].delete THEN ~Owed(e, n) ELSE Held(e, n)
  /\ at[p] = "write" => ~job[p].delete /\ n \in disk[e]

FlightInv ==
  \A p \in Processes, e \in Envs, n \in Names :
    OnFile(p, e, n) /\ <<e, n>> \notin crossed => Found(p, e, n)

FoundInv ==
  \A p \in Processes :
    at[p] = "store" => (job[p].name \in job[p].found <=> ~job[p].delete)

DisabledInv == provider = "disabled" => \A e \in Envs : cached[e] = None

LEMMA Ended ==
  ASSUME FileIndexTypeOK, LockInv, NEW p \in Processes, Put(p) \/ Store(p)
  PROVE  /\ OthersKept(p) /\ ~Updating(p)' /\ at'[p] \in {"idle", "refresh"}
         /\ UNCHANGED storage /\ SetIndex(p) /\ (Store(p) => Moves(p, "store", "idle"))
         /\ (Put(p) => at[p] = "put" /\ ~Updating(p))
<1>1. CASE Done(p) /\ Put(p)
  BY <1>1, DoneLocal DEF Put, Store, Moves, LockInv, NestedOk, Updating
<1>2. CASE Done(p) /\ Store(p)
  BY <1>2, DoneLocal DEF Put, Store, Moves
<1>3. CASE Put(p) /\ job' = [job EXCEPT ![p].found = {}] /\ Go(p, "refresh")
  <2>1. ~job[p].nested
    BY <1>3 DEF Put, LockInv, NestedOk
  <2> QED
    BY <1>3, <2>1, RefreshLocal DEF Put, Store, Updating
<1> QED
  BY <1>1, <1>2, <1>3 DEF Put, Store

\* What an upload or a deletion does to the names that are stored.
LEMMA BeginStored ==
  ASSUME FileIndexTypeOK, NEW p \in Processes, NEW f \in Envs, NEW m \in Names, Beginning(p, f, m),
         NEW e \in Envs, NEW n \in Names
  PROVE  /\ e = f /\ n = m => /\ n \in Stored(e)' <=> ~job'[p].delete
                              /\ at'[p] = "write" => ~job'[p].delete /\ n \in disk'[e]
         /\ ~(e = f /\ n = m) => /\ n \in Stored(e)' <=> n \in Stored(e)
                                 /\ n \in disk'[e] <=> n \in disk[e]
<1>1. CASE Upload(p, f, m) /\ ~job'[p].delete
  <2>1. at'[p] = "write" => n \in disk'[e] \/ ~(e = f /\ n = m)
    BY <1>1 DEF Upload, Go, FileIndexTypeOK
  <2> QED
    BY <1>1, <2>1 DEF Upload, Stored, FileIndexTypeOK
<1>2. CASE Delete(p, f, m) /\ job'[p].delete
  BY <1>2 DEF Delete, Stored, FileIndexTypeOK, Beginning
<1> QED
  BY <1>1, <1>2 DEF Beginning

LEMMA BegunOnFile ==
  ASSUME NEW p \in Processes, NEW e \in Envs, NEW n \in Names, Beginning(p, e, n)
  PROVE  OnFile(p, e, n)'
  BY DEF Beginning, OnFile

LEMMA FlightStep ==
  FileIndexTypeOK /\ LockInv /\ CrossInv /\ FlightInv /\ [Next /\ Observe]_cvars => FlightInv'
<1> SUFFICES ASSUME FileIndexTypeOK, LockInv, CrossInv, FlightInv, [Next /\ Observe]_cvars,
                    NEW p \in Processes, NEW e \in Envs, NEW n \in Names,
                    OnFile(p, e, n)', <<e, n>> \notin crossed'
             PROVE  Found(p, e, n)'
  BY DEF FlightInv
<1>1. CASE Next /\ Observe
  <2>0. ~Restarted
    <3>1. LockInv'
      BY <1>1, LockStep
    <3> QED
      BY <3>1 DEF Restarted, OnFile, LockInv, NestedOk
  <2>1. <<e, n>> \notin crossed /\ CrossInv'
    BY <1>1, CrossStep
  <2>2. ASSUME OnFile(p, e, n), job'[p].delete = job[p].delete,
               Held(e, n) => Held(e, n)', Owed(e, n)' => Owed(e, n),
               at'[p] = "write" => at[p] = "write" /\ (n \in disk[e] => n \in disk'[e])
        PROVE  Found(p, e, n)'
    BY <2>1, <2>2 DEF FlightInv, Found
  <2>3. UNCHANGED storage => (n \in Stored(e)' <=> n \in Stored(e)) /\ disk' = disk
    BY DEF storage, Stored
  <2>4. ASSUME NEW q \in Processes, OthersKept(q), q # p
        PROVE  OnFile(p, e, n) /\ job'[p].delete = job[p].delete /\ at'[p] = at[p]
    BY <2>4 DEF OthersKept, OnFile
  <2>5. ASSUME Steady(p)
        PROVE  OnFile(p, e, n) /\ job'[p].delete = job[p].delete
    BY <2>5 DEF Steady, OnFile, Updating
  <2>6. ASSUME NEW q \in Processes, OthersKept(q), at[q] \notin {"put", "store"},
               (n \in Stored(e)' <=> n \in Stored(e))
        PROVE  (Held(e, n) => Held(e, n)') /\ (Owed(e, n)' => Owed(e, n))
    <3>1. \A r \in Processes : at'[r] = at[r] \/ at[r] \notin {"put", "store"}
      BY <2>6 DEF OthersKept
    <3> QED
      BY <1>1, <2>0, <2>6, <3>1, NonePut
  <2>7. ASSUME NEW q \in Processes, OthersKept(q), at[q] \notin {"put", "store"}, UNCHANGED storage,
               p = q => Steady(p) /\ at'[p] # "write"
        PROVE  Found(p, e, n)'
    BY <2>2, <2>3, <2>4, <2>5, <2>6, <2>7
  <2>8. ASSUME NEW q \in Processes, NEW f \in Envs, NEW m \in Names, Beginning(q, f, m)
        PROVE  Found(p, e, n)'
    <3>1. CASE p = q
      <4>1. e = f /\ n = m
        BY <2>8, <3>1 DEF Beginning, OnFile
      <4>2. n \in Stored(e)' <=> ~job'[p].delete
        BY <2>8, <3>1, <4>1, BeginStored
      <4>3. at'[p] = "write" => ~job'[p].delete /\ n \in disk'[e]
        BY <2>8, <3>1, <4>1, BeginStored
      <4> QED
        BY <4>2, <4>3 DEF Found, Held, Owed
    <3>2. CASE p # q
      <4>1. ~(e = f /\ n = m)
        BY <2>1, <2>8, <3>2, BegunOnFile DEF CrossInv
      <4>2. (n \in Stored(e)' <=> n \in Stored(e)) /\ (n \in disk'[e] <=> n \in disk[e])
        BY <2>8, <4>1, BeginStored
      <4> QED
        BY <2>2, <2>4, <2>6, <2>8, <3>2, <4>2 DEF Beginning, Calm
    <3> QED
      BY <3>1, <3>2
  <2>9. ASSUME NEW q \in Processes, Put(q)
        PROVE  Found(p, e, n)'
    <3>1. /\ OthersKept(q) /\ ~Updating(q)' /\ UNCHANGED storage /\ at[q] = "put" /\ at'[q] # "put"
      BY <2>9, Ended
    <3>2. p # q
      BY <3>1 DEF Updating, OnFile
    <3>3. OnFile(p, e, n) /\ job'[p].delete = job[p].delete /\ at'[p] = at[p]
      BY <2>4, <3>1, <3>2
    <3>4. (Held(e, n) => Held(e, n)') /\ (Owed(e, n)' => Owed(e, n))
      BY <1>1, <2>0, <2>3, <3>1, <3>3, PutObserved DEF Settled
    <3> QED
      BY <2>2, <2>3, <3>1, <3>3, <3>4
  <2>10. ASSUME NEW q \in Processes, Store(q)
         PROVE  Found(p, e, n)'
    <3>1. /\ OthersKept(q) /\ ~Updating(q)' /\ UNCHANGED storage /\ Moves(q, "store", "idle")
      BY <2>10, Ended
    <3>2. p # q
      BY <3>1 DEF Updating, OnFile
    <3>3. OnFile(p, e, n) /\ job'[p].delete = job[p].delete /\ at'[p] = at[p]
      BY <2>4, <3>1, <3>2
    <3>4. ~(e = job[q].env /\ n = job[q].name)
      BY <2>1, <3>1, <3>2, <3>3 DEF CrossInv, OnFile, Moves
    <3>5. (Held(e, n) => Held(e, n)') /\ (Owed(e, n)' => Owed(e, n))
      BY <1>1, <2>0, <2>3, <3>1, <3>4, StoreObserved
    <3> QED
      BY <2>2, <2>3, <3>1, <3>3, <3>5
  <2>11. ASSUME NEW f \in Envs, Expire(f) \/ \E m \in Names : Behind(f, m)
         PROVE  Found(p, e, n)'
    <3>1. UNCHANGED <<at, job>> /\ (n \in disk[e] => n \in disk'[e])
      BY <2>11, BehindIndex DEF Expire, storage
    <3>2. (Held(e, n) => Held(e, n)') /\ (Owed(e, n)' => Owed(e, n))
      BY <1>1, <2>0, <3>1, NonePut
    <3>3. OnFile(p, e, n)
      BY <3>1 DEF OnFile
    <3> QED
      BY <2>2, <3>1, <3>2, <3>3
  <2>12. ~Restart
    BY IdleJobLock DEF Restart, OnFile
  <2>13. ASSUME NEW q \in Processes, Aborting(q) \/ Listing(q)
         PROVE  Found(p, e, n)'
    <3>1. p # q /\ OthersKept(q) /\ UNCHANGED storage /\ at[q] \notin {"put", "store"}
      BY <2>13 DEF Aborting, Listing, Calm, OnFile, Updating
    <3> QED
      BY <2>7, <3>1
  <2>14. ASSUME NEW q \in Processes, NEW x \in SUBSET Names, Changing(q, x)
         PROVE  Found(p, e, n)'
    BY <2>7, <2>14 DEF Changing
  <2>15. ASSUME NEW q \in Processes, Calm(q), Steady(q), UNCHANGED storage, at'[q] # "write"
         PROVE  Found(p, e, n)'
    BY <2>7, <2>15 DEF Calm
  <2> QED
    BY <1>1, <2>8, <2>9, <2>10, <2>11, <2>12, <2>13, <2>14, <2>15, Kinds DEF Kind
<1>2. CASE UNCHANGED cvars
  BY <1>2 DEF cvars, vars, FlightInv, Found, OnFile, Held, Owed, Stored
<1> QED
  BY <1>1, <1>2

LEMMA FoundStep ==
  FileIndexTypeOK /\ LockInv /\ FoundInv /\ [Next]_vars => FoundInv'
<1> SUFFICES ASSUME FileIndexTypeOK, LockInv, FoundInv, [Next]_vars,
                    NEW p \in Processes, at'[p] = "store"
             PROVE  job'[p].name \in job'[p].found <=> ~job'[p].delete
  BY DEF FoundInv
<1>1. ASSUME NEW q \in Processes, OthersKept(q), at'[q] # "store"
      PROVE  job'[p].name \in job'[p].found <=> ~job'[p].delete
  BY <1>1 DEF OthersKept, FoundInv
<1>2. ASSUME NEW q \in Processes, NEW x \in SUBSET Names, Changing(q, x)
      PROVE  job'[p].name \in job'[p].found <=> ~job'[p].delete
  <2>1. CASE q = p
    BY <1>2, <2>1 DEF Changing, Changed, Steady
  <2>2. CASE q # p
    BY <1>2, <2>2 DEF Changing, OthersKept, FoundInv
  <2> QED
    BY <2>1, <2>2
<1>3. CASE \E f \in Envs : Expire(f) \/ \E m \in Names : Behind(f, m)
  BY <1>3, BehindIndex DEF Expire, FoundInv
<1>4. CASE UNCHANGED vars
  BY <1>4 DEF vars, FoundInv
<1>5. ~Restart
  BY DEF Restart
<1>6. ASSUME NEW q \in Processes, Put(q) \/ Store(q) PROVE OthersKept(q) /\ at'[q] # "store"
  BY <1>6, Ended
<1> QED
  BY <1>1, <1>2, <1>3, <1>4, <1>5, <1>6, Kinds DEF Kind, Calm, Beginning, Listing, Aborting

LEMMA DisabledStep ==
  FileIndexTypeOK /\ LockInv /\ DisabledInv /\ [Next]_vars => DisabledInv'
<1> SUFFICES ASSUME FileIndexTypeOK, LockInv, DisabledInv, [Next]_vars, provider' = "disabled",
                    NEW e \in Envs
             PROVE  cached'[e] = None
  BY DEF DisabledInv
<1>1. provider' = provider
  BY DEF Next, Request, OwnStep, WaitStep, Upload, Write, Delete, DeleteFails, Background,
         FlushBegin, FlushOpen, FlushEnd, Evict, LoadBegin, LoadKeep, LoadEnd, List, Refresh,
         RefreshNext, Get, Wait, Check, CheckFails, Put, Store, Update, Expire, Restart, vars, config
<1>2. provider = "disabled" /\ cached[e] = None
  BY <1>1 DEF DisabledInv
<1>3. ASSUME NEW p \in Processes, NEW x, Return(p, x) \/ Change(p, x)
      PROVE  cached' = cached
  BY <1>2, <1>3 DEF Return, Change
<1>4. ASSUME NEW p \in Processes, OwnStep(p) \/ WaitStep(p)
      PROVE  cached' = cached
  BY <1>2, <1>3, <1>4 DEF OwnStep, WaitStep, Write, RefreshNext, Get, Wait, Check,
         CheckFails, Put, Store, Update, SetIndex, indices
<1>5. ASSUME NEW f \in Envs, Expire(f) PROVE cached'[e] = None
  BY <1>2, <1>5 DEF Expire, FileIndexTypeOK
<1>6. CASE Restart
  BY <1>2, <1>6 DEF Restart
<1>7. ASSUME NEW f \in Envs, NEW m \in Names, Behind(f, m) PROVE cached' = cached
  BY <1>7, BehindIndex
<1> QED
  BY <1>2, <1>4, <1>5, <1>6, <1>7, BehindCases
  DEF Next, Request, Upload, Delete, List, Refresh, vars, indices

--------------------------------------------------------------------------------
(* What the cache, the index and an index about to be put tell of a file with *)
(* which nothing is under way: it is there, or lost, if they have it, and they *)
(* have it if it is there, unless it came behind the index. *)
Sure(e, n) == Settled(e, n) /\ <<e, n>> \notin crossed

Tells(x, e, n) == x # None => (n \in x => Held(e, n)) /\ (Owed(e, n) => n \in x)

ContentOk(e, n) ==
  /\ e \notin stale => Tells(cached[e], e, n) /\ Tells(index[e], e, n)
  /\ \A p \in Processes :
       job[p].env = e /\ (at[p] = "put" \/ (at[p] = "store" /\ e \notin stale))
         => Tells(job[p].found, e, n)

ContentInv == \A e \in Envs, n \in Names : Sure(e, n) => ContentOk(e, n)

\* ... after the step.
WillTell(x, e, n) == x # None => (n \in x => Held(e, n)') /\ (Owed(e, n)' => n \in x)

LEMMA ContentNext ==
  ASSUME NEW e \in Envs, NEW n \in Names,
         e \notin stale' => WillTell(cached'[e], e, n) /\ WillTell(index'[e], e, n),
         \A p \in Processes :
           job'[p].env = e /\ (at'[p] = "put" \/ (at'[p] = "store" /\ e \notin stale'))
             => WillTell(job'[p].found, e, n)
  PROVE  ContentOk(e, n)'
  BY DEF ContentOk, Tells, WillTell

LEMMA TellsKept ==
  ASSUME NEW x, NEW e, NEW n, Tells(x, e, n), n \in x /\ Held(e, n) => Held(e, n)',
         Owed(e, n)' => Owed(e, n) \/ n \in x
  PROVE  WillTell(x, e, n)
  BY DEF Tells, WillTell

\* A step that puts nothing new anywhere.
LEMMA ContentKept ==
  ASSUME NEW e \in Envs, NEW n \in Names, ContentOk(e, n),
         Held(e, n) => Held(e, n)', Owed(e, n)' => Owed(e, n), e \in stale => e \in stale',
         cached'[e] \in {cached[e], None}, index'[e] \in {index[e], None},
         \A p \in Processes : at'[p] \in {"put", "store"} /\ job'[p].env = e =>
           at'[p] = at[p] /\ job'[p] = job[p]
  PROVE  ContentOk(e, n)'
<1>0. WillTell(None, e, n)
  BY DEF WillTell
<1>1. e \notin stale' => WillTell(cached'[e], e, n) /\ WillTell(index'[e], e, n)
  BY <1>0, TellsKept DEF ContentOk
<1>2. ASSUME NEW p \in Processes, job'[p].env = e,
             at'[p] = "put" \/ (at'[p] = "store" /\ e \notin stale')
      PROVE  WillTell(job'[p].found, e, n)
  <2>1. at'[p] = at[p] /\ job'[p] = job[p]
    BY <1>2
  <2>2. Tells(job[p].found, e, n)
    BY <1>2, <2>1 DEF ContentOk
  <2> QED
    BY <2>1, <2>2, TellsKept
<1> QED
  BY <1>1, <1>2, ContentNext

\* All is over: a restart, or as good as one.
LEMMA ContentRestarted ==
  ASSUME Observe, Restarted, NEW e \in Envs, NEW n \in Names
  PROVE  ContentOk(e, n)'
<1>1. e \notin stale' => cached'[e] = None
  BY DEF Observe
<1>2. index'[e] = None /\ \A p \in Processes : at'[p] = "idle"
  BY DEF Restarted
<1> QED
  BY <1>1, <1>2, ContentNext DEF WillTell

\* What is put or stored is told by the cache and the index from then on.
LEMMA ContentPut ==
  ASSUME FileIndexTypeOK, LockInv, DisabledInv,
         NEW p \in Processes, Put(p) \/ Store(p), NEW e \in Envs, NEW n \in Names,
         e = job[p].env, WillTell(job[p].found, e, n)
  PROVE  ContentOk(e, n)'
<1>1. /\ index'[e] = job[p].found /\ cached'[e] \in {job[p].found, None}
  <2>1. SetIndex(p)
    BY Ended
  <2>2. index'[e] = job[p].found
    BY <2>1 DEF SetIndex, FileIndexTypeOK
  <2>3. cached'[e] \in {job[p].found, None}
    BY <2>1 DEF SetIndex, FileIndexTypeOK, DisabledInv
  <2> QED
    BY <2>2, <2>3
<1>2. OthersKept(p) /\ at'[p] \in {"idle", "refresh"} /\ holder = p
  BY Ended DEF LockInv, HasLock, Put, Store
<1>3. \A q \in Processes : at'[q] \notin {"put", "store"}
  BY <1>2 DEF OthersKept, LockInv, HasLock
<1>4. WillTell(cached'[e], e, n) /\ WillTell(index'[e], e, n)
  BY <1>1 DEF WillTell
<1> QED
  BY <1>3, <1>4, ContentNext

\* A file is sure after a step if it was before, or the step ended its update.
LEMMA SureBefore ==
  ASSUME Observe, NEW e \in Envs, NEW n \in Names, Sure(e, n)', NEW q \in Processes,
         OthersKept(q), OnFile(q, e, n) => OnFile(q, e, n)'
  PROVE  Sure(e, n)
<1>1. <<e, n>> \notin crossed
  BY CrossStep DEF Sure
<1>2. \A p \in Processes : OnFile(p, e, n) => OnFile(p, e, n)'
  BY DEF OthersKept, OnFile
<1> QED
  BY <1>1, <1>2 DEF Sure, Settled

LEMMA ContentCalm ==
  ASSUME ContentInv, Observe, ~Restarted, NEW q \in Processes, Calm(q),
         NEW e \in Envs, NEW n \in Names, Sure(e, n)', OnFile(q, e, n) => OnFile(q, e, n)',
         n \in Stored(e)' <=> n \in Stored(e)
  PROVE  ContentOk(e, n)'
<1>1. ContentOk(e, n)
  BY SureBefore DEF ContentInv, Calm
<1>2. \A p \in Processes : at'[p] = at[p] \/ at[p] \notin {"put", "store"}
  BY DEF Calm, OthersKept
<1>3. (Held(e, n) => Held(e, n)') /\ (Owed(e, n)' => Owed(e, n)) /\ (e \in stale' <=> e \in stale)
  BY <1>2, NonePut DEF StaleKept
<1>4. \A p \in Processes : at'[p] \in {"put", "store"} => at'[p] = at[p] /\ job'[p] = job[p]
  BY DEF Calm, OthersKept
<1> QED
  BY <1>1, <1>3, <1>4, ContentKept DEF Calm

LEMMA ContentChanging ==
  ASSUME FileIndexTypeOK, ContentInv, Observe, ~Restarted,
         NEW q \in Processes, NEW x \in SUBSET Names, Changing(q, x),
         NEW e \in Envs, NEW n \in Names, Sure(e, n)'
  PROVE  ContentOk(e, n)'
<1>1. OnFile(q, e, n) => OnFile(q, e, n)'
  BY DEF Changing, Steady, OnFile, Updating
<1>2. ContentOk(e, n) /\ ~OnFile(q, e, n)'
  BY <1>1, SureBefore DEF ContentInv, Changing, Sure, Settled
<1>3. \A p \in Processes : at'[p] = at[p] \/ at[p] \notin {"put", "store"}
  BY DEF Changing, OthersKept
<1>5. n \in Stored(e)' <=> n \in Stored(e)
  BY DEF Changing, storage, Stored
<1>4. (Held(e, n) => Held(e, n)') /\ (Owed(e, n)' => Owed(e, n)) /\ (e \in stale' <=> e \in stale)
  BY <1>3, <1>5, NonePut DEF StaleKept
<1> DEFINE new == Changed(job[q], x)
<1>6. job'[q].env = job[q].env /\ job'[q].found = new /\ at'[q] = "store"
  BY DEF Changing, Steady
<1>7. ASSUME e = job[q].env, e \notin stale
      PROVE  WillTell(new, e, n)
  <2>1. n # job[q].name
    BY <1>2, <1>7 DEF Changing, Steady, OnFile
  <2>2. n \in new <=> n \in x
    BY <2>1 DEF Changed
  <2>3. Tells(x, e, n) /\ x # None
    BY <1>2, <1>7 DEF Changing, ContentOk
  <2>4. WillTell(x, e, n)
    BY <1>4, <1>5, <2>3, TellsKept
  <2> QED
    BY <2>2, <2>3, <2>4 DEF WillTell
<1>8. ASSUME e \notin stale'
      PROVE  WillTell(cached'[e], e, n) /\ WillTell(index'[e], e, n)
  <2>1. Tells(cached[e], e, n) /\ Tells(index[e], e, n)
    BY <1>2, <1>4, <1>8 DEF ContentOk
  <2>2. WillTell(cached[e], e, n) /\ WillTell(index[e], e, n)
    BY <1>4, <1>5, <2>1, TellsKept
  <2>3. cached'[e] = cached[e] \/ (e = job[q].env /\ cached'[e] = new)
    BY DEF Changing, FileIndexTypeOK
  <2> QED
    BY <1>4, <1>7, <1>8, <2>2, <2>3 DEF Changing
<1>9. ASSUME NEW p \in Processes, job'[p].env = e,
             at'[p] = "put" \/ (at'[p] = "store" /\ e \notin stale')
      PROVE  WillTell(job'[p].found, e, n)
  <2>1. CASE p = q
    BY <1>4, <1>6, <1>7, <1>9, <2>1
  <2>2. CASE p # q
    <3>1. at'[p] = at[p] /\ job'[p] = job[p]
      BY <2>2 DEF Changing, OthersKept
    <3>2. Tells(job[p].found, e, n)
      BY <1>2, <1>4, <1>9, <3>1 DEF ContentOk
    <3> QED
      BY <1>4, <1>5, <3>1, <3>2, TellsKept
  <2> QED
    BY <2>1, <2>2
<1> QED
  BY <1>8, <1>9, ContentNext

LEMMA ContentListing ==
  ASSUME FileIndexTypeOK, ContentInv, Observe, ~Restarted, NEW q \in Processes, Listing(q),
         NEW e \in Envs, NEW n \in Names, Sure(e, n)'
  PROVE  ContentOk(e, n)'
<1>1. ContentOk(e, n)
  BY SureBefore DEF ContentInv, Listing, OnFile, Updating
<1>3. (n \in Stored(e)' <=> n \in Stored(e)) /\ disk' = disk /\ memory' = memory
  BY DEF Listing, storage, Stored
<1>6. \A p \in Processes : at'[p] = at[p] \/ at[p] \notin {"put", "store"}
  BY DEF Listing, OthersKept
<1>2. /\ Held(e, n) => Held(e, n)'
      /\ Owed(e, n)' => Owed(e, n)
      /\ Missed(e, n) => ~Owed(e, n)'
      /\ e \in stale' <=> e \in stale
  BY <1>3, <1>6, NonePut DEF StaleKept
<1>4. ASSUME e \notin stale' PROVE WillTell(cached'[e], e, n) /\ WillTell(index'[e], e, n)
  BY <1>1, <1>2, <1>3, <1>4, TellsKept DEF ContentOk, Listing
<1>5. ASSUME NEW p \in Processes, job'[p].env = e,
             at'[p] = "put" \/ (at'[p] = "store" /\ e \notin stale')
      PROVE  WillTell(job'[p].found, e, n)
  <2>1. CASE p = q
    <3>1. job'[p].found = disk[e] /\ e = job[q].env
      BY <1>5, <2>1 DEF Listing
    <3>2. n \in disk[e] => Held(e, n)'
      BY <1>3 DEF Stored, Held
    <3>4. n \in memory[e] \ disk[e] => Missed(e, n)
      BY <3>1 DEF Missed, Moves, Listing
    <3>3. Owed(e, n)' => n \in disk[e]
      BY <1>2, <1>3, <3>4 DEF Stored, Owed
    <3> QED
      BY <3>1, <3>2, <3>3 DEF WillTell
  <2>2. CASE p # q
    <3>1. at'[p] = at[p] /\ job'[p] = job[p]
      BY <2>2 DEF Listing, OthersKept
    <3>2. Tells(job[p].found, e, n)
      BY <1>1, <1>2, <1>5, <3>1 DEF ContentOk
    <3> QED
      BY <1>2, <1>3, <3>1, <3>2, TellsKept
  <2> QED
    BY <2>1, <2>2
<1> QED
  BY <1>4, <1>5, ContentNext

LEMMA ElsewhereKept ==
  ASSUME FileIndexTypeOK, LockInv, NEW q \in Processes, Put(q) \/ Store(q), NEW e \in Envs,
         e # job[q].env
  PROVE  /\ cached'[e] = cached[e] /\ index'[e] = index[e]
         /\ \A p \in Processes : at'[p] \in {"put", "store"} => at'[p] = at[p] /\ job'[p] = job[p]
<1>1. SetIndex(q) /\ OthersKept(q) /\ at'[q] \in {"idle", "refresh"}
  BY Ended
<1> QED
  BY <1>1 DEF SetIndex, OthersKept, FileIndexTypeOK

LEMMA ContentPutStep ==
  ASSUME FileIndexTypeOK, LockInv, DisabledInv, ContentInv, Observe, ~Restarted,
         NEW q \in Processes, Put(q), NEW e \in Envs, NEW n \in Names, Sure(e, n)'
  PROVE  ContentOk(e, n)'
<1>1. OthersKept(q) /\ ~Updating(q) /\ at[q] = "put" /\ at'[q] # "put" /\ UNCHANGED storage
  BY Ended
<1>2. ContentOk(e, n)
  BY <1>1, SureBefore DEF ContentInv, OnFile, Updating
<1>3. n \in Stored(e)' <=> n \in Stored(e)
  BY <1>1 DEF storage, Stored
<1>4. /\ Held(e, n) /\ (e = job[q].env => n \in job[q].found) => Held(e, n)'
      /\ Owed(e, n)' => Owed(e, n) \/ (e = job[q].env /\ n \in job[q].found)
      /\ e # job[q].env => (e \in stale' <=> e \in stale)
  BY <1>1, <1>3, PutObserved DEF StaleKept
<1>5. CASE e = job[q].env
  <2>1. Tells(job[q].found, e, n)
    BY <1>1, <1>2, <1>5 DEF ContentOk
  <2>2. WillTell(job[q].found, e, n)
    BY <1>4, <1>5, <2>1, TellsKept
  <2> QED
    BY <1>5, <2>2, ContentPut
<1>6. CASE e # job[q].env
  BY <1>2, <1>4, <1>6, ElsewhereKept, ContentKept
<1> QED
  BY <1>5, <1>6

LEMMA ContentStoreStep ==
  ASSUME FileIndexTypeOK, LockInv, DisabledInv, ContentInv, FlightInv, FoundInv, Observe, ~Restarted,
         NEW q \in Processes, Store(q), NEW e \in Envs, NEW n \in Names, Sure(e, n)'
  PROVE  ContentOk(e, n)'
<1>1. OthersKept(q) /\ Moves(q, "store", "idle") /\ UNCHANGED storage
  BY Ended
<1>2. n \in Stored(e)' <=> n \in Stored(e)
  BY <1>1 DEF storage, Stored
<1>3. LET telling == e = job[q].env /\ n = job[q].name
      IN  /\ Held(e, n) /\ ~(telling /\ job[q].delete) => Held(e, n)'
          /\ Owed(e, n)' => Owed(e, n) \/ (telling /\ ~job[q].delete)
          /\ e \in stale' <=> e \in stale
  BY <1>1, <1>2, StoreObserved DEF StaleKept
<1>4. CASE e = job[q].env /\ n = job[q].name
  <2>1. OnFile(q, e, n) /\ <<e, n>> \notin crossed
    BY <1>1, <1>4, CrossStep DEF OnFile, Moves, Sure
  <2>2. /\ n \in job[q].found <=> ~job[q].delete
        /\ IF job[q].delete THEN ~Owed(e, n) ELSE Held(e, n)
    BY <1>1, <1>4, <2>1 DEF FlightInv, Found, FoundInv, Moves
  <2>3. WillTell(job[q].found, e, n)
    BY <1>3, <1>4, <2>2 DEF WillTell
  <2> QED
    BY <1>4, <2>3, ContentPut
<1>5. CASE ~(e = job[q].env /\ n = job[q].name)
  <2>1. ContentOk(e, n)
    BY <1>1, <1>5, SureBefore DEF ContentInv, OnFile
  <2>2. CASE e = job[q].env /\ e \notin stale
    <3>1. Tells(job[q].found, e, n)
      BY <1>1, <2>1, <2>2 DEF ContentOk, Moves
    <3>2. WillTell(job[q].found, e, n)
      BY <1>3, <1>5, <3>1, TellsKept
    <3> QED
      BY <2>2, <3>2, ContentPut
  <2>3. CASE e = job[q].env /\ e \in stale
    <3>1. \A p \in Processes : at'[p] # "put"
      BY <1>1 DEF OthersKept, Moves, LockInv, HasLock
    <3> QED
      BY <1>3, <2>3, <3>1, ContentNext
  <2>4. CASE e # job[q].env
    BY <1>3, <1>5, <2>1, <2>4, ElsewhereKept, ContentKept
  <2> QED
    BY <2>2, <2>3, <2>4
<1> QED
  BY <1>4, <1>5

\* An upload that fails leaves its file, which is not owed from then on.
LEMMA ContentAborting ==
  ASSUME FileIndexTypeOK, ContentInv, FlightInv, Observe, ~Restarted,
         NEW q \in Processes, Aborting(q), NEW e \in Envs, NEW n \in Names, Sure(e, n)'
  PROVE  ContentOk(e, n)'
<1>1. n \in Stored(e)' <=> n \in Stored(e)
  BY DEF Aborting, storage, Stored
<1>2. CASE OnFile(q, e, n)
  <2>1. n \in disk[e]
    BY <1>2, CrossStep DEF Sure, FlightInv, Found, Aborting
  <2>2. Held(e, n)'
    BY <1>1, <2>1 DEF Held, Stored
  <2>3. Missed(e, n)
    BY <1>2 DEF Missed, Moves, Aborting, OnFile
  <2>4. \A p \in Processes : at'[p] = at[p] \/ at[p] \notin {"put", "store"}
    BY DEF Aborting, Calm, OthersKept
  <2>5. ~Owed(e, n)'
    BY <1>1, <2>3, <2>4, NonePut
  <2> QED
    BY <2>2, <2>5, ContentNext DEF WillTell
<1>3. CASE ~OnFile(q, e, n)
  BY <1>1, <1>3, ContentCalm DEF Aborting
<1> QED
  BY <1>2, <1>3

LEMMA ContentStep ==
  FileIndexTypeOK /\ LockInv /\ DisabledInv /\ ContentInv /\ FlightInv /\ FoundInv
    /\ [Next /\ Observe]_cvars => ContentInv'
<1> SUFFICES ASSUME FileIndexTypeOK, LockInv, DisabledInv, ContentInv, FlightInv, FoundInv,
                    [Next /\ Observe]_cvars, NEW e \in Envs, NEW n \in Names, Sure(e, n)'
             PROVE  ContentOk(e, n)'
  BY DEF ContentInv
<1>1. CASE Next /\ Observe /\ Restarted
  BY <1>1, ContentRestarted
<1>2. CASE Next /\ Observe /\ ~Restarted
  <2>1. ASSUME NEW q \in Processes, Calm(q), Steady(q), UNCHANGED storage PROVE ContentOk(e, n)'
    <3>1. OnFile(q, e, n) => OnFile(q, e, n)'
      BY <2>1 DEF Steady, OnFile, Updating
    <3>2. n \in Stored(e)' <=> n \in Stored(e)
      BY <2>1 DEF storage, Stored
    <3> QED
      BY <1>2, <2>1, <3>1, <3>2, ContentCalm
  <2>2. ASSUME NEW q \in Processes, NEW f \in Envs, NEW m \in Names, Beginning(q, f, m)
        PROVE  ContentOk(e, n)'
    <3>1. ~(e = f /\ n = m)
      BY <2>2, BegunOnFile DEF Sure, Settled
    <3>2. n \in Stored(e)' <=> n \in Stored(e)
      BY <2>2, <3>1, BeginStored
    <3>3. ~OnFile(q, e, n) /\ Calm(q)
      BY <2>2 DEF Beginning, OnFile, Updating
    <3> QED
      BY <1>2, <3>2, <3>3, ContentCalm
  <2>3. ASSUME NEW q \in Processes, NEW x \in SUBSET Names, Changing(q, x) PROVE ContentOk(e, n)'
    BY <1>2, <2>3, ContentChanging
  <2>4. ASSUME NEW q \in Processes, Listing(q) PROVE ContentOk(e, n)'
    BY <1>2, <2>4, ContentListing
  <2>5. ASSUME NEW q \in Processes, Put(q) PROVE ContentOk(e, n)'
    BY <1>2, <2>5, ContentPutStep
  <2>6. ASSUME NEW q \in Processes, Store(q) PROVE ContentOk(e, n)'
    BY <1>2, <2>6, ContentStoreStep
  <2>7. ASSUME NEW f \in Envs, Expire(f) \/ \E m \in Names : Behind(f, m) PROVE ContentOk(e, n)'
    <3>1. UNCHANGED <<at, job, index>> /\ cached'[e] \in {cached[e], None}
      BY <2>7, BehindIndex DEF Expire, FileIndexTypeOK
    <3>3. /\ (Held(e, n) => Held(e, n)') /\ (Owed(e, n)' => Owed(e, n))
          /\ e \in stale' <=> e \in stale
      BY <1>2, <3>1, NonePut DEF StaleKept
    <3>4. Sure(e, n)
      BY <1>2, <3>1, CrossStep DEF Sure, Settled, OnFile
    <3> QED
      BY <3>1, <3>3, <3>4, ContentKept DEF ContentInv
  <2>8. ~Restart
    BY <1>2 DEF Restart, Restarted
  <2>9. ASSUME NEW q \in Processes, Aborting(q) PROVE ContentOk(e, n)'
    BY <1>2, <2>9, ContentAborting
  <2> QED
    BY <1>2, <2>1, <2>2, <2>3, <2>4, <2>5, <2>6, <2>7, <2>8, <2>9, Kinds DEF Kind
<1>3. CASE UNCHANGED cvars
  BY <1>3 DEF cvars, vars, ContentInv, ContentOk, Sure, Settled, OnFile, Tells, Held, Owed, Stored
<1> QED
  BY <1>1, <1>2, <1>3

--------------------------------------------------------------------------------
IndexInv ==
  FileIndexTypeOK /\ LockInv /\ DisabledInv /\ CrossInv /\ FlightInv /\ FoundInv /\ ContentInv

LEMMA ChecksStart == ChecksInit => IndexInv
<1> SUFFICES ASSUME ChecksInit PROVE IndexInv
  OBVIOUS
<1>1. FileIndexTypeOK /\ LockInv
  BY Start DEF ChecksInit
<1>2. \A p \in Processes : at[p] = "idle" /\ ~job[p].nested
  BY IdleJobLock DEF ChecksInit, Init
<1>3. \A e \in Envs : cached[e] = None /\ index[e] = None
  BY DEF ChecksInit, Init
<1>4. CrossInv /\ FlightInv /\ FoundInv
  BY <1>2 DEF CrossInv, FlightInv, FoundInv, OnFile
<1>5. DisabledInv /\ ContentInv
  BY <1>2, <1>3 DEF DisabledInv, ContentInv, ContentOk, Tells
<1> QED
  BY <1>1, <1>4, <1>5 DEF IndexInv

LEMMA IndexStep == IndexInv /\ [Next /\ Observe]_cvars => IndexInv'
<1>1. [Next /\ Observe]_cvars => [Next]_vars
  BY DEF cvars
<1>2. CrossInv /\ [Next /\ Observe]_cvars => CrossInv'
  BY CrossStep DEF cvars, vars, CrossInv, OnFile
<1> QED
  BY <1>1, <1>2, TypeStep, LockStep, DisabledStep, FlightStep, FoundStep, ContentStep DEF IndexInv

LEMMA IndexOk == ChecksSpec => []IndexInv
  BY ChecksStart, IndexStep, PTL DEF ChecksSpec

\* No listing shows a file that is gone but after a failed flush, for any number of
\* requests, timers, environments and names, with each cache.
THEOREM NoGhosts == ChecksSpec => []ListedExist
<1>1. IndexInv => ListedExist
  BY DEF IndexInv, ContentInv, ContentOk, Sure, Tells, Held, ListedExist
<1> QED
  BY <1>1, IndexOk, PTL

\* An upload is listed from its end on, unless the directory is listed before its
\* file gets there; so is what else is stored, but what came behind the index.
THEOREM UploadsSeen == ChecksSpec => []UploadsListed
<1>1. IndexInv => UploadsListed
  <2> SUFFICES ASSUME IndexInv, NEW e \in Envs \ stale, NEW n \in Stored(e) \ unlisted[e],
                      Settled(e, n), <<e, n>> \notin crossed, cached[e] # None
               PROVE  n \in cached[e]
    BY DEF UploadsListed
  <2>1. n \in Names
    BY DEF IndexInv, FileIndexTypeOK, Stored
  <2> QED
    BY <2>1 DEF IndexInv, ContentInv, ContentOk, Sure, Tells, Owed
<1> QED
  BY <1>1, IndexOk, PTL

\* The observers take nothing from the index's steps.
LEMMA ChecksImplement == ChecksSpec => Spec
<1>1. [Next /\ Observe]_cvars => [Next]_vars
  BY DEF cvars
<1>2. ChecksInit => Init
  BY DEF ChecksInit
<1> QED
  BY <1>1, <1>2, PTL DEF ChecksSpec, Spec
================================================================================
