------------------------------- MODULE TrafficLog ------------------------------
(***************************************************************************)
(* Traffic logging: every API request puts an entry into a bounded channel *)
(* that drops its oldest entry when full; one background service writes    *)
(* the entries in batches to files that roll over by size and of which the *)
(* most recent are kept (StorageType "file").                              *)
(*                                                                         *)
(* An entry is the number of its request, and one unit large.  A file is   *)
(* known by the second in its name.                                        *)
(***************************************************************************)
EXTENDS Integers, Sequences, SequencesExt, FiniteSets, FiniteSetsExt

CONSTANTS
  QueueCapacity, BatchSize,   \* of the options
  MaxFileSize, MaxFileCount,  \* of the options, in units and files
  MaxRequests, MaxTime        \* bounds of the model

ASSUME TrafficAssumption ==
  /\ QueueCapacity \in Nat \ {0} /\ BatchSize \in Nat \ {0}
  /\ MaxFileSize \in Nat \ {0} /\ MaxFileCount \in Nat \ {0}
  /\ MaxRequests \in Nat /\ MaxTime \in Nat

VARIABLES
  second,      \* the clock
  requests,    \* requests so far
  queue,       \* _logChannel
  batch,       \* the entries the service has read: batch, or remainingLogs
  files,       \* the entries in the file of each second; none: there is no file
  current,     \* _currentLogFile
  size,        \* _currentFileSize
  at,          \* where the service is
  stopping,    \* stoppingToken
  failed,      \* whether the storage has failed in this process
  miscounted,  \* files written to after the storage had failed, or come back to
  uncleaned,   \* whether the last clean-up left a file that it should delete
  dropped,     \* entries the full channel has dropped
  lost,        \* entries read, and not written; those of a process that crashed
  deleted      \* entries in files that were deleted

vars == <<second, requests, queue, batch, files, current, size, at, stopping,
          failed, miscounted, uncleaned, dropped, lost, deleted>>

Entries == 1..MaxRequests
Seconds == 0..MaxTime

Existing(fs) == {s \in Seconds : fs[s] # <<>>}
Contents(fs) == UNION {Range(fs[s]) : s \in Seconds}
Saved == Contents(files)

TrafficTypeOK ==
  /\ second \in Seconds /\ requests \in 0..MaxRequests
  /\ queue \in Seq(Entries) /\ Len(queue) <= QueueCapacity
  /\ batch \in Seq(Entries)
  /\ files \in [Seconds -> Seq(Entries)] /\ current \in Seconds /\ size \in Nat
  /\ at \in {"init", "top", "read", "save", "wait", "drain", "flush", "end"}
  /\ stopping \in BOOLEAN /\ failed \in BOOLEAN
  /\ miscounted \subseteq Seconds /\ uncleaned \in BOOLEAN
  /\ dropped \subseteq Entries /\ lost \subseteq Entries /\ deleted \subseteq Entries

Init ==
  /\ second = 0 /\ requests = 0
  /\ queue = <<>> /\ batch = <<>>
  /\ files = [s \in Seconds |-> <<>>] /\ current = 0 /\ size = 0
  /\ at = "init" /\ stopping = FALSE
  /\ failed = FALSE /\ miscounted = {} /\ uncleaned = FALSE
  /\ dropped = {} /\ lost = {} /\ deleted = {}

--------------------------------------------------------------------------------
storage == <<files, current, size, miscounted, uncleaned, deleted>>
environment == <<second, requests, stopping>>

\* (a channel that is not bounded)
LogUnbounded ==
  /\ ~stopping /\ requests < MaxRequests
  /\ requests' = requests + 1
  /\ queue' = Append(queue, requests + 1)
  /\ UNCHANGED <<second, stopping, batch, storage, at, failed, lost, dropped>>

\* The middleware's finally: TryWrite drops the oldest entry if it must, and
\* succeeds always (the warning for a full queue is never written).
Log ==
  /\ ~stopping /\ requests < MaxRequests
  /\ requests' = requests + 1
  /\ LET all  == Append(queue, requests + 1)
         full == Len(all) > QueueCapacity
     IN  /\ queue' = IF full THEN Tail(all) ELSE all
         /\ dropped' = IF full THEN dropped \cup {Head(all)} ELSE dropped
  /\ UNCHANGED <<second, stopping, batch, storage, at, failed, lost>>

--------------------------------------------------------------------------------
\* (the files in the other order)
NewFiles(fs) ==
  {s \in Existing(fs) : Cardinality({t \in Existing(fs) : t < s}) >= MaxFileCount}

\* CleanupOldLogFiles deletes all files but the most recent: one by one, the newest
\* first, up to one that it cannot delete, or to none (-1); it swallows the exception.
Old(fs) ==
  {s \in Existing(fs) : Cardinality({t \in Existing(fs) : t > s}) >= MaxFileCount}

Cleaned(fs) ==
  {[s \in Seconds |-> IF s \in Old(fs) /\ s > undeleted THEN <<>> ELSE fs[s]] :
     undeleted \in Old(fs) \cup {-1}}

\* (one that looks at the file alone)
RolloverLate(entries) == size >= MaxFileSize

\* CheckRolloverNeeded: a new file if the entries do not fit into this one; it
\* does not exist yet when the old ones are counted, or it is the same again.
Rollover(entries) == size + Len(entries) > MaxFileSize

\* FileTrafficLogStorage.SaveLogsAsync appends the first n of the entries: all
\* of them, or fewer if it fails.
AppendEntries(entries, n) ==
  LET name  == IF Rollover(entries) THEN second ELSE current
      start == IF Rollover(entries) THEN 0 ELSE size
      back  == Rollover(entries) /\ name = current
  IN  \E kept \in IF Rollover(entries) THEN Cleaned(files) ELSE {files} :
        /\ files' = [kept EXCEPT ![name] = @ \o SubSeq(entries, 1, n)]
        /\ current' = name
        /\ size' = IF n = Len(entries) THEN start + n ELSE start
        /\ miscounted' = IF failed \/ back THEN miscounted \cup {name} ELSE miscounted
        /\ uncleaned' = IF Rollover(entries) THEN Old(kept) # {} ELSE uncleaned
        /\ deleted' = deleted \cup (Contents(files) \ Contents(kept))

\* The batch is written, or some of it and the storage throws.
WriteAll == AppendEntries(batch, Len(batch)) /\ UNCHANGED <<failed, lost>>

WriteFails ==
  \E n \in 0..Len(batch) - 1 :
    /\ AppendEntries(batch, n)
    /\ failed' = TRUE
    /\ lost' = lost \cup Range(SubSeq(batch, n + 1, Len(batch)))

--------------------------------------------------------------------------------
\* ExecuteAsync: InitializeAsync finds the size of its file and deletes old files; ...
Initialize ==
  /\ at = "init"
  /\ \/ /\ files' \in Cleaned(files)
        /\ uncleaned' = (Old(files') # {})
        /\ deleted' = deleted \cup (Saved \ Contents(files'))
        /\ size' = Len(files[current])
        /\ at' = "top"
        /\ UNCHANGED failed
     \/ /\ at' = "drain" /\ failed' = TRUE
        /\ uncleaned' = TRUE
        /\ UNCHANGED <<files, deleted, size>>
  /\ UNCHANGED <<environment, queue, batch, current, miscounted, dropped, lost>>

\* ... while it is not to stop ...
Top ==
  /\ at = "top"
  /\ at' = IF stopping THEN "drain" ELSE "read"
  /\ UNCHANGED <<environment, queue, batch, storage, failed, dropped, lost>>

\* ... it reads entries up to a batch, one by one; ...
Read ==
  /\ at = "read"
  /\ IF Len(batch) < BatchSize /\ queue # <<>>
       THEN /\ batch' = Append(batch, Head(queue)) /\ queue' = Tail(queue)
            /\ UNCHANGED at
       ELSE /\ at' = IF batch = <<>> THEN "wait" ELSE "save"
            /\ UNCHANGED <<batch, queue>>
  /\ UNCHANGED <<environment, storage, failed, dropped, lost>>

\* (a batch that could not be written is kept for the next time)
SaveRetried ==
  /\ at = "save"
  /\ \/ WriteAll /\ at' = "top" /\ batch' = <<>>
     \/ WriteFails /\ at' = "drain" /\ UNCHANGED batch
  /\ UNCHANGED <<environment, queue, dropped>>

\* ... it writes them; an exception ends the loop for good; ...
Save ==
  /\ at = "save"
  /\ \/ WriteAll /\ at' = "top"
     \/ WriteFails /\ at' = "drain"
  /\ batch' = <<>>
  /\ UNCHANGED <<environment, queue, dropped>>

\* (for an entry, that is for as long as there is one)
WaitForEmpty ==
  /\ at = "wait"
  /\ queue = <<>> \/ stopping
  /\ at' = IF stopping THEN "drain" ELSE "top"
  /\ UNCHANGED <<environment, queue, batch, storage, failed, dropped, lost>>

\* ... or it waits for an entry, for the flush interval, or for the end.
Wait ==
  /\ at = "wait"
  /\ at' = IF stopping THEN "drain" ELSE "top"
  /\ UNCHANGED <<environment, queue, batch, storage, failed, dropped, lost>>

\* (what is left is not looked at)
DrainNone ==
  /\ at = "drain"
  /\ at' = "flush"
  /\ UNCHANGED <<environment, batch, queue, storage, failed, dropped, lost>>

\* At last it reads what is left ...
Drain ==
  /\ at = "drain"
  /\ IF queue # <<>>
       THEN /\ batch' = Append(batch, Head(queue)) /\ queue' = Tail(queue)
            /\ UNCHANGED at
       ELSE at' = "flush" /\ UNCHANGED <<batch, queue>>
  /\ UNCHANGED <<environment, storage, failed, dropped, lost>>

\* ... and writes it.
Flush ==
  /\ at = "flush"
  /\ IF batch = <<>> THEN UNCHANGED <<storage, failed, lost>> ELSE WriteAll \/ WriteFails
  /\ batch' = <<>> /\ at' = "end"
  /\ UNCHANGED <<environment, queue, dropped>>

--------------------------------------------------------------------------------
\* The host stops: first its server, then this service.
Stop ==
  /\ ~stopping /\ stopping' = TRUE
  /\ UNCHANGED <<second, requests, queue, batch, storage, at, failed, dropped, lost>>

\* A process ends, after a stop or by a crash, and another starts.
Restart ==
  /\ lost' = lost \cup Range(queue) \cup Range(batch)
  /\ queue' = <<>> /\ batch' = <<>>
  /\ current' = second /\ size' = 0
  /\ at' = "init" /\ stopping' = FALSE /\ failed' = FALSE
  /\ UNCHANGED <<second, requests, files, miscounted, uncleaned, dropped, deleted>>

Tick ==
  /\ second < MaxTime /\ second' = second + 1
  /\ UNCHANGED <<requests, stopping, queue, batch, storage, at, failed, dropped, lost>>

Execute == Initialize \/ Top \/ Read \/ Save \/ Wait \/ Drain \/ Flush

Next == Log \/ Execute \/ Stop \/ Restart \/ Tick

\* The service's thread goes on.
Spec == Init /\ [][Next]_vars /\ WF_vars(Execute)

--------------------------------------------------------------------------------
\* The log is in the order of the requests, and no entry is in it twice, through
\* full queues, half-written batches, rollovers, restarts and clean-ups that stop
\* half-way; and for an entry that was deleted there are MaxFileCount files of later
\* ones.
InOrder ==
  /\ \A s, t \in Seconds : \A i \in 1..Len(files[s]), j \in 1..Len(files[t]) :
       s < t \/ (s = t /\ i < j) => files[s][i] < files[t][j]
  /\ \A d \in deleted :
       Cardinality({s \in Existing(files) : \A e \in Range(files[s]) : d < e}) >= MaxFileCount

\* When the service has ended, every entry is in the log, but those that a full
\* channel, a crash, a failed write or a limit on the files explains; after a
\* failed write also those of all later requests.
Accounted ==
  at = "end" =>
    1..requests \subseteq
      Saved \cup deleted \cup dropped \cup lost \cup (IF failed THEN Range(queue) ELSE {})

\* Unless the last clean-up failed there is one file more than MaxFileCount at most,
\* the newest, which does not exist when the others are counted (the options' comment
\* and the guide promise MaxFileCount); whatever failed before.  A file is no larger
\* than MaxFileSizeMB or a single write, half-written batches and restarts included,
\* unless a rollover came back to it within the second, or the service wrote there
\* what was left after the storage had failed.
FilesBounded ==
  /\ ~uncleaned => Cardinality(Existing(files)) <= MaxFileCount + 1
  /\ \A s \in Seconds \ miscounted :
       Len(files[s]) <= MaxFileSize \/ Len(files[s]) <= QueueCapacity \/ Len(files[s]) <= BatchSize

\* The service is a journal: what the middleware has put into the channel is in one
\* place at a time and goes from there in order, to the log or to a loss that is
\* final, through dropped entries, half-written batches, rollovers, failed clean-ups
\* and crashes; and what is deleted is survived by what came later.
Place ==
  LET saved  == Saved
      queued == Range(queue)
      read   == Range(batch)
      missed == dropped \cup lost
  IN  [e \in Entries |->
         {p \in {"queue", "batch", "file", "deleted", "missed"} :
            \/ p = "queue" /\ e \in queued
            \/ p = "batch" /\ e \in read
            \/ p = "file" /\ e \in saved
            \/ p = "deleted" /\ e \in deleted
            \/ p = "missed" /\ e \in missed}]

Entry == INSTANCE Journal WITH place <- Place

Journaled == Entry!Spec

\* An entry does not stay in the channel as long as the storage works.
Logged == \A e \in Entries : e \in Range(queue) ~> e \notin Range(queue) \/ failed
================================================================================
